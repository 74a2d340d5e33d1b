--------------------------- MODULE RunSubscription ---------------------------
(***************************************************************************)
(* How a browser follows a run: the polling response of                    *)
(* src/lib/server/agent-subscription.ts, the ordered byte stream that      *)
(* carries its frames, and the reader of src/lib/client/stream.ts with the *)
(* reconnect loop of the conversation page.  The run itself is its         *)
(* contract, RunContract, which AgentRuns implements; its snapshot is      *)
(* taken from the row, so it covers exactly the events committed by then.  *)
(*                                                                         *)
(* A connection can break or be cut short at any time.                     *)
(***************************************************************************)
EXTENDS Integers, Sequences, FiniteSets

CONSTANTS
  Limit,        \* events one poll returns (500 in the code)
  BatchLimit,   \* events that may become visible together
  MaxEvents,    \* bound: length of the journal
  MaxDrops      \* bound: connections that break

ASSUME SubscriptionAssumption ==
  /\ Limit \in Nat \ {0} /\ BatchLimit \in Nat \ {0}
  /\ MaxEvents \in Nat /\ MaxDrops \in Nat

(* "completed" and "errored" are response.completed and response.failed,    *)
(* which the reader acts on; "failed" and "cancelled" are run.failed and    *)
(* run.cancelled, which only change the status it shows.                    *)
Progress == {"text", "replace", "artifact"}
Ends == {"completed", "errored", "failed", "cancelled"}
FailedEnds == {"errored", "failed"}

VARIABLES
  outcome, stopping, journal,   \* the run: see RunContract
  server,    \* the open subscription response, or Closed
  wire,      \* frames sent and not yet read
  reader,    \* consumeDurableResponse on this connection
  text,      \* the answer the page shows: cursors of the pieces, in order
  cards,     \* the artifacts it shows
  cursor,    \* activeRunCursor
  page,      \* "connecting", "reading", "finished"
  drops

run == <<outcome, stopping, journal>>
shown == <<text, cards, cursor>>
vars == <<run, server, wire, reader, shown, page, drops>>

Run == INSTANCE RunContract WITH Limit <- BatchLimit

(* The server's loop: the cursor after which it lists next, and the state   *)
(* and cursor of the run as last read, before that listing.                 *)
Closed == [step |-> "closed", cursor |-> 0, ended |-> FALSE, last |-> 0]
Frames == [type : {"snapshot"}, cursor : Nat, outcome : Ends \cup {"open"}]
          \cup [type : {"event"}, cursor : Nat, kind : Progress \cup Ends \cup {"cancel_requested"}]

(* The answer after the first n events of the journal, as the cursors of    *)
(* the pieces it consists of, in order; a replacement drops what was there. *)
(* Answer(n) has one member.                                                *)
Pieces(n) == {i \in 1..n : journal[i] \in {"text", "replace"}}
Kept(n) == {i \in Pieces(n) : \A j \in Pieces(n) : journal[j] = "replace" => j <= i}
Rising(s) == \A i, j \in DOMAIN s : i < j => s[i] < s[j]
Answer(n) == {s \in [1..Cardinality(Kept(n)) -> Kept(n)] : Rising(s)}

------------------------------------------------------------------------------
(* Faulty forms of some of the definitions below; no specification uses     *)
(* them.  They are what the checked properties are there to exclude.        *)

CoversBefore(i) == i < reader.snapshot
EndsOnAny(kind) == kind \in Ends \cup {"artifact"}
NeverCaughtUp == server.ended /\ server.cursor > server.last
OneBefore(n) == n - 1

------------------------------------------------------------------------------
(* The cursor a snapshot gives: that of the last event it contains.         *)
SnapshotCursor(n) == n

(* The events the snapshot of this connection has already shown.            *)
Covers(i) == i <= reader.snapshot

(* The events after which a response that ends is a finished one.           *)
Completes(kind) == kind = "completed"

(* The server stops when the state it read was terminal and it has listed   *)
(* up to the cursor it read with it.                                        *)
CaughtUp == server.ended /\ server.cursor >= server.last

Init ==
  /\ Run!Init
  /\ server = Closed /\ wire = <<>>
  /\ reader = [snapshot |-> 0, completed |-> FALSE, failed |-> FALSE]
  /\ text = <<>> /\ cards = {} /\ cursor = 0
  /\ page = "connecting"
  /\ drops = 0

RunStep ==
  /\ Run!Next
  /\ Len(journal') <= MaxEvents
  /\ UNCHANGED <<server, wire, reader, shown, page, drops>>

------------------------------------------------------------------------------
(* The server.                                                              *)

(* agentSubscriptionResponse: the row is read once for the snapshot and for *)
(* the first round of the loop.                                             *)
Connect ==
  /\ page = "connecting"
  /\ cursor <= Len(journal)
  /\ page' = "reading"
  /\ server' = [step |-> "list", cursor |-> cursor,
                ended |-> outcome # "open", last |-> Len(journal)]
  /\ wire' = <<[type |-> "snapshot", cursor |-> SnapshotCursor(Len(journal)),
                outcome |-> outcome]>>
  /\ reader' = [snapshot |-> 0, completed |-> FALSE, failed |-> FALSE]
  /\ UNCHANGED <<run, shown, drops>>

List ==
  LET last == IF Len(journal) > server.cursor + Limit THEN server.cursor + Limit
                                                      ELSE Len(journal)
      event(i) == [type |-> "event", cursor |-> i, kind |-> journal[i]]
  IN
  /\ server.step = "list"
  /\ wire' = wire \o [k \in 1..(last - server.cursor) |-> event(server.cursor + k)]
  /\ server' = [server EXCEPT !.cursor = last, !.step = "listed"]
  /\ UNCHANGED <<run, reader, shown, page, drops>>

CloseResponse ==
  /\ server.step = "listed" /\ CaughtUp
  /\ server' = Closed
  /\ UNCHANGED <<run, wire, reader, shown, page, drops>>

(* getAgentRunSubscriptionState after the wait.                             *)
ReadState ==
  /\ server.step = "listed" /\ ~CaughtUp
  /\ server' = [server EXCEPT !.step = "list", !.ended = outcome # "open",
                              !.last = Len(journal)]
  /\ UNCHANGED <<run, wire, reader, shown, page, drops>>

------------------------------------------------------------------------------
(* The browser.                                                             *)

Receive(type) ==
  /\ page = "reading" /\ wire # <<>> /\ Head(wire).type = type
  /\ wire' = Tail(wire)
  /\ UNCHANGED <<run, drops>>

ReadSnapshot ==
  /\ Receive("snapshot")
  /\ LET frame == Head(wire) IN
       /\ reader' = [snapshot |-> frame.cursor,
                     completed |-> frame.outcome # "open",
                     failed |-> frame.outcome \in FailedEnds]
       /\ text' \in Answer(frame.cursor)
       /\ cursor' = frame.cursor
  /\ UNCHANGED <<server, cards, page>>

(* An event the snapshot covers is skipped, but for an artifact.            *)
SkipEvent ==
  /\ Receive("event")
  /\ Covers(Head(wire).cursor) /\ Head(wire).kind # "artifact"
  /\ UNCHANGED <<server, reader, shown, page>>

(* An error event is thrown out of the reader and is not reconnected.       *)
ReadEvent ==
  /\ Receive("event")
  /\ LET i == Head(wire).cursor
         kind == Head(wire).kind
     IN
       /\ ~Covers(i) \/ kind = "artifact"
       /\ cursor' = IF i > reader.snapshot /\ i > cursor THEN i ELSE cursor
       /\ text' = CASE kind = "text" -> Append(text, i)
                    [] kind = "replace" -> <<i>>
                    [] OTHER -> text
       /\ cards' = IF kind = "artifact" THEN cards \cup {i} ELSE cards
       /\ reader' = [reader EXCEPT !.completed = @ \/ Completes(kind)]
       /\ IF kind = "errored" THEN page' = "finished" /\ server' = Closed
                              ELSE UNCHANGED <<page, server>>

(* The response ended.  A reader that saw no end of the run reconnects.     *)
ReadEnd ==
  /\ page = "reading" /\ wire = <<>> /\ server = Closed
  /\ page' = IF reader.failed \/ reader.completed THEN "finished" ELSE "connecting"
  /\ UNCHANGED <<run, server, wire, reader, shown, drops>>

(* The connection breaks: frames on the way are lost.                       *)
Drop ==
  /\ page = "reading" /\ drops < MaxDrops
  /\ drops' = drops + 1
  /\ server' = Closed /\ wire' = <<>>
  /\ page' = "connecting"
  /\ UNCHANGED <<run, reader, shown>>

(* The response is ended early without an error, by a server that stops or  *)
(* by a proxy; what was sent is still read.                                 *)
CutShort ==
  /\ page = "reading" /\ server # Closed /\ drops < MaxDrops
  /\ drops' = drops + 1
  /\ server' = Closed
  /\ UNCHANGED <<run, wire, reader, shown, page>>

Follow == Connect \/ List \/ CloseResponse \/ ReadState
          \/ ReadSnapshot \/ SkipEvent \/ ReadEvent \/ ReadEnd

Next == RunStep \/ Follow \/ Drop \/ CutShort

(* The server polls and the page reads and reconnects as long as it is      *)
(* open; nothing is assumed of the run.                                     *)
Spec == Init /\ [][Next]_vars /\ WF_vars(Follow)

------------------------------------------------------------------------------
(* Every variable holds a legal value.                                      *)
TypeOK ==
  /\ outcome \in Ends \cup {"open"} /\ stopping \in BOOLEAN
  /\ journal \in Seq(Progress \cup Ends \cup {"cancel_requested"})
  /\ server \in [step : {"closed", "list", "listed"}, cursor : Nat,
                 ended : BOOLEAN, last : Nat]
  /\ wire \in Seq(Frames)
  /\ reader \in [snapshot : Nat, completed : BOOLEAN, failed : BOOLEAN]
  /\ text \in Seq(Nat) /\ cards \subseteq Nat /\ cursor \in 0..Len(journal)
  /\ page \in {"connecting", "reading", "finished"}
  /\ drops \in Nat

(* The page shows the answer of the first events of the journal, each piece *)
(* once and in order, up to the cursor it will reconnect with: no delta is  *)
(* lost or shown twice, whatever the snapshot already covered.              *)
ShowsPrefix == text \in Answer(cursor)

(* The page stops following a run only when the run ended and all of its    *)
(* journal was shown.                                                       *)
FinishedTold == page = "finished" => outcome # "open" /\ cursor = Len(journal)

(* A page that stays open learns of the end of the run, although            *)
(* run.cancelled and run.failed do not themselves finish a response.        *)
EndIsLearned == outcome # "open" ~> page = "finished"

(* What stream.ts says of artifacts: a ready one does not disappear when    *)
(* the snapshot has advanced past its event, also not over a reconnect.     *)
(* Stated for a page that has read all its server listed so far.            *)
CardsShown ==
  page = "reading" /\ server.step = "listed" /\ server.cursor = Len(journal) /\ wire = <<>> =>
    {i \in 1..cursor : journal[i] = "artifact"} \subseteq cards
==============================================================================
