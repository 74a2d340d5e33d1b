------------------------ MODULE RunSubscriptionProofs ------------------------
(***************************************************************************)
(* A page that follows a run shows the first events of its journal, each   *)
(* piece once and in order, and stops following only when all was shown,   *)
(* for every length of the polls, batches and journal and every number of  *)
(* broken connections.                                                     *)
(*                                                                         *)
(* The argument is FollowInv.  The run's end is its last event (RunInv),   *)
(* and the frames on the wire are one snapshot at most, then consecutive   *)
(* events up to where the server has listed, which start no later than the *)
(* event after the page's cursor (Offset): so a frame the snapshot does    *)
(* not cover is the next one the page is to show.                          *)
(***************************************************************************)
EXTENDS RunSubscription, FiniteSetTheorems, SequenceTheorems, TLAPS

Kinds == Progress \cup Ends \cup {"cancel_requested"}
ServerStates == [step : {"closed", "list", "listed"}, cursor : Nat, ended : BOOLEAN, last : Nat]
ReaderStates == [snapshot : Nat, completed : BOOLEAN, failed : BOOLEAN]

(* An end is the journal's last event, and the run is over.                 *)
RunInv == \A i \in DOMAIN journal : journal[i] \in Ends => i = Len(journal) /\ outcome # "open"

(* The event b + k is, or was, the wire's frame k.                          *)
Pending == wire # <<>> /\ wire[1].type = "snapshot"
EventsFrom(b) ==
  /\ \A k \in DOMAIN wire : wire[k].type = "event" =>
       /\ wire[k].cursor = b + k /\ b + k \in 1..Len(journal)
       /\ wire[k].kind = journal[b + k]
  /\ server.step # "closed" => server.cursor = b + Len(wire)
Offset(b) ==
  /\ EventsFrom(b)
  /\ IF Pending THEN b + 1 <= cursor
     ELSE cursor = IF b <= reader.snapshot THEN reader.snapshot ELSE b

(* A snapshot comes first, is no older than what the page shows and tells   *)
(* of the run's end only when it contains the whole journal.                *)
SnapshotFirst ==
  \A k \in DOMAIN wire : wire[k].type = "snapshot" =>
    /\ k = 1 /\ wire[k].cursor \in cursor..Len(journal)
    /\ wire[k].outcome # "open" => outcome # "open" /\ wire[k].cursor = Len(journal)

WireInv ==
  page = "reading" =>
    /\ \E b \in Int : Offset(b)
    /\ server.cursor <= Len(journal)
    /\ SnapshotFirst
    /\ reader.completed \/ reader.failed => outcome # "open" /\ cursor = Len(journal)

Served == server.step # "closed" => page = "reading"

FollowInv == TypeOK /\ RunInv /\ Served /\ WireInv /\ ShowsPrefix /\ FinishedTold

------------------------------------------------------------------------------
(* The answer of a prefix of the journal.                                   *)

LEMMA KeptFinite ==
  ASSUME NEW n \in Nat
  PROVE  /\ Kept(n) \subseteq 1..n /\ IsFiniteSet(Kept(n)) /\ Cardinality(Kept(n)) \in Nat
<1>1. Kept(n) \subseteq 1..n
  BY DEF Kept, Pieces
<1>2. IsFiniteSet(1..n)
  BY FS_Interval
<1> QED
  BY <1>1, <1>2, FS_Subset, FS_CardinalityType

(* One more event.                                                          *)
LEMMA KeptNext ==
  ASSUME NEW n \in Nat
  PROVE  Kept(n + 1) = CASE journal[n + 1] = "text" -> Kept(n) \cup {n + 1}
                         [] journal[n + 1] = "replace" -> {n + 1}
                         [] OTHER -> Kept(n)
<1>1. Pieces(n + 1) = IF journal[n + 1] \in {"text", "replace"} THEN Pieces(n) \cup {n + 1} ELSE Pieces(n)
  BY DEF Pieces
<1>2. \A i \in Pieces(n) : i \in 1..n
  BY DEF Pieces
<1>3. CASE journal[n + 1] = "text"
  BY <1>1, <1>2, <1>3 DEF Kept
<1>4. CASE journal[n + 1] = "replace"
  BY <1>1, <1>2, <1>4 DEF Kept
<1>5. CASE journal[n + 1] \notin {"text", "replace"}
  BY <1>1, <1>5 DEF Kept
<1> QED
  BY <1>3, <1>4, <1>5

(* The text after one more event.                                           *)
LEMMA AnswerNext ==
  ASSUME NEW n \in Nat, NEW s \in Answer(n)
  PROVE  (CASE journal[n + 1] = "text" -> Append(s, n + 1)
            [] journal[n + 1] = "replace" -> <<n + 1>>
            [] OTHER -> s) \in Answer(n + 1)
<1> DEFINE c == Cardinality(Kept(n))
<1>1. /\ Kept(n) \subseteq 1..n /\ IsFiniteSet(Kept(n)) /\ c \in Nat
  BY KeptFinite
<1>2. s \in [1..c -> Kept(n)] /\ Rising(s)
  BY DEF Answer
<1>3. CASE journal[n + 1] = "text"
  <2>1. Kept(n + 1) = Kept(n) \cup {n + 1} /\ n + 1 \notin Kept(n)
    <3>1. Kept(n + 1) = Kept(n) \cup {n + 1}
      BY <1>3, KeptNext
    <3>2. n + 1 \notin 1..n
      OBVIOUS
    <3> HIDE DEF c
    <3> QED
      BY <1>1, <3>1, <3>2
  <2>2. Cardinality(Kept(n + 1)) = c + 1
    BY <1>1, <2>1, FS_AddElement
  <2> HIDE DEF c
  <2>3. s \in Seq(Kept(n)) /\ Len(s) = c
    BY <1>1, <1>2
  <2>4. /\ Append(s, n + 1) \in [1..(c + 1) -> Kept(n + 1)]
        /\ Append(s, n + 1)[c + 1] = n + 1 /\ \A i \in 1..c : Append(s, n + 1)[i] = s[i]
    <3> DEFINE t == Append(s, n + 1)
    <3>1. t \in Seq(Kept(n + 1)) /\ Len(t) = c + 1
      BY <2>1, <2>3
    <3>2. t[c + 1] = n + 1 /\ \A i \in 1..c : t[i] = s[i]
      BY <1>1, <2>3
    <3> HIDE DEF t
    <3>3. t \in [1..(c + 1) -> Kept(n + 1)]
      BY <1>1, <3>1
    <3> QED
      BY <3>2, <3>3 DEF t
  <2>5. Rising(Append(s, n + 1))
    <3>1. \A i \in 1..c : s[i] \in 1..n
      BY <1>1, <1>2
    <3> QED
      BY <1>1, <1>2, <2>4, <3>1 DEF Rising
  <2> QED
    BY <1>3, <2>2, <2>4, <2>5 DEF Answer
<1>4. CASE journal[n + 1] = "replace"
  <2>1. Kept(n + 1) = {n + 1} /\ Cardinality({n + 1}) = 1
    BY <1>4, KeptNext, FS_Singleton
  <2>2. <<n + 1>> \in [1..1 -> {n + 1}] /\ Rising(<<n + 1>>)
    BY DEF Rising
  <2> QED
    BY <1>4, <2>1, <2>2 DEF Answer
<1>5. CASE journal[n + 1] \notin {"text", "replace"}
  BY <1>5, KeptNext DEF Answer
<1> QED
  BY <1>3, <1>4, <1>5

LEMMA AnswerTyped ==
  ASSUME NEW n \in Nat, NEW s \in Answer(n)
  PROVE  s \in Seq(Nat)
<1>1. Kept(n) \subseteq Nat /\ Cardinality(Kept(n)) \in Nat
  BY KeptFinite
<1> QED
  BY <1>1 DEF Answer

(* Later events do not change the answer of a prefix.                       *)
LEMMA AnswerStays ==
  ASSUME NEW n \in Nat, cursor' = n, \A i \in 1..n : journal'[i] = journal[i]
  PROVE  Answer(cursor)' = Answer(n)
<1>1. Pieces(cursor)' = Pieces(n)
  BY DEF Pieces
<1>2. Kept(cursor)' = Kept(n)
  BY <1>1 DEF Kept, Pieces
<1> QED
  BY <1>2 DEF Answer

------------------------------------------------------------------------------
(* The run.                                                                 *)

(* Events are added at the end of a run that is open.                       *)
LEMMA RunGrows ==
  ASSUME TypeOK, RunInv, Run!Next
  PROVE  /\ outcome = "open" /\ outcome' \in Ends \cup {"open"} /\ stopping' \in BOOLEAN
         /\ journal' \in Seq(Kinds) /\ Len(journal') >= Len(journal)
         /\ \A i \in 1..Len(journal) : journal'[i] = journal[i]
         /\ RunInv'
<1>t. journal \in Seq(Kinds) /\ stopping \in BOOLEAN /\ BatchLimit \in Nat
  BY SubscriptionAssumption DEF TypeOK, Kinds
<1>1. ASSUME NEW n \in 1..BatchLimit, NEW events \in [1..n -> Progress \cup Ends], Run!Publish(events)
      PROVE  /\ outcome = "open" /\ outcome' \in Ends \cup {"open"} /\ stopping' \in BOOLEAN
             /\ journal' \in Seq(Kinds) /\ Len(journal') >= Len(journal)
             /\ \A i \in 1..Len(journal) : journal'[i] = journal[i]
             /\ RunInv'
  <2>1. n \in Nat \ {0} /\ events \in Seq(Kinds) /\ Len(events) = n
    BY <1>t DEF Kinds
  <2>2. /\ outcome = "open" /\ journal' = journal \o events /\ UNCHANGED stopping
        /\ \A i \in 1..(n - 1) : events[i] \in Progress
        /\ \/ events[n] \in Progress /\ outcome' = outcome
           \/ events[n] \in Ends /\ outcome' = events[n]
    BY <1>1, <2>1 DEF Run!Publish
  <2>3. /\ journal' \in Seq(Kinds) /\ Len(journal') = Len(journal) + n
        /\ \A i \in 1..Len(journal) : journal'[i] = journal[i]
        /\ \A i \in 1..n : journal'[Len(journal) + i] = events[i]
    <3>1. /\ journal \o events \in Seq(Kinds)
          /\ Len(journal \o events) = Len(journal) + n
          /\ \A i \in 1..(Len(journal) + n) :
               (journal \o events)[i] = IF i <= Len(journal) THEN journal[i] ELSE events[i - Len(journal)]
      BY <1>t, <2>1, ConcatProperties
    <3>2. Len(journal) \in Nat
      BY <1>t
    <3> QED
      BY <2>1, <2>2, <3>1, <3>2
  <2>4. \A i \in 1..Len(journal) : journal[i] \notin Ends
    BY <1>t, <2>2 DEF RunInv
  <2>5. RunInv'
    <3> SUFFICES ASSUME NEW i \in 1..(Len(journal) + n), journal'[i] \in Ends
                 PROVE  i = Len(journal) + n /\ outcome' # "open"
      BY <2>3 DEF RunInv
    <3>1. PICK k \in 1..n : i = Len(journal) + k /\ events[k] \in Ends
      <4>1. i \notin 1..Len(journal)
        BY <2>3, <2>4
      <4>2. i - Len(journal) \in 1..n /\ i = Len(journal) + (i - Len(journal))
        BY <1>t, <2>1, <4>1
      <4> QED
        BY <2>3, <4>2
    <3>2. k = n
      BY <2>1, <2>2, <3>1 DEF Progress, Ends
    <3> QED
      BY <2>2, <3>1, <3>2 DEF Progress, Ends
  <2> QED
    BY <1>t, <2>1, <2>2, <2>3, <2>5
<1>2. CASE Run!RequestStop
  <2>1. /\ outcome = "open" /\ outcome' = outcome /\ stopping' = TRUE
        /\ journal' = Append(journal, "cancel_requested")
    BY <1>2 DEF Run!RequestStop
  <2>2. /\ journal' \in Seq(Kinds) /\ Len(journal') = Len(journal) + 1
        /\ \A i \in 1..Len(journal) : journal'[i] = journal[i]
        /\ journal'[Len(journal) + 1] = "cancel_requested"
    BY <1>t, <2>1 DEF Kinds
  <2>3. \A i \in 1..Len(journal) : journal[i] \notin Ends
    BY <1>t, <2>1 DEF RunInv
  <2>4. RunInv'
    BY <1>t, <2>1, <2>2, <2>3 DEF RunInv, Ends
  <2> QED
    BY <1>t, <2>1, <2>2, <2>4
<1> QED
  BY <1>1, <1>2 DEF Run!Next

LEMMA FollowByRun == FollowInv /\ RunStep => FollowInv'
<1> SUFFICES ASSUME FollowInv, RunStep PROVE FollowInv'
  OBVIOUS
<1>1. /\ outcome = "open" /\ outcome' \in Ends \cup {"open"} /\ stopping' \in BOOLEAN
      /\ journal' \in Seq(Kinds) /\ Len(journal') >= Len(journal)
      /\ \A i \in 1..Len(journal) : journal'[i] = journal[i]
      /\ RunInv'
  BY RunGrows DEF FollowInv, RunStep
<1>2. UNCHANGED <<server, wire, reader, text, cards, cursor, page, drops>>
  BY DEF RunStep, shown
<1>3. journal \in Seq(Kinds) /\ cursor \in 0..Len(journal)
  BY DEF FollowInv, TypeOK, Kinds
<1>4. TypeOK'
  BY <1>1, <1>2, <1>3 DEF FollowInv, TypeOK, Kinds
<1>5. ShowsPrefix'
  <2>1. Answer(cursor)' = Answer(cursor)
    BY <1>1, <1>2, <1>3, AnswerStays
  <2> QED
    BY <1>2, <2>1 DEF FollowInv, ShowsPrefix
<1>6. FinishedTold' /\ Served'
  BY <1>1, <1>2 DEF FollowInv, FinishedTold, Served
<1>7. WireInv'
  <2> SUFFICES ASSUME page = "reading" PROVE WireInv'
    BY <1>2 DEF WireInv
  <2>1. PICK b \in Int : Offset(b)
    BY DEF FollowInv, WireInv
  <2>2. Offset(b)'
    BY <1>1, <1>2, <1>3, <2>1 DEF Offset, EventsFrom, Pending
  <2>3. SnapshotFirst'
    BY <1>1, <1>2, <1>3 DEF FollowInv, WireInv, SnapshotFirst
  <2>4. server'.cursor <= Len(journal') /\ ~(reader.completed \/ reader.failed)
    BY <1>1, <1>2, <1>3 DEF FollowInv, WireInv, TypeOK
  <2> QED
    BY <1>2, <2>2, <2>3, <2>4 DEF WireInv
<1> QED
  BY <1>1, <1>4, <1>5, <1>6, <1>7 DEF FollowInv

------------------------------------------------------------------------------
(* The server.                                                              *)

LEMMA ShownStays ==
  ASSUME TypeOK, ShowsPrefix, UNCHANGED <<journal, text, cursor>>
  PROVE  ShowsPrefix'
<1>1. cursor \in Nat
  BY DEF TypeOK
<1>2. Answer(cursor)' = Answer(cursor)
  BY <1>1, AnswerStays
<1> QED
  BY <1>2 DEF ShowsPrefix

LEMMA RunTyped ==
  ASSUME TypeOK
  PROVE  /\ journal \in Seq(Kinds) /\ Len(journal) \in Nat /\ DOMAIN journal = 1..Len(journal)
         /\ cursor \in Nat /\ cursor <= Len(journal)
         /\ server \in ServerStates /\ reader \in ReaderStates /\ outcome \in Ends \cup {"open"}
         /\ server.cursor \in Nat /\ reader.snapshot \in Nat
         /\ wire \in Seq(Frames) /\ Len(wire) \in Nat /\ DOMAIN wire = 1..Len(wire)
         /\ Limit \in Nat \ {0}
<1>1. /\ journal \in Seq(Kinds) /\ cursor \in 0..Len(journal)
      /\ server \in ServerStates /\ reader \in ReaderStates /\ outcome \in Ends \cup {"open"}
      /\ wire \in Seq(Frames)
  BY DEF TypeOK, Kinds, ServerStates, ReaderStates
<1>2. server.cursor \in Nat /\ reader.snapshot \in Nat
  BY <1>1 DEF ServerStates, ReaderStates
<1> QED
  BY <1>1, <1>2, SubscriptionAssumption

LEMMA FollowByConnect == FollowInv /\ Connect => FollowInv'
<1> SUFFICES ASSUME FollowInv, Connect PROVE FollowInv'
  OBVIOUS
<1> DEFINE frame == [type |-> "snapshot", cursor |-> Len(journal), outcome |-> outcome]
<1>t. TypeOK
  BY DEF FollowInv
<1>u. /\ journal \in Seq(Kinds) /\ Len(journal) \in Nat /\ cursor \in Nat /\ cursor <= Len(journal)
      /\ outcome \in Ends \cup {"open"}
  BY <1>t, RunTyped
<1>1. /\ page' = "reading" /\ wire' = <<frame>>
      /\ server' = [step |-> "list", cursor |-> cursor, ended |-> outcome # "open", last |-> Len(journal)]
      /\ reader' = [snapshot |-> 0, completed |-> FALSE, failed |-> FALSE]
      /\ UNCHANGED <<outcome, stopping, journal, text, cards, cursor, drops>>
  BY DEF Connect, SnapshotCursor, run, shown
<1>2. frame \in Frames /\ frame.type = "snapshot" /\ frame.cursor = Len(journal) /\ frame.outcome = outcome
  BY <1>u DEF Frames
<1> HIDE DEF frame
<1>3. wire' \in Seq(Frames) /\ Len(wire') = 1 /\ DOMAIN wire' = {1} /\ wire'[1] = frame /\ wire' # <<>>
  BY <1>1, <1>2
<1>4. server' \in ServerStates /\ server'.cursor = cursor /\ reader' \in ReaderStates
      /\ ~reader'.completed /\ ~reader'.failed
  BY <1>1, <1>u DEF ServerStates, ReaderStates
<1>5. TypeOK'
  BY <1>1, <1>3, <1>4, <1>t DEF TypeOK, ServerStates, ReaderStates
<1>6. Offset(cursor - 1)'
  <2> SUFFICES EventsFrom(cursor - 1)' /\ Pending' /\ cursor' - 1 + 1 <= cursor'
    BY DEF Offset
  <2>1. EventsFrom(cursor - 1)'
    BY <1>1, <1>2, <1>3, <1>4, <1>u DEF EventsFrom
  <2> QED
    BY <1>1, <1>2, <1>3, <1>u, <2>1 DEF Pending
<1>7. SnapshotFirst'
  BY <1>1, <1>2, <1>3, <1>u DEF SnapshotFirst
<1>8. WireInv'
  <2>1. \E b \in Int : Offset(b)'
    BY <1>1, <1>6, <1>u DEF Offset, EventsFrom
  <2> QED
    BY <1>1, <1>4, <1>7, <1>u, <2>1 DEF WireInv
<1>9. RunInv' /\ FinishedTold' /\ Served' /\ ShowsPrefix'
  BY <1>1, <1>t, ShownStays DEF FollowInv, RunInv, FinishedTold, Served
<1> QED
  BY <1>5, <1>8, <1>9 DEF FollowInv

(* Whatever else the server does leaves the reader and the page as they are. *)
LEMMA FollowByList == FollowInv /\ List => FollowInv'
<1> SUFFICES ASSUME FollowInv, List PROVE FollowInv'
  OBVIOUS
<1> DEFINE last == IF Len(journal) > server.cursor + Limit THEN server.cursor + Limit ELSE Len(journal)
           event(i) == [type |-> "event", cursor |-> i, kind |-> journal[i]]
           n == last - server.cursor
           listed == [k \in 1..n |-> event(server.cursor + k)]
<1>t. TypeOK
  BY DEF FollowInv
<1>u. /\ journal \in Seq(Kinds) /\ Len(journal) \in Nat /\ cursor \in Nat /\ cursor <= Len(journal)
      /\ server \in ServerStates /\ server.cursor \in Nat /\ Limit \in Nat
      /\ wire \in Seq(Frames) /\ Len(wire) \in Nat
  BY <1>t, RunTyped
<1>1. /\ server.step = "list" /\ wire' = wire \o listed
      /\ server' = [server EXCEPT !.cursor = last, !.step = "listed"]
      /\ UNCHANGED <<outcome, stopping, journal, reader, text, cards, cursor, page, drops>>
  <2>1. server.step = "list"
    BY DEF List
  <2>2. wire' = wire \o listed
    BY DEF List
  <2>3. server' = [server EXCEPT !.cursor = last, !.step = "listed"]
    BY DEF List
  <2>4. UNCHANGED <<outcome, stopping, journal, reader, text, cards, cursor, page, drops>>
    BY DEF List, run, shown
  <2> HIDE DEF last, n, listed
  <2> QED
    BY <2>1, <2>2, <2>3, <2>4
<1>2. page = "reading" /\ server.cursor <= Len(journal) /\ SnapshotFirst
      /\ (reader.completed \/ reader.failed => outcome # "open" /\ cursor = Len(journal))
  BY <1>1 DEF FollowInv, Served, WireInv
<1>3. PICK b \in Int : Offset(b)
  BY <1>2 DEF FollowInv, WireInv
<1>4. server.cursor = b + Len(wire)
  BY <1>1, <1>3 DEF Offset, EventsFrom
<1>5. last \in Nat /\ server.cursor <= last /\ last <= Len(journal) /\ n \in Nat
      /\ last = server.cursor + n
  BY <1>2, <1>u
<1> HIDE DEF last, n
<1>6. /\ listed \in Seq(Frames) /\ Len(listed) = n
      /\ \A k \in 1..n : listed[k] = event(server.cursor + k)
  <2>1. ASSUME NEW k \in 1..n PROVE event(server.cursor + k) \in Frames
    <3>1. server.cursor + k \in 1..Len(journal)
      BY <1>5, <1>u
    <3>2. journal[server.cursor + k] \in Kinds /\ server.cursor + k \in Nat
      BY <1>u, <3>1
    <3> QED
      BY <3>2 DEF Frames, Kinds
  <2> HIDE DEF event
  <2> QED
    BY <1>5, <2>1
<1> HIDE DEF listed
<1>7. /\ wire' \in Seq(Frames) /\ Len(wire') = Len(wire) + n /\ DOMAIN wire' = 1..(Len(wire) + n)
      /\ \A k \in 1..Len(wire) : wire'[k] = wire[k]
      /\ \A k \in (Len(wire) + 1)..(Len(wire) + n) : wire'[k] = event(b + k)
  <2>1. /\ wire' \in Seq(Frames) /\ Len(wire') = Len(wire) + n
        /\ \A k \in 1..(Len(wire) + n) : wire'[k] = IF k <= Len(wire) THEN wire[k] ELSE listed[k - Len(wire)]
    BY <1>1, <1>5, <1>6, <1>u, ConcatProperties
  <2>2. ASSUME NEW k \in (Len(wire) + 1)..(Len(wire) + n) PROVE wire'[k] = event(b + k)
    <3>1. k - Len(wire) \in 1..n /\ server.cursor + (k - Len(wire)) = b + k /\ ~(k <= Len(wire))
          /\ k \in 1..(Len(wire) + n)
      BY <1>3, <1>4, <1>5, <1>u
    <3>2. wire'[k] = event(server.cursor + (k - Len(wire)))
      BY <1>6, <2>1, <3>1
    <3> QED
      BY <3>1, <3>2
  <2> HIDE DEF event
  <2> QED
    BY <1>5, <1>u, <2>1, <2>2
<1>8. server' \in ServerStates /\ server'.cursor = last /\ server'.step = "listed"
  BY <1>1, <1>5, <1>u DEF ServerStates
<1>e. \A i : event(i).type = "event" /\ event(i).cursor = i /\ event(i).kind = journal[i]
  OBVIOUS
<1> HIDE DEF event
<1>9. TypeOK'
  BY <1>1, <1>7, <1>8, <1>t DEF TypeOK, ServerStates
<1>10. Offset(b)'
  <2>1. Pending' = Pending
    <3>1. CASE Len(wire) = 0
      <4>1. wire = <<>>
        BY <1>u, <3>1
      <4>2. wire' # <<>> => wire'[1].type = "event"
        BY <1>7, <1>e, <1>5, <3>1
      <4> QED
        BY <4>1, <4>2 DEF Pending
    <3>2. CASE Len(wire) # 0
      BY <1>7, <1>5, <1>u, <3>2 DEF Pending
    <3> QED
      BY <3>1, <3>2
  <2>2. ASSUME NEW k \in 1..(Len(wire) + n), wire'[k].type = "event"
        PROVE  wire'[k].cursor = b + k /\ b + k \in 1..Len(journal) /\ wire'[k].kind = journal[b + k]
    <3>1. CASE k \in 1..Len(wire)
      BY <1>3, <1>7, <1>u, <2>2, <3>1 DEF Offset, EventsFrom
    <3>2. CASE k \in (Len(wire) + 1)..(Len(wire) + n)
      <4>1. b + k >= 1 /\ b + k <= last
        BY <1>3, <1>4, <1>5, <1>u, <3>2
      <4> QED
        BY <1>3, <1>5, <1>7, <1>e, <1>u, <3>2, <4>1
    <3> QED
      BY <1>5, <1>u, <2>2, <3>1, <3>2
  <2>3. server'.cursor = b + Len(wire')
    BY <1>3, <1>4, <1>5, <1>7, <1>8, <1>u
  <2>4. EventsFrom(b)'
    BY <1>1, <1>7, <2>2, <2>3 DEF EventsFrom
  <2> QED
    BY <1>1, <1>3, <2>1, <2>4 DEF Offset
<1>11. SnapshotFirst'
  <2>1. ASSUME NEW k \in 1..(Len(wire) + n), wire'[k].type = "snapshot" PROVE k \in 1..Len(wire)
    <3>1. \A j \in (Len(wire) + 1)..(Len(wire) + n) : wire'[j].type = "event"
      BY <1>7, <1>e
    <3>2. k \notin (Len(wire) + 1)..(Len(wire) + n)
      BY <2>1, <3>1
    <3> QED
      BY <1>5, <1>u, <2>1, <3>2
  <2> QED
    BY <1>1, <1>2, <1>7, <1>u, <2>1 DEF SnapshotFirst
<1>12. WireInv'
  <2>1. \E c \in Int : Offset(c)'
    BY <1>3, <1>10
  <2> QED
    BY <1>1, <1>2, <1>5, <1>8, <1>11, <2>1 DEF WireInv
<1>13. RunInv' /\ FinishedTold' /\ Served' /\ ShowsPrefix'
  BY <1>1, <1>2, <1>t, ShownStays DEF FollowInv, RunInv, FinishedTold, Served
<1> QED
  BY <1>9, <1>12, <1>13 DEF FollowInv

(* Closing, reading the state, breaking: no frame is added, and none goes   *)
(* but all of them.                                                         *)
LEMMA FollowByClosing ==
  ASSUME FollowInv, CloseResponse \/ ReadState \/ ReadEnd \/ Drop \/ CutShort
  PROVE  FollowInv'
<1>t. TypeOK /\ Closed \in ServerStates /\ Closed.cursor = 0 /\ Closed.step = "closed"
  BY DEF FollowInv, Closed, ServerStates
<1>u. Len(journal) \in Nat /\ server \in ServerStates /\ server.cursor \in Nat
      /\ wire \in Seq(Frames) /\ MaxDrops \in Nat
  BY <1>t, RunTyped, SubscriptionAssumption
<1>1. /\ UNCHANGED <<outcome, stopping, journal, text, cards, cursor, reader>>
      /\ drops' \in Nat
  BY <1>t DEF CloseResponse, ReadState, ReadEnd, Drop, CutShort, run, shown, TypeOK
<1>2. /\ page' \in {"connecting", "reading", "finished"} /\ (page' = "reading" => page = "reading" /\ wire' = wire)
      /\ wire' \in Seq(Frames)
  <2>1. wire' = wire \/ (wire' = <<>> /\ page' = "connecting")
    BY DEF CloseResponse, ReadState, ReadEnd, Drop, CutShort
  <2>2. page' = page \/ page' \in {"connecting", "finished"}
    BY DEF CloseResponse, ReadState, ReadEnd, Drop, CutShort
  <2>3. <<>> \in Seq(Frames) /\ page \in {"connecting", "reading", "finished"}
    BY <1>t DEF TypeOK
  <2> QED
    BY <1>u, <2>1, <2>2, <2>3
<1>3. /\ server' \in ServerStates /\ (server'.step # "closed" => page' = "reading" /\ server.step # "closed")
      /\ server' = Closed \/ server'.cursor = server.cursor
  <2>1. CASE ReadState
    <3>1. server.step = "listed" /\ page' = page /\ page = "reading"
          /\ server' = [server EXCEPT !.step = "list", !.ended = outcome # "open", !.last = Len(journal)]
      BY <2>1 DEF ReadState, FollowInv, Served
    <3> QED
      BY <1>u, <3>1 DEF ServerStates
  <2>2. CASE CloseResponse \/ ReadEnd \/ Drop \/ CutShort
    BY <1>t, <2>2 DEF CloseResponse, ReadEnd, Drop, CutShort
  <2> QED
    BY <2>1, <2>2
<1>4. TypeOK'
  BY <1>1, <1>2, <1>3, <1>t DEF TypeOK, ServerStates
<1>5. WireInv'
  <2> SUFFICES ASSUME page' = "reading" PROVE WireInv'
    BY DEF WireInv
  <2>1. page = "reading" /\ wire' = wire
    BY <1>2
  <2>2. PICK b \in Int : Offset(b)
    BY <2>1 DEF FollowInv, WireInv
  <2>3. Offset(b)'
    BY <1>1, <1>3, <1>t, <2>1, <2>2 DEF Offset, EventsFrom, Pending
  <2>4. SnapshotFirst' /\ server'.cursor <= Len(journal')
        /\ (reader.completed \/ reader.failed => outcome # "open" /\ cursor = Len(journal))
    BY <1>1, <1>3, <1>t, <1>u, <2>1 DEF FollowInv, WireInv, SnapshotFirst
  <2> QED
    BY <1>1, <2>3, <2>4 DEF WireInv
<1>6. FinishedTold'
  BY <1>1 DEF CloseResponse, ReadState, ReadEnd, Drop, CutShort, FollowInv, FinishedTold, WireInv
<1>7. RunInv' /\ Served' /\ ShowsPrefix'
  BY <1>1, <1>3, <1>t, ShownStays DEF FollowInv, RunInv, Served
<1> QED
  BY <1>4, <1>5, <1>6, <1>7 DEF FollowInv

------------------------------------------------------------------------------
(* The reader.                                                              *)

(* A frame is taken off the wire.                                           *)
LEMMA FrameRead ==
  ASSUME FollowInv, NEW type, Receive(type)
  PROVE  /\ page = "reading" /\ Len(wire) > 0 /\ Head(wire) = wire[1] /\ wire[1] \in Frames
         /\ wire[1].type = type
         /\ wire' \in Seq(Frames) /\ ~Pending' /\ SnapshotFirst'
         /\ UNCHANGED <<outcome, stopping, journal, drops>>
         /\ UNCHANGED server => \A b \in Int : EventsFrom(b) => EventsFrom(b + 1)'
         /\ \A b \in Int : EventsFrom(b) /\ type = "event" =>
              wire[1].cursor = b + 1 /\ b + 1 \in 1..Len(journal) /\ wire[1].kind = journal[b + 1]
<1>1. /\ page = "reading" /\ wire # <<>> /\ Head(wire).type = type /\ wire' = Tail(wire)
      /\ UNCHANGED <<outcome, stopping, journal, drops>>
  BY DEF Receive, run
<1>u. wire \in Seq(Frames) /\ Len(wire) \in Nat /\ Len(journal) \in Nat
  BY RunTyped DEF FollowInv
<1>2. /\ Len(wire) > 0 /\ Head(wire) = wire[1] /\ wire[1] \in Frames /\ DOMAIN wire = 1..Len(wire)
      /\ wire' \in Seq(Frames) /\ Len(wire') = Len(wire) - 1 /\ DOMAIN wire' = 1..(Len(wire) - 1)
  BY <1>1, <1>u
<1>3. \A k \in 1..(Len(wire) - 1) : wire'[k] = wire[k + 1]
  BY <1>1, <1>u
<1>4. \A k \in 1..(Len(wire) - 1) : wire'[k].type # "snapshot"
  <2> SUFFICES ASSUME NEW k \in 1..(Len(wire) - 1) PROVE wire[k + 1].type # "snapshot"
    BY <1>3
  <2>1. k + 1 \in DOMAIN wire /\ k + 1 # 1
    BY <1>2, <1>u
  <2> QED
    BY <1>1, <2>1 DEF FollowInv, WireInv, SnapshotFirst
<1>5. ~Pending' /\ SnapshotFirst'
  <2>1. wire' # <<>> => 1 \in 1..(Len(wire) - 1)
    BY <1>2, <1>u
  <2> QED
    BY <1>2, <1>4, <2>1 DEF Pending, SnapshotFirst
<1>6. ASSUME UNCHANGED server, NEW b \in Int, EventsFrom(b) PROVE EventsFrom(b + 1)'
  <2>1. ASSUME NEW k \in 1..(Len(wire) - 1), wire'[k].type = "event"
        PROVE  wire'[k].cursor = (b + 1) + k /\ (b + 1) + k \in 1..Len(journal)
               /\ wire'[k].kind = journal[(b + 1) + k]
    <3>1. k + 1 \in DOMAIN wire /\ b + (k + 1) = (b + 1) + k
      BY <1>2, <1>u
    <3> QED
      BY <1>3, <1>6, <2>1, <3>1 DEF EventsFrom
  <2>2. server'.step # "closed" => server'.cursor = (b + 1) + Len(wire')
    BY <1>2, <1>6, <1>u DEF EventsFrom
  <2> QED
    BY <1>1, <1>2, <2>1, <2>2 DEF EventsFrom
<1>7. ASSUME NEW b \in Int, EventsFrom(b), type = "event"
      PROVE  wire[1].cursor = b + 1 /\ b + 1 \in 1..Len(journal) /\ wire[1].kind = journal[b + 1]
  BY <1>1, <1>2, <1>7, <1>u DEF EventsFrom
<1> QED
  BY <1>1, <1>2, <1>5, <1>6, <1>7

LEMMA FollowBySnapshot == FollowInv /\ ReadSnapshot => FollowInv'
<1> SUFFICES ASSUME FollowInv, ReadSnapshot PROVE FollowInv'
  OBVIOUS
<1>1. /\ page = "reading" /\ Len(wire) > 0 /\ Head(wire) = wire[1] /\ wire[1] \in Frames
      /\ wire[1].type = "snapshot"
      /\ wire' \in Seq(Frames) /\ ~Pending' /\ SnapshotFirst'
      /\ UNCHANGED <<outcome, stopping, journal, drops>>
      /\ \A b \in Int : EventsFrom(b) => EventsFrom(b + 1)'
  BY FrameRead DEF ReadSnapshot
<1> DEFINE frame == wire[1]
<1>u. TypeOK /\ wire \in Seq(Frames) /\ Len(journal) \in Nat /\ cursor \in Nat
  BY RunTyped DEF FollowInv
<1>2. /\ reader' = [snapshot |-> frame.cursor, completed |-> frame.outcome # "open",
                    failed |-> frame.outcome \in FailedEnds]
      /\ text' \in Answer(frame.cursor) /\ cursor' = frame.cursor
      /\ UNCHANGED <<server, cards, page>>
  BY <1>1 DEF ReadSnapshot
<1>3. /\ frame.cursor \in cursor..Len(journal)
      /\ frame.outcome # "open" => outcome # "open" /\ frame.cursor = Len(journal)
  <2>1. 1 \in DOMAIN wire /\ SnapshotFirst
    BY <1>1, <1>u DEF FollowInv, WireInv
  <2> QED
    BY <1>1, <2>1 DEF SnapshotFirst
<1>4. Pending
  BY <1>1, <1>u DEF Pending
<1> HIDE DEF frame
<1>5. frame.cursor \in Nat /\ cursor <= frame.cursor /\ frame.cursor <= Len(journal)
  BY <1>3, <1>u
<1>6. reader' \in ReaderStates /\ reader'.snapshot = frame.cursor
      /\ (reader'.completed \/ reader'.failed => frame.outcome # "open")
  <2> DEFINE completed == frame.outcome # "open"
             failed == frame.outcome \in FailedEnds
  <2>1. completed \in BOOLEAN /\ failed \in BOOLEAN /\ (completed \/ failed => frame.outcome # "open")
    BY DEF FailedEnds
  <2>2. reader' = [snapshot |-> frame.cursor, completed |-> completed, failed |-> failed]
    BY <1>2
  <2> HIDE DEF completed, failed
  <2> QED
    BY <1>5, <2>1, <2>2 DEF ReaderStates
<1>7. TypeOK'
  BY <1>1, <1>2, <1>5, <1>6, <1>u, AnswerTyped DEF TypeOK, ReaderStates
<1>8. ShowsPrefix'
  <2>1. Answer(cursor)' = Answer(frame.cursor)
    BY <1>1, <1>2, <1>5, AnswerStays
  <2> QED
    BY <1>2, <2>1 DEF ShowsPrefix
<1>9. WireInv'
  <2>1. PICK b \in Int : Offset(b)
    BY <1>1 DEF FollowInv, WireInv
  <2>2. EventsFrom(b + 1)' /\ b + 1 <= cursor
    BY <1>1, <1>4, <2>1 DEF Offset
  <2>3. Offset(b + 1)'
    <3>1. cursor' = IF b + 1 <= reader'.snapshot THEN reader'.snapshot ELSE b + 1
      BY <1>2, <1>5, <1>6, <1>u, <2>2
    <3> QED
      BY <1>1, <2>2, <3>1 DEF Offset
  <2>4. \E c \in Int : Offset(c)'
    BY <2>3
  <2>5. server'.cursor <= Len(journal')
    BY <1>1, <1>2 DEF FollowInv, WireInv
  <2> QED
    BY <1>1, <1>2, <1>3, <1>6, <2>4, <2>5 DEF WireInv
<1>10. RunInv' /\ FinishedTold' /\ Served'
  BY <1>1, <1>2 DEF FollowInv, RunInv, FinishedTold, Served
<1> QED
  BY <1>7, <1>8, <1>9, <1>10 DEF FollowInv

LEMMA FollowBySkip == FollowInv /\ SkipEvent => FollowInv'
<1> SUFFICES ASSUME FollowInv, SkipEvent PROVE FollowInv'
  OBVIOUS
<1>1. /\ page = "reading" /\ Head(wire) = wire[1] /\ wire[1].type = "event"
      /\ wire' \in Seq(Frames) /\ ~Pending' /\ SnapshotFirst'
      /\ UNCHANGED <<outcome, stopping, journal, drops>>
      /\ \A b \in Int : EventsFrom(b) => EventsFrom(b + 1)'
      /\ \A b \in Int : EventsFrom(b) => wire[1].cursor = b + 1
  BY FrameRead DEF SkipEvent
<1>2. /\ wire[1].cursor <= reader.snapshot
      /\ UNCHANGED <<server, reader, text, cards, cursor, page>>
  BY <1>1 DEF SkipEvent, Covers, shown
<1>u. TypeOK /\ cursor \in Nat /\ reader.snapshot \in Nat
  BY RunTyped DEF FollowInv
<1>3. TypeOK'
  BY <1>1, <1>2, <1>u DEF TypeOK
<1>4. WireInv'
  <2>1. PICK b \in Int : Offset(b)
    BY <1>1 DEF FollowInv, WireInv
  <2>2. /\ EventsFrom(b + 1)' /\ b + 1 <= reader.snapshot
        /\ ~Pending
    BY <1>1, <1>2, <2>1 DEF Offset, Pending
  <2>3. Offset(b + 1)'
    <3>1. cursor' = IF b + 1 <= reader'.snapshot THEN reader'.snapshot ELSE b + 1
      BY <1>2, <1>u, <2>1, <2>2 DEF Offset
    <3> QED
      BY <1>1, <2>2, <3>1 DEF Offset
  <2>4. \E c \in Int : Offset(c)'
    BY <2>3
  <2> QED
    BY <1>1, <1>2, <2>4 DEF FollowInv, WireInv
<1>5. RunInv' /\ FinishedTold' /\ Served' /\ ShowsPrefix'
  BY <1>1, <1>2, <1>u, ShownStays DEF FollowInv, RunInv, FinishedTold, Served
<1> QED
  BY <1>3, <1>4, <1>5 DEF FollowInv

(* What the snapshot does not cover is the next piece; an artifact that it  *)
(* covers changes neither the text nor the cursor.                          *)
LEMMA FollowByEvent == FollowInv /\ ReadEvent => FollowInv'
<1> SUFFICES ASSUME FollowInv, ReadEvent PROVE FollowInv'
  OBVIOUS
<1> DEFINE i == wire[1].cursor
           kind == wire[1].kind
<1>1. /\ page = "reading" /\ Head(wire) = wire[1] /\ wire[1].type = "event"
      /\ wire' \in Seq(Frames) /\ ~Pending' /\ SnapshotFirst'
      /\ UNCHANGED <<outcome, stopping, journal, drops>>
      /\ UNCHANGED server => \A b \in Int : EventsFrom(b) => EventsFrom(b + 1)'
      /\ \A b \in Int : EventsFrom(b) =>
           i = b + 1 /\ b + 1 \in 1..Len(journal) /\ kind = journal[b + 1]
  BY FrameRead DEF ReadEvent
<1>2. /\ ~(i <= reader.snapshot) \/ kind = "artifact"
      /\ cursor' = IF i > reader.snapshot /\ i > cursor THEN i ELSE cursor
      /\ text' = CASE kind = "text" -> Append(text, i)
                   [] kind = "replace" -> <<i>>
                   [] OTHER -> text
      /\ cards' = IF kind = "artifact" THEN cards \cup {i} ELSE cards
      /\ reader' = [reader EXCEPT !.completed = @ \/ kind = "completed"]
      /\ IF kind = "errored" THEN page' = "finished" /\ server' = Closed
                             ELSE UNCHANGED <<page, server>>
  BY <1>1 DEF ReadEvent, Covers, Completes
<1>u. /\ TypeOK /\ cursor \in Nat /\ reader.snapshot \in Nat /\ Len(journal) \in Nat /\ cursor <= Len(journal)
      /\ reader \in ReaderStates /\ journal \in Seq(Kinds) /\ DOMAIN journal = 1..Len(journal)
  BY RunTyped DEF FollowInv
<1>3. PICK b \in Int : Offset(b)
  BY <1>1 DEF FollowInv, WireInv
<1>4. /\ i = b + 1 /\ i \in 1..Len(journal) /\ kind = journal[i]
      /\ cursor = IF b <= reader.snapshot THEN reader.snapshot ELSE b
  BY <1>1, <1>3 DEF Offset, Pending
<1> HIDE DEF i, kind
<1>n. i \in Nat /\ i <= Len(journal)
  BY <1>4, <1>u
<1>5. IF i <= reader.snapshot THEN kind = "artifact" /\ UNCHANGED <<cursor, text>>
                              ELSE cursor = i - 1 /\ cursor' = i
  BY <1>2, <1>3, <1>4, <1>n, <1>u
<1>6. ShowsPrefix'
  <2>1. CASE i <= reader.snapshot
    BY <1>1, <1>5, <1>u, <2>1, ShownStays DEF FollowInv
  <2>2. CASE ~(i <= reader.snapshot)
    <3>1. cursor + 1 = i /\ cursor' = i
      BY <1>5, <1>n, <1>u, <2>2
    <3>2. text \in Answer(cursor)
      BY DEF FollowInv, ShowsPrefix
    <3>3. text' \in Answer(i)
      BY <1>2, <1>4, <1>u, <3>1, <3>2, AnswerNext
    <3>4. Answer(cursor)' = Answer(i)
      BY <1>1, <1>n, <3>1, AnswerStays
    <3> QED
      BY <3>3, <3>4 DEF ShowsPrefix
  <2> QED
    BY <2>1, <2>2
<1>7. /\ cursor' \in 0..Len(journal) /\ reader' \in ReaderStates
      /\ reader'.snapshot = reader.snapshot /\ reader'.failed = reader.failed
      /\ reader'.completed => reader.completed \/ kind = "completed"
  <2> DEFINE completed == reader.completed \/ kind = "completed"
             r == [reader EXCEPT !.completed = completed]
  <2>1. completed \in BOOLEAN
    OBVIOUS
  <2>2. reader' = r
    BY <1>2
  <2> HIDE DEF completed
  <2>3. /\ r \in ReaderStates /\ r.snapshot = reader.snapshot /\ r.failed = reader.failed
        /\ r.completed = completed
    BY <1>u, <2>1 DEF ReaderStates
  <2> HIDE DEF r
  <2>4. cursor' \in 0..Len(journal)
    BY <1>2, <1>n, <1>u
  <2>5. reader'.completed => completed
    BY <2>2, <2>3
  <2> QED
    BY <2>2, <2>3, <2>4, <2>5 DEF completed
<1>8. text' \in Seq(Nat)
  <2>1. cursor' \in Nat /\ text' \in Answer(cursor')
    <3>1. cursor' \in Nat
      BY <1>7
    <3>2. Answer(cursor)' = Answer(cursor')
      BY <1>1, <3>1, AnswerStays
    <3> QED
      BY <1>6, <3>1, <3>2 DEF ShowsPrefix
  <2> QED
    BY <2>1, AnswerTyped
<1>9. TypeOK'
  <2>1. server' \in ServerStates /\ page' \in {"connecting", "reading", "finished"}
    <3>1. Closed \in ServerStates /\ server \in ServerStates /\ page \in {"connecting", "reading", "finished"}
      BY <1>u, RunTyped DEF TypeOK, ServerStates, Closed
    <3> QED
      BY <1>2, <3>1
  <2>2. cards' \subseteq Nat
    BY <1>2, <1>n, <1>u DEF TypeOK
  <2> QED
    BY <1>1, <1>7, <1>8, <1>u, <2>1, <2>2 DEF TypeOK, ServerStates, ReaderStates
<1>10. kind \in {"completed", "errored"} => outcome # "open" /\ cursor' = Len(journal)
  <2> SUFFICES ASSUME kind \in {"completed", "errored"} PROVE outcome # "open" /\ cursor' = Len(journal)
    OBVIOUS
  <2>1. outcome # "open" /\ i = Len(journal)
    BY <1>4, <1>u DEF FollowInv, RunInv, Ends
  <2> QED
    BY <1>5, <2>1
<1>11. WireInv'
  <2> SUFFICES ASSUME page' = "reading" PROVE WireInv'
    BY DEF WireInv
  <2>1. UNCHANGED server
    BY <1>2
  <2>2. Offset(b + 1)'
    <3>1. cursor' = IF b + 1 <= reader'.snapshot THEN reader'.snapshot ELSE b + 1
      BY <1>3, <1>4, <1>5, <1>7, <1>n, <1>u
    <3>2. EventsFrom(b + 1)'
      BY <1>1, <1>3, <2>1 DEF Offset
    <3> QED
      BY <1>1, <3>1, <3>2 DEF Offset
  <2>3. \E c \in Int : Offset(c)'
    BY <2>2
  <2>4. reader'.completed \/ reader'.failed => outcome # "open" /\ cursor' = Len(journal)
    <3>1. reader.completed \/ reader.failed => outcome # "open" /\ cursor = Len(journal)
      BY <1>1 DEF FollowInv, WireInv
    <3>2. cursor' \in Nat /\ cursor' >= cursor /\ cursor' <= Len(journal)
      BY <1>2, <1>7, <1>n, <1>u
    <3>3. CASE reader.completed \/ reader.failed
      <4>1. outcome # "open" /\ cursor = Len(journal)
        BY <3>1, <3>3
      <4> QED
        BY <1>u, <3>2, <4>1
    <3>4. CASE kind = "completed"
      BY <1>10, <3>4
    <3> QED
      BY <1>7, <3>3, <3>4
  <2> QED
    BY <1>1, <2>1, <2>3, <2>4 DEF FollowInv, WireInv
<1>12. FinishedTold'
  BY <1>1, <1>2, <1>10 DEF FinishedTold
<1>13. RunInv' /\ Served'
  BY <1>1, <1>2 DEF FollowInv, RunInv, Served, Closed
<1> QED
  BY <1>6, <1>9, <1>11, <1>12, <1>13 DEF FollowInv

------------------------------------------------------------------------------
LEMMA FollowInit == Init => FollowInv
<1> SUFFICES ASSUME Init PROVE FollowInv
  OBVIOUS
<1>1. /\ outcome = "open" /\ stopping = FALSE /\ journal = <<>>
      /\ server = Closed /\ wire = <<>> /\ page = "connecting" /\ drops = 0
      /\ reader = [snapshot |-> 0, completed |-> FALSE, failed |-> FALSE]
      /\ text = <<>> /\ cards = {} /\ cursor = 0
  BY DEF Init, Run!Init
<1>2. Kept(0) = {} /\ Cardinality(Kept(0)) = 0
  BY FS_EmptySet DEF Kept, Pieces
<1>3. ShowsPrefix
  <2>1. <<>> \in [1..0 -> {}] /\ Rising(<<>>)
    BY DEF Rising
  <2> QED
    BY <1>1, <1>2, <2>1 DEF ShowsPrefix, Answer
<1>4. TypeOK
  <2>1. Closed \in ServerStates /\ reader \in ReaderStates
    BY <1>1 DEF Closed, ServerStates, ReaderStates
  <2>2. Len(journal) = 0 /\ journal \in Seq(Kinds) /\ wire \in Seq(Frames) /\ text \in Seq(Nat)
    BY <1>1
  <2>3. cards \subseteq Nat /\ cursor \in 0..Len(journal)
    BY <1>1, <2>2
  <2>4. stopping \in BOOLEAN
    BY <1>1
  <2> QED
    BY <1>1, <2>1, <2>2, <2>3, <2>4 DEF TypeOK, ServerStates, ReaderStates, Kinds
<1> QED
  BY <1>1, <1>3, <1>4 DEF FollowInv, RunInv, Served, WireInv, FinishedTold, Closed

LEMMA FollowStep == FollowInv /\ [Next]_vars => FollowInv'
<1> SUFFICES ASSUME FollowInv, [Next]_vars PROVE FollowInv'
  OBVIOUS
<1>1. CASE UNCHANGED vars
  <2>1. UNCHANGED <<outcome, stopping, journal, server, wire, reader, text, cards, cursor, page, drops>>
    BY <1>1 DEF vars, run, shown
  <2>2. ShowsPrefix'
    BY <2>1, ShownStays DEF FollowInv
  <2>3. TypeOK' /\ RunInv' /\ Served' /\ FinishedTold'
    BY <2>1 DEF FollowInv, TypeOK, RunInv, Served, FinishedTold
  <2>4. WireInv'
    <3>1. \A b \in Int : Offset(b) => Offset(b)'
      BY <2>1 DEF Offset, EventsFrom, Pending
    <3>2. SnapshotFirst => SnapshotFirst'
      BY <2>1 DEF SnapshotFirst
    <3> QED
      BY <2>1, <3>1, <3>2 DEF FollowInv, WireInv
  <2> QED
    BY <2>2, <2>3, <2>4 DEF FollowInv
<1> QED
  BY <1>1, FollowByRun, FollowByConnect, FollowByList, FollowByClosing, FollowBySnapshot, FollowBySkip,
     FollowByEvent DEF Next, Follow

LEMMA FollowHolds == Spec => []FollowInv
BY FollowInit, FollowStep, PTL DEF Spec

(* Every variable keeps a legal value; above all, the page never has a      *)
(* cursor beyond the journal's end.                                         *)
THEOREM TypeCorrect == Spec => []TypeOK
<1>1. FollowInv => TypeOK
  BY DEF FollowInv
<1> QED
  BY <1>1, FollowHolds, PTL

(* No delta is lost, doubled or shown out of order, over every snapshot,    *)
(* poll and broken connection (consumeDurableResponse, its snapshot cursor). *)
THEOREM PrefixShown == Spec => []ShowsPrefix
<1>1. FollowInv => ShowsPrefix
  BY DEF FollowInv
<1> QED
  BY <1>1, FollowHolds, PTL

(* A page that has stopped following a run has shown all of it, its end     *)
(* included (consumeDurableResponse, agentSubscriptionResponse).            *)
THEOREM FinishedKnowsTheEnd == Spec => []FinishedTold
<1>1. FollowInv => FinishedTold
  BY DEF FollowInv
<1> QED
  BY <1>1, FollowHolds, PTL
=============================================================================
