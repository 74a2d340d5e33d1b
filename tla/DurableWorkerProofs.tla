------------------------- MODULE DurableWorkerProofs -------------------------
(***************************************************************************)
(* What a worker tells of one run, for every number of events and faults.  *)
(***************************************************************************)
EXTENDS DurableWorker, SequenceTheorems, TLAPS

Told == {"begin", "publish", "complete"}
Tells == Told \cup {"sayCancelled", "sayFailed"}
Waiting == Running \cup {"sayFailed", "resign"}
Idling == {"none", "ended", "cancelRun"}

TextEvents == [kind : {"text"}, n : Nat \ {0}]
OwnEvents == [kind : {"started", "artifact", "complete"}, n : Nat \ {0}]
             \cup [kind : {"cancelled", "failed"}, n : {0}]
Buffers == {<<>>} \cup {<<e>> : e \in TextEvents}
Batches == {<<e>> : e \in TextEvents} \cup {<<o>> : o \in OwnEvents}
           \cup {<<x[1], x[2]>> : x \in TextEvents \X OwnEvents}
Last(b) == b[Len(b)]

Stops == {"none", "cancelled", "stale_lease", "callback_failed"}
Flushes == {"none", "timer", "sending"}
Silences == {"none", "cancelLost", "failureLost"}
Phases == {"open", "finished", "failed", "cancelled"}
JobRows ==
  [token : Nat, cursor : Nat, batch : BOOLEAN, at : Places, stop : Stops,
   interrupt : BOOLEAN, pending : BOOLEAN, again : BOOLEAN,
   buffer : Buffers, flush : Flushes, renew : BOOLEAN, unsaid : Silences]
CallRows == [by : {"nobody", "task", "flush"}, queue : Seq(Batches), tries : 0..2, cut : BOOLEAN]
RunRows == [outcome : Ends \cup {"open"}, stopping : BOOLEAN, lease : Nat, live : BOOLEAN, cursor : Nat]
Rows == [kind : Kinds, n : Nat, token : Nat]
Requests == [token : Nat, first : Nat, batch : Seq(TextEvents \cup OwnEvents)]

------------------------------------------------------------------------------
(* The inductive invariant.                                                 *)

WorldInv ==
  /\ run \in RunRows /\ run.lease <= grants
  /\ run.live => run.outcome = "open" /\ run.lease # 0
  /\ journal \in Seq(Rows)
  /\ \A i \in DOMAIN journal :
       /\ journal[i].n <= made /\ journal[i].token <= grants
       /\ journal[i].kind = "cancel_requested" => journal[i].n = 0
  /\ phase \in Phases /\ late \in Requests
  /\ made \in Nat \ {0} /\ grants \in Nat \ {0} /\ forgiven \subseteq 1..made
  /\ faults \in Nat /\ faults <= MaxFaults

(* The task and its call.                                                   *)
JobInv ==
  /\ job \in JobRows /\ call \in CallRows
  /\ job.token <= grants /\ (Alive => job.token # 0)
  /\ call.by = "nobody" <=> call = NoCall
  /\ call.by = "flush" <=> job.flush = "sending"
  /\ call.by = "task" => job.at \in Tells \cup {"resign"}
  /\ call.cut => call.by = "task"
  /\ job.flush # "none" => job.at \in Waiting \cup {"closing"}
  /\ job.at = "none" => job = NoJob
  /\ call # NoCall => job.buffer = <<>>
  /\ job.at \in {"cancelRun", "sayCancelled", "direct", "closing", "ended"} => job.buffer = <<>>

(* The text that was made and not yet taken, buffered or in the call.       *)
Carries(text) ==
  /\ call.by = "nobody" => text = job.buffer
  /\ call.by = "flush" => text # <<>> /\ call.queue = <<text>>
  /\ call.by = "task" => call.queue # <<>> /\ call.queue = Outgoing(text)

(* The task has nothing more to say of the research.                        *)
Mute ==
  /\ call = NoCall /\ job.buffer = <<>>
  /\ job.at \in {"resign", "cancelRun", "sayCancelled", "direct", "closing"} \/ job.interrupt

(* Nothing is missing between the events m and n; or between the newest     *)
(* event of the current lease and n.                                        *)
Chained(m, n) == m < n /\ (m + 1)..(n - 1) \subseteq forgiven
Newest(i) == i \in DOMAIN journal /\ journal[i].n > 0 /\ \A m \in (i+1)..Len(journal) : journal[m].n = 0
Follows(n) == \A i \in DOMAIN journal : Newest(i) /\ journal[i].token = run.lease => Chained(journal[i].n, n)

(* Worker and NewsCraft are of one mind about the cursor.                   *)
Synced == HasLease(job.token) /\ run.cursor = job.cursor

(* The number of the event that comes after the text.                       *)
Upcoming ==
  IF job.at \in Told THEN {made} ELSE IF job.at = "work" THEN {made + 1} ELSE {}
InOrder(text) ==
  /\ text # <<>> => /\ text[1].n <= made
                    /\ \A n \in Upcoming : Chained(text[1].n, n)
                    /\ Synced => Follows(text[1].n)
  /\ text = <<>> /\ Synced => Mute \/ \A n \in Upcoming : Follows(n)
TextInv == Alive => \E text \in Buffers : Carries(text) /\ InOrder(text)
CursorInv == Alive /\ job.token = run.lease => job.cursor <= run.cursor

SavedAs(kind) ==
  /\ kind = "complete" => phase = "finished"
  /\ kind = "failed" => phase \in {"failed", "cancelled"}
  /\ kind = "cancelled" => phase # "open"
PhaseInv ==
  /\ job.at = "complete" => SavedAs("complete")
  /\ job.at = "sayFailed" => SavedAs("failed")
  /\ job.at = "sayCancelled" => SavedAs("cancelled")

(* A request that may be handled now or later.                              *)
GoodRequest(req) ==
  /\ req \in Requests /\ req.token # 0 /\ req.token <= grants /\ req.first # 0
  /\ req.batch \in Batches
  /\ \A i \in DOMAIN req.batch : req.batch[i].n <= made
  /\ req.token = run.lease => req.first <= run.cursor + 1
  /\ Len(req.batch) = 2 /\ req.batch[2].n > 0 => Chained(req.batch[1].n, req.batch[2].n)
  /\ HasLease(req.token) /\ req.first = run.cursor + 1 /\ req.batch[1].n > 0 => Follows(req.batch[1].n)
  /\ SavedAs(Last(req.batch).kind)
LateInv == late # NoRequest => GoodRequest(late)

(* What makes the task publish a cancellation, and what justifies it.       *)
Cancelling(j) ==
  j.stop = "cancelled" \/ j.again \/ j.at \in {"direct", "cancelRun", "sayCancelled"}
Asked == run.stopping \/ GaveUpWhatWasTaken
CauseInv == Asked \/ ~Cancelling(job)

(* What the next request repeats or will repeat; whether NewsCraft has      *)
(* taken it already.                                                        *)
Due ==
  IF call.by # "nobody" THEN Head(call.queue)
  ELSE IF job.at = "publish" /\ job.buffer = <<>> THEN Own ELSE <<>>
Handled(b) ==
  /\ run.cursor = job.cursor + Len(b)
  /\ Replays([token |-> job.token, first |-> job.cursor + 1, batch |-> b])
  /\ \E i \in DOMAIN journal : journal[i].n = b[1].n
SyncInv ==
  ~Asked /\ Alive /\ run.lease = job.token =>
    run.cursor = job.cursor \/ (Due # <<>> /\ Handled(Due)) \/ Mute
LateSync ==
  /\ ~Asked /\ Alive /\ late # NoRequest
  /\ late.token = run.lease /\ late.token = job.token /\ late.first = run.cursor + 1
  => \/ late.batch[1].n \in forgiven
     \/ Due # <<>> /\ late.batch = Due /\ run.cursor = job.cursor
     \/ Mute

TaskInv == JobInv /\ TextInv /\ CursorInv /\ PhaseInv /\ CauseInv /\ SyncInv /\ LateSync
RunInv == WorldInv /\ LateInv /\ TaskInv

------------------------------------------------------------------------------
(* How the task goes on.                                                    *)

SameCall(j, w) == w.token = j.token /\ w.cursor = j.cursor /\ w.batch = j.batch

(* The task has left the run, or is about to settle a cancellation.         *)
Rests(j, w) ==
  /\ w \in JobRows /\ w.at \in Idling
  /\ w.flush = "none" /\ w.buffer = <<>>
  /\ w.at = "none" => w = NoJob
  /\ w.at # "none" => SameCall(j, w)

(* It waits for the flush task.                                             *)
Waits(j, w) ==
  /\ w \in JobRows /\ w.at = "closing"
  /\ w.flush = "sending" /\ w.buffer = j.buffer
  /\ SameCall(j, w)

LEMMA NoJobRow == NoJob \in JobRows /\ NoJob.at = "none" /\ NoJob.flush = "none" /\ NoJob.buffer = <<>>
                  /\ ~Cancelling(NoJob)
BY DEF NoJob, Job, JobRows, Places, Running, Stops, Flushes, Silences, Buffers, Cancelling

LEMMA EndedRests ==
  ASSUME NEW j \in JobRows
  PROVE  Rests(j, Ended(j)) /\ (Cancelling(Ended(j)) => Cancelling(j)) /\ Ended(j).at # "cancelRun"
<1>1. CASE j.pending
  BY <1>1, NoJobRow DEF Ended, Rests, Idling
<1>2. CASE ~j.pending
  <2> DEFINE w == [j EXCEPT !.at = "ended", !.interrupt = FALSE, !.again = FALSE, !.buffer = <<>>,
                 !.flush = "none", !.renew = FALSE]
  <2>1. "ended" \in Places /\ <<>> \in Buffers /\ "none" \in Flushes
    BY DEF Places, Buffers, Flushes
  <2>2. w \in JobRows
    BY <2>1 DEF JobRows
  <2>3. w.at = "ended" /\ w.flush = "none" /\ w.buffer = <<>> /\ w.token = j.token /\ w.cursor = j.cursor
        /\ w.batch = j.batch /\ w.stop = j.stop /\ w.again = FALSE
    BY DEF JobRows
  <2>4. Ended(j) = w
    BY <1>2 DEF Ended
  <2> HIDE DEF w
  <2> QED
    BY <2>2, <2>3, <2>4 DEF Rests, Idling, SameCall, Cancelling
<1> QED
  BY <1>1, <1>2

LEMMA CloseGoesOn ==
  ASSUME NEW j \in JobRows
  PROVE  /\ IF j.flush = "sending" THEN Waits(j, Close(j)) ELSE Rests(j, Close(j))
         /\ Cancelling(Close(j)) => Cancelling(j)
         /\ Close(j).at # "cancelRun"
<1>1. CASE j.flush = "sending"
  <2> DEFINE w == [j EXCEPT !.at = "closing", !.interrupt = FALSE]
  <2>1. "closing" \in Places
    BY DEF Places
  <2>2. w \in JobRows
    BY <2>1 DEF JobRows
  <2>3. w.at = "closing" /\ w.flush = j.flush /\ w.buffer = j.buffer /\ w.token = j.token /\ w.cursor = j.cursor
        /\ w.batch = j.batch /\ w.stop = j.stop /\ w.again = j.again
    BY DEF JobRows
  <2>4. Close(j) = w
    BY <1>1 DEF Close
  <2> HIDE DEF w
  <2> QED
    BY <1>1, <2>2, <2>3, <2>4 DEF Waits, SameCall, Cancelling
<1>2. CASE j.flush # "sending"
  BY <1>2, EndedRests DEF Close
<1> QED
  BY <1>1, <1>2

LEMMA PublishCancelledGoesOn ==
  ASSUME NEW j \in JobRows
  PROVE  IF j.flush = "sending" THEN Waits(j, PublishCancelled(j)) ELSE Rests(j, PublishCancelled(j))
<1>1. CASE j.flush = "none"
  <2> DEFINE w == [j EXCEPT !.at = "cancelRun", !.pending = TRUE, !.buffer = <<>>]
  <2>1. "cancelRun" \in Places /\ <<>> \in Buffers
    BY DEF Places, Buffers
  <2>2. w \in JobRows
    BY <2>1 DEF JobRows
  <2>3. w.at = "cancelRun" /\ w.flush = j.flush /\ w.buffer = <<>> /\ w.token = j.token /\ w.cursor = j.cursor
        /\ w.batch = j.batch
    BY DEF JobRows
  <2>4. PublishCancelled(j) = w
    BY <1>1 DEF PublishCancelled
  <2> HIDE DEF w
  <2> QED
    BY <1>1, <2>2, <2>3, <2>4 DEF Rests, SameCall, Idling
<1>2. CASE j.flush # "none"
  <2> DEFINE u == [j EXCEPT !.unsaid = "cancelLost"]
  <2>1. u \in JobRows /\ u.flush = j.flush /\ u.buffer = j.buffer /\ SameCall(j, u)
    BY DEF JobRows, Silences, SameCall
  <2>2. PublishCancelled(j) = Close(u)
    BY <1>2 DEF PublishCancelled
  <2> HIDE DEF u
  <2> QED
    BY <2>1, <2>2, CloseGoesOn DEF Rests, Waits, SameCall
<1> QED
  BY <1>1, <1>2

LEMMA LeaveGoesOn ==
  ASSUME NEW j \in JobRows
  PROVE  /\ IF j.flush = "sending" THEN Waits(j, Leave(j)) ELSE Rests(j, Leave(j))
         /\ Cancelling(Leave(j)) => Cancelling(j)
<1>1. CASE j.flush = "sending" \/ j.stop # "cancelled"
  BY <1>1, CloseGoesOn DEF Leave
<1>2. CASE j.flush # "sending" /\ j.stop = "cancelled"
  <2> DEFINE u == [j EXCEPT !.renew = j.flush # "none", !.flush = "none", !.unsaid = "none"]
  <2>1. u \in JobRows /\ u.flush = "none" /\ SameCall(j, u)
    BY DEF JobRows, Silences, Flushes, SameCall
  <2>2. Leave(j) = PublishCancelled(u)
    BY <1>2 DEF Leave
  <2> HIDE DEF u
  <2>3. Rests(u, PublishCancelled(u))
    BY <2>1, PublishCancelledGoesOn
  <2> QED
    BY <1>2, <2>1, <2>2, <2>3 DEF Rests, SameCall, Cancelling
<1> QED
  BY <1>1, <1>2

LEMMA LeaveStoppedRests ==
  ASSUME NEW j \in JobRows
  PROVE  /\ Rests(j, LeaveStopped(j))
         /\ Cancelling(LeaveStopped(j)) => Cancelling(j)
<1>1. CASE j.unsaid = "cancelLost"
  BY <1>1, EndedRests DEF LeaveStopped
<1>2. CASE j.unsaid # "cancelLost"
  <2> DEFINE u == [j EXCEPT !.flush = "timer"]
  <2>1. u \in JobRows /\ u.flush = "timer" /\ SameCall(j, u) /\ u.stop = j.stop /\ u.again = j.again /\ u.at = j.at
    BY DEF JobRows, Flushes, SameCall
  <2>2. LeaveStopped(j) = Leave(u)
    BY <1>2 DEF LeaveStopped
  <2> HIDE DEF u
  <2>3. Rests(u, Leave(u)) /\ (Cancelling(Leave(u)) => Cancelling(u))
    BY <2>1, LeaveGoesOn
  <2> QED
    BY <2>1, <2>2, <2>3 DEF Rests, SameCall, Cancelling
<1> QED
  BY <1>1, <1>2

(* CancelledError arrives at the task: it rests, unless it must wait for    *)
(* the flush task.                                                          *)
LEMMA RaiseGoesOn ==
  ASSUME NEW j \in JobRows, j.at # "none"
  PROVE  /\ j.flush = "sending" /\ j.at \in Waiting => Waits(j, Raise(j))
         /\ j.flush # "sending" \/ j.at = "closing" => Rests(j, Raise(j))
         /\ Cancelling(Raise(j)) => Cancelling(j)
<1> DEFINE u == [j EXCEPT !.interrupt = FALSE]
<1>1. /\ u \in JobRows /\ SameCall(j, u) /\ u.flush = j.flush /\ u.at = j.at /\ u.buffer = j.buffer
      /\ Cancelling(u) <=> Cancelling(j)
      /\ u.stop = j.stop /\ u.again = j.again
  <2>1. u \in JobRows /\ u.flush = j.flush /\ u.at = j.at /\ u.buffer = j.buffer /\ u.stop = j.stop /\ u.again = j.again
    BY DEF JobRows
  <2>2. SameCall(j, u)
    BY DEF JobRows, SameCall
  <2> HIDE DEF u
  <2> QED
    BY <2>1, <2>2 DEF Cancelling
<1>2. CASE u.at \in Running /\ u.stop = "cancelled"
  <2>1. Raise(j) = PublishCancelled(u)
    BY <1>2 DEF Raise, Running
  <2> HIDE DEF u
  <2> QED
    BY <1>1, <1>2, <2>1, PublishCancelledGoesOn DEF Rests, Waits, SameCall, Running, Waiting, Cancelling
<1>3. CASE u.at \in Running /\ u.stop # "cancelled"
  <2> DEFINE x == [u EXCEPT !.pending = TRUE]
  <2>1. x \in JobRows /\ x.flush = u.flush /\ x.at = u.at /\ x.buffer = u.buffer /\ x.stop = u.stop /\ x.again = u.again
    BY <1>1 DEF JobRows
  <2>2. SameCall(u, x)
    BY <1>1 DEF JobRows, SameCall
  <2>3. Raise(j) = Close(x)
    BY <1>3 DEF Raise, Running
  <2> HIDE DEF u, x
  <2>4. IF x.flush = "sending" THEN Waits(x, Close(x)) ELSE Rests(x, Close(x))
    BY <2>1, CloseGoesOn
  <2>5. Cancelling(Close(x)) => Cancelling(x)
    BY <2>1, CloseGoesOn
  <2> QED
    BY <1>1, <1>3, <2>1, <2>2, <2>3, <2>4, <2>5 DEF Rests, Waits, SameCall, Running, Waiting, Cancelling
<1>4. CASE u.at = "sayFailed"
  <2> DEFINE x == [u EXCEPT !.unsaid = "failureLost"]
  <2>1. x \in JobRows /\ x.flush = u.flush /\ x.at = u.at /\ x.buffer = u.buffer /\ x.stop = u.stop /\ x.again = u.again
    BY <1>1 DEF JobRows, Silences
  <2>2. SameCall(u, x)
    BY <1>1 DEF JobRows, SameCall
  <2>3. Raise(j) = Leave(x)
    BY <1>4 DEF Raise, Running
  <2> HIDE DEF u, x
  <2>4. IF x.flush = "sending" THEN Waits(x, Leave(x)) ELSE Rests(x, Leave(x))
    BY <2>1, LeaveGoesOn
  <2>5. Cancelling(Leave(x)) => Cancelling(x)
    BY <2>1, LeaveGoesOn
  <2> QED
    BY <1>1, <1>4, <2>1, <2>2, <2>3, <2>4, <2>5 DEF Rests, Waits, SameCall, Waiting, Cancelling
<1>5. CASE u.at = "resign"
  <2>1. Raise(j) = Leave(u)
    BY <1>5 DEF Raise, Running
  <2> HIDE DEF u
  <2>2. IF u.flush = "sending" THEN Waits(u, Leave(u)) ELSE Rests(u, Leave(u))
    BY <1>1, LeaveGoesOn
  <2>3. Cancelling(Leave(u)) => Cancelling(u)
    BY <1>1, LeaveGoesOn
  <2> QED
    BY <1>1, <1>5, <2>1, <2>2, <2>3 DEF Rests, Waits, SameCall, Waiting, Cancelling
<1>6. CASE u.at = "closing"
  <2>1. Raise(j) = LeaveStopped(u)
    BY <1>6 DEF Raise, Running
  <2> HIDE DEF u
  <2>2. Rests(u, LeaveStopped(u)) /\ (Cancelling(LeaveStopped(u)) => Cancelling(u))
    BY <1>1, LeaveStoppedRests
  <2> QED
    BY <1>1, <1>6, <2>1, <2>2 DEF Rests, SameCall, Waiting, Running, Cancelling
<1>7. CASE u.at \notin Waiting \cup {"closing"} /\ u.again
  <2> DEFINE x == [u EXCEPT !.again = FALSE]
  <2>1. x \in JobRows /\ x.flush = u.flush
    BY <1>1 DEF JobRows
  <2>2. SameCall(u, x)
    BY <1>1 DEF JobRows, SameCall
  <2>3. Raise(j) = PublishCancelled(x)
    BY <1>7 DEF Raise, Running, Waiting
  <2> HIDE DEF u, x
  <2>4. IF x.flush = "sending" THEN Waits(x, PublishCancelled(x)) ELSE Rests(x, PublishCancelled(x))
    BY <2>1, PublishCancelledGoesOn
  <2> QED
    BY <1>1, <1>7, <2>1, <2>2, <2>3, <2>4 DEF Rests, Waits, SameCall, Waiting, Cancelling
<1>8. CASE u.at \notin Waiting \cup {"closing"} /\ ~u.again
  <2>1. Raise(j) = Ended(u)
    BY <1>8 DEF Raise, Running, Waiting
  <2> HIDE DEF u
  <2>2. Rests(u, Ended(u)) /\ (Cancelling(Ended(u)) => Cancelling(u))
    BY <1>1, EndedRests
  <2> QED
    BY <1>1, <1>8, <2>1, <2>2 DEF Rests, SameCall, Waiting, Cancelling
<1> QED
  <2> HIDE DEF u
  <2> QED
    BY <1>2, <1>3, <1>4, <1>5, <1>6, <1>7, <1>8 DEF Waiting

------------------------------------------------------------------------------
(* What a call carries.                                                     *)

LEMMA BatchForm ==
  ASSUME NEW b \in Batches
  PROVE  /\ b \in Seq(TextEvents \cup OwnEvents)
         /\ Len(b) \in {1, 2} /\ DOMAIN b = 1..Len(b) /\ b # <<>>
         /\ Len(b) = 1 => b[1] \in TextEvents \cup OwnEvents
         /\ Len(b) = 2 => b[1] \in TextEvents /\ b[2] \in OwnEvents
<1>1. CASE \E e \in TextEvents \cup OwnEvents : b = <<e>>
  <2>1. PICK e \in TextEvents \cup OwnEvents : b = <<e>>
    BY <1>1
  <2> QED
    BY <2>1
<1>2. CASE \E e \in TextEvents, o \in OwnEvents : b = <<e, o>>
  <2>1. PICK e \in TextEvents, o \in OwnEvents : b = <<e, o>>
    BY <1>2
  <2> QED
    BY <2>1
<1> QED
  BY <1>1, <1>2 DEF Batches

LEMMA EventForm ==
  ASSUME NEW e \in TextEvents \cup OwnEvents
  PROVE  /\ e.kind \in Kinds \ {"cancel_requested"} /\ e.n \in Nat
         /\ Event(e.kind, e.n) = e
         /\ e \in TextEvents <=> e.kind = "text"
         /\ e.n = 0 <=> e.kind \in {"cancelled", "failed"}
<1>1. CASE e \in TextEvents
  BY <1>1 DEF TextEvents, OwnEvents, Kinds, Ends, Event
<1>2. CASE e \in [kind : {"started", "artifact", "complete"}, n : Nat \ {0}]
  BY <1>2 DEF TextEvents, OwnEvents, Kinds, Ends, Event
<1>3. CASE e \in [kind : {"cancelled", "failed"}, n : {0}]
  BY <1>3 DEF TextEvents, OwnEvents, Kinds, Ends, Event
<1> QED
  BY <1>1, <1>2, <1>3 DEF OwnEvents

LEMMA OwnForm ==
  ASSUME made \in Nat \ {0}, job.at \in Tells
  PROVE  /\ Own = <<Own[1]>> /\ Own[1] \in OwnEvents /\ Own \in Batches
         /\ job.at \in Told => Own[1].n = made
         /\ job.at \in {"sayCancelled", "sayFailed"} => Own[1].n = 0
         /\ Own[1].kind = Kind
<1> DEFINE o == Event(Kind, IF job.at \in {"sayCancelled", "sayFailed"} THEN 0 ELSE made)
<1>1. /\ o \in OwnEvents /\ o.kind = Kind
      /\ job.at \in Told => o.n = made
      /\ job.at \in {"sayCancelled", "sayFailed"} => o.n = 0
  BY DEF Tells, Told, Kind, Event, OwnEvents
<1>2. Own = <<o>>
  BY DEF Own
<1> HIDE DEF o
<1> QED
  BY <1>1, <1>2 DEF Batches

(* Sequences of one or two.                                                 *)
LEMMA One ==
  ASSUME NEW S, NEW a \in S
  PROVE  /\ <<a>> \in Seq(S) /\ <<a>> # <<>> /\ Len(<<a>>) = 1 /\ <<a>>[1] = a
         /\ Head(<<a>>) = a /\ Tail(<<a>>) = <<>> /\ Append(<<>>, a) = <<a>>
<1>1. <<a>> \in Seq(S) /\ <<a>> # <<>> /\ Len(<<a>>) = 1 /\ <<a>>[1] = a
  OBVIOUS
<1>2. Head(<<a>>) = a /\ Append(<<>>, a) = <<a>>
  OBVIOUS
<1>3. Tail(<<a>>) = <<>>
  OBVIOUS
<1> QED
  BY <1>1, <1>2, <1>3

LEMMA Two ==
  ASSUME NEW S, NEW a \in S, NEW b \in S
  PROVE  /\ <<a, b>> \in Seq(S) /\ <<a, b>> # <<>> /\ Len(<<a, b>>) = 2 /\ <<a, b>>[1] = a /\ <<a, b>>[2] = b
         /\ Head(<<a, b>>) = a /\ Tail(<<a, b>>) = <<b>> /\ Append(<<a>>, b) = <<a, b>>
<1>1. <<a, b>> \in Seq(S) /\ <<a, b>> # <<>> /\ Len(<<a, b>>) = 2 /\ <<a, b>>[1] = a /\ <<a, b>>[2] = b
  OBVIOUS
<1>2. Head(<<a, b>>) = a
  OBVIOUS
<1>3. Tail(<<a, b>>) = <<b>>
  OBVIOUS
<1>4. Append(<<a>>, b) = <<a, b>>
  <2>1. <<a>> \in Seq(S) /\ Len(<<a>>) = 1 /\ <<a>>[1] = a
    OBVIOUS
  <2> DEFINE s == <<a>> t == <<a, b>>
  <2>2. Append(s, b) \in Seq(S) /\ Len(Append(s, b)) = 2 /\ Append(s, b)[1] = a /\ Append(s, b)[2] = b
    <3> HIDE DEF s
    <3> QED
      BY <2>1, AppendProperties DEF s
  <2>3. t \in Seq(S) /\ Len(t) = 2 /\ t[1] = a /\ t[2] = b
    BY <1>1
  <2> HIDE DEF s, t
  <2>4. \A i \in 1..2 : Append(s, b)[i] = t[i]
    BY <2>2, <2>3
  <2>5. Append(s, b) = t
    BY <2>2, <2>3, <2>4, SeqEqual
  <2> QED
    BY <2>5 DEF s, t
<1> QED
  BY <1>1, <1>2, <1>3, <1>4

LEMMA Joined ==
  ASSUME NEW S, NEW a \in S, NEW b \in S
  PROVE  <<a>> \o <<b>> = <<a, b>> /\ <<>> \o <<b>> = <<b>>
<1>1. <<a>> \o <<b>> = <<a, b>>
  <2> DEFINE s == <<a>> t == <<b>>
  <2>1. s \in Seq(S)
    BY One
  <2> HIDE DEF s
  <2>2. Append(s, b) = s \o t
    BY <2>1, AppendIsConcat
  <2> QED
    BY <2>2, Two DEF s
<1>2. <<>> \o <<b>> = <<b>>
  <2> DEFINE t == <<b>>
  <2>1. t \in Seq(S)
    BY One
  <2> HIDE DEF t
  <2>2. <<>> \o t = t
    BY <2>1, ConcatEmptySeq
  <2> QED
    BY <2>2 DEF t
<1> QED
  BY <1>1, <1>2

(* The batches of a call, and the text among them.                          *)
LEMMA BufferForm ==
  ASSUME NEW text \in Buffers, text # <<>>
  PROVE  text \in Batches /\ text = <<text[1]>> /\ text[1] \in TextEvents /\ Len(text) = 1
<1>1. PICK e \in TextEvents : text = <<e>>
  BY DEF Buffers
<1> QED
  BY <1>1 DEF Batches

LEMMA TextOwn ==
  ASSUME NEW text \in Buffers, text # <<>>, made \in Nat \ {0}, job.at \in Tells
  PROVE  text \o Own = <<text[1], Own[1]>> /\ text \o Own \in Batches
<1> DEFINE e == text[1] o == Own[1] t == text own == Own
<1>1. /\ t = <<e>> /\ own = <<o>> /\ e \in TextEvents /\ o \in OwnEvents
  BY BufferForm, OwnForm
<1> HIDE DEF e, o, t, own
<1>2. t \o own = <<e, o>>
  BY <1>1, Joined, e \in TextEvents \cup OwnEvents, o \in TextEvents \cup OwnEvents
<1>3. <<e, o>> \in Batches
  <2>1. <<e, o>> \in TextEvents \X OwnEvents /\ <<e, o>>[1] = e /\ <<e, o>>[2] = o
    BY <1>1
  <2> QED
    BY <2>1 DEF Batches
<1> QED
  BY <1>2, <1>3 DEF e, o, t, own

LEMMA OutgoingForm ==
  ASSUME NEW text \in Buffers, made \in Nat \ {0}, job.at \in Tells \cup {"resign"}
  PROVE  /\ job.at = "resign" /\ text = <<>> => Outgoing(text) = <<>>
         /\ job.at = "resign" /\ text # <<>> => Outgoing(text) = <<text>>
         /\ job.at # "resign" /\ text = <<>> => Outgoing(text) = <<Own>>
         /\ job.at # "resign" /\ text # <<>> =>
              Outgoing(text) = IF job.batch /\ job.at # "publish" THEN <<text \o Own>> ELSE <<text, Own>>
<1>1. CASE job.at = "resign"
  BY <1>1 DEF Outgoing, Tells, Told
<1>2. CASE job.at # "resign" /\ text = <<>>
  <2> DEFINE own == Own
  <2>1. own = <<Own[1]>> /\ Own[1] \in OwnEvents /\ own \in Batches
    BY <1>2, OwnForm
  <2> HIDE DEF own
  <2>2. <<>> \o own = own /\ Append(<<>>, own) = <<own>>
    BY <2>1, One, Joined
  <2> QED
    BY <1>2, <2>2 DEF Outgoing, own
<1>3. CASE job.at # "resign" /\ text # <<>>
  <2> DEFINE own == Own
  <2>1. own \in Batches /\ text \in Batches
    <3>1. job.at \in Tells
      BY <1>3
    <3> QED
      BY <1>3, <3>1, OwnForm, BufferForm
  <2> HIDE DEF own
  <2>2. Append(<<text>>, own) = <<text, own>>
    BY ONLY <2>1, Two, Zenon
  <2> QED
    BY <1>3, <2>2 DEF Outgoing, own
<1> QED
  BY <1>1, <1>2, <1>3

LEMMA OutgoingBatches ==
  ASSUME NEW text \in Buffers, made \in Nat \ {0}, job.at \in Tells \cup {"resign"}
  PROVE  /\ Outgoing(text) \in Seq(Batches)
         /\ Outgoing(text) = <<>> <=> job.at = "resign" /\ text = <<>>
<1> DEFINE own == Own both == text \o Own
<1>1. job.at # "resign" => own \in Batches
  BY OwnForm
<1>2. text # <<>> => text \in Batches
  BY BufferForm
<1>3. job.at # "resign" /\ text # <<>> => both \in Batches
  BY TextOwn
<1> HIDE DEF own, both
<1>4. <<>> \in Seq(Batches)
  OBVIOUS
<1>5. text # <<>> => <<text>> \in Seq(Batches) /\ <<text>> # <<>>
  BY <1>2, One
<1>6. job.at # "resign" => <<own>> \in Seq(Batches) /\ <<own>> # <<>>
  BY <1>1, One
<1>7. job.at # "resign" /\ text # <<>> => <<both>> \in Seq(Batches) /\ <<both>> # <<>>
  BY <1>3, One
<1>8. job.at # "resign" /\ text # <<>> => <<text, own>> \in Seq(Batches) /\ <<text, own>> # <<>>
  BY <1>1, <1>2, Two
<1> QED
  BY <1>4, <1>5, <1>6, <1>7, <1>8, OutgoingForm DEF own, both

(* The request under way.                                                   *)
HeadShape(b, text) ==
  /\ b \in Batches /\ call.queue # <<>> /\ call.by # "nobody"
  /\ text # <<>> => b[1] = text[1]
  /\ text = <<>> => b = Own /\ call.by = "task" /\ job.at \in Tells
  /\ Len(b) = 2 => text # <<>> /\ job.at \in Tells /\ call.by = "task" /\ b[2] = Own[1]
  /\ \/ Last(b) = text[1] /\ text # <<>>
     \/ job.at \in Tells /\ call.by = "task" /\ Last(b) = Own[1]
  /\ Tail(call.queue) # <<>> =>
       /\ call.by = "task" /\ job.at \in Tells /\ text # <<>>
       /\ call.queue = <<text, Own>> /\ b = text /\ Tail(call.queue) = <<Own>>
  /\ Tail(call.queue) = <<>> /\ call.by = "task" /\ job.at \in Tells => Last(b) = Own[1]
  /\ call.by = "flush" => b = text

LEMMA HeadForm ==
  ASSUME JobInv, made \in Nat \ {0}, call # NoCall, NEW text \in Buffers, Carries(text)
  PROVE  HeadShape(Head(call.queue), text)
<1> DEFINE own == Own both == text \o Own q == call.queue by == call.by at == job.at
<1>1. /\ by \in {"task", "flush"}
      /\ by = "flush" => text # <<>> /\ q = <<text>>
      /\ by = "task" => q # <<>> /\ q = Outgoing(text) /\ at \in Tells \cup {"resign"}
  BY DEF JobInv, Carries, CallRows
<1>2. text # <<>> => text \in Batches /\ text = <<text[1]>> /\ Len(text) = 1
  BY BufferForm
<1>3. at \in Tells => own \in Batches /\ own = <<own[1]>>
  BY OwnForm
<1>4. at \in Tells /\ text # <<>> => both \in Batches /\ both = <<text[1], own[1]>>
  BY TextOwn
<1>5. \/ q = <<text>> /\ text # <<>> /\ (by = "flush" \/ at = "resign")
      \/ q = <<own>> /\ text = <<>> /\ by = "task" /\ at \in Tells
      \/ q = <<both>> /\ text # <<>> /\ by = "task" /\ at \in Tells
      \/ q = <<text, own>> /\ text # <<>> /\ by = "task" /\ at \in Tells
  <2>1. CASE by = "flush"
    BY <1>1, <2>1
  <2>2. CASE by = "task"
    <3>1. /\ at = "resign" /\ text = <<>> => q = <<>>
          /\ at = "resign" /\ text # <<>> => q = <<text>>
          /\ at # "resign" /\ text = <<>> => q = <<own>>
          /\ at # "resign" /\ text # <<>> => q = <<both>> \/ q = <<text, own>>
      BY <1>1, <2>2, OutgoingForm
    <3> QED
      BY <1>1, <2>2, <3>1
  <2> QED
    BY <1>1, <2>1, <2>2
<1>6. ~("resign" \in Tells) 
  BY DEF Tells, Told
<1> HIDE DEF own, both, q, by, at
<1>7. CASE q = <<text>> /\ text # <<>> /\ (by = "flush" \/ at = "resign")
  <2>1. Head(q) = text /\ Tail(q) = <<>>
    BY <1>2, <1>7, One
  <2>2. Last(text) = text[1]
    BY <1>2, <1>7 DEF Last
  <2> QED
    BY <1>1, <1>2, <1>6, <1>7, <2>1, <2>2 DEF HeadShape, q, by, at
<1>8. CASE q = <<own>> /\ text = <<>> /\ by = "task" /\ at \in Tells
  <2>1. Head(q) = own /\ Tail(q) = <<>>
    BY <1>3, <1>8, One
  <2>2. Last(own) = own[1] /\ Len(own) = 1
    BY <1>3, <1>8 DEF Last
  <2> QED
    BY <1>1, <1>3, <1>8, <2>1, <2>2 DEF HeadShape, q, by, at, own
<1>9. CASE q = <<both>> /\ text # <<>> /\ by = "task" /\ at \in Tells
  <2>1. Head(q) = both /\ Tail(q) = <<>>
    BY <1>4, <1>9, One
  <2>2. Last(both) = own[1] /\ both[1] = text[1] /\ both[2] = own[1] /\ Len(both) = 2
    <3> DEFINE e == text[1] o == own[1]
    <3>1. both = <<e, o>>
      BY <1>4, <1>9
    <3> HIDE DEF e, o
    <3>2. Len(<<e, o>>) = 2 /\ <<e, o>>[1] = e /\ <<e, o>>[2] = o
      OBVIOUS
    <3> QED
      BY <3>1, <3>2 DEF Last, e, o
  <2> QED
    BY <1>1, <1>4, <1>9, <2>1, <2>2 DEF HeadShape, q, by, at, own
<1>10. CASE q = <<text, own>> /\ text # <<>> /\ by = "task" /\ at \in Tells
  <2>1. Head(q) = text /\ Tail(q) = <<own>>
    BY ONLY <1>2, <1>3, <1>10, Two, Zenon
  <2>2. Last(text) = text[1] /\ <<own>> # <<>>
    BY <1>2, <1>10 DEF Last
  <2> QED
    BY <1>1, <1>2, <1>10, <2>1, <2>2 DEF HeadShape, q, by, at, own
<1> QED
  BY <1>5, <1>7, <1>8, <1>9, <1>10 DEF q

------------------------------------------------------------------------------
(* NewsCraft's side.                                                        *)

LEMMA CallAlive ==
  ASSUME JobInv, call # NoCall
  PROVE  /\ Alive /\ call.by \in {"task", "flush"} /\ job.buffer = <<>> /\ ~Mute
         /\ job.at \in Waiting \cup {"closing", "sayCancelled"}
BY DEF JobInv, Alive, CallRows, Waiting, Tells, Told, Running, Mute

LEMMA RequestGood ==
  ASSUME RunInv, call # NoCall
  PROVE  GoodRequest(Request) /\ Request \in Requests
<1> DEFINE req == Request b == Head(call.queue)
<1>1. Alive /\ ~Mute /\ made \in Nat \ {0} /\ JobInv /\ WorldInv
  BY CallAlive DEF RunInv, TaskInv, WorldInv
<1>2. PICK text \in Buffers : Carries(text) /\ InOrder(text)
  BY <1>1 DEF RunInv, TaskInv, TextInv
<1>3. HeadShape(b, text)
  BY <1>1, <1>2, HeadForm
<1>4. b \in Batches /\ b \in Seq(TextEvents \cup OwnEvents) /\ Len(b) \in {1, 2} /\ DOMAIN b = 1..Len(b)
  BY <1>3, BatchForm DEF HeadShape
<1>5. req.token = job.token /\ req.first = job.cursor + 1 /\ req.batch = b
  BY DEF Request
<1>6. job.token \in Nat /\ job.cursor \in Nat
  BY <1>1 DEF JobInv, JobRows
<1>7. req \in Requests
  <2>1. req = [token |-> job.token, first |-> job.cursor + 1, batch |-> b]
    BY DEF Request
  <2> HIDE DEF req, b
  <2> QED
    BY <1>4, <1>6, <2>1 DEF Requests
<1>8. job.at \in Tells =>
        /\ Own[1].kind = Kind /\ Own[1].n \in 0..made
        /\ Own[1].n > 0 => job.at \in Told /\ Own[1].n = made /\ made \in Upcoming
        /\ Len(Own) = 1
  BY <1>1, OwnForm DEF Tells, Upcoming
<1>9. text # <<>> => text[1].n \in Nat /\ text[1].kind = "text"
  BY BufferForm DEF TextEvents
<1> HIDE DEF req, b
<1>10. \A i \in DOMAIN b : b[i].n <= made
  BY <1>1, <1>2, <1>3, <1>4, <1>8, <1>9 DEF HeadShape, InOrder
<1>11. Len(b) = 2 /\ b[2].n > 0 => Chained(b[1].n, b[2].n)
  BY <1>2, <1>3, <1>8, <1>9 DEF HeadShape, InOrder
<1>12. HasLease(job.token) /\ job.cursor + 1 = run.cursor + 1 /\ b[1].n > 0 => Follows(b[1].n)
  <2> HAVE HasLease(job.token) /\ job.cursor + 1 = run.cursor + 1 /\ b[1].n > 0
  <2>1. Synced
    BY <1>1, <1>6 DEF Synced, WorldInv, RunRows
  <2>2. CASE text # <<>>
    BY <1>2, <1>3, <2>1, <2>2 DEF HeadShape, InOrder
  <2>3. CASE text = <<>>
    BY <1>1, <1>2, <1>3, <1>8, <2>1, <2>3 DEF HeadShape, InOrder
  <2> QED
    BY <2>2, <2>3
<1>13. SavedAs(Last(b).kind)
  <2>1. CASE Last(b) = text[1] /\ text # <<>>
    BY <1>9, <2>1 DEF SavedAs
  <2>2. CASE job.at \in Tells /\ Last(b) = Own[1]
    BY <1>8, <2>2 DEF SavedAs, Kind, RunInv, TaskInv, PhaseInv, Tells, Told
  <2> QED
    BY <1>3, <2>1, <2>2 DEF HeadShape
<1>14. job.token # 0 /\ job.token <= grants
  BY <1>1 DEF JobInv
<1>15. job.token = run.lease => job.cursor + 1 <= run.cursor + 1
  BY <1>1, <1>6 DEF RunInv, TaskInv, CursorInv, WorldInv, RunRows
<1>16. job.cursor + 1 # 0
  BY <1>6
<1>17. GoodRequest(req)
  BY <1>4, <1>5, <1>7, <1>10, <1>11, <1>12, <1>13, <1>14, <1>15, <1>16 DEF GoodRequest
<1> QED
  BY <1>7, <1>17 DEF req

(* A request that is taken.                                                 *)
NewRows(req) ==
  [i \in DOMAIN req.batch |->
     [kind |-> req.batch[i].kind, n |-> req.batch[i].n, token |-> req.token]]
Taken(req) ==
  /\ HasLease(req.token) /\ req.first = run.cursor + 1
  /\ run.stopping => \A i \in DOMAIN req.batch : req.batch[i].kind = "cancelled"
  /\ journal' = journal \o NewRows(req)
  /\ run' \in RunRows /\ run'.lease = run.lease /\ run'.stopping = run.stopping
  /\ run'.cursor = run.cursor + Len(req.batch)
  /\ IF Last(req.batch).kind \in Ends THEN run'.outcome = Last(req.batch).kind /\ ~run'.live
     ELSE run'.outcome = "open" /\ run'.live
  /\ phase' = phase

Answers(req, verdict) ==
  /\ verdict \in {"accepted", "replayed", "stale_callback", "stale_lease"}
  /\ verdict = "accepted" =>
       /\ HasLease(req.token) /\ req.first = run.cursor + 1
       /\ run.stopping => \A i \in DOMAIN req.batch : req.batch[i].kind = "cancelled"
  /\ verdict = "replayed" =>
       run.lease = req.token /\ req.first + Len(req.batch) - 1 = run.cursor /\ Replays(req)
  /\ verdict = "stale_callback" =>
       /\ run.lease = req.token
       /\ (req.first + Len(req.batch) - 1 = run.cursor) => ~Replays(req)
       /\ req.first = run.cursor + 1 => run.stopping
  /\ verdict = "stale_lease" /\ run.lease = req.token =>
       ~run.live /\ req.first + Len(req.batch) - 1 # run.cursor

LEMMA VerdictForm ==
  ASSUME WorldInv, NEW req \in Requests, req.batch \in Batches
  PROVE  Answers(req, Verdict(req))
<1> DEFINE k == Len(req.batch) c == run.cursor
<1>1. k \in {1, 2} /\ c \in Nat /\ req.first \in Nat
  BY BatchForm DEF WorldInv, RunRows, Requests
<1> HIDE DEF k
<1>2. run.live => run.outcome = "open"
  BY DEF WorldInv
<1>3. Admits(req) <=> (run.stopping => \A i \in DOMAIN req.batch : req.batch[i].kind = "cancelled") /\ req.first = run.cursor + 1
  BY DEF Admits
<1>4. req.first + k - 1 = c => req.first # c + 1
  BY <1>1
<1> DEFINE seen == req.first + k - 1 = c
<1>5. Verdict(req) = IF run.lease # req.token \/ (~seen /\ ~run.live) THEN "stale_lease"
                     ELSE IF seen THEN (IF Replays(req) THEN "replayed" ELSE "stale_callback")
                     ELSE IF Admits(req) THEN "accepted" ELSE "stale_callback"
  BY DEF Verdict, k
<1> QED
  BY <1>2, <1>3, <1>4, <1>5 DEF Answers, HasLease, k

LEMMA HandleForm ==
  ASSUME WorldInv, NEW req, GoodRequest(req), Handle(req)
  PROVE  \/ Verdict(req) = "accepted" /\ Taken(req)
         \/ Verdict(req) # "accepted" /\ UNCHANGED remote
<1>1. req \in Requests /\ req.batch \in Batches
  BY DEF GoodRequest
<1>2. Answers(req, Verdict(req))
  BY <1>1, VerdictForm
<1>3. CASE Verdict(req) # "accepted"
  BY <1>3 DEF Handle
<1>4. CASE Verdict(req) = "accepted"
  <2> DEFINE k == Len(req.batch) end == req.batch[Len(req.batch)].kind
             next == [run EXCEPT !.cursor = @ + Len(req.batch)]
             over == [next EXCEPT !.outcome = end, !.live = FALSE]
  <2>1. /\ journal' = journal \o NewRows(req)
        /\ run' = IF end \in Ends THEN over ELSE next
        /\ phase' = phase
    BY <1>4 DEF Handle, NewRows, remote
  <2>2. k \in Nat /\ end = Last(req.batch).kind
    BY <1>1, BatchForm DEF Last
  <2>3. run \in RunRows /\ (run.live => run.outcome = "open")
    BY DEF WorldInv
  <2>4. /\ next \in RunRows /\ next.lease = run.lease /\ next.stopping = run.stopping
        /\ next.cursor = run.cursor + k /\ next.outcome = run.outcome /\ next.live = run.live
    <3> HIDE DEF end
    <3> QED
      BY <2>2, <2>3 DEF RunRows
  <2>5. end \in Ends => /\ over \in RunRows /\ over.lease = run.lease /\ over.stopping = run.stopping
                        /\ over.cursor = run.cursor + k /\ over.outcome = end /\ ~over.live
    <3> HIDE DEF end, next
    <3> QED
      BY <2>2, <2>4 DEF RunRows
  <2>6. HasLease(req.token) /\ req.first = run.cursor + 1 /\ run.live /\ run.outcome = "open"
        /\ (run.stopping => \A i \in DOMAIN req.batch : req.batch[i].kind = "cancelled")
    BY <1>2, <1>4 DEF Answers, HasLease
  <2> HIDE DEF next, over, end, k
  <2> QED
    BY <1>4, <2>1, <2>2, <2>4, <2>5, <2>6 DEF Taken, k
<1> QED
  BY <1>3, <1>4

(* What becomes of the journal.                                             *)
Grows(req) ==
  LET n == Len(journal) k == Len(req.batch) IN
  /\ n \in Nat /\ k \in {1, 2} /\ DOMAIN req.batch = 1..k
  /\ DOMAIN journal = 1..n /\ DOMAIN journal' = 1..(n + k)
  /\ journal' \in Seq(Rows) /\ Len(journal') = n + k
  /\ \A i \in 1..n : journal'[i] = journal[i]
  /\ \A j \in 1..k : /\ journal'[n + j].kind = req.batch[j].kind
                     /\ journal'[n + j].n = req.batch[j].n
                     /\ journal'[n + j].token = req.token
                     /\ req.batch[j].kind # "cancel_requested" /\ req.batch[j].n \in Nat
                     /\ Event(req.batch[j].kind, req.batch[j].n) = req.batch[j]

LEMMA TakenGrows ==
  ASSUME WorldInv, NEW req \in Requests, req.batch \in Batches, Taken(req)
  PROVE  Grows(req)
<1> DEFINE n == Len(journal) b == req.batch k == Len(b) new == NewRows(req)
<1>1. /\ b \in Seq(TextEvents \cup OwnEvents) /\ k \in {1, 2} /\ DOMAIN b = 1..k
  BY BatchForm
<1>2. journal \in Seq(Rows) /\ n \in Nat /\ DOMAIN journal = 1..n
  BY DEF WorldInv
<1>3. \A j \in 1..k : /\ b[j] \in TextEvents \cup OwnEvents
                      /\ b[j].kind \in Kinds \ {"cancel_requested"} /\ b[j].n \in Nat
                      /\ Event(b[j].kind, b[j].n) = b[j]
  BY <1>1, EventForm
<1>4. req.token \in Nat
  BY DEF Requests
<1>5. /\ new \in Seq(Rows) /\ Len(new) = k
      /\ \A j \in 1..k : new[j].kind = b[j].kind /\ new[j].n = b[j].n /\ new[j].token = req.token
  <2>1. new = [i \in 1..k |-> [kind |-> b[i].kind, n |-> b[i].n, token |-> req.token]]
    BY <1>1 DEF NewRows
  <2> DEFINE row(i) == [kind |-> b[i].kind, n |-> b[i].n, token |-> req.token]
  <2>2. \A i \in 1..k : row(i) \in Rows
    BY <1>3, <1>4 DEF Rows
  <2> HIDE DEF b, new, row
  <2>3. new \in [1..k -> Rows]
    BY <2>1, <2>2 DEF row
  <2>4. k \in Nat
    BY <1>1
  <2> HIDE DEF k
  <2>5. new \in Seq(Rows) /\ Len(new) = k
    BY <2>3, <2>4, IsASeq, LenProperties
  <2> QED
    BY <2>1, <2>5
<1>6. journal' = journal \o new
  BY DEF Taken
<1> HIDE DEF n, b, k, new
<1>7. /\ journal' \in Seq(Rows) /\ Len(journal') = n + k
      /\ \A i \in 1..(n + k) : journal'[i] = IF i <= n THEN journal[i] ELSE new[i - n]
  BY <1>2, <1>5, <1>6, ConcatProperties DEF n
<1>8. DOMAIN journal' = 1..(n + k)
  BY <1>7
<1>9. \A i \in 1..n : journal'[i] = journal[i]
  BY <1>1, <1>2, <1>7
<1>10. \A j \in 1..k : journal'[n + j] = new[j]
  <2> TAKE j \in 1..k
  <2> DEFINE i == n + j
  <2>1. i \in 1..(n + k) /\ ~(i <= n) /\ i - n = j
    BY <1>1, <1>2
  <2> HIDE DEF i
  <2>2. journal'[i] = new[i - n]
    BY <1>7, <2>1
  <2>3. new[i - n] = new[j]
    BY <2>1
  <2> QED
    BY <2>2, <2>3 DEF i
<1> QED
  BY <1>1, <1>2, <1>3, <1>5, <1>7, <1>8, <1>9, <1>10 DEF Grows, n, k, b

(* What was taken is what a repetition finds.                               *)
LEMMA TakenReplays ==
  ASSUME WorldInv, NEW req \in Requests, req.batch \in Batches, Taken(req),
         NEW r, r.batch = req.batch
  PROVE  Replays(r)'
<1> DEFINE n == Len(journal) b == req.batch k == Len(b) row == journal'
           place == [j \in 1..k |-> n + j]
<1>1. /\ n \in Nat /\ k \in {1, 2} /\ DOMAIN b = 1..k /\ DOMAIN row = 1..(n + k)
      /\ \A j \in 1..k : /\ row[n + j].kind = b[j].kind /\ row[n + j].n = b[j].n
                         /\ b[j].kind # "cancel_requested"
                         /\ Event(b[j].kind, b[j].n) = b[j]
  BY TakenGrows DEF Grows
<1>2. r' = r
  OBVIOUS
<1> HIDE DEF n, b, k
<1>3. \A j \in 1..k : place[j] = n + j
  OBVIOUS
<1>4. \A j \in 1..k : n + j \in Kept'
  <2> TAKE j \in 1..k
  <2>1. n + j \in 1..(n + k)
    BY <1>1
  <2> QED
    BY <1>1, <2>1 DEF Kept
<1>5. place \in [1..k -> Kept']
  BY <1>4
<1> HIDE DEF place
<1>6. \A j, m \in 1..k : j < m => place[j] < place[m]
  BY <1>1, <1>3
<1>7. \A i \in Kept' : i >= place[1] => \E j \in 1..k : place[j] = i
  <2> TAKE i \in Kept'
  <2> HAVE i >= place[1]
  <2>1. i \in 1..(n + k)
    BY <1>1 DEF Kept
  <2>2. place[1] = n + 1
    BY <1>1, <1>3
  <2>3. i - n \in 1..k /\ n + (i - n) = i
    BY <1>1, <2>1, <2>2
  <2> QED
    BY <1>3, <2>3
<1>8. \A j \in 1..k : Event(row[place[j]].kind, row[place[j]].n) = b[j]
  BY <1>1, <1>3
<1>9. r.batch = b /\ DOMAIN b = 1..k
  BY <1>1 DEF b
<1> QED
  BY <1>5, <1>6, <1>7, <1>8, <1>9 DEF Replays

(* The newest event after a request was taken, or found to be taken, is the *)
(* last of the request.                                                     *)
LEMMA Confirmed ==
  ASSUME WorldInv, NEW req, GoodRequest(req), Handle(req),
         Verdict(req) \in {"accepted", "replayed"}, Last(req.batch).n > 0
  PROVE  /\ \A i : Newest(i)' => journal'[i].n = Last(req.batch).n
         /\ run'.lease = run.lease /\ run.lease = req.token
         /\ run'.cursor = req.first + Len(req.batch) - 1
<1> DEFINE b == req.batch k == Len(b)
<1>1. req \in Requests /\ b \in Batches
  BY DEF GoodRequest
<1>2. k \in {1, 2} /\ DOMAIN b = 1..k /\ Last(b) = b[k]
  BY <1>1, BatchForm DEF Last
<1>3. run.cursor \in Nat /\ req.first \in Nat
  BY <1>1 DEF WorldInv, RunRows, Requests
<1>4. CASE Verdict(req) = "accepted"
  <2>1. Taken(req)
    BY <1>4, HandleForm
  <2> DEFINE n == Len(journal) row == journal'
  <2>2. /\ n \in Nat /\ DOMAIN row = 1..(n + k) /\ Len(row) = n + k
        /\ \A j \in 1..k : row[n + j].n = b[j].n
    BY <1>1, <2>1, TakenGrows DEF Grows
  <2> HIDE DEF n, b, k
  <2>3. row[n + k].n > 0
    BY <1>2, <2>2 DEF b
  <2>4. ASSUME NEW i, Newest(i)' PROVE row[i].n = Last(b).n
    <3>1. i \in 1..(n + k) /\ \A m \in (i+1)..(n + k) : row[m].n = 0
      BY <2>2, <2>4 DEF Newest
    <3>2. n + k \in (i+1)..(n + k) \/ i = n + k
      BY <1>2, <2>2, <3>1
    <3>3. i = n + k
      BY <2>3, <3>1, <3>2
    <3> QED
      BY <1>2, <2>2, <3>3
  <2>5. run'.cursor = run.cursor + k /\ req.first = run.cursor + 1 /\ run'.lease = run.lease /\ run.lease = req.token
    BY <2>1 DEF Taken, HasLease, k, b
  <2>6. run'.cursor = req.first + k - 1
    BY <1>2, <1>3, <2>5
  <2> QED
    BY <2>4, <2>5, <2>6 DEF k, b
<1>5. CASE Verdict(req) = "replayed"
  <2>1. UNCHANGED <<run, journal>>
    BY <1>5, HandleForm DEF remote
  <2>2. run.lease = req.token /\ req.first + k - 1 = run.cursor /\ Replays(req)
    BY <1>1, <1>5, VerdictForm DEF Answers
  <2>3. PICK place \in [1..k -> Kept] :
          /\ \A j, m \in 1..k : j < m => place[j] < place[m]
          /\ \A i \in Kept : i >= place[1] => \E j \in 1..k : place[j] = i
          /\ \A j \in 1..k : Event(journal[place[j]].kind, journal[place[j]].n) = b[j]
    BY <1>2, <2>2 DEF Replays
  <2> HIDE DEF b, k
  <2>4. place[k] \in Kept /\ journal[place[k]].n = b[k].n
    BY <1>2, <2>3 DEF Event
  <2>5. /\ Len(journal) \in Nat /\ DOMAIN journal = 1..Len(journal)
        /\ \A x \in Kept : x \in Nat /\ x <= Len(journal)
    BY DEF Kept, WorldInv
  <2>6. ASSUME NEW i, Newest(i) PROVE journal[i].n = b[k].n
    <3>1. i \in Kept
      BY <2>6 DEF Newest, Kept, WorldInv
    <3>2. ~(i < place[k])
      <4> SUFFICES ASSUME i < place[k] PROVE FALSE
        OBVIOUS
      <4>1. place[k] \in (i+1)..Len(journal)
        BY <2>4, <2>5, <3>1
      <4>2. journal[place[k]].n = 0
        BY <2>6, <4>1 DEF Newest
      <4> QED
        BY <1>2, <2>4, <4>2 DEF b
    <3>3. place[1] <= place[k] /\ place[1] \in Kept
      <4>1. place[1] \in Kept /\ place[1] \in Nat /\ place[k] \in Nat
        BY <1>2, <2>3, <2>5
      <4>2. CASE k = 1
        BY <4>1, <4>2
      <4>3. CASE k = 2
        BY <2>3, <4>1, <4>3
      <4> QED
        BY <1>2, <4>1, <4>2, <4>3
    <3>4. i >= place[1]
      BY <2>4, <2>5, <3>1, <3>2, <3>3
    <3>5. PICK j \in 1..k : place[j] = i
      BY <2>3, <3>1, <3>4
    <3>6. j = k
      BY <1>2, <2>3, <2>5, <3>1, <3>2, <3>5
    <3> QED
      BY <2>4, <3>5, <3>6
  <2> QED
    BY <1>2, <2>1, <2>2, <2>6 DEF Newest, k, b
<1> QED
  BY <1>4, <1>5

(* What a step does to NewsCraft's row, to its journal and to the request   *)
(* on its way.                                                              *)
Quiet == UNCHANGED <<remote, late, grants>>
TakesCall == call # NoCall /\ Taken(Request) /\ UNCHANGED <<late, grants>>
TakesLate == late # NoRequest /\ Taken(late) /\ late' = NoRequest /\ UNCHANGED grants
DropsLate == UNCHANGED <<remote, grants>> /\ late' = NoRequest
LeavesCall == call # NoCall /\ late' = Request /\ UNCHANGED <<remote, grants>>
SavesPhase ==
  /\ phase = "open" /\ phase' \in Phases
  /\ phase' = "cancelled" => job.at = "cancelRun"
  /\ UNCHANGED <<run, journal, late, grants>>
AsksToStop ==
  /\ run.outcome = "open" /\ ~run.stopping
  /\ run' \in RunRows /\ run'.outcome = "open" /\ run'.stopping /\ run'.lease = run.lease
  /\ run'.live = run.live /\ run'.cursor = run.cursor
  /\ journal' = Append(journal, [kind |-> "cancel_requested", n |-> 0, token |-> 0])
  /\ UNCHANGED <<phase, late, grants>>
Finalizes ==
  /\ run.outcome = "open" /\ run.stopping /\ ~Alive /\ UNCHANGED job
  /\ run' \in RunRows /\ run'.outcome = "cancelled" /\ run'.stopping /\ run'.lease = 0
  /\ ~run'.live /\ run'.cursor = run.cursor
  /\ journal' = Append(journal, [kind |-> "cancelled", n |-> 0, token |-> 0])
  /\ UNCHANGED <<phase, late, grants>>
LeaseMoves ==
  /\ run' \in RunRows /\ run'.outcome = run.outcome /\ run'.stopping = run.stopping
  /\ run'.cursor = run.cursor
  /\ \/ run'.lease = run.lease /\ ~run'.live /\ UNCHANGED grants
     \/ run'.lease = 0 /\ ~run'.live /\ UNCHANGED grants
     \/ run.outcome = "open" /\ run'.lease = grants + 1 /\ grants' = grants + 1
  /\ UNCHANGED <<journal, phase, late>>
WorldStep ==
  Quiet \/ TakesCall \/ TakesLate \/ DropsLate \/ LeavesCall \/ SavesPhase \/ AsksToStop
  \/ Finalizes \/ LeaseMoves
Growth ==
  /\ made' \in Nat \ {0} /\ made <= made' /\ grants' \in Nat \ {0} /\ grants <= grants'
  /\ forgiven \subseteq forgiven' /\ forgiven' \subseteq 1..made'
  /\ faults' \in Nat /\ faults' <= MaxFaults

LEMMA AbandonForm ==
  ASSUME RunInv, call # NoCall, Abandon(Request), UNCHANGED grants
  PROVE  Quiet \/ TakesCall \/ LeavesCall
<1>1. GoodRequest(Request) /\ WorldInv
  BY RequestGood DEF RunInv
<1>2. Handle(Request) => UNCHANGED remote \/ Taken(Request)
  BY <1>1, HandleForm
<1> QED
  BY <1>2 DEF Abandon, Quiet, TakesCall, LeavesCall

LEMMA Counted ==
  ASSUME WorldInv
  PROVE  /\ Calm => faults' \in Nat /\ faults' <= MaxFaults
         /\ Fault => faults' \in Nat /\ faults' <= MaxFaults
<1>1. MaxFaults \in Nat /\ faults \in Nat /\ faults <= MaxFaults
  BY WorkerAssumption DEF WorldInv
<1> QED
  BY <1>1 DEF Calm, Fault

LEMMA NumbersMade ==
  ASSUME RunInv, call # NoCall, NEW retry \in BOOLEAN
  PROVE  GivenUp(retry) \subseteq 1..made
<1>1. call.by = "task" /\ job.at = "publish" => Numbers(call.queue) \subseteq 1..made
  <2> SUFFICES ASSUME call.by = "task", job.at = "publish", NEW x \in Numbers(call.queue)
               PROVE  x \in 1..made
    OBVIOUS
  <2>1. x # 0 /\ \E i \in DOMAIN call.queue : \E k \in DOMAIN call.queue[i] : x = call.queue[i][k].n
    BY DEF Numbers
  <2>2. JobInv /\ made \in Nat \ {0} /\ Alive
    BY CallAlive DEF RunInv, TaskInv, WorldInv
  <2>3. PICK text \in Buffers : Carries(text) /\ InOrder(text)
    BY <2>2 DEF RunInv, TaskInv, TextInv
  <2>4. job.at \in Tells /\ job.at # "resign"
    BY DEF Tells, Told
  <2> DEFINE own == Own q == call.queue
  <2>5. own = <<own[1]>> /\ own[1].n = made
    BY <2>2, <2>4, OwnForm DEF Told
  <2>6. text # <<>> => text = <<text[1]>> /\ text[1].n \in Nat /\ text[1].n <= made
    BY <2>3, BufferForm DEF InOrder, TextEvents
  <2>7. \/ text = <<>> /\ q = <<own>>
        \/ text # <<>> /\ q = <<text, own>>
    BY <2>2, <2>3, <2>4, OutgoingForm DEF Carries
  <2>8. PICK i \in DOMAIN q : \E k \in DOMAIN q[i] : x = q[i][k].n
    BY <2>1
  <2> HIDE DEF own, q
  <2>9. q[i] = own \/ (q[i] = text /\ text # <<>>)
    BY <2>7, <2>8
  <2>10. CASE q[i] = own
    <3>1. PICK k \in DOMAIN own : x = own[k].n
      BY <2>8, <2>10
    <3>2. k = 1
      BY <2>5, <3>1
    <3> QED
      BY <2>2, <2>5, <3>1, <3>2
  <2>11. CASE q[i] = text /\ text # <<>>
    <3>1. PICK k \in DOMAIN text : x = text[k].n
      BY <2>8, <2>11
    <3>2. k = 1
      BY <2>6, <2>11, <3>1
    <3> QED
      BY <2>1, <2>2, <2>6, <2>11, <3>1, <3>2
  <2> QED
    BY <2>9, <2>10, <2>11
<1> QED
  BY <1>1 DEF GivenUp

LEMMA Grown ==
  ASSUME WorldInv, Calm \/ Fault, made' = made \/ made' = made + 1,
         grants' = grants \/ grants' = grants + 1,
         NEW S, S \subseteq 1..made, forgiven' = forgiven \cup S
  PROVE  Growth
<1>1. made \in Nat \ {0} /\ grants \in Nat \ {0} /\ forgiven \subseteq 1..made
  BY DEF WorldInv
<1>2. made' \in Nat \ {0} /\ made <= made' /\ grants' \in Nat \ {0} /\ grants <= grants'
  BY <1>1
<1>3. \A x \in 1..made : x \in 1..made'
  BY <1>1, <1>2
<1>4. forgiven \subseteq forgiven' /\ forgiven' \subseteq 1..made'
  BY <1>1, <1>3
<1> QED
  BY <1>2, <1>4, Counted DEF Growth

(* Steps of the worker that NewsCraft does not see.                         *)
LEMMA QuietSteps ==
  ASSUME RunInv,
         \/ Speak \/ FlushText \/ BeginDirect \/ NoticeStop \/ Text \/ Publication
         \/ CheckpointRefuses \/ LeavePending \/ Resume \/ RenewSeesCancellation \/ RenewFails
         \/ TellWorker \/ CancelRunFails
  PROVE  Quiet /\ Growth /\ UNCHANGED forgiven
<1>1. /\ UNCHANGED <<remote, late, grants, forgiven>>
      /\ Calm \/ Fault
      /\ made' = made \/ made' = made + 1
  <2>1. CASE Speak
    BY <2>1 DEF Speak, Proceeds
  <2>2. CASE FlushText \/ BeginDirect \/ NoticeStop \/ CheckpointRefuses \/ RenewSeesCancellation
    BY <2>2 DEF FlushText, BeginDirect, NoticeStop, CheckpointRefuses, RenewSeesCancellation, Proceeds
  <2>3. CASE Text \/ Publication \/ LeavePending \/ Resume
    BY <2>3 DEF Text, Publication, LeavePending, Resume
  <2>4. CASE RenewFails \/ TellWorker \/ CancelRunFails
    BY <2>4 DEF RenewFails, TellWorker, CancelRunFails
  <2> QED
    BY <2>1, <2>2, <2>3, <2>4
<1>2. Calm \/ Fault
  BY <1>1
<1>3. forgiven' = forgiven \cup {}
  BY <1>1
<1>4. Growth
  BY <1>1, <1>2, <1>3, Grown DEF RunInv
<1> QED
  BY <1>1, <1>4 DEF Quiet

(* Steps of a call.                                                         *)
LEMMA CallSteps ==
  ASSUME RunInv, Answer \/ NoAnswer \/ Interrupted \/ FlushStopped \/ Crash
  PROVE  (Quiet \/ TakesCall \/ LeavesCall) /\ Growth
<1>1. CASE Answer
  <2>1. call # NoCall /\ Handle(Request) /\ UNCHANGED <<late, made, grants>> /\ Calm
    BY <1>1 DEF Answer
  <2>2. \E S : S \subseteq 1..made /\ forgiven' = forgiven \cup S
    BY <1>1, <2>1, NumbersMade DEF Answer
  <2>3. Growth
    BY <2>1, <2>2, Grown DEF RunInv
  <2>4. GoodRequest(Request)
    BY <2>1, RequestGood
  <2>5. UNCHANGED remote \/ Taken(Request)
    BY <2>1, <2>4, HandleForm DEF RunInv
  <2> QED
    BY <2>1, <2>3, <2>5 DEF Quiet, TakesCall
<1>2. CASE NoAnswer
  <2>1. call # NoCall /\ Abandon(Request) /\ UNCHANGED <<made, grants>> /\ Fault
    BY <1>2 DEF NoAnswer
  <2>2. \E S : S \subseteq 1..made /\ forgiven' = forgiven \cup S
    <3>1. \/ forgiven' = forgiven
          \/ forgiven' = forgiven \cup GivenUp(FALSE)
          \/ forgiven' = forgiven \cup GivenUp(TRUE)
      BY <1>2 DEF NoAnswer
    <3>2. forgiven' = forgiven => forgiven' = forgiven \cup {}
      OBVIOUS
    <3>3. {} \subseteq 1..made /\ GivenUp(FALSE) \subseteq 1..made /\ GivenUp(TRUE) \subseteq 1..made
      BY <2>1, NumbersMade
    <3> QED
      BY <3>1, <3>2, <3>3
  <2>3. Growth
    BY <2>1, <2>2, Grown DEF RunInv
  <2> QED
    BY <2>1, <2>3, AbandonForm
<1>3. CASE Interrupted \/ FlushStopped \/ Crash
  <2>1. /\ UNCHANGED <<made, forgiven, grants>>
        /\ Calm \/ Fault
        /\ UNCHANGED <<remote, late>> \/ (call # NoCall /\ Abandon(Request))
    <3>1. CASE Interrupted
      <4>1. call.by # "nobody" => call # NoCall
        BY DEF NoCall
      <4> QED
        BY <3>1, <4>1 DEF Interrupted
    <3>2. CASE FlushStopped
      BY <3>2 DEF FlushStopped
    <3>3. CASE Crash
      BY <3>3 DEF Crash
    <3> QED
      BY <1>3, <3>1, <3>2, <3>3
  <2>2. forgiven' = forgiven \cup {}
    BY <2>1
  <2>3. Growth
    BY <2>1, <2>2, Grown DEF RunInv
  <2> QED
    BY <2>1, <2>3, AbandonForm DEF Quiet
<1> QED
  BY <1>1, <1>2, <1>3

(* Steps of NewsCraft, of the clock and of the checkpoint.                  *)
LEMMA RemoteSteps ==
  ASSUME RunInv,
         \/ LateRequestArrives \/ CancelRun \/ Finish \/ Fail \/ RequestCancellation
         \/ FinalizeCancellation \/ Expire \/ Recover \/ RecoverLost
  PROVE  WorldStep /\ Growth
<1>1. /\ Calm \/ Fault
      /\ made' = made \/ made' = made + 1
      /\ grants' = grants \/ grants' = grants + 1
      /\ UNCHANGED forgiven
  <2>1. CASE LateRequestArrives \/ RequestCancellation \/ FinalizeCancellation \/ Expire \/ RecoverLost
    BY <2>1 DEF LateRequestArrives, RequestCancellation, FinalizeCancellation, Expire, RecoverLost
  <2>2. CASE CancelRun \/ Recover
    BY <2>2 DEF CancelRun, Recover, Proceeds
  <2>3. CASE Finish \/ Fail
    BY <2>3 DEF Finish, Fail, Concludes
  <2> QED
    BY <2>1, <2>2, <2>3
<1>2. Growth
  <2>1. forgiven' = forgiven \cup {}
    BY <1>1
  <2> QED
    BY <1>1, <2>1, Grown DEF RunInv
<1>3. run \in RunRows /\ (run.live => run.outcome = "open" /\ run.lease # 0) /\ grants + 1 \in Nat
  BY DEF RunInv, WorldInv
<1>4. WorldInv
  BY DEF RunInv
<1>5. CASE LateRequestArrives
  <2>1. late # NoRequest /\ Handle(late) /\ late' = NoRequest /\ UNCHANGED grants
    BY <1>5 DEF LateRequestArrives
  <2>2. GoodRequest(late)
    BY <2>1 DEF RunInv, LateInv
  <2>3. UNCHANGED remote \/ Taken(late)
    BY <1>4, <2>1, <2>2, HandleForm
  <2> QED
    BY <1>2, <2>1, <2>3 DEF WorldStep, TakesLate, DropsLate
<1>6. CASE CancelRun
  <2>1. CASE HasLease(job.token) /\ job.stop # "stale_lease" /\ phase = "open"
    <3>1. job.at = "cancelRun" /\ phase' = "cancelled" /\ UNCHANGED <<run, journal, late, grants>>
      BY <1>6, <2>1 DEF CancelRun
    <3> QED
      BY <1>2, <2>1, <3>1 DEF WorldStep, SavesPhase, Phases
  <2>2. CASE ~(HasLease(job.token) /\ job.stop # "stale_lease" /\ phase = "open")
    <3>1. Quiet
      BY <1>6, <2>2 DEF CancelRun, Proceeds, Quiet, remote
    <3> QED
      BY <1>2, <3>1 DEF WorldStep
  <2> QED
    BY <2>1, <2>2
<1>7. CASE Finish \/ Fail
  <2>1. PICK saved \in {"finished", "failed"}, then \in {job', Resign(job)} : Concludes(saved, then)
    <3>1. Finish => Concludes("finished", [job EXCEPT !.at = "complete"])
      BY DEF Finish
    <3>2. Fail => Concludes("failed", TellFailed(job))
      BY DEF Fail
    <3>3. ASSUME NEW saved, NEW then, Concludes(saved, then) PROVE Concludes(saved, job') \/ Concludes(saved, Resign(job))
      BY <3>3 DEF Concludes
    <3> QED
      BY <1>7, <3>1, <3>2, <3>3
  <2>2. phase = "open"
    BY <2>1 DEF Concludes, Working
  <2>3. CASE HasLease(job.token) /\ job.stop # "stale_lease"
    <3>1. phase' = saved /\ UNCHANGED <<run, journal, late, grants>>
      BY <2>1, <2>3 DEF Concludes
    <3> QED
      BY <1>2, <2>2, <3>1 DEF WorldStep, SavesPhase, Phases
  <2>4. CASE ~(HasLease(job.token) /\ job.stop # "stale_lease")
    BY <1>2, <2>1, <2>4 DEF Concludes, WorldStep, Quiet
  <2> QED
    BY <2>3, <2>4
<1>8. CASE RequestCancellation
  <2>1. /\ run.outcome = "open" /\ ~run.stopping /\ run' = [run EXCEPT !.stopping = TRUE]
        /\ journal' = Append(journal, [kind |-> "cancel_requested", n |-> 0, token |-> 0])
        /\ UNCHANGED <<phase, late, grants>>
    BY <1>8 DEF RequestCancellation
  <2>2. /\ run' \in RunRows /\ run'.outcome = run.outcome /\ run'.stopping /\ run'.lease = run.lease
        /\ run'.live = run.live /\ run'.cursor = run.cursor
    BY <1>3, <2>1 DEF RunRows
  <2> QED
    BY <1>2, <2>1, <2>2 DEF WorldStep, AsksToStop
<1>9. CASE FinalizeCancellation
  <2>1. /\ run.outcome = "open" /\ run.stopping /\ ~Alive /\ UNCHANGED job
        /\ run' = [run EXCEPT !.outcome = "cancelled", !.lease = 0, !.live = FALSE]
        /\ journal' = Append(journal, [kind |-> "cancelled", n |-> 0, token |-> 0])
        /\ UNCHANGED <<phase, late, grants>>
    BY <1>9 DEF FinalizeCancellation
  <2>2. /\ run' \in RunRows /\ run'.outcome = "cancelled" /\ run'.stopping = run.stopping /\ run'.lease = 0
        /\ ~run'.live /\ run'.cursor = run.cursor
    BY <1>3, <2>1 DEF RunRows, Ends
  <2> QED
    BY <1>2, <2>1, <2>2 DEF WorldStep, Finalizes
<1>10. CASE Expire
  <2>1. run' = [run EXCEPT !.live = FALSE] /\ UNCHANGED <<journal, phase, late, grants>>
    BY <1>10 DEF Expire
  <2>2. /\ run' \in RunRows /\ run'.outcome = run.outcome /\ run'.stopping = run.stopping
        /\ run'.lease = run.lease /\ ~run'.live /\ run'.cursor = run.cursor
    BY <1>3, <2>1 DEF RunRows
  <2> QED
    BY <1>2, <2>1, <2>2 DEF WorldStep, LeaseMoves
<1>11. CASE Recover \/ RecoverLost
  <2>1. /\ \/ run' = [run EXCEPT !.lease = grants + 1, !.live = TRUE] /\ grants' = grants + 1
           \/ run' = [run EXCEPT !.lease = 0, !.live = FALSE] /\ UNCHANGED grants
        /\ run.outcome = "open" /\ UNCHANGED <<journal, phase, late>>
    BY <1>11 DEF Recover, RecoverLost, Recoverable
  <2>2. CASE run' = [run EXCEPT !.lease = grants + 1, !.live = TRUE] /\ grants' = grants + 1
    <3>1. /\ run' \in RunRows /\ run'.outcome = run.outcome /\ run'.stopping = run.stopping
          /\ run'.lease = grants + 1 /\ run'.live /\ run'.cursor = run.cursor
      BY <1>3, <2>2 DEF RunRows
    <3> QED
      BY <1>2, <2>1, <2>2, <3>1 DEF WorldStep, LeaseMoves
  <2>3. CASE run' = [run EXCEPT !.lease = 0, !.live = FALSE] /\ UNCHANGED grants
    <3>1. /\ run' \in RunRows /\ run'.outcome = run.outcome /\ run'.stopping = run.stopping
          /\ run'.lease = 0 /\ ~run'.live /\ run'.cursor = run.cursor
      BY <1>3, <2>3 DEF RunRows
    <3> QED
      BY <1>2, <2>1, <2>3, <3>1 DEF WorldStep, LeaseMoves
  <2> QED
    BY <2>1, <2>2, <2>3
<1> QED
  BY <1>5, <1>6, <1>7, <1>8, <1>9, <1>10, <1>11

LEMMA WorldSteps ==
  ASSUME RunInv, Next
  PROVE  WorldStep /\ Growth
<1>1. (Quiet \/ TakesCall \/ LeavesCall) => WorldStep
  BY DEF WorldStep
<1> QED
  BY <1>1, QuietSteps, CallSteps, RemoteSteps DEF Next, Advance

------------------------------------------------------------------------------
(* What NewsCraft's side keeps.                                             *)

(* The rows that are not events of the worker.                              *)
LEMMA OwnRow ==
  ASSUME WorldInv, AsksToStop \/ Finalizes
  PROVE  LET n == Len(journal) IN
         /\ n \in Nat /\ journal' \in Seq(Rows) /\ DOMAIN journal = 1..n
         /\ Len(journal') = n + 1 /\ DOMAIN journal' = 1..(n + 1)
         /\ \A i \in 1..n : journal'[i] = journal[i]
         /\ journal'[n + 1].n = 0 /\ journal'[n + 1].token = 0
         /\ journal'[n + 1].kind = IF AsksToStop THEN "cancel_requested" ELSE "cancelled"
<1> DEFINE n == Len(journal)
<1>1. journal \in Seq(Rows) /\ n \in Nat /\ DOMAIN journal = 1..n
  BY DEF WorldInv
<1>2. AsksToStop => ~Finalizes
  BY DEF AsksToStop, Finalizes
<1>3. PICK kind \in {"cancel_requested", "cancelled"} :
        /\ journal' = Append(journal, [kind |-> kind, n |-> 0, token |-> 0])
        /\ kind = IF AsksToStop THEN "cancel_requested" ELSE "cancelled"
  BY <1>2 DEF AsksToStop, Finalizes
<1> DEFINE row == [kind |-> kind, n |-> 0, token |-> 0]
<1>4. row \in Rows /\ row.kind = kind /\ row.n = 0 /\ row.token = 0
  BY DEF Rows, Kinds, Ends
<1>5. journal' = Append(journal, row)
  BY <1>3
<1> HIDE DEF row, n
<1>6. /\ journal' \in Seq(Rows) /\ Len(journal') = n + 1 /\ journal'[n + 1] = row
      /\ \A i \in 1..n : journal'[i] = journal[i]
  BY <1>1, <1>4, <1>5, AppendProperties DEF n
<1>7. DOMAIN journal' = 1..(n + 1)
  BY <1>6
<1> QED
  BY <1>1, <1>3, <1>4, <1>6, <1>7 DEF n

(* Every step leaves the rows as they are; what it adds are the events of a *)
(* good request, or a row without a number.                                 *)
LEMMA WorldKept ==
  ASSUME RunInv, WorldStep, Growth
  PROVE  WorldInv'
<1>1. WorldInv /\ LateInv
  BY DEF RunInv
<1>2. /\ run \in RunRows /\ run.lease \in Nat /\ run.lease <= grants /\ grants \in Nat
      /\ run.live => run.outcome = "open" /\ run.lease # 0
      /\ made \in Nat
  BY <1>1 DEF WorldInv, RunRows
<1>3. /\ run' \in RunRows /\ run'.lease <= grants'
      /\ run'.live => run'.outcome = "open" /\ run'.lease # 0
      /\ phase' \in Phases
  <2>1. run' = run => run' \in RunRows /\ run'.lease <= grants' /\ (run'.live => run'.outcome = "open" /\ run'.lease # 0)
    BY <1>2 DEF Growth
  <2>2. phase \in Phases
    BY <1>1 DEF WorldInv
  <2>3. CASE Quiet \/ DropsLate \/ LeavesCall \/ SavesPhase
    BY <2>1, <2>2, <2>3 DEF Quiet, DropsLate, LeavesCall, SavesPhase, remote
  <2>4. CASE TakesCall \/ TakesLate
    <3>1. PICK req \in {late, Request} : Taken(req) /\ UNCHANGED grants
      BY <2>4 DEF TakesCall, TakesLate
    <3> QED
      BY <1>2, <2>2, <3>1 DEF Taken, HasLease, Ends
  <2>5. CASE AsksToStop \/ Finalizes
    BY <1>2, <2>2, <2>5 DEF AsksToStop, Finalizes, Growth
  <2>6. CASE LeaseMoves
    BY <1>2, <2>2, <2>6 DEF LeaseMoves, Growth, RunRows
  <2> QED
    BY <2>3, <2>4, <2>5, <2>6 DEF WorldStep
<1>4. late' \in Requests
  <2>1. NoRequest \in Requests /\ late \in Requests
    BY <1>1 DEF NoRequest, Requests, WorldInv
  <2>2. call # NoCall => Request \in Requests
    BY RequestGood
  <2> QED
    BY <2>1, <2>2 DEF WorldStep, Quiet, DropsLate, LeavesCall, SavesPhase, TakesCall, TakesLate,
                      AsksToStop, Finalizes, LeaseMoves
<1> DEFINE Legal(row) == /\ row.n <= made' /\ row.token <= grants'
                         /\ row.kind = "cancel_requested" => row.n = 0
<1>5. /\ journal \in Seq(Rows) /\ DOMAIN journal = 1..Len(journal) /\ Len(journal) \in Nat
      /\ \A i \in 1..Len(journal) : Legal(journal[i])
  <2>1. \A i \in DOMAIN journal : journal[i] \in Rows
    BY <1>1 DEF WorldInv
  <2> QED
    BY <1>1, <2>1 DEF WorldInv, Growth, Rows
<1> HIDE DEF Legal
<1>6. journal' \in Seq(Rows) /\ \A i \in DOMAIN journal' : Legal(journal'[i])
  <2>1. CASE journal' = journal
    BY <1>5, <2>1
  <2>2. CASE TakesCall \/ TakesLate
    <3>1. PICK req \in {late, Request} : Taken(req) /\ GoodRequest(req)
      BY <1>1, <2>2, RequestGood DEF TakesCall, TakesLate, LateInv
    <3>2. req \in Requests /\ req.batch \in Batches
      BY <3>1 DEF GoodRequest
    <3> DEFINE n == Len(journal) k == Len(req.batch)
    <3>3. /\ n \in Nat /\ k \in {1, 2} /\ DOMAIN req.batch = 1..k
          /\ DOMAIN journal' = 1..(n + k) /\ journal' \in Seq(Rows)
          /\ \A i \in 1..n : journal'[i] = journal[i]
          /\ \A j \in 1..k : /\ journal'[n + j].kind # "cancel_requested"
                             /\ journal'[n + j].n = req.batch[j].n
                             /\ journal'[n + j].token = req.token
                             /\ req.batch[j].n \in Nat
      <4>1. Taken(req)
        BY <3>1
      <4>2. Grows(req)
        BY <1>1, <3>2, <4>1, TakenGrows
      <4> QED
        BY <4>2 DEF Grows
    <3> HIDE DEF n, k
    <3>4. \A j \in 1..k : Legal(journal'[n + j])
      <4>1. \A j \in 1..k : req.batch[j].n <= made /\ req.token <= grants /\ req.token \in Nat
        BY <3>1, <3>2, <3>3 DEF GoodRequest, Requests
      <4>2. made' \in Nat /\ made <= made' /\ grants' \in Nat /\ grants <= grants'
        BY DEF Growth
      <4> TAKE j \in 1..k
      <4> DEFINE x == journal'[n + j].n y == journal'[n + j].token m == made' g == grants'
      <4>3. x \in Nat /\ x <= made /\ y \in Nat /\ y <= grants
        BY <3>3, <4>1
      <4>4. m \in Nat /\ made <= m /\ g \in Nat /\ grants <= g
        BY <4>2
      <4> HIDE DEF x, y, m, g
      <4>6. x <= m /\ y <= g
        BY <1>2, <4>3, <4>4
      <4>5. journal'[n + j].kind # "cancel_requested"
        BY <3>3
      <4> QED
        BY <4>5, <4>6 DEF Legal, x, y, m, g
    <3>5. ASSUME NEW i \in 1..(n + k) PROVE Legal(journal'[i])
      <4>1. CASE i <= n
        <5>1. i \in 1..n
          BY <3>3, <4>1
        <5> QED
          BY <1>5, <3>3, <5>1 DEF n
      <4>2. CASE ~(i <= n)
        <5> DEFINE j == i - n
        <5>1. j \in 1..k /\ n + j = i
          BY <3>3, <4>2
        <5> HIDE DEF j
        <5> QED
          BY <3>4, <5>1
      <4> QED
        BY <4>1, <4>2
    <3> QED
      BY <3>3, <3>5
  <2>3. CASE AsksToStop \/ Finalizes
    <3> DEFINE n == Len(journal)
    <3>1. /\ n \in Nat /\ journal' \in Seq(Rows) /\ DOMAIN journal' = 1..(n + 1)
          /\ \A i \in 1..n : journal'[i] = journal[i]
          /\ journal'[n + 1].n = 0 /\ journal'[n + 1].token = 0
      BY <1>1, <2>3, OwnRow
    <3>2. Legal(journal'[n + 1])
      BY <3>1 DEF Legal, Growth
    <3>3. ASSUME NEW i \in 1..(n + 1) PROVE Legal(journal'[i])
      <4>1. i \in 1..n \/ i = n + 1
        BY <3>1
      <4> QED
        BY <1>5, <3>1, <3>2, <4>1
    <3> QED
      BY <3>1, <3>3
  <2> QED
    BY <2>1, <2>2, <2>3 DEF WorldStep, Quiet, DropsLate, LeavesCall, SavesPhase, LeaseMoves, remote
<1> QED
  BY <1>3, <1>4, <1>6 DEF WorldInv, Growth, Legal

(* A lease that still counts, with the cursor where it was.                 *)
LEMMA StillFollows ==
  ASSUME RunInv, WorldStep, Growth, NEW t, t <= grants, HasLease(t)', run'.cursor = run.cursor
  PROVE  /\ HasLease(t)
         /\ \A n \in Nat : Follows(n) => Follows(n)'
<1>1. WorldInv /\ LateInv
  BY DEF RunInv
<1>2. \A m, n : Chained(m, n) => Chained(m, n)'
  BY DEF Chained, Growth
<1>3. run.cursor \in Nat /\ grants \in Nat
  BY <1>1 DEF WorldInv, RunRows
<1>4. CASE UNCHANGED <<run, journal>>
  BY <1>2, <1>4 DEF HasLease, Follows, Newest
<1>5. CASE TakesCall \/ TakesLate
  <2>1. PICK req \in {late, Request} : Taken(req) /\ GoodRequest(req)
    BY <1>1, <1>5, RequestGood DEF TakesCall, TakesLate, LateInv
  <2> DEFINE k == Len(req.batch) c == run.cursor d == run'.cursor
  <2>2. k \in {1, 2}
    BY <2>1, BatchForm DEF GoodRequest
  <2>3. d = c + k
    BY <2>1 DEF Taken
  <2>4. d = c /\ c \in Nat
    BY <1>3
  <2> HIDE DEF k, c, d
  <2> QED
    BY <2>2, <2>3, <2>4
<1>6. CASE AsksToStop
  <2>1. HasLease(t) /\ run'.lease = run.lease
    BY <1>6 DEF AsksToStop, HasLease
  <2> DEFINE l == Len(journal)
  <2>2. /\ l \in Nat /\ DOMAIN journal = 1..l /\ Len(journal') = l + 1 /\ DOMAIN journal' = 1..(l + 1)
        /\ \A i \in 1..l : journal'[i] = journal[i]
        /\ journal'[l + 1].n = 0
    BY <1>1, <1>6, OwnRow
  <2>3. ASSUME NEW i, Newest(i)' PROVE Newest(i) /\ journal'[i] = journal[i] /\ i \in DOMAIN journal
    <3>1. i \in 1..(l + 1) /\ journal'[i].n > 0 /\ \A m \in (i+1)..(l + 1) : journal'[m].n = 0
      BY <2>2, <2>3 DEF Newest
    <3>2. i \in 1..l
      BY <2>2, <3>1
    <3>3. \A m \in (i+1)..l : m \in (i+1)..(l + 1) /\ m \in 1..l
      BY <2>2, <3>2
    <3> QED
      BY <2>2, <3>1, <3>2, <3>3 DEF Newest
  <2> QED
    BY <1>2, <2>1, <2>3 DEF Follows
<1>7. CASE Finalizes
  BY <1>7 DEF Finalizes, HasLease
<1>8. CASE LeaseMoves
  <2>1. CASE ~run'.live
    BY <2>1 DEF HasLease
  <2>2. CASE run'.lease = grants + 1
    BY <1>3, <2>2 DEF HasLease
  <2> QED
    BY <1>8, <2>1, <2>2 DEF LeaseMoves
<1> QED
  BY <1>4, <1>5, <1>6, <1>7, <1>8
     DEF WorldStep, Quiet, DropsLate, LeavesCall, SavesPhase, remote

LEMMA LeaseKept ==
  ASSUME RunInv, WorldStep
  PROVE  /\ run.cursor \in Nat /\ run'.cursor \in Nat /\ run.cursor <= run'.cursor
         /\ \A t \in Nat \ {0} : t <= grants /\ run'.lease = t => run.lease = t
         /\ \A kind : SavedAs(kind) => SavedAs(kind)'
         /\ run.stopping => run'.stopping
<1>1. WorldInv /\ LateInv
  BY DEF RunInv
<1>2. run.cursor \in Nat /\ grants \in Nat /\ phase \in Phases
  BY <1>1 DEF WorldInv, RunRows
<1>3. CASE run' = run
  <2>1. \A kind : SavedAs(kind) => SavedAs(kind)'
    BY <1>2, <1>3 DEF WorldStep, Quiet, DropsLate, LeavesCall, SavesPhase, TakesCall, TakesLate, Taken,
              AsksToStop, Finalizes, LeaseMoves, SavedAs, remote
  <2> QED
    BY <1>2, <1>3, <2>1
<1>4. CASE TakesCall \/ TakesLate
  <2>1. PICK req \in {late, Request} : Taken(req) /\ GoodRequest(req)
    BY <1>1, <1>4, RequestGood DEF TakesCall, TakesLate, LateInv
  <2> DEFINE k == Len(req.batch) c == run.cursor d == run'.cursor
  <2>2. k \in {1, 2}
    BY <2>1, BatchForm DEF GoodRequest
  <2>3. d = c + k /\ run'.lease = run.lease /\ run'.stopping = run.stopping /\ phase' = phase
    BY <2>1 DEF Taken
  <2>4. c \in Nat
    BY <1>2
  <2> HIDE DEF k, c, d
  <2>5. d \in Nat /\ c <= d
    BY <2>2, <2>3, <2>4
  <2> QED
    BY <2>3, <2>4, <2>5 DEF SavedAs, c, d
<1>5. CASE AsksToStop \/ Finalizes
  BY <1>2, <1>5 DEF AsksToStop, Finalizes, SavedAs
<1>6. CASE LeaseMoves
  <2>1. run'.cursor = run.cursor /\ phase' = phase /\ run'.stopping = run.stopping
    BY <1>6 DEF LeaseMoves
  <2>2. run'.lease = run.lease \/ run'.lease = 0 \/ run'.lease = grants + 1
    BY <1>6 DEF LeaseMoves
  <2>3. \A t \in Nat \ {0} : t <= grants /\ run'.lease = t => run.lease = t
    BY <1>2, <2>2
  <2> QED
    BY <1>2, <2>1, <2>3 DEF SavedAs
<1> QED
  BY <1>3, <1>4, <1>5, <1>6 DEF WorldStep, Quiet, DropsLate, LeavesCall, SavesPhase, remote

LEMMA GoodKept ==
  ASSUME RunInv, WorldStep, Growth, NEW req, GoodRequest(req)
  PROVE  GoodRequest(req)'
<1> DEFINE t == req.token b == req.batch f == req.first c == run.cursor d == run'.cursor
<1>1. WorldInv
  BY DEF RunInv
<1>2. /\ req \in Requests /\ t \in Nat \ {0} /\ t <= grants /\ f \in Nat /\ f # 0 /\ b \in Batches
      /\ grants \in Nat /\ made \in Nat
  BY <1>1 DEF GoodRequest, Requests, WorldInv
<1>3. /\ c \in Nat /\ d \in Nat /\ c <= d
      /\ run'.lease = t => run.lease = t
      /\ SavedAs(Last(b).kind)'
  BY <1>2, LeaseKept DEF GoodRequest
<1>4. t <= grants'
  BY <1>2 DEF Growth
<1>5. \A i \in DOMAIN b : b[i].n \in Nat /\ b[i].n <= made'
  <2>1. \A i \in DOMAIN b : b[i].n \in Nat
    BY <1>2, BatchForm, EventForm
  <2> QED
    BY <1>2, <2>1 DEF GoodRequest, Growth
<1>6. t = run'.lease => f <= d + 1
  <2>1. t = run.lease => f <= c + 1
    BY DEF GoodRequest
  <2> HIDE DEF t, f, c, d
  <2> QED
    BY <1>2, <1>3, <2>1
<1>7. Len(b) = 2 /\ b[2].n > 0 => Chained(b[1].n, b[2].n)'
  BY DEF GoodRequest, Chained, Growth
<1>8. HasLease(t)' /\ f = d + 1 /\ b[1].n > 0 => Follows(b[1].n)'
  <2> SUFFICES ASSUME HasLease(t)', f = d + 1, b[1].n > 0 PROVE Follows(b[1].n)'
    OBVIOUS
  <2>1. run'.lease = t
    BY DEF HasLease
  <2>2. d = c
    <3>1. f <= c + 1
      BY <1>3, <2>1 DEF GoodRequest
    <3> HIDE DEF f, c, d
    <3> QED
      BY <1>2, <1>3, <3>1
  <2>3. HasLease(t) /\ \A n \in Nat : Follows(n) => Follows(n)'
    BY <1>2, <2>2, StillFollows
  <2>4. b[1].n \in Nat
    BY <1>2, <1>5, BatchForm
  <2> QED
    BY <2>2, <2>3, <2>4 DEF GoodRequest
<1> QED
  BY <1>2, <1>3, <1>4, <1>5, <1>6, <1>7, <1>8 DEF GoodRequest

LEMMA LateKept ==
  ASSUME RunInv, WorldStep, Growth
  PROVE  LateInv'
<1>1. PICK l : l = late
  OBVIOUS
<1>2. PICK r : r = Request
  OBVIOUS
<1>3. late # NoRequest => GoodRequest(l)'
  BY <1>1, GoodKept DEF RunInv, LateInv
<1>4. call # NoCall => GoodRequest(r)'
  BY <1>2, RequestGood, GoodKept
<1>5. \/ late' = l \/ late' = NoRequest \/ (call # NoCall /\ late' = r)
  BY <1>1, <1>2 DEF WorldStep, Quiet, DropsLate, LeavesCall, SavesPhase, TakesCall, TakesLate,
                      AsksToStop, Finalizes, LeaseMoves
<1>6. NoRequest' = NoRequest
  BY DEF NoRequest
<1>7. CASE late' = l /\ l # NoRequest
  BY <1>1, <1>3, <1>7 DEF LateInv
<1>8. CASE call # NoCall /\ late' = r
  BY <1>4, <1>8 DEF LateInv
<1> QED
  BY <1>5, <1>6, <1>7, <1>8 DEF LateInv

LEMMA GapKept ==
  ASSUME RunInv, NoSilentGap, WorldStep, Growth
  PROVE  NoSilentGap'
<1> DEFINE Next2(i, k) == /\ i < k /\ journal[i].token = journal[k].token
                          /\ journal[i].n > 0 /\ journal[k].n > 0
                          /\ \A m \in (i+1)..(k-1) : journal[m].n = 0
       Later(m, n) == m < n /\ (m + 1)..(n - 1) \subseteq forgiven'
<1>1. WorldInv /\ LateInv
  BY DEF RunInv
<1>2. \A m, n : Chained(m, n) => Later(m, n)
  BY DEF Chained, Growth
<1>3. \A i, k \in DOMAIN journal : Next2(i, k) => Chained(journal[i].n, journal[k].n)
  BY DEF NoSilentGap, Chained
<1>4. ASSUME \A i, k \in DOMAIN journal' : Next2(i, k)' => Later(journal'[i].n, journal'[k].n)
      PROVE  NoSilentGap'
  BY <1>4 DEF NoSilentGap, Chained
<1> DEFINE l == Len(journal)
<1>5. l \in Nat /\ DOMAIN journal = 1..l
  BY <1>1 DEF WorldInv
<1>6. ASSUME \A i \in 1..l : journal'[i] = journal[i], NEW i \in 1..l, NEW k \in 1..l, Next2(i, k)'
      PROVE  Later(journal'[i].n, journal'[k].n)
  <2>1. \A m \in (i+1)..(k-1) : m \in 1..l
    BY <1>5
  <2>2. Next2(i, k)
    BY <1>6, <2>1
  <2>3. Chained(journal[i].n, journal[k].n)
    BY <1>3, <1>5, <2>2
  <2> QED
    BY <1>2, <1>6, <2>3
<1>7. CASE journal' = journal
  BY <1>2, <1>3, <1>4, <1>7
<1>8. CASE AsksToStop \/ Finalizes
  <2>1. /\ DOMAIN journal' = 1..(l + 1)
        /\ \A i \in 1..l : journal'[i] = journal[i]
        /\ journal'[l + 1].n = 0
    BY <1>1, <1>8, OwnRow
  <2>2. ASSUME NEW i \in 1..(l + 1), NEW k \in 1..(l + 1), Next2(i, k)' PROVE i \in 1..l /\ k \in 1..l
    <3>1. journal'[i].n > 0 /\ journal'[k].n > 0
      BY <2>2
    <3>2. i # l + 1 /\ k # l + 1
      BY <2>1, <3>1
    <3> QED
      BY <1>5, <3>2
  <2> HIDE DEF Next2, l
  <2> QED
    BY <1>4, <1>6, <2>1, <2>2
<1>9. CASE TakesCall \/ TakesLate
  <2>1. PICK req \in {late, Request} : Taken(req) /\ GoodRequest(req)
    BY <1>1, <1>9, RequestGood DEF TakesCall, TakesLate, LateInv
  <2> DEFINE b == req.batch q == Len(b)
  <2>2. req \in Requests /\ b \in Batches
    BY <2>1 DEF GoodRequest
  <2>3. /\ q \in {1, 2} /\ DOMAIN journal' = 1..(l + q)
        /\ \A i \in 1..l : journal'[i] = journal[i]
        /\ \A j \in 1..q : journal'[l + j].n = b[j].n /\ journal'[l + j].token = req.token
    BY <1>1, <2>1, <2>2, TakenGrows DEF Grows
  <2>4. HasLease(req.token) /\ req.first = run.cursor + 1
    BY <2>1 DEF Taken
  <2>5. b[1].n > 0 => Follows(b[1].n)
    BY <2>1, <2>4 DEF GoodRequest
  <2>6. q = 2 => b[1].n > 0 /\ (b[2].n > 0 => Chained(b[1].n, b[2].n))
    BY <2>1, <2>2, BatchForm DEF GoodRequest, TextEvents
  <2> HIDE DEF b, q, l
  <2>7. ASSUME NEW i \in 1..(l + q), NEW k \in 1..(l + q), Next2(i, k)'
        PROVE  Later(journal'[i].n, journal'[k].n)
    <3>1. /\ i < k /\ journal'[i].token = journal'[k].token
          /\ journal'[i].n > 0 /\ journal'[k].n > 0
          /\ \A m \in (i+1)..(k-1) : journal'[m].n = 0
      BY <2>7
    <3> HIDE DEF Next2
    <3>2. CASE k <= l
      <4>1. i \in 1..l /\ k \in 1..l
        BY <1>5, <2>3, <3>1, <3>2
      <4> QED
        BY <1>6, <2>3, <2>7, <4>1
    <3>3. CASE i > l
      <4>1. q = 2 /\ i = l + 1 /\ k = l + 2 /\ 1 \in 1..q /\ 2 \in 1..q
        BY <1>5, <2>3, <3>1, <3>3
      <4>2. journal'[i].n = b[1].n /\ journal'[k].n = b[2].n
        BY <2>3, <4>1
      <4> QED
        BY <1>2, <2>6, <3>1, <4>1, <4>2
    <3>4. CASE i <= l /\ k = l + 1
      <4>1. i \in 1..l /\ 1 \in 1..q /\ k - 1 = l
        BY <1>5, <2>3, <3>4
      <4>2. \A m \in (i+1)..l : m \in 1..l /\ m \in (i+1)..(k-1)
        BY <1>5, <4>1
      <4>3. Newest(i)
        BY <1>5, <2>3, <3>1, <4>1, <4>2 DEF Newest, l
      <4>4. journal'[k].n = b[1].n /\ journal'[k].token = req.token /\ journal'[i] = journal[i]
        BY <2>3, <3>4, <4>1
      <4>5. journal[i].token = run.lease
        BY <2>4, <3>1, <4>4 DEF HasLease
      <4>6. Chained(journal[i].n, b[1].n)
        BY <1>5, <2>5, <3>1, <4>1, <4>3, <4>4, <4>5 DEF Follows
      <4> QED
        BY <1>2, <4>4, <4>6
    <3>5. CASE i <= l /\ k = l + 2 /\ q = 2
      <4>1. l + 1 \in (i+1)..(k-1) /\ 1 \in 1..q
        BY <1>5, <3>5
      <4>2. journal'[l + 1].n = 0 /\ journal'[l + 1].n = b[1].n
        BY <2>3, <3>1, <4>1
      <4> QED
        BY <2>6, <3>5, <4>2
    <3> QED
      BY <1>5, <2>3, <3>2, <3>3, <3>4, <3>5
  <2> QED
    BY <1>4, <2>3, <2>7
<1> QED
  BY <1>7, <1>8, <1>9 DEF WorldStep, Quiet, DropsLate, LeavesCall, SavesPhase, LeaseMoves, remote

LEMMA EndsKept ==
  ASSUME RunInv, EndsAsSaved, WorldStep, Growth
  PROVE  EndsAsSaved'
<1>1. WorldInv /\ LateInv
  BY DEF RunInv
<1>2. \A kind : SavedAs(kind) => SavedAs(kind)'
  BY LeaseKept
<1>3. SavedAs("complete") <=> phase = "finished"
  BY DEF SavedAs
<1> DEFINE Told2 == /\ run.outcome = "complete" => SavedAs("complete")
                    /\ run.outcome = "failed" => SavedAs("failed")
           Row(i) == journal[i].kind = "cancelled" /\ journal[i].token # 0 => SavedAs("cancelled")
<1>4. Told2 /\ \A i \in DOMAIN journal : Row(i)
  BY DEF EndsAsSaved, SavedAs
<1>5. ASSUME Told2', \A i \in DOMAIN journal' : Row(i)'
      PROVE  EndsAsSaved'
  BY <1>5 DEF EndsAsSaved, SavedAs
<1> DEFINE l == Len(journal)
<1>6. l \in Nat /\ DOMAIN journal = 1..l
  BY <1>1 DEF WorldInv
<1>7. CASE UNCHANGED journal /\ run'.outcome = run.outcome
  BY <1>2, <1>4, <1>5, <1>7
<1>8. CASE AsksToStop \/ Finalizes
  <2>1. /\ DOMAIN journal' = 1..(l + 1)
        /\ \A i \in 1..l : journal'[i] = journal[i]
        /\ journal'[l + 1].token = 0
    BY <1>1, <1>8, OwnRow
  <2>2. Told2'
    BY <1>2, <1>4, <1>8 DEF AsksToStop, Finalizes
  <2>3. \A i \in 1..(l + 1) : i \in 1..l \/ i = l + 1
    BY <1>6
  <2>4. \A i \in 1..(l + 1) : Row(i)'
    BY <1>2, <1>4, <1>6, <2>1, <2>3
  <2> QED
    BY <1>5, <2>1, <2>2, <2>4
<1>9. CASE TakesCall \/ TakesLate
  <2>1. PICK req \in {late, Request} : Taken(req) /\ GoodRequest(req)
    BY <1>1, <1>9, RequestGood DEF TakesCall, TakesLate, LateInv
  <2> DEFINE b == req.batch q == Len(b)
  <2>2. req \in Requests /\ b \in Batches /\ SavedAs(Last(b).kind)
    BY <2>1 DEF GoodRequest
  <2>3. /\ q \in {1, 2} /\ DOMAIN journal' = 1..(l + q)
        /\ \A i \in 1..l : journal'[i] = journal[i]
        /\ \A j \in 1..q : journal'[l + j].kind = b[j].kind
    BY <1>1, <2>1, <2>2, TakenGrows DEF Grows
  <2>4. run'.outcome = Last(b).kind \/ run'.outcome = "open"
    BY <2>1 DEF Taken
  <2>5. q = 2 => b[1].kind = "text"
    BY <2>2, BatchForm DEF TextEvents
  <2>6. Last(b) = b[q]
    BY DEF Last
  <2>7. Told2'
    BY <1>2, <2>2, <2>4
  <2> HIDE DEF b, q, l
  <2>8. ASSUME NEW i \in 1..(l + q) PROVE Row(i)'
    <3>1. i \in 1..l \/ (i = l + q /\ q \in 1..q) \/ (q = 2 /\ i = l + 1 /\ 1 \in 1..q)
      BY <1>6, <2>3
    <3>2. CASE i \in 1..l
      BY <1>2, <1>4, <1>6, <2>3, <3>2
    <3>3. CASE i = l + q /\ q \in 1..q
      <4>1. journal'[i].kind = Last(b).kind
        BY <2>3, <2>6, <3>3
      <4> QED
        BY <1>2, <2>2, <4>1
    <3>4. CASE q = 2 /\ i = l + 1 /\ 1 \in 1..q
      BY <2>3, <2>5, <3>4
    <3> QED
      BY <3>1, <3>2, <3>3, <3>4
  <2> QED
    BY <1>5, <2>3, <2>7, <2>8
<1> QED
  BY <1>7, <1>8, <1>9 DEF WorldStep, Quiet, DropsLate, LeavesCall, SavesPhase, LeaseMoves, remote

------------------------------------------------------------------------------
(* Worker and NewsCraft.                                                    *)

LEMMA RowsStay ==
  ASSUME RunInv, WorldStep
  PROVE  \A i \in DOMAIN journal : i \in DOMAIN journal' /\ journal'[i] = journal[i]
<1>1. WorldInv /\ LateInv
  BY DEF RunInv
<1>2. CASE journal' = journal
  BY <1>2
<1>3. CASE AsksToStop \/ Finalizes
  <2> DEFINE l == Len(journal)
  <2>1. /\ l \in Nat /\ DOMAIN journal = 1..l /\ DOMAIN journal' = 1..(l + 1)
        /\ \A i \in 1..l : journal'[i] = journal[i]
    BY <1>1, <1>3, OwnRow
  <2> HIDE DEF l
  <2> QED
    BY <2>1
<1>4. CASE TakesCall \/ TakesLate
  <2>1. PICK req \in {late, Request} : Taken(req) /\ GoodRequest(req)
    BY <1>1, <1>4, RequestGood DEF TakesCall, TakesLate, LateInv
  <2> DEFINE l == Len(journal) k == Len(req.batch)
  <2>2. /\ l \in Nat /\ k \in {1, 2} /\ DOMAIN journal = 1..l /\ DOMAIN journal' = 1..(l + k)
        /\ \A i \in 1..l : journal'[i] = journal[i]
    BY <1>1, <2>1, TakenGrows DEF Grows, GoodRequest
  <2> HIDE DEF l, k
  <2> QED
    BY <2>2
<1> QED
  BY <1>2, <1>3, <1>4 DEF WorldStep, Quiet, DropsLate, LeavesCall, SavesPhase, LeaseMoves, remote

LEMMA AskedStays ==
  ASSUME RunInv, WorldStep, Growth, Asked
  PROVE  Asked'
<1>1. run.stopping => run'.stopping
  BY LeaseKept
<1>2. GaveUpWhatWasTaken => GaveUpWhatWasTaken'
  BY RowsStay DEF GaveUpWhatWasTaken, Growth
<1> QED
  BY <1>1, <1>2 DEF Asked

LEMMA TakenHandled ==
  ASSUME WorldInv, JobInv, NEW req, GoodRequest(req), Taken(req), req.first = job.cursor + 1,
         job'.token = job.token, job'.cursor = job.cursor, NEW b, b = req.batch
  PROVE  Handled(b)' /\ \E i \in DOMAIN journal' : journal'[i].n = b[1].n
<1> DEFINE r == [token |-> job.token, first |-> job.cursor + 1, batch |-> b]
<1>1. req \in Requests /\ b \in Batches
  BY DEF GoodRequest
<1>2. PICK s : s = r
  OBVIOUS
<1>3. s.batch = req.batch
  BY <1>2
<1>4. Replays(s)'
  BY <1>1, <1>3, TakenReplays
<1>5. r' = s
  BY <1>2
<1>6. run'.cursor = job'.cursor + Len(b)
  <2> DEFINE k == Len(b) c == run.cursor d == run'.cursor e == job.cursor f == job'.cursor
  <2>1. k \in Nat /\ c \in Nat /\ e \in Nat
    BY <1>1, BatchForm DEF WorldInv, RunRows, JobInv, JobRows
  <2>2. d = c + k /\ f = e /\ e + 1 = c + 1
    BY DEF Taken
  <2> HIDE DEF k, c, d, e, f
  <2>3. d = f + k
    BY <2>1, <2>2
  <2> QED
    BY <2>3 DEF k, d, f
<1>7. \E i \in DOMAIN journal' : journal'[i].n = b[1].n
  <2> DEFINE l == Len(journal) k == Len(b)
  <2>1. /\ l \in Nat /\ k \in {1, 2} /\ DOMAIN journal' = 1..(l + k)
        /\ \A j \in 1..k : journal'[l + j].n = b[j].n
    BY <1>1, TakenGrows DEF Grows
  <2> HIDE DEF l, k
  <2>2. l + 1 \in 1..(l + k) /\ 1 \in 1..k
    BY <2>1
  <2> QED
    BY <2>1, <2>2
<1>8. Replays([token |-> job.token, first |-> job.cursor + 1, batch |-> b])'
  <2> HIDE DEF r
  <2>1. s' = s
    OBVIOUS
  <2>2. Replays(r)'
    BY <1>4, <1>5, <2>1 DEF Replays
  <2> QED
    BY <2>2 DEF r
<1> QED
  BY <1>6, <1>7, <1>8 DEF Handled

LEMMA HandledStays ==
  ASSUME NEW b, Handled(b), job'.token = job.token, job'.cursor = job.cursor,
         run'.cursor = run.cursor, journal' = journal
  PROVE  Handled(b)'
BY DEF Handled, Replays, Kept

(* How far the two can be apart while nobody has asked for a cancellation.  *)
DueCall == call # NoCall => Due = Head(call.queue) /\ Due # <<>> /\ Request.batch = Due
LEMMA DueForm ==
  ASSUME RunInv
  PROVE  DueCall
<1> SUFFICES ASSUME call # NoCall PROVE Due = Head(call.queue) /\ Due # <<>> /\ Request.batch = Due
  BY DEF DueCall
<1>1. call.by # "nobody"
  BY DEF RunInv, TaskInv, JobInv
<1>2. Due = Head(call.queue)
  BY <1>1 DEF Due
<1>3. Request.batch = Head(call.queue)
  BY DEF Request
<1>4. Request.batch \in Batches
  BY RequestGood DEF GoodRequest
<1>5. Request.batch # <<>>
  BY <1>4, BatchForm
<1> QED
  BY <1>2, <1>3, <1>5

LEMMA Drift ==
  ASSUME RunInv, WorldStep, Growth, Alive, NEW b, b = Due,
         job'.token = job.token, job'.cursor = job.cursor, ~Asked', run'.lease = job.token
  PROVE  /\ run'.cursor = job.cursor \/ (b # <<>> /\ Handled(b)') \/ Mute
         /\ late' # NoRequest /\ late'.token = run'.lease /\ late'.first = run'.cursor + 1 =>
              \/ late'.batch[1].n \in forgiven'
              \/ b # <<>> /\ late'.batch = b /\ run'.cursor = job.cursor
              \/ Mute
<1>1. WorldInv /\ LateInv /\ JobInv /\ SyncInv /\ LateSync
  BY DEF RunInv, TaskInv
<1>2. ~Asked /\ ~run'.stopping
  BY AskedStays DEF Asked
<1>3. job.token \in Nat \ {0} /\ job.token <= grants /\ job.cursor \in Nat
  BY <1>1 DEF JobInv, JobRows
<1>4. run.lease = job.token /\ run.cursor \in Nat
  BY <1>3, LeaseKept
<1>5. run.cursor = job.cursor \/ (b # <<>> /\ Handled(b)) \/ Mute
  BY <1>1, <1>2, <1>4 DEF SyncInv
<1>6. late # NoRequest /\ late.token = run.lease /\ late.first = run.cursor + 1 =>
        \/ late.batch[1].n \in forgiven
        \/ b # <<>> /\ late.batch = b /\ run.cursor = job.cursor
        \/ Mute
  BY <1>1, <1>2, <1>4 DEF LateSync
<1>7. DueCall
  BY DueForm
<1>8. call # NoCall => GoodRequest(Request) /\ Request.first = job.cursor + 1
  BY RequestGood DEF Request
<1>9. CASE run'.cursor = run.cursor /\ UNCHANGED <<journal, late>>
  <2>1. Handled(b) => Handled(b)'
    BY <1>9, HandledStays
  <2> QED
    BY <1>4, <1>5, <1>6, <1>9, <2>1 DEF Growth
<1>10. CASE DropsLate
  <2>1. Handled(b) => Handled(b)'
    BY <1>10, HandledStays DEF DropsLate, remote
  <2> QED
    BY <1>5, <1>10, <2>1 DEF DropsLate, remote
<1>11. CASE LeavesCall
  <2>1. Handled(b) => Handled(b)'
    BY <1>11, HandledStays DEF LeavesCall, remote
  <2>2. late'.batch = b /\ b # <<>> /\ late'.first = job.cursor + 1 /\ run'.cursor = run.cursor
    BY <1>7, <1>8, <1>11 DEF LeavesCall, DueCall, remote
  <2>3. late'.first = run'.cursor + 1 => run'.cursor = job.cursor
    BY <1>3, <1>4, <2>2
  <2> QED
    BY <1>5, <1>11, <2>1, <2>2, <2>3 DEF LeavesCall, remote
<1>12. CASE TakesCall
  <2>1. PICK req : req = Request
    OBVIOUS
  <2>2. Taken(req) /\ GoodRequest(req) /\ req.first = job.cursor + 1 /\ req.batch = b /\ b # <<>> /\ late' = late
    BY <1>7, <1>8, <1>12, <2>1 DEF TakesCall, DueCall
  <2>3. Handled(b)'
    BY <1>1, <2>2, TakenHandled
  <2>4. ~(late' # NoRequest /\ late'.token = run'.lease /\ late'.first = run'.cursor + 1)
    <3> SUFFICES ASSUME late # NoRequest, late.token = run'.lease, late.first = run'.cursor + 1 PROVE FALSE
      BY <2>2
    <3> DEFINE k == Len(b) c == run.cursor d == run'.cursor f == late.first
    <3>1. late.token = run.lease /\ d = c + k
      BY <2>2 DEF Taken
    <3>2. f <= c + 1 /\ f \in Nat
      BY <1>1, <3>1 DEF LateInv, GoodRequest, Requests
    <3>3. k \in {1, 2} /\ c \in Nat
      BY <1>4, <2>2, BatchForm DEF GoodRequest
    <3>4. f = d + 1
      OBVIOUS
    <3> HIDE DEF k, c, d, f
    <3> QED
      BY <3>1, <3>2, <3>3, <3>4
  <2> QED
    BY <2>2, <2>3, <2>4
<1>13. CASE TakesLate
  <2>1. PICK req : req = late
    OBVIOUS
  <2>2. Taken(req) /\ GoodRequest(req) /\ late # NoRequest /\ late' = NoRequest
    BY <1>1, <1>13, <2>1 DEF TakesLate, LateInv
  <2>3. req.token = run.lease /\ req.first = run.cursor + 1
    BY <2>2 DEF Taken, HasLease
  <2>4. CASE late.batch[1].n \in forgiven
    <3> DEFINE l == Len(journal) k == Len(req.batch)
    <3>1. /\ l \in Nat /\ k \in {1, 2} /\ DOMAIN journal' = 1..(l + k)
          /\ \A j \in 1..k : journal'[l + j].n = req.batch[j].n
      BY <1>1, <2>2, TakenGrows DEF Grows, GoodRequest
    <3> HIDE DEF l, k
    <3>2. l + 1 \in 1..(l + k) /\ 1 \in 1..k
      BY <3>1
    <3>3. journal'[l + 1].n \in forgiven'
      BY <2>1, <2>4, <3>1, <3>2 DEF Growth
    <3>4. GaveUpWhatWasTaken'
      BY <3>1, <3>2, <3>3 DEF GaveUpWhatWasTaken
    <3> QED
      BY <3>4 DEF Asked
  <2>5. CASE b # <<>> /\ late.batch = b /\ run.cursor = job.cursor
    <3>1. req.first = job.cursor + 1 /\ req.batch = b
      BY <2>1, <2>3, <2>5
    <3>2. Handled(b)'
      BY <1>1, <2>2, <3>1, TakenHandled
    <3> QED
      BY <2>2, <2>5, <3>2
  <2>6. late.batch[1].n \in forgiven \/ (b # <<>> /\ late.batch = b /\ run.cursor = job.cursor) \/ Mute
    BY <1>6, <2>1, <2>2, <2>3
  <2> QED
    BY <2>2, <2>4, <2>5, <2>6
<1>14. CASE AsksToStop \/ Finalizes
  BY <1>2, <1>14 DEF AsksToStop, Finalizes
<1> QED
  BY <1>9, <1>10, <1>11, <1>12, <1>13, <1>14
     DEF WorldStep, Quiet, SavesPhase, LeaseMoves, remote

------------------------------------------------------------------------------
(* What a step does to the task.                                            *)

SameLease == job'.token = job.token /\ job'.cursor = job.cursor
Justified == Cancelling(job)' => Cancelling(job) \/ Asked'
Settled ==
  job'.at \in {"complete", "sayFailed", "sayCancelled"} /\ job'.at # job.at => PhaseInv'

LEMMA Basics ==
  ASSUME RunInv
  PROVE  /\ WorldInv /\ JobInv /\ made \in Nat \ {0} /\ grants \in Nat \ {0}
         /\ job \in JobRows /\ call \in CallRows
         /\ job.token \in Nat /\ job.cursor \in Nat /\ job.token <= grants
         /\ Alive => job.token \in Nat \ {0}
         /\ run.cursor \in Nat /\ run.lease \in Nat /\ run.lease <= grants
BY DEF RunInv, WorldInv, TaskInv, JobInv, JobRows, RunRows

LEMMA Phased ==
  ASSUME RunInv, WorldStep, Settled
  PROVE  PhaseInv'
<1>1. \A kind : SavedAs(kind) => SavedAs(kind)'
  BY LeaseKept
<1>2. PhaseInv
  BY DEF RunInv, TaskInv
<1>3. CASE job'.at = job.at
  BY <1>1, <1>2, <1>3 DEF PhaseInv
<1>4. CASE job'.at # job.at /\ job'.at \in {"complete", "sayFailed", "sayCancelled"}
  BY <1>4 DEF Settled
<1>5. CASE job'.at \notin {"complete", "sayFailed", "sayCancelled"}
  BY <1>5 DEF PhaseInv
<1> QED
  BY <1>3, <1>4, <1>5

LEMMA Caused ==
  ASSUME RunInv, WorldStep, Growth, Justified
  PROVE  CauseInv'
BY AskedStays DEF RunInv, TaskInv, CauseInv, Justified, Cancelling

LEMMA CursorKept ==
  ASSUME RunInv, WorldStep, Alive, SameLease
  PROVE  CursorInv'
<1>1. CursorInv /\ job.token \in Nat \ {0} /\ job.token <= grants /\ job.cursor \in Nat
  BY Basics DEF RunInv, TaskInv
<1> DEFINE c == run.cursor d == run'.cursor e == job.cursor
<1>2. c \in Nat /\ d \in Nat /\ c <= d /\ (run'.lease = job.token => run.lease = job.token)
  BY <1>1, LeaseKept
<1>3. run.lease = job.token => e <= c
  BY <1>1 DEF CursorInv
<1> HIDE DEF c, d, e
<1>4. run'.lease = job.token => e <= d
  BY <1>1, <1>2, <1>3 DEF e
<1> QED
  BY <1>4 DEF CursorInv, SameLease, d, e

(* The task has left the run, or has nothing more to say of it.             *)
Falls ==
  /\ job' \in JobRows /\ call' = NoCall /\ job'.buffer = <<>>
  /\ job'.flush = "none" \/ (job'.flush = "timer" /\ job'.at \in Waiting \cup {"closing"})
  /\ job'.at = "none" => job' = NoJob
  /\ job'.at \in Idling \cup {"resign", "closing"} \/ job'.interrupt
  /\ job'.at # "none" => /\ job'.token = job.token
                         /\ run'.lease = job.token => job'.cursor <= run'.cursor

LEMMA FallsTask ==
  ASSUME RunInv, WorldStep, Growth, Alive, Falls, Justified, Settled
  PROVE  TaskInv'
<1>1. JobInv /\ grants \in Nat \ {0} /\ job.token <= grants /\ job.token \in Nat \ {0}
  BY Basics
<1>2. JobInv'
  <2>1. NoCall \in CallRows /\ NoCall' = NoCall /\ NoCall.by = "nobody" /\ ~NoCall.cut
    BY DEF NoCall, CallRows
  <2>2. call' \in CallRows /\ call'.by = "nobody" /\ ~call'.cut /\ call' = NoCall'
    BY <2>1 DEF Falls
  <2>3. NoJob' = NoJob /\ NoJob.token = 0 /\ NoJob.at = "none"
    BY DEF NoJob, Job
  <2>4. job'.token <= grants' /\ (Alive' => job'.token # 0)
    <3>1. grants' \in Nat /\ grants <= grants'
      BY DEF Growth
    <3>2. CASE job'.at = "none"
      BY <2>3, <3>1, <3>2 DEF Falls, Alive
    <3>3. CASE job'.at # "none"
      BY <1>1, <3>1, <3>3 DEF Falls
    <3> QED
      BY <3>2, <3>3
  <2> QED
    BY <2>2, <2>3, <2>4 DEF Falls, JobInv
<1>3. Alive' => Mute'
  BY DEF Falls, Alive, Mute, Idling, NoCall
<1>4. CursorInv'
  BY DEF Falls, CursorInv, Alive
<1>5. TextInv'
  <2> SUFFICES ASSUME Alive' PROVE (\E text \in Buffers : Carries(text) /\ InOrder(text))'
    BY DEF TextInv
  <2>1. Carries(<<>>)'
    BY DEF Carries, Falls, NoCall
  <2>2. InOrder(<<>>)'
    BY <1>3 DEF InOrder
  <2> QED
    BY <2>1, <2>2 DEF Buffers
<1>6. SyncInv' /\ LateSync'
  BY <1>3 DEF SyncInv, LateSync
<1> QED
  BY <1>2, <1>4, <1>5, <1>6, Phased, Caused DEF TaskInv

(* It goes on with the same text before it.                                 *)
Keeps ==
  /\ SameLease
  /\ \A text \in Buffers : Carries(text) => Carries(text)'
  /\ Upcoming' \subseteq Upcoming
  /\ Mute => Mute' \/ (Upcoming' = {} /\ Cancelling(job))
  /\ Due = <<>> \/ Due' = Due \/ Mute'

LEMMA KeepsTask ==
  ASSUME RunInv, WorldStep, Growth, Alive, Alive', JobInv', Keeps, Justified, Settled
  PROVE  TaskInv'
<1>1. JobInv /\ made \in Nat /\ job.token <= grants /\ job.token \in Nat \ {0} /\ job.cursor \in Nat /\ SameLease
  BY Basics DEF Keeps
<1>2. CursorInv'
  BY <1>1, CursorKept
<1>3. TextInv'
  <2>1. PICK text \in Buffers : Carries(text) /\ InOrder(text)
    BY DEF RunInv, TaskInv, TextInv
  <2>2. Carries(text)'
    BY <2>1 DEF Keeps
  <2>3. text # <<>> => text[1].n \in Nat
    BY BufferForm DEF TextEvents
  <2>4. \A n \in Upcoming : n \in Nat
    BY <1>1 DEF Upcoming
  <2>5. \A n \in Nat : text # <<>> /\ Chained(text[1].n, n) => Chained(text[1].n, n)'
    BY DEF Chained, Growth
  <2>6. Synced' => Synced /\ \A n \in Nat : Follows(n) => Follows(n)'
    <3> SUFFICES ASSUME Synced' PROVE Synced /\ \A n \in Nat : Follows(n) => Follows(n)'
      OBVIOUS
    <3>1. HasLease(job.token)' /\ run'.cursor = job.cursor
      BY <1>1 DEF Synced, SameLease
    <3>2. run'.lease = job.token
      BY <1>1, <3>1 DEF HasLease, SameLease
    <3>3. run.lease = job.token /\ run.cursor <= run'.cursor /\ run.cursor \in Nat
      BY <1>1, <3>2, LeaseKept
    <3>4. job.cursor <= run.cursor
      BY <3>3 DEF RunInv, TaskInv, CursorInv
    <3>5. run'.cursor = run.cursor
      <4> DEFINE c == run.cursor d == run'.cursor e == job.cursor
      <4>1. c \in Nat /\ c <= d /\ d = e /\ e <= c /\ e \in Nat
        BY <1>1, <3>1, <3>3, <3>4
      <4> HIDE DEF c, d, e
      <4>2. d = c
        BY <4>1
      <4> QED
        BY <4>2 DEF c, d
    <3>6. PICK t : t = job.token
      OBVIOUS
    <3>7. HasLease(t)' /\ t <= grants
      BY <1>1, <3>1, <3>6 DEF HasLease, SameLease
    <3>8. HasLease(t) /\ \A n \in Nat : Follows(n) => Follows(n)'
      BY <3>5, <3>7, StillFollows
    <3> QED
      BY <3>1, <3>5, <3>6, <3>8 DEF Synced
  <2>7. text # <<>> => text[1].n <= made'
    BY <1>1, <2>1, <2>3 DEF InOrder, Growth
  <2>8. text # <<>> => \A n \in Upcoming' : Chained(text[1].n, n)'
    BY <2>1, <2>4, <2>5 DEF InOrder, Keeps
  <2>9. text # <<>> /\ Synced' => Follows(text[1].n)'
    BY <2>1, <2>3, <2>6 DEF InOrder
  <2>10. text = <<>> /\ Synced' => Mute' \/ \A n \in Upcoming' : Follows(n)'
    BY <2>1, <2>4, <2>6 DEF InOrder, Keeps
  <2>11. InOrder(text)'
    BY <2>7, <2>8, <2>9, <2>10 DEF InOrder
  <2> QED
    BY <2>2, <2>11 DEF TextInv
<1>4. SyncInv' /\ LateSync'
  <2> SUFFICES ASSUME ~Asked', run'.lease = job'.token PROVE SyncInv' /\ LateSync'
    BY DEF SyncInv, LateSync
  <2>1. PICK b : b = Due
    OBVIOUS
  <2>2. run'.lease = job.token
    BY <1>1 DEF SameLease
  <2>3. /\ run'.cursor = job.cursor \/ (b # <<>> /\ Handled(b)') \/ Mute
        /\ late' # NoRequest /\ late'.token = run'.lease /\ late'.first = run'.cursor + 1 =>
             \/ late'.batch[1].n \in forgiven'
             \/ b # <<>> /\ late'.batch = b /\ run'.cursor = job.cursor
             \/ Mute
    BY <1>1, <2>1, <2>2, Drift DEF SameLease
  <2>4. ~Cancelling(job)
    BY AskedStays DEF RunInv, TaskInv, CauseInv
  <2>5. Mute => Mute'
    BY <2>4 DEF Keeps
  <2>6. b = <<>> \/ Due' = b \/ Mute'
    BY <2>1 DEF Keeps
  <2>7. SyncInv'
    BY <1>1, <2>3, <2>5, <2>6 DEF SyncInv, SameLease
  <2>8. NoRequest' = NoRequest
    BY DEF NoRequest
  <2>9. LateSync'
    BY <1>1, <2>3, <2>5, <2>6, <2>8 DEF LateSync, SameLease
  <2> QED
    BY <2>7, <2>9
<1> QED
  BY <1>2, <1>3, <1>4, Phased, Caused DEF TaskInv

(* It is not there.                                                         *)
LEMMA AbsentTask ==
  ASSUME RunInv, WorldStep, Growth, ~Alive', JobInv', Justified, Settled
  PROVE  TaskInv'
<1>1. TextInv' /\ CursorInv' /\ SyncInv' /\ LateSync'
  BY DEF TextInv, CursorInv, SyncInv, LateSync
<1> QED
  BY <1>1, Phased, Caused DEF TaskInv

LEMMA Still ==
  ASSUME RunInv, WorldStep, Growth, UNCHANGED <<job, call, made>>
  PROVE  TaskInv'
<1>1. JobInv /\ job.token <= grants /\ job.token \in Nat /\ grants \in Nat
  BY Basics
<1>2. JobInv'
  <2>1. job.token <= grants'
    BY <1>1 DEF Growth
  <2> QED
    BY <1>1, <2>1 DEF JobInv, Alive, NoCall, NoJob, Job
<1>3. Justified /\ Settled
  BY DEF Justified, Settled, Cancelling
<1>4. Alive' <=> Alive
  BY DEF Alive
<1>5. Keeps
  BY DEF Keeps, SameLease, Carries, Outgoing, Own, Kind, Event, Upcoming, Mute, NoCall, Due
<1> QED
  BY <1>2, <1>3, <1>4, <1>5, KeepsTask, AbsentTask

(* The task is told to stop.                                                *)
LEMMA Stopped ==
  ASSUME RunInv, WorldStep, Growth, Alive, UNCHANGED <<call, made>>,
         NEW reason \in Stops, NEW renew \in BOOLEAN,
         job' = [job EXCEPT !.stop = reason, !.interrupt = TRUE, !.renew = renew],
         reason = "cancelled" => Asked'
  PROVE  TaskInv'
<1>1. JobInv /\ job.token <= grants /\ job.token \in Nat /\ grants \in Nat /\ job \in JobRows
  BY Basics
<1>2. /\ job' \in JobRows /\ job'.token = job.token /\ job'.cursor = job.cursor /\ job'.batch = job.batch
      /\ job'.at = job.at /\ job'.buffer = job.buffer /\ job'.flush = job.flush
      /\ job'.interrupt /\ job'.stop = reason /\ job'.again = job.again
  BY <1>1 DEF JobRows
<1>3. JobInv'
  <2>1. job.token <= grants'
    BY <1>1 DEF Growth
  <2>2. job'.at # "none"
    BY <1>2 DEF Alive
  <2> QED
    BY <1>1, <1>2, <2>1, <2>2 DEF JobInv, Alive, NoCall
<1>4. Justified /\ Settled /\ Alive'
  BY <1>2 DEF Justified, Settled, Cancelling, Alive
<1>5. Keeps
  <2>1. \A text \in Buffers : Carries(text) => Carries(text)'
    BY <1>2 DEF Carries, Outgoing, Own, Kind, Event
  <2>2. Upcoming' = Upcoming /\ (Mute => Mute') /\ Due' = Due
    BY <1>2 DEF Upcoming, Mute, NoCall, Due, Own, Kind, Event
  <2> QED
    BY <1>2, <2>1, <2>2 DEF Keeps, SameLease
<1> QED
  BY <1>3, <1>4, <1>5, KeepsTask

LEMMA StopSteps ==
  ASSUME RunInv, RenewSeesCancellation \/ RenewFails \/ TellWorker
  PROVE  TaskInv'
<1>1. Quiet /\ Growth /\ WorldStep
  BY QuietSteps DEF WorldStep
<1>2. job \in JobRows
  BY Basics
<1>3. UNCHANGED <<call, made>> /\ Alive
  BY DEF RenewSeesCancellation, RenewFails, TellWorker, Proceeds
<1>4. CASE RenewSeesCancellation
  <2>1. job' = [job EXCEPT !.stop = "cancelled", !.interrupt = TRUE, !.renew = FALSE] /\ run.stopping
    BY <1>2, <1>4 DEF RenewSeesCancellation, Proceeds, Stop
  <2>2. Asked'
    BY <1>1, <2>1, AskedStays DEF Asked
  <2> QED
    BY <1>1, <1>3, <2>1, <2>2, Stopped DEF Stops
<1>5. CASE RenewFails
  <2>1. job' = [job EXCEPT !.stop = "stale_lease", !.interrupt = TRUE, !.renew = FALSE]
    BY <1>2, <1>5 DEF RenewFails, Stop
  <2> QED
    BY <1>1, <1>3, <2>1, Stopped DEF Stops
<1>6. CASE TellWorker
  <2>1. job' = [job EXCEPT !.stop = "cancelled", !.interrupt = TRUE] /\ run.stopping
    BY <1>6 DEF TellWorker, Stop
  <2>2. job' = [job EXCEPT !.stop = "cancelled", !.interrupt = TRUE, !.renew = job.renew] /\ job.renew \in BOOLEAN
    BY <1>2, <2>1 DEF JobRows
  <2>3. Asked'
    BY <1>1, <2>1, AskedStays DEF Asked
  <2> QED
    BY <1>1, <1>3, <2>2, <2>3, Stopped DEF Stops
<1> QED
  BY <1>4, <1>5, <1>6

(* It leaves the run, or settles a cancellation.                            *)
LEMMA CursorAhead ==
  ASSUME RunInv, WorldStep, Alive, run'.lease = job.token
  PROVE  job.cursor <= run'.cursor
<1> DEFINE c == run.cursor d == run'.cursor e == job.cursor
<1>1. job.token \in Nat \ {0} /\ job.token <= grants /\ e \in Nat
  BY Basics
<1>2. c \in Nat /\ d \in Nat /\ c <= d /\ run.lease = job.token
  BY <1>1, LeaseKept
<1>3. e <= c
  BY <1>2 DEF RunInv, TaskInv, CursorInv
<1> HIDE DEF c, d, e
<1>4. e <= d
  BY <1>1, <1>2, <1>3
<1> QED
  BY <1>4 DEF d, e

LEMMA RestsTask ==
  ASSUME RunInv, WorldStep, Growth, Alive, call' = NoCall, NEW j, Rests(j, job'),
         j.token = job.token, run'.lease = job.token => j.cursor <= run'.cursor, Justified
  PROVE  TaskInv'
<1>1. Falls
  BY DEF Rests, Falls, SameCall
<1>2. Settled
  BY DEF Rests, Settled, Idling
<1> QED
  BY <1>1, <1>2, FallsTask

(* CancelledError arrives.                                                  *)
LEMMA RaiseTask ==
  ASSUME RunInv, WorldStep, Growth, Alive, made' = made, NEW j \in JobRows, SameCall(job, j),
         j.flush = job.flush, j.at = job.at, j.buffer = job.buffer, job' = Raise(j),
         \/ call' = NoCall /\ (call.by # "flush" \/ job.at = "closing")
         \/ call' = call /\ call.by # "task" /\ ~(call.by = "flush" /\ job.at = "closing"),
         Cancelling(j) => Cancelling(job) \/ Asked'
  PROVE  TaskInv'
<1>1. JobInv /\ job.token <= grants /\ job.token \in Nat \ {0} /\ grants \in Nat
  BY Basics
<1>2. j.at # "none"
  BY DEF Alive
<1>3. /\ j.flush = "sending" /\ j.at \in Waiting => Waits(j, Raise(j))
      /\ j.flush # "sending" \/ j.at = "closing" => Rests(j, Raise(j))
      /\ Cancelling(Raise(j)) => Cancelling(j)
  BY <1>2, RaiseGoesOn
<1>4. Justified
  BY <1>3 DEF Justified, Cancelling
<1>5. call.by = "flush" <=> job.flush = "sending"
  BY <1>1 DEF JobInv
<1>6. CASE call' = NoCall /\ (j.flush # "sending" \/ j.at = "closing")
  <2>1. Rests(j, job')
    BY <1>3, <1>6
  <2>2. run'.lease = job.token => j.cursor <= run'.cursor
    BY CursorAhead DEF SameCall
  <2> QED
    BY <1>4, <1>6, <2>1, <2>2, RestsTask DEF SameCall
<1>7. CASE call' = call /\ call.by = "flush" /\ job.at # "closing"
  <2>1. job.flush = "sending" /\ job.at \in Waiting
    BY <1>1, <1>7 DEF JobInv
  <2>2. Waits(j, job')
    BY <1>3, <2>1
  <2>3. call # NoCall /\ job.buffer = <<>>
    BY <1>1, <1>7 DEF JobInv, NoCall
  <2>4. /\ job' \in JobRows /\ job'.at = "closing" /\ job'.flush = "sending" /\ job'.buffer = <<>>
        /\ job'.token = job.token /\ job'.cursor = job.cursor
    BY <2>2, <2>3 DEF Waits, SameCall
  <2>5. JobInv'
    <3>1. job.token <= grants'
      BY <1>1 DEF Growth
    <3> QED
      BY <1>1, <1>7, <2>3, <2>4, <3>1 DEF JobInv, Alive, NoCall
  <2>6. Alive' /\ Settled
    BY <2>4 DEF Alive, Settled
  <2>7. Keeps
    <3>1. ~Mute /\ Upcoming' = {} /\ Due' = Due
      BY <1>7, <2>3, <2>4 DEF Mute, Upcoming, Told, Due
    <3>2. \A text \in Buffers : Carries(text) => Carries(text)'
      BY <1>7 DEF Carries
    <3> QED
      BY <2>4, <3>1, <3>2 DEF Keeps, SameLease
  <2> QED
    BY <1>4, <2>5, <2>6, <2>7, KeepsTask
<1>8. CASE call' = call /\ call.by = "nobody"
  <2>1. call = NoCall /\ j.flush # "sending"
    BY <1>1, <1>5, <1>8 DEF JobInv
  <2> QED
    BY <1>6, <1>8, <2>1
<1>9. call.by \in {"nobody", "task", "flush"}
  BY <1>1 DEF JobInv, CallRows
<1> QED
  BY <1>5, <1>6, <1>7, <1>8, <1>9

LEMMA RaiseSteps ==
  ASSUME RunInv, NoticeStop \/ CheckpointRefuses
  PROVE  TaskInv'
<1>1. Growth /\ WorldStep
  BY QuietSteps DEF WorldStep
<1>2. job \in JobRows /\ JobInv
  BY Basics
<1>3. CASE NoticeStop
  <2>1. Alive /\ job' = Raise(job) /\ UNCHANGED <<call, made>> /\ call.by # "task" /\ job.at # "closing"
    BY <1>3 DEF NoticeStop, Proceeds, Undisturbed
  <2> QED
    BY <1>1, <1>2, <2>1, RaiseTask DEF SameCall
<1>4. CASE CheckpointRefuses
  <2> DEFINE j == [job EXCEPT !.stop = "cancelled"]
  <2>1. /\ Alive /\ job' = Raise(j) /\ UNCHANGED <<call, made>> /\ job.at = "work" /\ run.stopping
    BY <1>4 DEF CheckpointRefuses, Proceeds, Undisturbed, Working
  <2>2. call.by # "task"
    BY <1>2, <2>1 DEF JobInv, Tells, Told
  <2>3. j \in JobRows /\ SameCall(job, j) /\ j.flush = job.flush /\ j.at = job.at /\ j.buffer = job.buffer
    BY <1>2 DEF JobRows, SameCall, Stops
  <2>4. Asked'
    BY <1>1, <2>1, AskedStays DEF Asked
  <2> HIDE DEF j
  <2> QED
    BY <1>1, <2>1, <2>2, <2>3, <2>4, RaiseTask
<1> QED
  BY <1>3, <1>4

LEMMA InterruptedStep ==
  ASSUME RunInv, Interrupted
  PROVE  TaskInv'
<1>1. Growth /\ WorldStep
  BY CallSteps DEF WorldStep
<1>2. job \in JobRows /\ JobInv /\ call \in CallRows /\ job.token <= grants /\ grants \in Nat /\ job.token \in Nat
  BY Basics
<1>3. Alive /\ made' = made
  BY DEF Interrupted
<1>4. CASE /\ call.by = "task" /\ job.batch /\ ~call.cut
           /\ job' = [job EXCEPT !.interrupt = FALSE]
           /\ call' = [call EXCEPT !.cut = TRUE]
  <2>1. /\ job' \in JobRows /\ job'.token = job.token /\ job'.cursor = job.cursor /\ job'.batch = job.batch
        /\ job'.at = job.at /\ job'.buffer = job.buffer /\ job'.flush = job.flush
        /\ job'.stop = job.stop /\ job'.again = job.again
    BY <1>2, <1>4 DEF JobRows
  <2>2. call' \in CallRows /\ call'.by = call.by /\ call'.queue = call.queue
    BY <1>2, <1>4 DEF CallRows
  <2>3. call # NoCall /\ call' # NoCall
    BY <1>4, <2>2 DEF NoCall
  <2>4. JobInv'
    <3>1. job.token <= grants'
      BY <1>1, <1>2 DEF Growth
    <3> QED
      BY <1>2, <1>3, <1>4, <2>1, <2>2, <2>3, <3>1 DEF JobInv, Alive, NoCall
  <2>5. Alive' /\ Settled /\ Justified
    BY <1>3, <2>1 DEF Alive, Settled, Justified, Cancelling
  <2>6. Keeps
    <3>1. \A text \in Buffers : Carries(text) => Carries(text)'
      BY <1>3, <2>1, <2>2 DEF Carries, Outgoing, Own, Kind, Event
    <3>2. Upcoming' = Upcoming /\ ~Mute /\ Due' = Due
      BY <1>3, <1>4, <2>1, <2>2, <2>3 DEF Upcoming, Mute, Due
    <3> QED
      BY <2>1, <3>1, <3>2 DEF Keeps, SameLease
  <2> QED
    BY <1>1, <1>3, <2>4, <2>5, <2>6, KeepsTask
<1>5. CASE /\ call.by # "flush" \/ job.at = "closing"
           /\ call' = NoCall /\ job' = Raise(job)
  BY <1>1, <1>2, <1>3, <1>5, RaiseTask DEF SameCall
<1>6. CASE /\ call.by # "task" /\ ~(call.by = "flush" /\ job.at = "closing")
           /\ job' = Raise(job) /\ UNCHANGED call
  BY <1>1, <1>2, <1>3, <1>6, RaiseTask DEF SameCall
<1> QED
  <2>1. Becomes(Free(Raise(job))) => job' = Raise(job) /\ call' = NoCall
    BY DEF Becomes, Free
  <2> QED
    BY <1>4, <1>5, <1>6, <2>1 DEF Interrupted

(* The other ways out.                                                      *)
LEMMA EndedTask ==
  ASSUME RunInv, WorldStep, Growth, Alive, job' = Ended(job), call' = NoCall
  PROVE  TaskInv'
<1>1. job \in JobRows
  BY Basics
<1>2. Rests(job, Ended(job)) /\ (Cancelling(Ended(job)) => Cancelling(job))
  BY <1>1, EndedRests
<1>3. Justified
  BY <1>2 DEF Justified, Cancelling
<1> QED
  BY <1>2, <1>3, CursorAhead, RestsTask

LEMMA OutSteps ==
  ASSUME RunInv, BeginDirect \/ CancelRunFails \/ FlushStopped
  PROVE  TaskInv'
<1>1. Growth /\ WorldStep
  BY QuietSteps, CallSteps DEF WorldStep
<1>2. job \in JobRows /\ JobInv
  BY Basics
<1>3. CASE BeginDirect
  <2>1. Alive /\ job' = PublishCancelled(job) /\ UNCHANGED call /\ job.at = "direct"
    BY <1>3 DEF BeginDirect, Proceeds, Undisturbed
  <2>2. call = NoCall /\ job.flush = "none"
    BY <1>2, <2>1 DEF JobInv, JobRows, CallRows, Tells, Told, Waiting, Running, Flushes
  <2>3. Rests(job, job')
    BY <1>2, <2>1, <2>2, PublishCancelledGoesOn
  <2>4. Justified
    BY <2>1 DEF Justified, Cancelling
  <2> QED
    BY <1>1, <2>1, <2>2, <2>3, <2>4, CursorAhead, RestsTask
<1>4. CASE CancelRunFails
  <2>1. Alive /\ job' = Ended(job) /\ UNCHANGED call /\ job.at = "cancelRun"
    BY <1>4 DEF CancelRunFails, Undisturbed
  <2>2. call = NoCall
    BY <1>2, <2>1 DEF JobInv, JobRows, CallRows, Tells, Told, Waiting, Running, Flushes
  <2> QED
    BY <1>1, <2>1, <2>2, EndedTask
<1>5. CASE FlushStopped
  <2>1. Alive /\ job' = LeaveStopped(job) /\ call' = NoCall
    BY <1>5 DEF FlushStopped, Becomes, Free, Undisturbed
  <2>2. Rests(job, job') /\ (Cancelling(LeaveStopped(job)) => Cancelling(job))
    BY <1>2, <2>1, LeaveStoppedRests
  <2>3. Justified
    BY <2>1, <2>2 DEF Justified, Cancelling
  <2> QED
    BY <1>1, <2>1, <2>2, <2>3, CursorAhead, RestsTask
<1> QED
  BY <1>3, <1>4, <1>5

------------------------------------------------------------------------------
(* The calls begin.                                                         *)

LEMMA StillSteps ==
  ASSUME RunInv,
         \/ LateRequestArrives \/ RequestCancellation \/ FinalizeCancellation \/ Expire \/ RecoverLost
  PROVE  TaskInv'
<1>1. UNCHANGED <<job, call, made>>
  BY DEF LateRequestArrives, RequestCancellation, FinalizeCancellation, Expire, RecoverLost
<1> QED
  BY <1>1, RemoteSteps, Still

LEMMA SpeakStep ==
  ASSUME RunInv, Speak
  PROVE  TaskInv'
<1>1. Growth /\ WorldStep
  BY QuietSteps DEF WorldStep
<1>2. job \in JobRows /\ JobInv /\ made \in Nat \ {0} /\ job.token <= grants /\ grants \in Nat /\ job.token \in Nat
  BY Basics
<1>3. Alive /\ ~job.interrupt /\ call = NoCall /\ Speaks
  BY DEF Speak, Undisturbed
<1>4. job.at \in Tells \cup {"resign"} /\ job.buffer \in Buffers
  BY <1>2, <1>3 DEF Speaks, Tells, Told, JobRows
<1> DEFINE text == job.buffer q == Outgoing(job.buffer)
<1>5. CASE q = <<>>
  <2>1. job' = Ended(job) /\ call' = NoCall
    BY <1>3, <1>5 DEF Speak, Proceeds
  <2> QED
    BY <1>1, <1>3, <2>1, EndedTask
<1>6. CASE q # <<>>
  <2>1. /\ job' = Detached(job) /\ made' = made
        /\ call' = [by |-> "task", queue |-> q, tries |-> 1, cut |-> FALSE]
    BY <1>6 DEF Speak
  <2>2. q \in Seq(Batches) /\ ~(job.at = "resign" /\ text = <<>>)
    BY <1>2, <1>4, <1>6, OutgoingBatches
  <2>3. job.at # "resign" /\ text = <<>> => q = <<Own>> /\ Own \in Batches
    BY <1>2, <1>4, OutgoingForm, OwnForm
  <2> HIDE DEF q
  <2>4. /\ job' \in JobRows /\ job'.token = job.token /\ job'.cursor = job.cursor /\ job'.batch = job.batch
        /\ job'.at = job.at /\ job'.buffer = <<>> /\ job'.flush = job.flush
        /\ job'.stop = job.stop /\ job'.again = job.again /\ job'.interrupt = job.interrupt
    <3>1. <<>> \in Buffers
      BY DEF Buffers
    <3> QED
      BY <1>2, <2>1, <3>1 DEF JobRows, Detached
  <2>5. call' \in CallRows /\ call'.by = "task" /\ call'.queue = q /\ call' # NoCall
    BY <2>1, <2>2 DEF CallRows, NoCall
  <2>6. ASSUME NEW t, t = text PROVE Outgoing(t)' = q
    <3>1. Own' = Own
      BY <2>1, <2>4 DEF Own, Kind, Event
    <3>2. Outgoing(t) = q
      BY <2>6 DEF q
    <3> HIDE DEF text
    <3> QED
      BY <2>4, <3>1, <3>2 DEF Outgoing
  <2>7. JobInv'
    <3>1. job.token <= grants'
      BY <1>2, <1>1 DEF Growth
    <3>2. call.by = "nobody"
      BY <1>3 DEF NoCall
    <3>3. job'.at # "none"
      BY <1>3, <2>4 DEF Alive
    <3>4. NoCall' = NoCall
      BY DEF NoCall
    <3> QED
      BY <1>2, <1>3, <1>4, <2>4, <2>5, <3>1, <3>2, <3>3, <3>4 DEF JobInv, Alive
  <2>8. Alive' /\ Settled /\ Justified
    BY <1>3, <2>4 DEF Alive, Settled, Justified, Cancelling
  <2>9. Keeps
    <3>1. \A t \in Buffers : Carries(t) => Carries(t)'
      <4> SUFFICES ASSUME NEW t \in Buffers, Carries(t) PROVE Carries(t)'
        OBVIOUS
      <4>1. t = text
        BY <1>3 DEF Carries, NoCall
      <4>2. Outgoing(t)' = q
        BY <2>6, <4>1
      <4> QED
        BY <1>6, <2>5, <4>2 DEF Carries
    <3>2. Upcoming' = Upcoming
      BY <2>1, <2>4 DEF Upcoming
    <3>3. Mute => Upcoming' = {} /\ Cancelling(job)
      BY <1>3, <1>4, <2>2, <2>4 DEF Mute, Upcoming, Cancelling, Tells, Told
    <3>4. Due = <<>> \/ Due' = Due
      <4> SUFFICES ASSUME Due # <<>> PROVE Due' = Due
        OBVIOUS
      <4>1. job.at = "publish" /\ text = <<>> /\ Due = Own
        BY <1>3 DEF Due, NoCall
      <4>2. q = <<Own>> /\ Own \in Batches
        BY <2>3, <4>1
      <4>3. Due' = Head(q)
        BY <2>5 DEF Due
      <4> QED
        BY <4>1, <4>2, <4>3, One
    <3> QED
      BY <2>4, <3>1, <3>2, <3>3, <3>4 DEF Keeps, SameLease
  <2> QED
    BY <1>1, <1>3, <2>7, <2>8, <2>9, KeepsTask
<1> QED
  BY <1>5, <1>6

LEMMA FlushTextStep ==
  ASSUME RunInv, FlushText
  PROVE  TaskInv'
<1>1. Growth /\ WorldStep
  BY QuietSteps DEF WorldStep
<1>2. job \in JobRows /\ JobInv /\ made \in Nat \ {0} /\ job.token <= grants /\ grants \in Nat /\ job.token \in Nat
  BY Basics
<1>3. Alive /\ call = NoCall /\ job.flush = "timer" /\ made' = made
  BY DEF FlushText, Proceeds
<1>4. job.buffer \in Buffers
  BY <1>2 DEF JobRows
<1>5. PICK f \in {"none", "sending"} :
        /\ job' = [job EXCEPT !.buffer = <<>>, !.flush = f]
        /\ IF f = "none" THEN call' = call /\ job.buffer = <<>>
           ELSE job.buffer # <<>> /\ call' = [by |-> "flush", queue |-> <<job.buffer>>, tries |-> 1, cut |-> FALSE]
  <2>1. CASE job.buffer = <<>>
    <3>1. job' = [job EXCEPT !.flush = "none"] /\ call' = call
      BY <2>1 DEF FlushText, Proceeds
    <3>2. job' = [job EXCEPT !.buffer = <<>>, !.flush = "none"]
      BY <1>2, <2>1, <3>1 DEF JobRows
    <3> QED
      BY <2>1, <3>1, <3>2
  <2>2. CASE job.buffer # <<>>
    <3>1. /\ job' = [Detached(job) EXCEPT !.flush = "sending"]
          /\ call' = [by |-> "flush", queue |-> <<job.buffer>>, tries |-> 1, cut |-> FALSE]
      BY <2>2 DEF FlushText
    <3>2. job' = [job EXCEPT !.buffer = <<>>, !.flush = "sending"]
      BY <3>1 DEF Detached
    <3> QED
      BY <2>2, <3>1, <3>2
  <2> QED
    BY <2>1, <2>2
<1>6. /\ job' \in JobRows /\ job'.token = job.token /\ job'.cursor = job.cursor /\ job'.batch = job.batch
      /\ job'.at = job.at /\ job'.buffer = <<>> /\ job'.flush = f
      /\ job'.stop = job.stop /\ job'.again = job.again /\ job'.interrupt = job.interrupt
  <2>1. <<>> \in Buffers
    BY DEF Buffers
  <2> QED
    BY <1>2, <1>5, <2>1 DEF JobRows, Flushes
<1>7. job.at \in Waiting \cup {"closing"} /\ job'.at # "none"
  BY <1>2, <1>3, <1>6 DEF JobInv, Alive
<1>8. Alive' /\ Settled /\ Justified
  BY <1>3, <1>6 DEF Alive, Settled, Justified, Cancelling
<1>9. job.token <= grants'
  BY <1>1, <1>2 DEF Growth
<1>10. CASE f = "none"
  <2>1. call' = call /\ job.buffer = <<>>
    BY <1>5, <1>10
  <2>2. JobInv'
    BY <1>2, <1>3, <1>6, <1>7, <1>9, <1>10, <2>1 DEF JobInv, Alive, NoCall
  <2>3. Keeps
    <3>1. \A t \in Buffers : Carries(t) => Carries(t)'
      BY <1>3, <1>6, <2>1 DEF Carries, NoCall
    <3>2. Upcoming' = Upcoming /\ (Mute => Mute') /\ Due' = Due
      BY <1>3, <1>6, <2>1 DEF Upcoming, Mute, NoCall, Due, Own, Kind, Event
    <3> QED
      BY <1>6, <3>1, <3>2 DEF Keeps, SameLease
  <2> QED
    BY <1>1, <1>3, <1>8, <2>2, <2>3, KeepsTask
<1>11. CASE f = "sending"
  <2> DEFINE b == job.buffer q == <<job.buffer>>
  <2>1. b # <<>> /\ call' = [by |-> "flush", queue |-> q, tries |-> 1, cut |-> FALSE]
    BY <1>5, <1>11
  <2>2. b \in Batches
    BY <1>4, <2>1, BufferForm
  <2> HIDE DEF b
  <2>3. q \in Seq(Batches) /\ Head(q) = b
    BY <2>2, One DEF b
  <2> HIDE DEF q
  <2>4. call' \in CallRows /\ call'.by = "flush" /\ ~call'.cut /\ call'.queue = q /\ call' # NoCall
    BY <2>1, <2>3 DEF CallRows, NoCall
  <2>5. NoCall' = NoCall
    BY DEF NoCall
  <2>6. JobInv'
    BY <1>2, <1>3, <1>6, <1>7, <1>9, <1>11, <2>4, <2>5 DEF JobInv, Alive
  <2>7. Keeps
    <3>1. \A t \in Buffers : Carries(t) => Carries(t)'
      BY <1>3, <2>1, <2>4 DEF Carries, NoCall, b, q
    <3>2. Upcoming' = Upcoming /\ ~Mute /\ Due = <<>>
      BY <1>3, <1>6, <2>1 DEF Upcoming, Mute, NoCall, Due, b
    <3> QED
      BY <1>6, <3>1, <3>2 DEF Keeps, SameLease
  <2> QED
    BY <1>1, <1>3, <1>8, <2>6, <2>7, KeepsTask
<1> QED
  BY <1>10, <1>11

------------------------------------------------------------------------------
(* The research goes on.                                                    *)

Steps ==
  \/ job.at = "work" /\ job'.at \in {"publish", "complete", "sayFailed", "resign"}
  \/ job.at = "cancelRun" /\ job'.at = "sayCancelled"

LEMMA Moves ==
  ASSUME RunInv, WorldStep, Growth, UNCHANGED call, ~job.interrupt, Steps, Settled,
         NEW p \in BOOLEAN, job' = [job EXCEPT !.at = job'.at, !.pending = p],
         job'.at \in {"publish", "complete"} => made' = made + 1
  PROVE  TaskInv'
<1>1. job \in JobRows /\ JobInv /\ call \in CallRows /\ job.token <= grants /\ grants \in Nat /\ job.token \in Nat
  BY Basics
<1>2. PICK at \in Places : at = job'.at
  BY DEF Steps, Places, Running
<1>3. /\ job' \in JobRows /\ SameCall(job, job') /\ job'.buffer = job.buffer /\ job'.flush = job.flush
      /\ job'.interrupt = job.interrupt /\ job'.stop = job.stop /\ job'.again = job.again
  <2>1. job' = [job EXCEPT !.at = at, !.pending = p]
    BY <1>2
  <2> QED
    BY <1>1, <2>1 DEF JobRows, SameCall
<1>4. Alive /\ Alive' /\ job'.at # "none"
  BY DEF Alive, Steps
<1>5. call.by # "task" /\ (job.at = "cancelRun" => call = NoCall)
  BY <1>1 DEF JobInv, Steps, Tells, Told, CallRows, Waiting, Running
<1>6. JobInv'
  <2>1. job.token <= grants'
    BY <1>1 DEF Growth
  <2>2. NoCall' = NoCall
    BY DEF NoCall
  <2>3. job.flush # "none" => job'.at \in Waiting \cup {"closing"}
    BY <1>1 DEF JobInv, Steps, Waiting, Running
  <2>4. job'.at = "sayCancelled" => job.buffer = <<>>
    BY <1>1 DEF JobInv, Steps
  <2> QED
    BY <1>1, <1>3, <1>4, <1>5, <2>1, <2>2, <2>3, <2>4 DEF JobInv, Steps, SameCall, Alive
<1>7. Justified
  BY <1>3 DEF Justified, Cancelling, Steps
<1>8. Keeps
  <2>1. \A text \in Buffers : Carries(text) => Carries(text)'
    BY <1>3, <1>5 DEF Carries
  <2>2. Upcoming' \subseteq Upcoming
    BY DEF Upcoming, Steps, Told
  <2>3. Mute => Mute'
    BY <1>3 DEF Mute, Steps, NoCall
  <2>4. Due = <<>> \/ Due' = Due
    BY DEF Due, Steps
  <2> QED
    BY <1>3, <2>1, <2>2, <2>3, <2>4 DEF Keeps, SameLease, SameCall
<1> QED
  BY <1>4, <1>6, <1>7, <1>8, KeepsTask

LEMMA MoveSteps ==
  ASSUME RunInv, CancelRun \/ Publication \/ Finish \/ Fail \/ LeavePending \/ Resume
  PROVE  TaskInv'
<1>1. Growth /\ WorldStep
  BY QuietSteps, RemoteSteps DEF WorldStep
<1>2. job \in JobRows /\ JobInv
  BY Basics
<1>3. job.pending \in BOOLEAN
  BY <1>2 DEF JobRows
<1>4. ASSUME NEW at, job' = [job EXCEPT !.at = at]
      PROVE  job' = [job EXCEPT !.at = job'.at, !.pending = job.pending] /\ job'.at = at
  BY <1>2, <1>4 DEF JobRows
<1>5. ASSUME job' = Resign(job)
      PROVE  job' = [job EXCEPT !.at = job'.at, !.pending = TRUE] /\ job'.at = "resign"
  BY <1>2, <1>5 DEF JobRows, Resign
<1>6. CASE CancelRun
  <2>1. ~job.interrupt /\ Alive /\ job.at = "cancelRun" /\ UNCHANGED call
    BY <1>6 DEF CancelRun, Undisturbed, Proceeds
  <2>2. CASE HasLease(job.token) /\ job.stop # "stale_lease"
    <3>1. job' = [job EXCEPT !.at = "sayCancelled"] /\ phase' = IF phase = "open" THEN "cancelled" ELSE phase
      BY <1>6, <2>2 DEF CancelRun
    <3>2. job'.at = "sayCancelled" /\ job' = [job EXCEPT !.at = job'.at, !.pending = job.pending]
      BY <1>4, <3>1
    <3>3. Steps /\ Settled
      BY <2>1, <3>1, <3>2 DEF Steps, Settled, PhaseInv, SavedAs
    <3> QED
      BY <1>1, <1>3, <2>1, <3>2, <3>3, Moves
  <2>3. CASE ~(HasLease(job.token) /\ job.stop # "stale_lease")
    <3>1. job' = Ended(job)
      BY <1>6, <2>3 DEF CancelRun, Proceeds
    <3>2. call = NoCall
      BY <1>2, <2>1 DEF JobInv, JobRows, CallRows, Tells, Told, Waiting, Running, Flushes
    <3> QED
      BY <1>1, <2>1, <3>1, <3>2, EndedTask
  <2> QED
    BY <2>2, <2>3
<1>7. CASE Publication
  <2>1. job' = [job EXCEPT !.at = "publish"] /\ made' = made + 1 /\ UNCHANGED call /\ ~job.interrupt /\ job.at = "work"
    BY <1>7 DEF Publication, Working, Undisturbed
  <2>2. job'.at = "publish" /\ job' = [job EXCEPT !.at = job'.at, !.pending = job.pending]
    BY <1>4, <2>1
  <2>3. Steps /\ Settled
    BY <2>1, <2>2 DEF Steps, Settled
  <2> QED
    BY <1>1, <1>3, <2>1, <2>2, <2>3, Moves
<1>8. CASE Finish \/ Fail
  <2>1. /\ ~job.interrupt /\ job.at = "work" /\ UNCHANGED call
        /\ \/ /\ Finish /\ made' = made + 1
              /\ job' = [job EXCEPT !.at = "complete"] /\ phase' = "finished"
           \/ Fail /\ job' = [job EXCEPT !.at = "sayFailed"] /\ phase' = "failed"
           \/ job' = Resign(job)
    BY <1>8 DEF Finish, Fail, Concludes, Working, Undisturbed, TellFailed
  <2>2. CASE job' = Resign(job)
    <3>1. Steps /\ Settled /\ job'.at = "resign"
      BY <1>5, <2>1, <2>2 DEF Steps, Settled
    <3> QED
      BY <1>1, <1>5, <2>1, <2>2, <3>1, Moves
  <2>3. CASE job' = [job EXCEPT !.at = "complete"] /\ made' = made + 1 /\ phase' = "finished"
    <3>1. job'.at = "complete" /\ job' = [job EXCEPT !.at = job'.at, !.pending = job.pending]
      BY <1>4, <2>3
    <3>2. Steps /\ Settled
      BY <2>1, <2>3, <3>1 DEF Steps, Settled, PhaseInv, SavedAs
    <3> QED
      BY <1>1, <1>3, <2>1, <2>3, <3>1, <3>2, Moves
  <2>4. CASE job' = [job EXCEPT !.at = "sayFailed"] /\ phase' = "failed"
    <3>1. job'.at = "sayFailed" /\ job' = [job EXCEPT !.at = job'.at, !.pending = job.pending]
      BY <1>4, <2>4
    <3>2. Steps /\ Settled
      BY <2>1, <2>4, <3>1 DEF Steps, Settled, PhaseInv, SavedAs
    <3> QED
      BY <1>1, <1>3, <2>1, <3>1, <3>2, Moves
  <2> QED
    BY <2>1, <2>2, <2>3, <2>4
<1>9. CASE LeavePending
  <2>1. job' = Resign(job) /\ UNCHANGED call /\ ~job.interrupt /\ job.at = "work"
    BY <1>9 DEF LeavePending, Working, Undisturbed
  <2>2. Steps /\ Settled /\ job'.at = "resign"
    BY <1>5, <2>1 DEF Steps, Settled
  <2> QED
    BY <1>1, <1>5, <2>1, <2>2, Moves
<1>10. CASE Resume
  <2>1. /\ ~job.interrupt /\ job.at = "work" /\ phase # "open" /\ UNCHANGED <<call, phase>> /\ made' = made + 1
        /\ job' = IF phase = "finished" THEN [job EXCEPT !.at = "complete"] ELSE [job EXCEPT !.at = "sayFailed"]
    BY <1>10 DEF Resume, Undisturbed, TellFailed, remote
  <2>2. PICK at : at = IF phase = "finished" THEN "complete" ELSE "sayFailed"
    OBVIOUS
  <2>3. job' = [job EXCEPT !.at = at]
    BY <2>1, <2>2
  <2>4. job'.at = at /\ job' = [job EXCEPT !.at = job'.at, !.pending = job.pending]
    BY <1>4, <2>3
  <2>5. phase \in Phases
    BY DEF RunInv, WorldInv
  <2>6. Steps /\ Settled
    BY <2>1, <2>2, <2>4, <2>5 DEF Steps, Settled, PhaseInv, SavedAs, Phases
  <2> QED
    BY <1>1, <1>3, <2>1, <2>4, <2>6, Moves
<1> QED
  BY <1>6, <1>7, <1>8, <1>9, <1>10

------------------------------------------------------------------------------
(* A lease ends, another begins, and text is made under it.                 *)

LEMMA CrashStep ==
  ASSUME RunInv, Crash
  PROVE  TaskInv'
<1>1. Growth /\ WorldStep
  BY CallSteps DEF WorldStep
<1>2. job' = NoJob /\ call' = NoCall
  BY DEF Crash
<1>3. NoCall \in CallRows /\ NoCall' = NoCall /\ NoCall.by = "nobody" /\ ~NoCall.cut
  BY DEF NoCall, CallRows
<1>4. NoJob' = NoJob /\ NoJob.token = 0
  BY DEF NoJob, Job
<1>5. 0 <= grants'
  BY <1>1 DEF Growth
<1>6. JobInv' /\ ~Alive'
  BY <1>2, <1>3, <1>4, <1>5, NoJobRow DEF JobInv, Alive
<1>7. Justified /\ Settled
  BY <1>2, NoJobRow DEF Justified, Settled, Cancelling
<1> QED
  BY <1>1, <1>6, <1>7, AbsentTask

Fresh(t, c, at, stop) == Job(t, c, FALSE, at, stop)
LEMMA FreshJob ==
  ASSUME NEW t \in Nat, NEW c \in Nat, NEW at \in {"begin", "direct"}, NEW stop \in Stops,
         NEW j, j = Fresh(t, c, at, stop)
  PROVE  /\ j \in JobRows /\ j.token = t /\ j.cursor = c /\ j.buffer = <<>>
         /\ j.flush = "none" /\ ~j.interrupt
         /\ j.at = at /\ j.stop = stop /\ (j.again <=> at = "direct")
<1>1. /\ at \in Places /\ <<>> \in Buffers /\ "none" \in Flushes /\ "none" \in Silences
      /\ (at = "direct") \in BOOLEAN /\ (at = "begin") \in BOOLEAN
  BY DEF Places, Running, Buffers, Flushes, Silences
<1>2. j \in JobRows
  BY <1>1 DEF Fresh, Job, JobRows
<1> QED
  BY <1>2 DEF Fresh, Job

LEMMA RecoverStep ==
  ASSUME RunInv, Recover
  PROVE  TaskInv'
<1>1. Growth /\ WorldStep
  BY RemoteSteps
<1>2. /\ WorldInv /\ JobInv /\ grants \in Nat \ {0} /\ run.cursor \in Nat /\ call \in CallRows
      /\ run \in RunRows
  BY Basics DEF WorldInv
<1>3. CASE job # NoJob
  BY <1>1, <1>3, Still DEF Recover
<1>4. CASE job = NoJob
  <2>1. /\ run' = [run EXCEPT !.lease = grants + 1, !.live = TRUE] /\ grants' = grants + 1
        /\ job' = IF run.stopping THEN Job(grants + 1, run.cursor, FALSE, "direct", "cancelled")
                  ELSE Job(grants + 1, run.cursor, FALSE, "begin", "none")
        /\ made' = made + 1 /\ UNCHANGED <<journal, call, late>>
    BY <1>4 DEF Recover
  <2>2. call = NoCall
    <3>1. job.at = "none" /\ job.flush = "none"
      BY <1>4, NoJobRow
    <3> QED
      BY <1>2, <3>1 DEF JobInv, CallRows, Tells, Told
  <2>3. run'.lease = grants + 1 /\ run'.cursor = run.cursor /\ run'.stopping = run.stopping
    BY <1>2, <2>1 DEF RunRows
  <2>4. /\ job' \in JobRows /\ job'.token = grants + 1 /\ job'.cursor = run.cursor /\ job'.buffer = <<>>
        /\ job'.flush = "none" /\ ~job'.interrupt
        /\ IF run.stopping THEN job'.at = "direct"
           ELSE job'.at = "begin" /\ job'.stop = "none" /\ ~job'.again
    <3>1. grants + 1 \in Nat /\ "none" \in Stops /\ "cancelled" \in Stops
      BY <1>2 DEF Stops
    <3>2. CASE run.stopping
      <4>1. PICK t \in Nat, c \in Nat, at \in {"begin", "direct"}, stop \in Stops :
              t = grants + 1 /\ c = run.cursor /\ at = "direct" /\ stop = "cancelled"
        BY <1>2, <3>1
      <4>2. job' = Fresh(t, c, at, stop)
        BY <2>1, <3>2, <4>1 DEF Fresh
      <4>3. /\ job' \in JobRows /\ job'.token = t /\ job'.cursor = c /\ job'.buffer = <<>>
            /\ job'.flush = "none" /\ ~job'.interrupt
            /\ job'.at = at /\ job'.stop = stop /\ (job'.again <=> at = "direct")
        BY <4>2, FreshJob
      <4> QED
        BY <3>2, <4>1, <4>3
    <3>3. CASE ~run.stopping
      <4>1. PICK t \in Nat, c \in Nat, at \in {"begin", "direct"}, stop \in Stops :
              t = grants + 1 /\ c = run.cursor /\ at = "begin" /\ stop = "none"
        BY <1>2, <3>1
      <4>2. job' = Fresh(t, c, at, stop)
        BY <2>1, <3>3, <4>1 DEF Fresh
      <4>3. /\ job' \in JobRows /\ job'.token = t /\ job'.cursor = c /\ job'.buffer = <<>>
            /\ job'.flush = "none" /\ ~job'.interrupt
            /\ job'.at = at /\ job'.stop = stop /\ (job'.again <=> at = "direct")
        BY <4>2, FreshJob
      <4> QED
        BY <3>3, <4>1, <4>3
    <3> QED
      BY <3>2, <3>3
  <2>5. Alive' /\ job'.at # "none"
    BY <2>4 DEF Alive
  <2>6. NoCall \in CallRows /\ NoCall' = NoCall /\ NoCall.by = "nobody" /\ ~NoCall.cut
    BY DEF NoCall, CallRows
  <2>7. JobInv'
    <3>1. job'.token <= grants' /\ job'.token # 0
      <4>1. grants + 1 # 0 /\ grants + 1 <= grants + 1
        BY <1>2
      <4> QED
        BY <2>1, <2>4, <4>1
    <3> QED
      BY <2>1, <2>2, <2>4, <2>5, <2>6, <3>1 DEF JobInv
  <2>8. TextInv'
    <3>1. Carries(<<>>)'
      BY <2>1, <2>2, <2>4, <2>6 DEF Carries
    <3>2. \A i \in DOMAIN journal' : journal'[i].token # run'.lease
      BY <1>2, <2>1, <2>3 DEF WorldInv
    <3>3. \A n : Follows(n)'
      BY <3>2 DEF Follows
    <3>4. InOrder(<<>>)'
      BY <3>3 DEF InOrder
    <3>5. <<>> \in Buffers
      BY DEF Buffers
    <3> QED
      BY <3>1, <3>4, <3>5 DEF TextInv
  <2>9. CursorInv' /\ SyncInv'
    BY <1>2, <2>3, <2>4 DEF CursorInv, SyncInv
  <2>10. PhaseInv'
    BY <2>4 DEF PhaseInv
  <2>11. CauseInv'
    BY <2>3, <2>4 DEF CauseInv, Asked, Cancelling
  <2>12. LateSync'
    <3>1. late # NoRequest => late.token <= grants /\ late.token \in Nat
      BY DEF RunInv, LateInv, GoodRequest, Requests
    <3>2. NoRequest' = NoRequest
      BY DEF NoRequest
    <3>3. late # NoRequest => late.token # grants + 1
      BY <1>2, <3>1
    <3> QED
      BY <2>1, <2>3, <3>2, <3>3 DEF LateSync
  <2> QED
    BY <2>7, <2>8, <2>9, <2>10, <2>11, <2>12 DEF TaskInv
<1> QED
  BY <1>3, <1>4

LEMMA TextStep ==
  ASSUME RunInv, Text
  PROVE  TaskInv'
<1>1. Growth /\ WorldStep
  BY QuietSteps DEF WorldStep
<1>2. /\ job \in JobRows /\ JobInv /\ made \in Nat \ {0} /\ job.token <= grants /\ grants \in Nat /\ job.token \in Nat
      /\ call \in CallRows
  BY Basics
<1>3. /\ Alive /\ ~job.interrupt /\ job.at = "work" /\ call = NoCall /\ job.buffer = <<>>
      /\ made' = made + 1 /\ UNCHANGED <<run, journal, phase, call, late, forgiven, grants>>
  BY DEF Text, Working, Undisturbed, remote
<1> DEFINE e == Event("text", made + 1)
<1>4. e \in TextEvents /\ e.n = made + 1
  BY <1>2 DEF Event, TextEvents
<1>5. PICK b : b = <<e>>
  OBVIOUS
<1> HIDE DEF e
<1>6. b \in Buffers /\ b # <<>> /\ b[1] = e
  BY <1>4, <1>5 DEF Buffers
<1>7. PICK f \in {"timer", "sending"} : f = IF job.flush = "none" THEN "timer" ELSE job.flush
  BY <1>2 DEF JobRows, Flushes
<1>8. job' = [job EXCEPT !.buffer = b, !.flush = f]
  BY <1>5, <1>7 DEF Text, e
<1>9. /\ job' \in JobRows /\ job'.token = job.token /\ job'.cursor = job.cursor
      /\ job'.at = "work" /\ job'.buffer = b /\ job'.flush = f
      /\ job'.stop = job.stop /\ job'.again = job.again /\ ~job'.interrupt
  BY <1>2, <1>3, <1>6, <1>8 DEF JobRows, Flushes
<1>10. NoCall' = NoCall /\ NoRequest' = NoRequest /\ call.by = "nobody"
  BY <1>3 DEF NoCall, NoRequest
<1>11. Alive' /\ job.flush # "sending"
  BY <1>2, <1>9, <1>10 DEF Alive, JobInv
<1>12. JobInv'
  BY <1>2, <1>3, <1>7, <1>9, <1>10, <1>11 DEF JobInv, Alive, Waiting, Running
<1>13. Justified /\ Settled
  BY <1>3, <1>9 DEF Justified, Settled, Cancelling
<1>14. CursorInv'
  BY <1>1, <1>3, <1>9, CursorKept DEF SameLease
<1>15. ~Mute /\ Due = <<>> /\ Due' = <<>> /\ (Asked <=> Asked')
  BY <1>3, <1>9, <1>10 DEF Mute, Due, Asked, GaveUpWhatWasTaken
<1>16. SyncInv' /\ LateSync'
  BY <1>3, <1>9, <1>10, <1>15 DEF RunInv, TaskInv, SyncInv, LateSync
<1>17. TextInv'
  <2>1. Carries(b)'
    BY <1>3, <1>9, <1>10 DEF Carries
  <2>2. \A text \in Buffers : Carries(text) => text = <<>>
    BY <1>3, <1>10 DEF Carries
  <2>3. Synced => Follows(made + 1)
    BY <1>3, <1>15, <2>2 DEF RunInv, TaskInv, TextInv, InOrder, Upcoming, Told
  <2>4. Synced' => Follows(b[1].n)'
    BY <1>3, <1>4, <1>6, <1>9, <2>3 DEF Synced, HasLease, Follows, Newest, Chained
  <2>10. PICK m, n : m = made + 1 /\ n = m + 1
    OBVIOUS
  <2>5. Chained(m, n)' /\ b[1].n = m /\ m <= made'
    <3>1. m < n /\ (m + 1)..(n - 1) = {} /\ m <= made'
      BY <1>2, <1>3, <2>10
    <3>2. Chained(m, n)'
      BY <3>1 DEF Chained
    <3> QED
      BY <1>4, <1>6, <2>10, <3>1, <3>2
  <2>6. Upcoming' = {n}
    BY <1>3, <1>9, <2>10 DEF Upcoming, Told
  <2>7. InOrder(b)'
    <3>1. \A k \in Upcoming' : Chained(b[1].n, k)'
      BY <2>5, <2>6 DEF Chained
    <3> QED
      BY <1>6, <2>4, <2>5, <3>1 DEF InOrder
  <2> QED
    BY <1>6, <2>1, <2>7 DEF TextInv
<1> QED
  BY <1>1, <1>12, <1>13, <1>14, <1>16, <1>17, Phased, Caused DEF TaskInv

------------------------------------------------------------------------------
(* A callback fails.                                                        *)

(* The call is over, and the task's place, its lease and what justifies a   *)
(* cancellation are as before.                                              *)
Marked(j) ==
  /\ j \in JobRows /\ SameCall(job, j)
  /\ j.at = job.at /\ j.flush = job.flush /\ j.buffer = job.buffer /\ j.interrupt = job.interrupt
  /\ Cancelling(j) => Cancelling(job)

(* The flush task tells the task to stop.                                   *)
LEMMA FlushFalls ==
  ASSUME RunInv, WorldStep, Growth, call # NoCall, call.by = "flush", call' = NoCall,
         NEW j \in JobRows, SameCall(job, j), j.at = job.at, j.buffer = job.buffer,
         NEW stop \in Stops,
         job' = [j EXCEPT !.flush = "none", !.stop = stop, !.interrupt = @ \/ j.at # "closing"],
         stop = "cancelled" => Asked' \/ Cancelling(job),
         j.again => job.again
  PROVE  TaskInv'
<1>1. JobInv /\ call.by = "flush" /\ Alive /\ job.buffer = <<>> /\ job.at \in Waiting \cup {"closing", "sayCancelled"}
  BY CallAlive, Basics
<1>2. job.at \in Waiting \cup {"closing"}
  BY <1>1 DEF JobInv
<1>3. PICK i \in BOOLEAN : i <=> j.interrupt \/ j.at # "closing"
  OBVIOUS
<1>4. job' = [j EXCEPT !.flush = "none", !.stop = stop, !.interrupt = i]
  <2>1. j.interrupt \in BOOLEAN
    BY DEF JobRows
  <2>2. (j.interrupt \/ j.at # "closing") = i
    BY <1>3, <2>1
  <2> QED
    BY <2>2
<1>5. /\ job' \in JobRows /\ job'.token = j.token /\ job'.cursor = j.cursor /\ job'.at = j.at
      /\ job'.buffer = <<>> /\ job'.flush = "none" /\ job'.interrupt = i /\ job'.stop = stop /\ job'.again = j.again
  BY <1>1, <1>4 DEF JobRows, Flushes
<1>6. Falls
  <2>1. job'.at = "closing" \/ job'.interrupt
    BY <1>3, <1>5
  <2>2. run'.lease = job.token => job.cursor <= run'.cursor
    BY <1>1, CursorAhead
  <2> QED
    <3>1. job'.at # "none" /\ job'.token = job.token /\ job'.cursor = job.cursor
      BY <1>1, <1>5 DEF SameCall, Alive
    <3> QED
      BY <1>5, <2>1, <2>2, <3>1 DEF Falls
<1>7. Justified /\ Settled
  BY <1>5 DEF Justified, Settled, Cancelling
<1> QED
  BY <1>1, <1>6, <1>7, FallsTask

(* The numbers a publication loses.                                         *)
LEMMA LostNumbers ==
  ASSUME RunInv, call # NoCall, call.by = "task", job.at = "publish",
         NEW text \in Buffers, Carries(text), NEW retry \in BOOLEAN, forgiven' = forgiven \cup GivenUp(retry)
  PROVE  /\ ~retry => made \in forgiven'
         /\ text # <<>> => text[1].n \in Nat \ {0} /\ (text[1].n # made => text[1].n \in forgiven')
<1> DEFINE own == Own q == call.queue
<1>1. made \in Nat \ {0} /\ job.at \in Tells /\ job.at \in Told
  BY Basics DEF Tells, Told
<1>2. own = <<own[1]>> /\ own[1].n = made
  BY <1>1, OwnForm
<1>3. text # <<>> => text = <<text[1]>> /\ text[1].n \in Nat \ {0}
  BY BufferForm DEF TextEvents
<1>4. (text = <<>> => q = <<own>>) /\ (text # <<>> => q = <<text, own>>)
  BY <1>1, OutgoingForm DEF Carries
<1>5. GivenUp(retry) = Numbers(q) \ (IF retry THEN {made} ELSE {})
  BY DEF GivenUp
<1>6. \A i \in DOMAIN q : \A k \in DOMAIN q[i] : q[i][k].n # 0 => q[i][k].n \in Numbers(q)
  BY DEF Numbers
<1>7. made \in Numbers(q)
  <2> HIDE DEF own
  <2>1. CASE text = <<>>
    <3>1. 1 \in DOMAIN q /\ q[1] = own
      BY <1>4, <2>1
    <3>2. 1 \in DOMAIN own
      BY <1>2
    <3> QED
      BY <1>1, <1>2, <1>6, <3>1, <3>2
  <2>2. CASE text # <<>>
    <3>1. 2 \in DOMAIN q /\ q[2] = own
      BY <1>4, <2>2
    <3>2. 1 \in DOMAIN own
      BY <1>2
    <3> QED
      BY <1>1, <1>2, <1>6, <3>1, <3>2
  <2> QED
    BY <2>1, <2>2
<1>8. text # <<>> => text[1].n \in Numbers(q)
  <2> HIDE DEF own
  <2> HAVE text # <<>>
  <2>1. 1 \in DOMAIN q /\ q[1] = text
    BY <1>4
  <2>2. 1 \in DOMAIN text
    BY <1>3
  <2> QED
    BY <1>3, <1>6, <2>1, <2>2
<1> HIDE DEF own, q
<1> QED
  BY <1>3, <1>5, <1>7, <1>8

(* A publication is given up, or will be tried again with the same event.   *)
LEMMA PublicationLost ==
  ASSUME RunInv, WorldStep, Growth, call # NoCall, call.by = "task", job.at = "publish",
         call' = NoCall, made' = made, NEW retry \in BOOLEAN, forgiven' = forgiven \cup GivenUp(retry),
         NEW j, Marked(j), NEW at \in Places, at = IF retry THEN "publish" ELSE "work",
         job' = [j EXCEPT !.at = at]
  PROVE  TaskInv'
<1>1. /\ job \in JobRows /\ JobInv /\ made \in Nat \ {0} /\ job.token <= grants /\ grants \in Nat
      /\ job.token \in Nat \ {0} /\ job.cursor \in Nat /\ run.cursor \in Nat
      /\ Alive /\ ~Mute /\ job.buffer = <<>>
  BY Basics, CallAlive
<1>2. /\ job' \in JobRows /\ job'.token = job.token /\ job'.cursor = job.cursor /\ job'.batch = job.batch
      /\ job'.at = at /\ job'.flush = job.flush /\ job'.buffer = <<>>
  BY <1>1 DEF JobRows, Marked, SameCall
<1>3. at \in Waiting /\ Alive'
  BY <1>2 DEF Waiting, Running, Alive
<1>4. JobInv'
  <2>1. job.flush # "sending"
    BY <1>1 DEF JobInv
  <2>2. job.token <= grants'
    BY <1>1 DEF Growth
  <2>3. NoCall \in CallRows /\ NoCall' = NoCall /\ NoCall.by = "nobody" /\ ~NoCall.cut
    BY DEF NoCall, CallRows
  <2> QED
    BY <1>1, <1>2, <1>3, <2>1, <2>2, <2>3 DEF JobInv, Waiting, Running
<1>5. CursorInv'
  BY <1>1, <1>2, CursorKept DEF SameLease
<1>6. Justified /\ Settled
  BY <1>2, <1>3 DEF Justified, Settled, Marked, Cancelling
<1>7. PICK text \in Buffers : Carries(text) /\ InOrder(text)
  BY <1>1 DEF RunInv, TaskInv, TextInv
<1>8. /\ ~retry => made \in forgiven'
      /\ text # <<>> => text[1].n \in Nat \ {0} /\ (text[1].n # made => text[1].n \in forgiven')
  BY <1>7, LostNumbers
<1>9. Upcoming = {made}
  BY DEF Upcoming, Told
<1>10. text # <<>> => Chained(text[1].n, made) /\ text[1].n < made /\ text[1].n \in forgiven'
  BY <1>1, <1>7, <1>8, <1>9 DEF InOrder, Chained
<1>11. PICK n \in Nat : n = IF retry THEN made ELSE made + 1
  BY <1>1
<1>12. Upcoming' = {n}
  BY <1>2, <1>11 DEF Upcoming, Told
<1>13. Synced' => Follows(n)'
  <2> SUFFICES ASSUME Synced' PROVE Follows(n)'
    OBVIOUS
  <2>1. HasLease(job.token)' /\ run'.cursor = job.cursor
    BY <1>2 DEF Synced, HasLease
  <2>2. run'.lease = job.token
    BY <1>2, <2>1 DEF HasLease
  <2>3. run.lease = job.token /\ run.cursor <= run'.cursor
    BY <1>1, <2>2, LeaseKept
  <2>4. job.cursor <= run.cursor
    BY <1>1, <2>3 DEF RunInv, TaskInv, CursorInv
  <2>5. run'.cursor = run.cursor
    <3> DEFINE c == run.cursor d == run'.cursor e == job.cursor
    <3>1. c \in Nat /\ c <= d /\ d = e /\ e <= c /\ e \in Nat
      BY <1>1, <2>1, <2>3, <2>4
    <3> HIDE DEF c, d, e
    <3>2. d = c
      BY <3>1
    <3> QED
      BY <3>2 DEF c, d
  <2>6. PICK t : t = job.token
    OBVIOUS
  <2>7. HasLease(t)' /\ t <= grants
    BY <1>1, <1>2, <2>1, <2>6 DEF HasLease
  <2>8. HasLease(t) /\ \A m \in Nat : Follows(m) => Follows(m)'
    BY <2>5, <2>7, StillFollows
  <2>9. Synced
    BY <2>1, <2>5, <2>6, <2>8 DEF Synced
  <2>10. PICK m \in Nat : Follows(m)' /\ (m = made \/ (m < made /\ (m + 1)..(made - 1) \subseteq forgiven' /\ m \in forgiven'))
    <3>1. CASE text = <<>>
      BY <1>1, <1>7, <1>9, <2>8, <2>9, <3>1 DEF InOrder
    <3>2. CASE text # <<>>
      <4>1. Follows(text[1].n)'
        BY <1>7, <1>8, <2>8, <2>9, <3>2 DEF InOrder
      <4>2. (text[1].n + 1)..(made - 1) \subseteq forgiven'
        BY <1>10, <3>2 DEF Chained, Growth
      <4> QED
        BY <1>8, <1>10, <3>2, <4>1, <4>2
    <3> QED
      BY <3>1, <3>2
  <2>11. ASSUME NEW x \in Nat, Chained(x, m)' PROVE Chained(x, n)'
    <3>1. x < m /\ (x + 1)..(m - 1) \subseteq forgiven'
      BY <2>11 DEF Chained
    <3>2. \A k \in (x + 1)..(n - 1) : k \in (x + 1)..(m - 1) \/ k = m \/ k \in (m + 1)..(made - 1) \/ (k = made /\ ~retry)
      BY <1>1, <1>11, <2>10
    <3>3. \A k \in (x + 1)..(n - 1) : k \in forgiven'
      BY <1>1, <1>8, <1>11, <2>10, <3>1, <3>2
    <3>4. x < n
      BY <1>1, <1>11, <2>10, <3>1
    <3> QED
      BY <3>3, <3>4 DEF Chained
  <2>12. \A i \in DOMAIN journal' : journal'[i].n \in Nat
    <3>1. journal' \in Seq(Rows)
      BY WorldKept DEF WorldInv
    <3>2. \A i \in DOMAIN journal' : journal'[i] \in Rows
      BY <3>1
    <3> QED
      BY <3>2 DEF Rows
  <2> QED
    BY <2>10, <2>11, <2>12 DEF Follows
<1>14. TextInv'
  <2>1. NoCall.by = "nobody"
    BY DEF NoCall
  <2>2. Carries(<<>>)'
    BY <1>2, <2>1 DEF Carries
  <2>3. InOrder(<<>>)'
    BY <1>12, <1>13 DEF InOrder
  <2> QED
    BY <2>2, <2>3 DEF TextInv, Buffers
<1>15. PICK b : b = Due
  OBVIOUS
<1>16. b[1].n \in forgiven' \/ (retry /\ b = Due')
  <2>1. b = Head(call.queue)
    BY <1>1, <1>15, DueForm DEF DueCall
  <2>2. HeadShape(b, text)
    BY <1>1, <1>7, <2>1, HeadForm
  <2>3. CASE text # <<>>
    BY <1>10, <2>2, <2>3 DEF HeadShape
  <2>4. CASE text = <<>>
    <3>1. b = Own
      BY <2>2, <2>4 DEF HeadShape
    <3>2. b[1].n = made
      BY <1>1, <3>1, OwnForm DEF Told, Tells
    <3>3. CASE ~retry
      BY <1>8, <3>2, <3>3
    <3>4. CASE retry
      <4>1. NoCall.by = "nobody" /\ job'.at = "publish"
        BY <1>2, <3>4 DEF NoCall
      <4>2. Own' = Own
        BY <1>2, <4>1 DEF Own, Kind, Event
      <4> QED
        BY <1>2, <3>1, <3>4, <4>1, <4>2 DEF Due
    <3> QED
      BY <3>3, <3>4
  <2> QED
    BY <2>3, <2>4
<1>17. SyncInv' /\ LateSync'
  <2> SUFFICES ASSUME ~Asked', run'.lease = job'.token PROVE SyncInv' /\ LateSync'
    BY DEF SyncInv, LateSync
  <2>1. /\ run'.cursor = job.cursor \/ (b # <<>> /\ Handled(b)')
        /\ late' # NoRequest /\ late'.token = run'.lease /\ late'.first = run'.cursor + 1 =>
             \/ late'.batch[1].n \in forgiven'
             \/ b # <<>> /\ late'.batch = b /\ run'.cursor = job.cursor
    BY <1>1, <1>2, <1>15, Drift
  <2>2. b[1].n \in forgiven' => ~Handled(b)'
    <3> SUFFICES ASSUME b[1].n \in forgiven', Handled(b)' PROVE FALSE
      OBVIOUS
    <3>1. \E i \in DOMAIN journal' : journal'[i].n = b[1].n
      BY DEF Handled
    <3>2. GaveUpWhatWasTaken'
      BY <3>1 DEF GaveUpWhatWasTaken
    <3> QED
      BY <3>2 DEF Asked
  <2>3. NoRequest' = NoRequest
    BY DEF NoRequest
  <2>4. SyncInv'
    BY <1>2, <1>16, <2>1, <2>2 DEF SyncInv
  <2>5. LateSync'
    BY <1>2, <1>16, <2>1, <2>3 DEF LateSync
  <2> QED
    BY <2>4, <2>5
<1> QED
  BY <1>4, <1>5, <1>6, <1>14, <1>17, Phased, Caused DEF TaskInv

(* A callback that fails with something else than a cancellation.           *)
LEMMA FailedTask ==
  ASSUME RunInv, WorldStep, Growth, call # NoCall, call' = NoCall, made' = made,
         forgiven' = forgiven \cup GivenUp(FALSE), NEW j, Marked(j), j.again => job.again,
         job' = IF call.by = "flush" THEN FlushFailed(j) ELSE Unsaid(j)
  PROVE  TaskInv'
<1>1. /\ job \in JobRows /\ JobInv /\ Alive /\ job.buffer = <<>> /\ call.by \in {"task", "flush"}
  BY Basics, CallAlive
<1>2. j \in JobRows /\ SameCall(job, j) /\ j.at = job.at /\ j.buffer = job.buffer /\ j.flush = job.flush
  BY DEF Marked
<1>3. run'.lease = job.token => job.cursor <= run'.cursor
  BY <1>1, CursorAhead
<1>4. CASE call.by = "flush"
  <2>1. PICK stop \in Stops : stop = IF j.stop = "none" THEN "callback_failed" ELSE j.stop
    BY <1>2 DEF JobRows, Stops
  <2>2. job' = [j EXCEPT !.flush = "none", !.stop = stop, !.interrupt = @ \/ j.at # "closing"]
    BY <1>4, <2>1 DEF FlushFailed
  <2>3. stop = "cancelled" => Cancelling(job)
    BY <2>1 DEF Marked, Cancelling
  <2> QED
    BY <1>2, <1>4, <2>2, <2>3, FlushFalls
<1>5. CASE call.by = "task"
  <2>1. job.at \in Tells \cup {"resign"} /\ job.flush # "sending" /\ job' = Unsaid(j)
    BY <1>1, <1>5 DEF JobInv
  <2>2. CASE job.at \in {"begin", "complete"}
    <3>1. job' = [j EXCEPT !.at = "resign", !.pending = TRUE]
      BY <1>2, <2>1, <2>2 DEF Unsaid, Resign
    <3>2. /\ job' \in JobRows /\ job'.token = j.token /\ job'.cursor = j.cursor /\ job'.at = "resign"
          /\ job'.buffer = j.buffer /\ job'.flush = j.flush /\ job'.stop = j.stop /\ job'.again = j.again
      BY <1>2, <3>1 DEF JobRows, Places
    <3>3. Falls
      <4>1. j.flush = "none" \/ j.flush = "timer"
        BY <1>2, <2>1 DEF JobRows, Flushes
      <4> QED
        BY <1>1, <1>2, <1>3, <3>2, <4>1 DEF Falls, SameCall, Waiting
    <3>4. Justified /\ Settled
      BY <3>2 DEF Justified, Settled, Marked, Cancelling
    <3> QED
      BY <1>1, <3>3, <3>4, FallsTask
  <2>3. CASE job.at = "publish"
    <3>1. job' = [j EXCEPT !.at = "work"]
      BY <1>2, <2>1, <2>3 DEF Unsaid
    <3>2. "work" \in Places
      BY DEF Places, Running
    <3> QED
      BY <1>5, <2>3, <3>1, <3>2, PublicationLost
  <2>4. CASE job.at \notin {"begin", "complete", "publish"}
    <3>1. PICK u : u = IF j.at = "sayFailed" THEN [j EXCEPT !.unsaid = "failureLost"] ELSE j
      OBVIOUS
    <3>2. job' = Ended(u)
      BY <1>2, <2>1, <2>4, <3>1 DEF Unsaid
    <3>3. u \in JobRows /\ SameCall(job, u) /\ (Cancelling(u) => Cancelling(j))
      BY <1>2, <3>1 DEF JobRows, Silences, SameCall, Cancelling
    <3>4. Rests(u, Ended(u)) /\ (Cancelling(Ended(u)) => Cancelling(u))
      BY <3>3, EndedRests
    <3>5. Justified
      BY <3>2, <3>3, <3>4 DEF Justified, Marked, Cancelling
    <3>6. u.token = job.token /\ u.cursor = job.cursor
      BY <3>3 DEF SameCall
    <3> QED
      BY <1>1, <1>3, <3>2, <3>4, <3>5, <3>6, RestsTask
  <2> QED
    BY <2>2, <2>3, <2>4
<1> QED
  BY <1>1, <1>4, <1>5

LEMMA NoAnswerStep ==
  ASSUME RunInv, NoAnswer
  PROVE  TaskInv'
<1>1. Growth /\ WorldStep
  BY CallSteps DEF WorldStep
<1>2. /\ job \in JobRows /\ JobInv /\ call \in CallRows /\ job.token <= grants /\ grants \in Nat /\ job.token \in Nat
      /\ call # NoCall /\ made' = made /\ Alive
  BY Basics, CallAlive DEF NoAnswer
<1>3. Marked(job)
  BY <1>2 DEF Marked, SameCall
<1>4. CASE call' = [call EXCEPT !.tries = 2] /\ UNCHANGED <<job, forgiven>>
  <2>1. call' \in CallRows /\ call'.by = call.by /\ call'.queue = call.queue /\ call'.cut = call.cut
    BY <1>2, <1>4 DEF CallRows
  <2>2. call'.by # "nobody" /\ call.by # "nobody" /\ call' # NoCall /\ NoCall' = NoCall
    BY <1>2, <2>1 DEF JobInv, NoCall
  <2>3. JobInv'
    <3>1. job.token <= grants'
      BY <1>1, <1>2 DEF Growth
    <3>2. NoJob' = NoJob
      BY DEF NoJob, Job
    <3> QED
      BY <1>2, <1>4, <2>1, <2>2, <3>1, <3>2 DEF JobInv, Alive
  <2>4. Alive' /\ Justified /\ Settled
    BY <1>2, <1>4 DEF Alive, Justified, Settled, Cancelling
  <2>5. Keeps
    <3>1. Upcoming' = Upcoming /\ ~Mute /\ Due' = Due
      BY <1>2, <1>4, <2>1, <2>2 DEF Upcoming, Mute, Due
    <3>2. \A text \in Buffers : Carries(text) => Carries(text)'
      BY <1>2, <1>4, <2>1 DEF Carries, Outgoing, Own, Kind, Event
    <3> QED
      BY <1>4, <3>1, <3>2 DEF Keeps, SameLease
  <2> QED
    BY <1>1, <1>2, <2>3, <2>4, <2>5, KeepsTask
<1>5. CASE Becomes(Failed(Now)) /\ forgiven' = forgiven \cup GivenUp(FALSE)
  <2>1. call' = NoCall /\ job' = IF call.by = "flush" THEN FlushFailed(job) ELSE Unsaid(job)
    BY <1>5 DEF Becomes, Failed, Now, Free
  <2> QED
    BY <1>1, <1>2, <1>3, <1>5, <2>1, FailedTask
<1>6. CASE /\ call.by = "task" /\ job.at = "publish" /\ call' = NoCall /\ UNCHANGED job
           /\ forgiven' = forgiven \cup GivenUp(TRUE)
  <2>1. "publish" \in Places
    BY DEF Places, Running
  <2>2. job' = [job EXCEPT !.at = "publish"]
    BY <1>2, <1>6 DEF JobRows
  <2> QED
    BY <1>1, <1>2, <1>3, <1>6, <2>1, <2>2, PublicationLost
<1> QED
  BY <1>4, <1>5, <1>6 DEF NoAnswer

------------------------------------------------------------------------------
(* A callback is answered.                                                  *)

AcceptedNow(b) ==
  /\ run.lease = job.token /\ run'.lease = job.token /\ run'.cursor = job.cursor + Len(b)
  /\ Last(b).n > 0 => \A i : Newest(i)' => journal'[i].n = Last(b).n
  /\ ~Asked' /\ late' # NoRequest /\ late'.token = run'.lease /\ late'.first = run'.cursor + 1 =>
       late'.batch[1].n \in forgiven'

LEMMA AcceptedForm ==
  ASSUME RunInv, WorldStep, Growth, call # NoCall, Handle(Request),
         Verdict(Request) \in {"accepted", "replayed"}, late' = late, NEW b, b = Head(call.queue)
  PROVE  AcceptedNow(b)
<1>1. WorldInv /\ LateInv /\ JobInv /\ LateSync /\ job.cursor \in Nat /\ run.cursor \in Nat /\ Alive /\ ~Mute
  BY Basics, CallAlive DEF RunInv, TaskInv
<1>2. PICK req : req = Request
  OBVIOUS
<1>3. GoodRequest(req) /\ Handle(req) /\ Verdict(req) \in {"accepted", "replayed"}
      /\ req.token = job.token /\ req.first = job.cursor + 1 /\ req.batch = b
  BY <1>2, RequestGood DEF Request
<1>4. req \in Requests /\ b \in Batches
  BY <1>3 DEF GoodRequest
<1> DEFINE k == Len(b) c == run.cursor d == run'.cursor e == job.cursor
<1>5. k \in {1, 2}
  BY <1>4, BatchForm
<1>6. Answers(req, Verdict(req))
  BY <1>1, <1>3, <1>4, VerdictForm
<1>7. Last(b).n > 0 => \A i : Newest(i)' => journal'[i].n = Last(b).n
  BY <1>1, <1>3, Confirmed
<1>8. late # NoRequest /\ late.token = run.lease => late.first <= c + 1 /\ late.first \in Nat
  BY <1>1 DEF LateInv, GoodRequest, Requests
<1>9. CASE Verdict(req) = "accepted"
  <2>1. Taken(req)
    BY <1>1, <1>3, <1>9, HandleForm
  <2>2. run.lease = job.token /\ run'.lease = job.token /\ d = c + k /\ e + 1 = c + 1
    BY <1>3, <2>1 DEF Taken, HasLease
  <2>3. d = e + k
    <3> HIDE DEF k, c, d, e
    <3> QED
      BY <1>1, <1>5, <2>2 DEF c, e
  <2>4. late # NoRequest /\ late.token = run.lease => late.first # d + 1
    <3> DEFINE f == late.first
    <3> HIDE DEF k, c, d, e, f
    <3>1. f <= c + 1 /\ f \in Nat /\ d = c + k => f # d + 1
      BY <1>1, <1>5 DEF c
    <3> QED
      BY <1>8, <2>2, <3>1 DEF f
  <2> QED
    BY <1>7, <2>2, <2>3, <2>4 DEF AcceptedNow
<1>10. CASE Verdict(req) = "replayed"
  <2>1. UNCHANGED remote
    BY <1>1, <1>3, <1>10, HandleForm
  <2>2. run.lease = job.token /\ e + 1 + k - 1 = c
    BY <1>3, <1>6, <1>10 DEF Answers
  <2>3. c = e + k /\ c # e
    <3> HIDE DEF k, c, e
    <3> QED
      BY <1>1, <1>5, <2>2 DEF c, e
  <2>4. ~Asked' => ~Asked
    BY AskedStays
  <2>5. forgiven \subseteq forgiven'
    BY DEF Growth
  <2> HIDE DEF k, c, d, e
  <2>6. run.cursor = job.cursor + Len(b) /\ run.cursor # job.cursor
    BY <2>3 DEF k, c, e
  <2>7. ~Asked' /\ late # NoRequest /\ late.token = run.lease /\ late.first = run.cursor + 1 => late.batch[1].n \in forgiven'
    BY <1>1, <2>2, <2>4, <2>5, <2>6 DEF LateSync
  <2> QED
    BY <1>7, <2>1, <2>2, <2>6, <2>7 DEF AcceptedNow, remote
<1> QED
  BY <1>3, <1>9, <1>10

(* The text is told and the task goes on.                                   *)
LEMMA Advances ==
  ASSUME RunInv, WorldStep, Growth, NEW b, AcceptedNow(b), JobInv', job'.token = job.token,
         job'.cursor = job.cursor + Len(b), Carries(<<>>)',
         \A n \in Upcoming' : Last(b).n > 0 /\ Chained(Last(b).n, n)',
         Justified, Settled
  PROVE  TaskInv'
<1>1. run'.lease = job.token /\ run'.cursor = job'.cursor
  BY DEF AcceptedNow
<1>2. CursorInv'
  <2>1. run'.cursor \in Nat
    BY LeaseKept
  <2>2. job'.cursor <= run'.cursor
    BY <1>1, <2>1
  <2> QED
    BY <2>2 DEF CursorInv
<1>3. SyncInv'
  BY <1>1 DEF SyncInv
<1>4. LateSync'
  BY DEF LateSync, AcceptedNow, NoRequest
<1>5. TextInv'
  <2>1. \A n \in Upcoming' : Follows(n)'
    <3> TAKE n \in Upcoming'
    <3>1. Last(b).n > 0 /\ Chained(Last(b).n, n)'
      OBVIOUS
    <3>2. \A i : Newest(i)' => journal'[i].n = Last(b).n
      BY <3>1 DEF AcceptedNow
    <3> QED
      BY <3>1, <3>2 DEF Follows, Chained
  <2>2. InOrder(<<>>)'
    BY <2>1 DEF InOrder
  <2> QED
    BY <2>2 DEF TextInv, Buffers
<1> QED
  BY <1>2, <1>3, <1>4, <1>5, Phased, Caused DEF TaskInv

LEMMA AcknowledgedTask ==
  ASSUME RunInv, WorldStep, Growth, call # NoCall, Handle(Request),
         Verdict(Request) \in {"accepted", "replayed"}, UNCHANGED <<late, made>>,
         Becomes(Acknowledged(Now))
  PROVE  TaskInv'
<1>1. PICK b : b = Head(call.queue)
  OBVIOUS
<1>2. AcceptedNow(b)
  BY <1>1, AcceptedForm
<1>3. /\ job \in JobRows /\ JobInv /\ made \in Nat \ {0} /\ job.cursor \in Nat /\ call \in CallRows
      /\ job.token \in Nat /\ job.token <= grants /\ grants \in Nat
      /\ Alive /\ ~Mute /\ job.buffer = <<>> /\ call.by \in {"task", "flush"}
  BY Basics, CallAlive
<1>4. PICK text \in Buffers : Carries(text) /\ InOrder(text)
  BY <1>3 DEF RunInv, TaskInv, TextInv
<1>5. HeadShape(b, text)
  BY <1>1, <1>3, <1>4, HeadForm
<1>6. b \in Batches /\ Len(b) \in Nat
  BY <1>5, BatchForm DEF HeadShape
<1>7. PICK j : j = [job EXCEPT !.cursor = @ + Len(b)]
  OBVIOUS
<1>8. /\ j \in JobRows /\ j.token = job.token /\ j.cursor = job.cursor + Len(b) /\ j.batch = job.batch
      /\ j.at = job.at /\ j.flush = job.flush /\ j.buffer = <<>> /\ j.stop = job.stop /\ j.again = job.again
      /\ j.interrupt = job.interrupt
  BY <1>3, <1>6, <1>7 DEF JobRows
<1>9. Cancelling(j) => Cancelling(job)
  BY <1>8 DEF Cancelling
<1>10. run'.lease = job.token => j.cursor <= run'.cursor
  <2>1. j.cursor = run'.cursor /\ j.cursor \in Nat
    BY <1>2, <1>8 DEF AcceptedNow, JobRows
  <2> QED
    BY <2>1
<1>11. text # <<>> => text[1].n \in Nat \ {0} /\ Last(text) = text[1]
  <2> HAVE text # <<>>
  <2>1. Len(text) = 1 /\ text[1] \in TextEvents
    BY BufferForm
  <2> QED
    BY <2>1 DEF Last, TextEvents
<1>12. job.token <= grants'
  BY <1>3 DEF Growth
<1>13. NoCall \in CallRows /\ NoCall' = NoCall /\ NoCall.by = "nobody" /\ ~NoCall.cut
  BY DEF NoCall, CallRows
<1>14. \A n, m : Chained(m, n) => Chained(m, n)'
  BY DEF Chained, Growth
<1>15. /\ call.cut => job' = Raise(j) /\ call' = NoCall
       /\ ~call.cut /\ Tail(call.queue) # <<>> =>
            job' = j /\ call' = [call EXCEPT !.queue = Tail(call.queue), !.tries = 1]
       /\ ~call.cut /\ Tail(call.queue) = <<>> =>
            call' = NoCall /\ job' = IF call.by = "flush" THEN [j EXCEPT !.flush = "none"] ELSE Said(j)
  BY <1>1, <1>7 DEF Becomes, Acknowledged, Now, Free
<1>16. CASE call.cut
  <2>1. call.by = "task" /\ j.flush # "sending" /\ j.at # "none"
    BY <1>3, <1>8, <1>16 DEF JobInv, Alive
  <2>2. Rests(j, Raise(j)) /\ (Cancelling(Raise(j)) => Cancelling(j))
    BY <1>8, <2>1, RaiseGoesOn
  <2>3. job' = Raise(j) /\ call' = NoCall
    BY <1>15, <1>16
  <2>4. Justified
    BY <1>9, <2>2, <2>3 DEF Justified, Cancelling
  <2> QED
    BY <1>3, <1>8, <1>10, <2>2, <2>3, <2>4, RestsTask
<1>17. CASE ~call.cut /\ Tail(call.queue) # <<>>
  <2>1. /\ call.by = "task" /\ job.at \in Tells /\ text # <<>>
        /\ b = text /\ Tail(call.queue) = <<Own>>
    BY <1>1, <1>5, <1>17 DEF HeadShape
  <2>2. PICK q : q = <<Own>>
    OBVIOUS
  <2>3. q \in Seq(Batches) /\ q # <<>>
    <3>1. Own \in Batches
      BY <1>3, <2>1, OwnForm
    <3> QED
      BY <2>2, <3>1, One
  <2>4. job' = j /\ call' = [call EXCEPT !.queue = q, !.tries = 1]
    BY <1>15, <1>17, <2>1, <2>2
  <2>5. call' \in CallRows /\ call'.by = "task" /\ call'.queue = q /\ call'.cut = call.cut /\ call' # NoCall
    <3>1. call' \in CallRows
      <4>1. 1 \in 0..2
        OBVIOUS
      <4> QED
        BY <1>3, <2>3, <2>4, <4>1 DEF CallRows
    <3>2. call'.by = "task" /\ call'.queue = q /\ call'.cut = call.cut
      BY <1>3, <2>1, <2>4 DEF CallRows
    <3> QED
      BY <3>1, <3>2 DEF NoCall
  <2>6. JobInv'
    BY <1>3, <1>8, <1>12, <1>13, <2>1, <2>4, <2>5 DEF JobInv, Alive
  <2>7. Justified /\ Settled
    BY <1>8, <2>4 DEF Justified, Settled, Cancelling
  <2>8. Carries(<<>>)'
    <3>1. Own' = Own
      BY <1>8, <2>4 DEF Own, Kind, Event
    <3>2. Outgoing(<<>>) = q
      <4>1. job.at \in Tells \cup {"resign"} /\ job.at # "resign" /\ <<>> \in Buffers
        BY <2>1 DEF Tells, Told, Buffers
      <4> QED
        BY <1>3, <2>2, <4>1, OutgoingForm
    <3>3. Outgoing(<<>>)' = q
      BY <1>8, <2>4, <3>1, <3>2 DEF Outgoing
    <3> QED
      BY <2>3, <2>5, <3>3 DEF Carries
  <2>9. Upcoming' = Upcoming
    BY <1>8, <2>4 DEF Upcoming
  <2>10. \A n \in Upcoming' : Last(b).n > 0 /\ Chained(Last(b).n, n)'
    BY <1>4, <1>11, <1>14, <2>1, <2>9 DEF InOrder
  <2> QED
    BY <1>2, <1>8, <2>4, <2>6, <2>7, <2>8, <2>10, Advances
<1>18. CASE ~call.cut /\ Tail(call.queue) = <<>> /\ call.by = "flush"
  <2>1. job' = [j EXCEPT !.flush = "none"] /\ call' = NoCall
    BY <1>15, <1>18
  <2>2. /\ job' \in JobRows /\ job'.token = job.token /\ job'.cursor = j.cursor /\ job'.at = job.at /\ job'.flush = "none"
        /\ job'.buffer = <<>> /\ job'.stop = job.stop /\ job'.again = job.again
    BY <1>8, <2>1 DEF JobRows, Flushes
  <2>3. JobInv'
    BY <1>3, <1>12, <1>13, <2>1, <2>2 DEF JobInv, Alive
  <2>4. Justified /\ Settled
    BY <2>2 DEF Justified, Settled, Cancelling
  <2>5. Carries(<<>>)'
    BY <1>13, <2>1, <2>2 DEF Carries
  <2>6. b = text /\ text # <<>>
    BY <1>4, <1>5, <1>18 DEF HeadShape, Carries
  <2>7. Upcoming' = Upcoming
    BY <2>2 DEF Upcoming
  <2>8. \A n \in Upcoming' : Last(b).n > 0 /\ Chained(Last(b).n, n)'
    BY <1>4, <1>11, <1>14, <2>6, <2>7 DEF InOrder
  <2> QED
    BY <1>2, <1>8, <2>2, <2>3, <2>4, <2>5, <2>8, Advances
<1>19. CASE ~call.cut /\ Tail(call.queue) = <<>> /\ call.by = "task" /\ job.at \in {"begin", "publish"}
  <2>1. job' = [j EXCEPT !.at = "work"] /\ call' = NoCall
    BY <1>8, <1>15, <1>19 DEF Said
  <2>2. /\ job' \in JobRows /\ job'.token = job.token /\ job'.cursor = j.cursor /\ job'.at = "work" /\ job'.flush = job.flush
        /\ job'.buffer = <<>> /\ job'.stop = job.stop /\ job'.again = job.again
    BY <1>8, <2>1 DEF JobRows, Places, Running
  <2>3. JobInv'
    BY <1>3, <1>12, <1>13, <1>19, <2>1, <2>2 DEF JobInv, Alive, Waiting, Running
  <2>4. Justified /\ Settled
    BY <1>19, <2>2 DEF Justified, Settled, Cancelling
  <2>5. Carries(<<>>)'
    BY <1>13, <2>1, <2>2 DEF Carries
  <2>6. Last(b).n = made
    <3>1. job.at \in Tells /\ job.at \in Told
      BY <1>19 DEF Tells, Told
    <3>2. Last(b) = Own[1]
      BY <1>1, <1>5, <1>19, <3>1 DEF HeadShape
    <3> QED
      BY <1>3, <3>1, <3>2, OwnForm
  <2>7. PICK n : n = made + 1
    OBVIOUS
  <2>8. Upcoming' = {n}
    BY <2>2, <2>7 DEF Upcoming, Told
  <2>9. Chained(Last(b).n, n)
    <3>1. made < n /\ (made + 1)..(n - 1) = {}
      BY <1>3, <2>7
    <3> QED
      BY <2>6, <3>1 DEF Chained
  <2>10. \A m \in Upcoming' : Last(b).n > 0 /\ Chained(Last(b).n, m)'
    BY <1>3, <1>14, <2>6, <2>8, <2>9
  <2> QED
    BY <1>2, <1>8, <2>2, <2>3, <2>4, <2>5, <2>10, Advances
<1>20. CASE ~call.cut /\ Tail(call.queue) = <<>> /\ call.by = "task" /\ job.at \notin {"begin", "publish"}
  <2>1. PICK u : u = IF j.at = "sayCancelled" THEN [j EXCEPT !.pending = FALSE] ELSE j
    OBVIOUS
  <2>2. job' = Ended(u) /\ call' = NoCall
    BY <1>8, <1>15, <1>20, <2>1 DEF Said
  <2>3. u \in JobRows /\ u.token = j.token /\ u.cursor = j.cursor /\ (Cancelling(u) => Cancelling(j))
    BY <1>8, <2>1 DEF JobRows, Cancelling
  <2>4. Rests(u, Ended(u)) /\ (Cancelling(Ended(u)) => Cancelling(u))
    BY <2>3, EndedRests
  <2>5. Justified
    BY <1>9, <2>2, <2>3, <2>4 DEF Justified, Cancelling
  <2> QED
    BY <1>3, <1>8, <1>10, <2>2, <2>3, <2>4, <2>5, RestsTask
<1> QED
  BY <1>3, <1>16, <1>17, <1>18, <1>19, <1>20

(* A refusal as a repetition with other content means a cancellation.       *)
LEMMA RefusedAsks ==
  ASSUME RunInv, call # NoCall, Verdict(Request) = "stale_callback"
  PROVE  Asked
<1> SUFFICES ASSUME ~Asked PROVE FALSE
  OBVIOUS
<1>1. WorldInv /\ SyncInv /\ job.cursor \in Nat /\ Alive /\ ~Mute
  BY Basics, CallAlive DEF RunInv, TaskInv
<1>2. PICK b : b = Due
  OBVIOUS
<1>3. b = Head(call.queue)
  BY <1>2, DueForm DEF DueCall
<1> DEFINE req == Request k == Len(b) c == run.cursor e == job.cursor
<1>4. req = [token |-> job.token, first |-> e + 1, batch |-> b]
  BY <1>3 DEF Request
<1>5. req.token = job.token /\ req.first = e + 1 /\ req.batch = b
  BY <1>4
<1>6. req \in Requests /\ b \in Batches
  BY <1>5, RequestGood DEF GoodRequest
<1>7. k \in {1, 2}
  BY <1>6, BatchForm
<1>8. Answers(req, Verdict(req)) /\ Verdict(req) = "stale_callback"
  BY <1>1, <1>5, <1>6, VerdictForm
<1>9. run.lease = job.token
  BY <1>5, <1>8 DEF Answers
<1>10. c = e \/ Handled(b)
  BY <1>1, <1>2, <1>9 DEF SyncInv
<1>11. CASE c = e
  BY <1>5, <1>8, <1>11 DEF Answers, Asked
<1>12. CASE Handled(b)
  <2>1. c = e + k /\ Replays(req)
    BY <1>4, <1>12 DEF Handled
  <2>2. e + 1 + k - 1 = c
    <3> HIDE DEF k, c, e
    <3> QED
      BY <1>1, <1>7, <2>1 DEF e
  <2> HIDE DEF req
  <2> QED
    BY <1>5, <1>8, <2>1, <2>2 DEF Answers
<1> QED
  BY <1>10, <1>11, <1>12

LEMMA AnswerStep ==
  ASSUME RunInv, Answer
  PROVE  TaskInv'
<1>1. Growth /\ WorldStep
  BY CallSteps DEF WorldStep
<1>2. /\ job \in JobRows /\ JobInv /\ Alive /\ call.by \in {"task", "flush"}
      /\ WorldInv /\ call # NoCall /\ Handle(Request) /\ UNCHANGED <<late, made>>
  BY Basics, CallAlive DEF Answer
<1>3. PICK verdict : verdict = Verdict(Request)
  OBVIOUS
<1>4. Becomes(Replied(Now, verdict))
  BY <1>3 DEF Answer
<1>5. verdict \in {"accepted", "replayed", "stale_callback", "stale_lease"}
  BY <1>2, <1>3, RequestGood, VerdictForm DEF GoodRequest, Answers
<1>6. CASE verdict \in {"accepted", "replayed"}
  <2>1. Becomes(Acknowledged(Now))
    BY <1>4, <1>6 DEF Replied
  <2> QED
    BY <1>1, <1>2, <1>3, <1>6, <2>1, AcknowledgedTask
<1>7. CASE verdict = "stale_callback"
  <2>1. Asked'
    BY <1>1, <1>2, <1>3, <1>7, RefusedAsks, AskedStays
  <2>2. PICK j : j = [job EXCEPT !.stop = "cancelled"]
    OBVIOUS
  <2>3. /\ j \in JobRows /\ SameCall(job, j) /\ j.flush = job.flush /\ j.at = job.at /\ j.buffer = job.buffer
        /\ j.again = job.again /\ j.stop = "cancelled"
    BY <1>2, <2>2 DEF JobRows, SameCall, Stops
  <2>4. /\ call' = NoCall
        /\ job' = IF call.by = "flush" THEN [j EXCEPT !.flush = "none", !.interrupt = @ \/ j.at # "closing"]
                  ELSE Raise(j)
    <3>1. Replied(Now, verdict) = TakenAsCancelled(Now)
      BY <1>7 DEF Replied
    <3> QED
      BY <1>4, <2>2, <3>1 DEF Becomes, TakenAsCancelled, Now, Free
  <2>5. CASE call.by = "flush"
    <3>1. job' = [j EXCEPT !.flush = "none", !.stop = "cancelled", !.interrupt = @ \/ j.at # "closing"]
      BY <2>3, <2>4, <2>5 DEF JobRows
    <3>2. "cancelled" \in Stops
      BY DEF Stops
    <3> QED
      BY <1>1, <1>2, <2>1, <2>3, <2>4, <2>5, <3>1, <3>2, FlushFalls
  <2>6. CASE call.by = "task"
    BY <1>1, <1>2, <2>1, <2>3, <2>4, <2>6, RaiseTask
  <2> QED
    BY <1>2, <2>5, <2>6
<1>8. CASE verdict = "stale_lease"
  <2>1. PICK j : j = [job EXCEPT !.stop = "stale_lease"]
    OBVIOUS
  <2>2. /\ j \in JobRows /\ SameCall(job, j) /\ j.flush = job.flush /\ j.at = job.at /\ j.buffer = job.buffer
        /\ j.again = job.again /\ j.stop = "stale_lease" /\ j.interrupt = job.interrupt
    BY <1>2, <2>1 DEF JobRows, SameCall, Stops
  <2>3. Marked(j)
    BY <2>2 DEF Marked, Cancelling
  <2>4. call' = NoCall /\ job' = IF call.by = "flush" THEN FlushFailed(j) ELSE Unsaid(j)
    <3>1. Replied(Now, verdict) = Failed([Now EXCEPT !.job.stop = "stale_lease"])
      BY <1>8 DEF Replied
    <3>2. [Now EXCEPT !.job.stop = "stale_lease"] = [job |-> j, call |-> call]
      BY <2>1 DEF Now
    <3>3. Failed([job |-> j, call |-> call]) = Free(IF call.by = "flush" THEN FlushFailed(j) ELSE Unsaid(j))
      BY DEF Failed
    <3> QED
      BY <1>4, <3>1, <3>2, <3>3 DEF Becomes, Free
  <2>5. forgiven' = forgiven \cup GivenUp(FALSE)
    BY <1>3, <1>8 DEF Answer
  <2> QED
    BY <1>1, <1>2, <2>2, <2>3, <2>4, <2>5, FailedTask
<1> QED
  BY <1>5, <1>6, <1>7, <1>8

------------------------------------------------------------------------------
(* The theorems.                                                            *)

LEMMA StartTask ==
  ASSUME Init
  PROVE  TaskInv
<1>1. /\ run = [outcome |-> "open", stopping |-> FALSE, lease |-> 1, live |-> TRUE, cursor |-> 0]
      /\ journal = <<>> /\ job = Job(1, 0, TRUE, "begin", "none") /\ call = NoCall /\ late = NoRequest
      /\ made = 1 /\ grants = 1
  BY DEF Init
<1>2. /\ job \in JobRows /\ job.token = 1 /\ job.cursor = 0 /\ job.at = "begin" /\ job.stop = "none"
      /\ job.buffer = <<>> /\ job.flush = "none" /\ ~job.interrupt /\ ~job.again
  BY <1>1 DEF Job, JobRows, Places, Running, Stops, Flushes, Silences, Buffers
<1>3. NoCall \in CallRows /\ NoCall.by = "nobody" /\ ~NoCall.cut
  BY DEF NoCall, CallRows
<1>4. JobInv
  <2>1. call = NoCall /\ grants = 1
    BY <1>1
  <2>2. job.at # "none" /\ job.token <= grants /\ job.token # 0
    BY <1>2, <2>1
  <2>3. call \in CallRows /\ call.by = "nobody" /\ ~call.cut
    BY <1>3, <2>1
  <2> QED
    BY <1>2, <2>1, <2>2, <2>3 DEF JobInv
<1>5. TextInv
  <2>1. Carries(<<>>)
    BY <1>1, <1>2, <1>3 DEF Carries
  <2>2. InOrder(<<>>)
    BY <1>1 DEF InOrder, Follows
  <2> QED
    BY <2>1, <2>2 DEF TextInv, Buffers
<1>6. CursorInv /\ SyncInv
  <2>1. run.cursor = job.cursor /\ run.cursor = 0
    BY <1>1, <1>2
  <2> QED
    BY <2>1 DEF CursorInv, SyncInv
<1>7. PhaseInv /\ CauseInv /\ LateSync
  BY <1>1, <1>2 DEF PhaseInv, CauseInv, Cancelling, LateSync
<1> QED
  BY <1>4, <1>5, <1>6, <1>7 DEF TaskInv

LEMMA Start ==
  ASSUME Init
  PROVE  RunInv /\ NoSilentGap /\ EndsAsSaved /\ CancelledOnRequest
<1>1. /\ run = [outcome |-> "open", stopping |-> FALSE, lease |-> 1, live |-> TRUE, cursor |-> 0]
      /\ journal = <<>> /\ phase = "open" /\ late = NoRequest
      /\ made = 1 /\ forgiven = {} /\ grants = 1 /\ faults = 0
  BY DEF Init
<1>2. run \in RunRows /\ run.lease = 1 /\ run.outcome = "open"
  BY <1>1 DEF RunRows
<1>3. late \in Requests
  BY <1>1 DEF NoRequest, Requests
<1>4. MaxFaults \in Nat
  BY WorkerAssumption
<1>5. WorldInv
  BY <1>1, <1>2, <1>3, <1>4 DEF WorldInv, Phases
<1>6. LateInv
  BY <1>1 DEF LateInv
<1>7. NoSilentGap /\ EndsAsSaved /\ CancelledOnRequest
  BY <1>1, <1>2 DEF NoSilentGap, EndsAsSaved, CancelledOnRequest
<1> QED
  BY <1>5, <1>6, <1>7, StartTask DEF RunInv

LEMMA TaskSteps ==
  ASSUME RunInv, Next
  PROVE  TaskInv'
BY StillSteps, SpeakStep, FlushTextStep, MoveSteps, CrashStep, RecoverStep, TextStep, NoAnswerStep,
   AnswerStep, RaiseSteps, InterruptedStep, OutSteps, StopSteps
   DEF Next, Advance

LEMMA AnyStep ==
  ASSUME RunInv, [Next]_vars
  PROVE  WorldStep /\ Growth /\ RunInv'
<1>1. WorldStep /\ Growth /\ TaskInv'
  <2>1. CASE Next
    BY <2>1, WorldSteps, TaskSteps
  <2>2. CASE UNCHANGED vars
    <3>1. UNCHANGED <<run, journal, phase, job, call, late, made, forgiven, grants, faults>>
      BY <2>2 DEF vars, remote
    <3>2. Quiet /\ WorldStep
      BY <3>1 DEF Quiet, WorldStep, remote
    <3>3. Growth
      <4>1. /\ made \in Nat \ {0} /\ grants \in Nat \ {0} /\ forgiven \subseteq 1..made
            /\ faults \in Nat /\ faults <= MaxFaults
        BY DEF RunInv, WorldInv
      <4> QED
        BY <3>1, <4>1 DEF Growth
    <3> QED
      BY <3>1, <3>2, <3>3, Still
  <2> QED
    BY <2>1, <2>2
<1> QED
  BY <1>1, WorldKept, LateKept DEF RunInv

(* The invariant holds in every state, and every step is one of those that  *)
(* NewsCraft's side can take.                                               *)
LEMMA RunInvariant == Spec => []RunInv
<1>1. Init => RunInv
  BY Start
<1>2. RunInv /\ [Next]_vars => RunInv'
  BY AnyStep
<1> QED
  BY <1>1, <1>2, PTL DEF Spec

LEMMA InvariantType ==
  ASSUME RunInv
  PROVE  TypeOK
<1>1. WorldInv /\ JobInv
  BY DEF RunInv, TaskInv
<1>2. run \in RunRows /\ run.lease <= grants /\ grants \in Nat /\ run.lease \in Nat
  BY <1>1 DEF WorldInv, RunRows
<1>3. run \in [outcome : Ends \cup {"open"}, stopping : BOOLEAN, lease : 0..grants,
               live : BOOLEAN, cursor : Nat]
  <2>1. run.lease \in 0..grants
    BY <1>2
  <2> QED
    BY <1>2, <2>1 DEF RunRows
<1>4. \A i \in DOMAIN journal : journal[i] \in [kind : Kinds, n : 0..made, token : 0..grants]
  <2> TAKE i \in DOMAIN journal
  <2>1. journal[i] \in Rows
    BY <1>1 DEF WorldInv
  <2>2. journal[i].n <= made /\ journal[i].token <= grants /\ made \in Nat /\ grants \in Nat
    BY <1>1 DEF WorldInv
  <2>3. journal[i].n \in Nat /\ journal[i].token \in Nat
    BY <2>1 DEF Rows
  <2>4. journal[i].n \in 0..made /\ journal[i].token \in 0..grants
    BY <2>2, <2>3
  <2> QED
    BY <2>1, <2>4 DEF Rows
<1>5. job.at \in Places /\ job.flush \in {"none", "timer", "sending"}
      /\ job.stop \in {"none", "cancelled", "stale_lease", "callback_failed"}
  BY <1>1 DEF JobInv, JobRows, Flushes, Stops
<1>6. /\ call.by = "flush" <=> job.flush = "sending"
      /\ call.by = "task" => job.at \in {"begin", "publish", "complete", "sayCancelled", "sayFailed", "resign"}
  BY <1>1 DEF JobInv, Tells, Told
<1>7. phase \in {"open", "finished", "failed", "cancelled"} /\ forgiven \subseteq 1..made /\ faults <= MaxFaults
  BY <1>1 DEF WorldInv, Phases
<1> QED
  BY <1>3, <1>4, <1>5, <1>6, <1>7 DEF TypeOK

(* Every variable of the worker's model holds a legal value in every state; *)
(* a callback is under way only where the task or its flush sends one.      *)
THEOREM TypeCorrect == Spec => []TypeOK
BY RunInvariant, InvariantType, PTL

(* Under one lease the journal gets the run's events in the order they were *)
(* made, none twice and none left out, whatever is lost or repeated between *)
(* the worker and NewsCraft: _callback, _timed_text_flush and the batches.  *)
THEOREM NoGaps == Spec => []NoSilentGap
<1>1. Init => NoSilentGap
  BY Start
<1>2. RunInv /\ NoSilentGap /\ [Next]_vars => NoSilentGap'
  BY AnyStep, GapKept
<1> QED
  BY <1>1, <1>2, RunInvariant, PTL DEF Spec

(* What the readers are told to be over is over in the checkpoint too.      *)
THEOREM EndsTold == Spec => []EndsAsSaved
<1>1. Init => EndsAsSaved
  BY Start
<1>2. RunInv /\ EndsAsSaved /\ [Next]_vars => EndsAsSaved'
  BY AnyStep, EndsKept
<1> QED
  BY <1>1, <1>2, RunInvariant, PTL DEF Spec

(* The worker cancels a run only if its user asked for it, or if it gave up *)
(* a publication that NewsCraft had taken: then the refusal of the next     *)
(* callback is mistaken for a cancellation.                                 *)
THEOREM CancelledAsAsked == Spec => []CancelledOnRequest
<1>1. Init => CancelledOnRequest
  BY Start
<1>2. ASSUME RunInv, CancelledOnRequest, [Next]_vars PROVE CancelledOnRequest'
  <2>1. WorldStep /\ Growth
    BY <1>2, AnyStep
  <2>2. Asked => Asked'
    BY <1>2, <2>1, AskedStays
  <2>3. phase' = "cancelled" /\ phase # "cancelled" => job.at = "cancelRun"
    <3>1. phase' = phase \/ SavesPhase
      BY <2>1 DEF WorldStep, Quiet, TakesCall, TakesLate, Taken, DropsLate, LeavesCall, AsksToStop, Finalizes,
                  LeaseMoves, remote
    <3> QED
      BY <3>1 DEF SavesPhase
  <2>4. job.at = "cancelRun" => Asked
    BY <1>2 DEF RunInv, TaskInv, CauseInv, Cancelling
  <2> QED
    BY <1>2, <2>2, <2>3, <2>4 DEF CancelledOnRequest, Asked
<1> QED
  BY <1>1, <1>2, RunInvariant, PTL DEF Spec

------------------------------------------------------------------------------
(* Refinement of the readers' contract.                                     *)

(* A journal as the contract has it.                                        *)
KindsOf(rows) == [i \in DOMAIN rows |-> rows[i].kind]

LEMMA KindsOfType ==
  ASSUME NEW rows \in Seq(Rows)
  PROVE  /\ KindsOf(rows) \in Seq(Kinds) /\ Len(KindsOf(rows)) = Len(rows)
         /\ \A i \in 1..Len(rows) : KindsOf(rows)[i] = rows[i].kind
<1>1. Len(rows) \in Nat /\ DOMAIN rows = 1..Len(rows)
  OBVIOUS
<1>2. \A i \in 1..Len(rows) : rows[i].kind \in Kinds
  <2>1. \A i \in 1..Len(rows) : rows[i] \in Rows
    OBVIOUS
  <2> QED
    BY <2>1 DEF Rows
<1>3. KindsOf(rows) = [i \in 1..Len(rows) |-> rows[i].kind]
  BY <1>1 DEF KindsOf
<1> QED
  BY <1>1, <1>2, <1>3

(* Rows that are added at the end are shown at the end.                     *)
Adds(rows, old, events) ==
  /\ rows \in Seq(Rows) /\ old \in Seq(Rows) /\ events \in Seq(Kinds)
  /\ Len(rows) = Len(old) + Len(events)
  /\ \A i \in 1..Len(old) : rows[i] = old[i]
  /\ \A j \in 1..Len(events) : rows[Len(old) + j].kind = events[j]

LEMMA RowsShown ==
  ASSUME NEW rows, NEW old, NEW events, Adds(rows, old, events)
  PROVE  KindsOf(rows) = KindsOf(old) \o events
<1> DEFINE a == KindsOf(old) b == KindsOf(rows) n == Len(old) k == Len(events)
<1>0. /\ rows \in Seq(Rows) /\ old \in Seq(Rows) /\ events \in Seq(Kinds)
      /\ Len(rows) = n + k
      /\ \A i \in 1..n : rows[i] = old[i]
      /\ \A j \in 1..k : rows[n + j].kind = events[j]
  BY DEF Adds
<1>1. a \in Seq(Kinds) /\ Len(a) = n /\ \A i \in 1..n : a[i] = old[i].kind
  BY <1>0, KindsOfType
<1>2. b \in Seq(Kinds) /\ Len(b) = n + k /\ \A i \in 1..(n + k) : b[i] = rows[i].kind
  BY <1>0, KindsOfType
<1>3. n \in Nat /\ k \in Nat
  BY <1>0
<1> HIDE DEF a, b
<1>4. /\ a \o events \in Seq(Kinds) /\ Len(a \o events) = n + k
      /\ \A i \in 1..n : (a \o events)[i] = a[i]
      /\ \A j \in 1..k : (a \o events)[n + j] = events[j]
  <2> DEFINE c == a \o events
  <2>1. /\ c \in Seq(Kinds) /\ Len(c) = Len(a) + Len(events)
        /\ \A i \in 1..(Len(a) + Len(events)) : c[i] = IF i <= Len(a) THEN a[i] ELSE events[i - Len(a)]
    BY <1>0, <1>1, ConcatProperties
  <2> HIDE DEF c
  <2>2. /\ Len(c) = n + k
        /\ \A i \in 1..(n + k) : c[i] = IF i <= n THEN a[i] ELSE events[i - n]
    BY <1>1, <2>1
  <2>3. \A i \in 1..n : i \in 1..(n + k) /\ i <= n
    BY <1>3
  <2>4. \A j \in 1..k : n + j \in 1..(n + k) /\ ~(n + j <= n) /\ (n + j) - n = j
    BY <1>3
  <2> QED
    BY <2>1, <2>2, <2>3, <2>4 DEF c
<1> HIDE DEF n, k
<1>5. \A i \in 1..(n + k) : b[i] = (a \o events)[i]
  <2> TAKE i \in 1..(n + k)
  <2>1. CASE i \in 1..n
    <3>1. rows[i] = old[i] /\ a[i] = old[i].kind /\ (a \o events)[i] = a[i]
      BY <1>0, <1>1, <1>4, <2>1
    <3>2. b[i] = rows[i].kind
      BY <1>2
    <3> QED
      BY <3>1, <3>2
  <2>2. CASE i \notin 1..n
    <3>1. i - n \in 1..k /\ n + (i - n) = i
      BY <1>3, <2>2
    <3>2. rows[n + (i - n)].kind = events[i - n]
      BY <1>0, <3>1
    <3> QED
      BY <1>2, <1>4, <3>1, <3>2
  <2> QED
    BY <2>1, <2>2
<1>6. b = a \o events
  BY <1>2, <1>4, <1>5, SeqEqual
<1> QED
  BY <1>6 DEF a, b

Shows(events) ==
  /\ run.outcome = "open"
  /\ \A i \in 1..(Len(events) - 1) : events[i] \in Kinds \ (Ends \cup {"cancel_requested"})
  /\ run.stopping => events = <<"cancelled">>
  /\ KindsOf(journal') = KindsOf(journal) \o events
  /\ \/ events[Len(events)] \in Kinds \ (Ends \cup {"cancel_requested"}) /\ run'.outcome = run.outcome
     \/ events[Len(events)] \in Ends /\ run'.outcome = events[Len(events)]
  /\ run'.stopping = run.stopping

LEMMA ShowsPublishes ==
  ASSUME NEW k \in {1, 2},
         NEW events \in [1..k -> Kinds \ {"cancel_requested"}], Len(events) = k, Shows(events)
  PROVE  Contract!Next
<1>1. Kinds \ (Ends \cup {"cancel_requested"}) = {"started", "text", "artifact"}
      /\ Kinds \ {"cancel_requested"} = {"started", "text", "artifact"} \cup Ends
  BY DEF Kinds, Ends
<1>2. Contract!Publish(events)
  BY <1>1 DEF Shows, Contract!Publish, KindsOf
<1>3. k \in 1..2 /\ events \in [1..k -> {"started", "text", "artifact"} \cup Ends]
  BY <1>1
<1>4. events \in UNION {[1..n -> {"started", "text", "artifact"} \cup Ends] : n \in 1..2}
  BY <1>3
<1> QED
  BY <1>2, <1>4 DEF Contract!Next

LEMMA TakenShows ==
  ASSUME RunInv, WorldInv', NEW req, GoodRequest(req), Taken(req)
  PROVE  Contract!Next
<1> DEFINE b == req.batch k == Len(b) n == Len(journal)
<1>1. WorldInv /\ req \in Requests /\ b \in Batches
  BY DEF RunInv, GoodRequest
<1>2. /\ b \in Seq(TextEvents \cup OwnEvents) /\ k \in {1, 2} /\ DOMAIN b = 1..k
      /\ k = 2 => b[1] \in TextEvents
  BY <1>1, BatchForm
<1>3. \A i \in 1..k : b[i].kind \in Kinds \ {"cancel_requested"}
  <2> TAKE i \in 1..k
  <2>1. b[i] \in TextEvents \cup OwnEvents
    BY <1>2
  <2> QED
    BY <2>1, EventForm
<1>4. k = 2 => b[1].kind = "text"
  BY <1>2 DEF TextEvents
<1>5. /\ n \in Nat /\ journal \in Seq(Rows) /\ journal' \in Seq(Rows) /\ Len(journal') = n + k
      /\ \A i \in 1..n : journal'[i] = journal[i]
      /\ \A j \in 1..k : journal'[n + j].kind = b[j].kind
  BY <1>1, TakenGrows DEF Grows, WorldInv
<1> HIDE DEF b, k, n
<1>6. PICK events : events = [i \in 1..k |-> b[i].kind]
  OBVIOUS
<1>7. /\ events \in [1..k -> Kinds \ {"cancel_requested"}] /\ events \in Seq(Kinds) /\ Len(events) = k
      /\ \A i \in 1..k : events[i] = b[i].kind
  <2>1. events \in [1..k -> Kinds \ {"cancel_requested"}] /\ \A i \in 1..k : events[i] = b[i].kind
    BY <1>3, <1>6
  <2>2. k \in Nat
    BY <1>2
  <2>3. events \in [1..k -> Kinds]
    BY <2>1
  <2> QED
    BY <2>1, <2>2, <2>3
<1>8. KindsOf(journal') = KindsOf(journal) \o events
  <2>1. n = Len(journal)
    BY DEF n
  <2>2. \A j \in 1..k : journal'[n + j].kind = events[j]
    BY <1>5, <1>7
  <2>3. Len(journal') = n + Len(events)
    BY <1>5, <1>7
  <2>4. Adds(journal', journal, events)
    BY <1>5, <1>7, <2>1, <2>2, <2>3 DEF Adds
  <2> QED
    BY <2>4, RowsShown
<1>9. run.outcome = "open" /\ run'.stopping = run.stopping
  BY DEF Taken, HasLease
<1>10. events[k] = Last(req.batch).kind
  BY <1>2, <1>7 DEF Last, b, k
<1>11. \/ events[k] \in Kinds \ (Ends \cup {"cancel_requested"}) /\ run'.outcome = run.outcome
       \/ events[k] \in Ends /\ run'.outcome = events[k]
  BY <1>2, <1>3, <1>7, <1>9, <1>10 DEF Taken
<1>12. \A i \in 1..(k - 1) : events[i] \in Kinds \ (Ends \cup {"cancel_requested"})
  <2> TAKE i \in 1..(k - 1)
  <2>1. k = 2 /\ i = 1
    BY <1>2
  <2>2. events[i] = "text"
    BY <1>4, <1>7, <2>1
  <2> QED
    BY <2>2 DEF Kinds, Ends
<1>13. run.stopping => events = <<"cancelled">>
  <2> HAVE run.stopping
  <2>1. \A i \in 1..k : b[i].kind = "cancelled"
    BY <1>2 DEF Taken, b
  <2>2. k = 1
    BY <1>2, <1>4, <2>1
  <2>3. events = [i \in 1..1 |-> "cancelled"]
    BY <1>6, <2>1, <2>2
  <2>4. <<"cancelled">> = [i \in 1..1 |-> "cancelled"]
    OBVIOUS
  <2> QED
    BY <2>3, <2>4
<1>14. Shows(events)
  BY <1>7, <1>8, <1>9, <1>11, <1>12, <1>13 DEF Shows
<1> QED
  BY <1>2, <1>7, <1>14, ShowsPublishes

LEMMA ContractStart ==
  ASSUME Init
  PROVE  Contract!Init
<1>1. run.outcome = "open" /\ run.stopping = FALSE /\ journal = <<>>
  BY DEF Init
<1>2. [i \in DOMAIN journal |-> journal[i].kind] = <<>>
  BY <1>1
<1> QED
  BY <1>1, <1>2 DEF Contract!Init

LEMMA ContractStep ==
  ASSUME RunInv, WorldInv', WorldStep
  PROVE  [Contract!Next]_(Contract!vars)
<1>1. WorldInv /\ LateInv
  BY DEF RunInv
<1>2. CASE TakesCall \/ TakesLate
  <2>1. PICK req \in {late, Request} : Taken(req) /\ GoodRequest(req)
    BY <1>1, <1>2, RequestGood DEF TakesCall, TakesLate, LateInv
  <2> QED
    BY <2>1, TakenShows
<1>3. CASE AsksToStop \/ Finalizes
  <2>1. PICK n : n = Len(journal)
    OBVIOUS
  <2>2. PICK kind : kind = IF AsksToStop THEN "cancel_requested" ELSE "cancelled"
    OBVIOUS
  <2>3. /\ n \in Nat /\ journal \in Seq(Rows) /\ journal' \in Seq(Rows) /\ Len(journal') = n + 1
        /\ \A i \in 1..n : journal'[i] = journal[i]
        /\ journal'[n + 1].kind = kind
    BY <1>1, <1>3, <2>1, <2>2, OwnRow DEF WorldInv
  <2>4. kind \in Kinds
    BY <2>2 DEF Kinds, Ends
  <2>5. PICK events : events = <<kind>>
    OBVIOUS
  <2>6. events \in Seq(Kinds) /\ Len(events) = 1 /\ events[1] = kind
    BY <2>4, <2>5
  <2>7. KindsOf(journal') = KindsOf(journal) \o events
    <3>1. \A j \in 1..1 : journal'[n + j].kind = events[j]
      BY <2>3, <2>6
    <3>2. Adds(journal', journal, events)
      BY <2>1, <2>3, <2>6, <3>1 DEF Adds
    <3> QED
      BY <3>2, RowsShown
  <2>8. CASE AsksToStop
    <3>1. kind = "cancel_requested" /\ KindsOf(journal) \in Seq(Kinds)
      BY <2>2, <2>3, <2>8, KindsOfType
    <3>2. KindsOf(journal') = Append(KindsOf(journal), "cancel_requested")
      <4> DEFINE shown == KindsOf(journal)
      <4>1. shown \in Seq(Kinds)
        BY <3>1
      <4> HIDE DEF shown
      <4>2. Append(shown, kind) = shown \o <<kind>>
        BY <2>4, <4>1, AppendIsConcat
      <4> QED
        BY <2>5, <2>7, <3>1, <4>2 DEF shown
    <3>3. run \in RunRows /\ run' \in RunRows /\ run.stopping = FALSE /\ run'.stopping = TRUE
      BY <1>1, <2>8 DEF AsksToStop, WorldInv, RunRows
    <3>4. Contract!RequestStop
      BY <2>8, <3>2, <3>3 DEF AsksToStop, Contract!RequestStop, KindsOf
    <3> QED
      BY <3>4 DEF Contract!Next
  <2>9. CASE Finalizes
    <3>1. ~AsksToStop /\ kind = "cancelled"
      BY <2>2, <2>9 DEF AsksToStop, Finalizes
    <3>2. run'.stopping = run.stopping
      BY <1>1, <2>9 DEF Finalizes, WorldInv, RunRows
    <3>3. Shows(events)
      <4>1. 1..(Len(events) - 1) = {} /\ events[Len(events)] = "cancelled" /\ "cancelled" \in Ends
        BY <2>6, <3>1 DEF Ends
      <4> QED
        BY <2>5, <2>7, <2>9, <3>1, <3>2, <4>1 DEF Shows, Finalizes
    <3>4. events \in [1..1 -> Kinds \ {"cancel_requested"}] /\ Len(events) = 1
      BY <2>4, <2>5, <3>1 
    <3> QED
      BY <3>3, <3>4, ShowsPublishes
  <2> QED
    BY <1>3, <2>8, <2>9
<1>4. CASE UNCHANGED journal /\ run'.outcome = run.outcome /\ run'.stopping = run.stopping
  BY <1>4 DEF Contract!vars
<1> QED
  BY <1>2, <1>3, <1>4
     DEF WorldStep, Quiet, DropsLate, LeavesCall, SavesPhase, LeaseMoves, remote

(* What the worker and NewsCraft do together keeps the contract with the    *)
(* readers of the run: a call, a request that arrives late and the routes   *)
(* add events as RunContract says, and nothing else changes what they see.  *)
THEOREM WorkerKeepsContract == Spec => KeepsContract
<1>1. Init => Contract!Init
  BY ContractStart
<1>2. RunInv /\ [Next]_vars => [Contract!Next]_(Contract!vars)
  <2> SUFFICES ASSUME RunInv, [Next]_vars PROVE [Contract!Next]_(Contract!vars)
    OBVIOUS
  <2>1. WorldStep /\ RunInv'
    BY AnyStep
  <2> QED
    BY <2>1, ContractStep DEF RunInv
<1> QED
  BY <1>1, <1>2, RunInvariant, PTL DEF Spec, KeepsContract, Contract!Spec
==============================================================================
