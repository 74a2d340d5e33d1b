---------------------------- MODULE DurableWorker ----------------------------
(***************************************************************************)
(* One admitted run in the worker process: the task that runs it, the      *)
(* timed flush of buffered text, the renewal of its lease, cancellation    *)
(* and recovery, as DurableRunWorker in                                     *)
(* services/agent/src/newscraft_agent/durable.py works them.  NewsCraft's  *)
(* side is cut down to what the worker can tell apart (AgentRuns has all   *)
(* of it), the research itself to its events and its checkpoint's phase.   *)
(*                                                                         *)
(* The process is one event loop.  A callback holds callback_lock from the *)
(* moment its events are detached to its answer, so one call at a time is  *)
(* under way; everything else may happen in between.  Requests and answers *)
(* get lost, a lost request may still arrive, and the process may die.     *)
(* Each of these is a fault, and faults are bounded.                       *)
(***************************************************************************)
EXTENDS Naturals, Sequences

CONSTANTS
  MaxMade,      \* bound: texts and files the research produces
  MaxFaults     \* bound: crashes, lost requests and answers, late renewals

ASSUME WorkerAssumption == MaxMade \in Nat /\ MaxFaults \in Nat

Ends == {"cancelled", "failed", "complete"}

VARIABLES
  run,          \* NewsCraft's row: outcome, stopping, lease, whether it is live, worker_cursor
  journal,      \* the run's events, with the lease they were taken under (0: none)
  phase,        \* the runtime checkpoint's phase
  job,          \* the DurableJob in the worker's table
  call,         \* the callback that holds callback_lock
  late,         \* a request the worker has given up on and that may still arrive
  made,         \* events numbered so far, over all leases
  forgiven,     \* numbers of events lost in a publication that was given up
  grants,       \* leases granted
  faults

remote == <<run, journal, phase>>
vars == <<remote, job, call, late, made, forgiven, grants, faults>>

(* Where the task is: a callback is to be sent or under way at "begin"      *)
(* (run.started), "publish" (artifact.ready), "complete", "sayCancelled"    *)
(* and "sayFailed"; "resign" flushes what is left before the run is handed  *)
(* on; "closing" waits for the flush task to stop.  None: not in the table. *)
Running == {"begin", "work", "publish", "complete"}
Places == Running \cup {"direct", "cancelRun", "sayCancelled", "sayFailed", "resign",
                        "closing", "ended", "none"}

(* batch: callback_batch_version 1, which only the claim route answers.     *)
(* pending: recovery_pending.  unsaid: why the task ended without a word.   *)
Job(token, cursor, batch, at, stop) ==
  [token |-> token, cursor |-> cursor, batch |-> batch, at |-> at, stop |-> stop,
   interrupt |-> FALSE, pending |-> FALSE, again |-> at = "direct",
   buffer |-> <<>>, flush |-> "none", renew |-> at = "begin", unsaid |-> "none"]
NoJob == Job(0, 0, FALSE, "none", "none")
Alive == job.at \notin {"none", "ended"}

NoCall == [by |-> "nobody", queue |-> <<>>, tries |-> 0, cut |-> FALSE]
NoRequest == [token |-> 0, first |-> 0, batch |-> <<>>]
Event(kind, n) == [kind |-> kind, n |-> n]

Now == [job |-> job, call |-> call]
Becomes(w) == job' = w.job /\ call' = w.call
Free(j) == [job |-> j, call |-> NoCall]

Fault == faults < MaxFaults /\ faults' = faults + 1
Calm == UNCHANGED faults

------------------------------------------------------------------------------
(* Faulty forms of some of the definitions below; no specification uses     *)
(* them.  They are what the checked properties are there to exclude.        *)

StayInTable(j) == [j EXCEPT !.at = "resign"]
KeepsFlushing(j) ==
  [j EXCEPT !.stop = IF @ = "none" THEN "callback_failed" ELSE @, !.interrupt = TRUE]
OnlyNotes(j) ==
  [j EXCEPT !.flush = "none", !.stop = IF @ = "none" THEN "callback_failed" ELSE @]
SaysFirst(j) == [j EXCEPT !.at = "sayCancelled", !.pending = TRUE, !.buffer = <<>>]
AdmitsAnyway(req) == req.first = run.cursor + 1
IgnoresRepetition(req) == req.batch = <<>>

------------------------------------------------------------------------------
(* NewsCraft's side of a callback.                                          *)

HasLease(n) == run.lease = n /\ run.live /\ run.outcome = "open"

(* The newest events of the journal, not counting the user's own, are those *)
(* of the request: place[k] is the row of its k-th event.                   *)
Kept == {i \in DOMAIN journal : journal[i].kind # "cancel_requested"}
Replays(req) ==
  \E place \in [DOMAIN req.batch -> Kept] :
    /\ \A k, m \in DOMAIN req.batch : k < m => place[k] < place[m]
    /\ \A i \in Kept : i >= place[1] => \E k \in DOMAIN req.batch : place[k] = i
    /\ \A k \in DOMAIN req.batch :
         Event(journal[place[k]].kind, journal[place[k]].n) = req.batch[k]

(* After a cancellation request only its acknowledgement is taken.          *)
Admits(req) ==
  /\ run.stopping => \A i \in DOMAIN req.batch : req.batch[i].kind = "cancelled"
  /\ req.first = run.cursor + 1

(* appendAgentRunEvents, as far as its answer goes. *)
Verdict(req) ==
  LET lastSeen == req.first + Len(req.batch) - 1 = run.cursor IN
  IF run.lease # req.token \/ (~lastSeen /\ ~run.live) THEN "stale_lease"
  ELSE IF lastSeen THEN (IF Replays(req) THEN "replayed" ELSE "stale_callback")
  ELSE IF Admits(req) THEN "accepted" ELSE "stale_callback"

(* Whole or not at all; an end clears the expiry and keeps the token.       *)
Handle(req) ==
  IF Verdict(req) # "accepted" THEN UNCHANGED remote ELSE
  LET end == req.batch[Len(req.batch)].kind
      next == [run EXCEPT !.cursor = @ + Len(req.batch)]
  IN
  /\ journal' = journal \o [i \in DOMAIN req.batch |->
       [kind |-> req.batch[i].kind, n |-> req.batch[i].n, token |-> req.token]]
  /\ run' = IF end \in Ends THEN [next EXCEPT !.outcome = end, !.live = FALSE] ELSE next
  /\ UNCHANGED phase

(* A request that is given up unanswered: it was handled, it never will be, *)
(* or it is still on its way.                                               *)
Abandon(req) ==
  \/ Handle(req) /\ UNCHANGED late
  \/ UNCHANGED <<remote, late>>
  \/ late = NoRequest /\ late' = req /\ UNCHANGED remote

------------------------------------------------------------------------------
(* How the task goes on.  Nothing below awaits anything.                    *)

(* The finally blocks of _run and of the admitted task, and _release_slot:  *)
(* a job to be recovered leaves the table.                                  *)
Ended(j) ==
  IF j.pending THEN NoJob
  ELSE [j EXCEPT !.at = "ended", !.interrupt = FALSE, !.again = FALSE, !.buffer = <<>>,
                 !.flush = "none", !.renew = FALSE]
Close(j) ==
  IF j.flush = "sending" THEN [j EXCEPT !.at = "closing", !.interrupt = FALSE] ELSE Ended(j)

(* _publish_cancelled up to its first await.  A flush task that is still    *)
(* there is cancelled, and as stop_reason is "cancelled" it cancels the     *)
(* task that cancelled it: the publication ends before it began.            *)
PublishCancelled(j) ==
  IF j.flush = "none"
  THEN [j EXCEPT !.at = "cancelRun", !.pending = TRUE, !.buffer = <<>>]
  ELSE Close([j EXCEPT !.unsaid = "cancelLost"])

Resign(j) == [j EXCEPT !.at = "resign", !.pending = TRUE]
TellFailed(j) == [j EXCEPT !.at = "sayFailed"]
Detached(j) == [j EXCEPT !.buffer = <<>>]

(* An interruption leaves _run: the finally block stops the flush task,     *)
(* which interrupts it in turn if the run is being cancelled, and so leaves *)
(* the renewal behind; the cancellation is published after it.              *)
Leave(j) ==
  IF j.flush # "sending" /\ j.stop = "cancelled"
  THEN PublishCancelled([j EXCEPT !.renew = j.flush # "none", !.flush = "none", !.unsaid = "none"])
  ELSE Close(j)
LeaveStopped(j) ==
  IF j.unsaid = "cancelLost" THEN Ended(j) ELSE Leave([j EXCEPT !.flush = "timer"])

(* CancelledError arrives at the task. *)
Raise(j0) ==
  LET j == [j0 EXCEPT !.interrupt = FALSE] IN
  CASE j.at \in Running   -> IF j.stop = "cancelled" THEN PublishCancelled(j)
                             ELSE Close([j EXCEPT !.pending = TRUE])
    [] j.at = "sayFailed" -> Leave([j EXCEPT !.unsaid = "failureLost"])
    [] j.at = "resign"    -> Leave(j)
    [] j.at = "closing"   -> LeaveStopped(j)
    [] OTHER              -> IF j.again THEN PublishCancelled([j EXCEPT !.again = FALSE])
                             ELSE Ended(j)

(* The callback at the task's place was taken. *)
Said(j) ==
  CASE j.at \in {"begin", "publish"} -> [j EXCEPT !.at = "work"]
    [] j.at = "sayCancelled"         -> Ended([j EXCEPT !.pending = FALSE])
    [] OTHER                         -> Ended(j)

(* It failed with something else than CancelledError.  The research takes   *)
(* a failed publication as its own affair and goes on without the file.     *)
Unsaid(j) ==
  CASE j.at \in {"begin", "complete"} -> Resign(j)
    [] j.at = "publish"               -> [j EXCEPT !.at = "work"]
    [] j.at = "sayFailed"             -> Ended([j EXCEPT !.unsaid = "failureLost"])
    [] OTHER                          -> Ended(j)

(* _timed_text_flush, when its callback failed: the text is gone, so the    *)
(* task must not go on.                                                     *)
FlushFailed(j) ==
  [j EXCEPT !.flush = "none", !.stop = IF @ = "none" THEN "callback_failed" ELSE @,
            !.interrupt = @ \/ j.at # "closing"]

Failed(w) ==
  Free(IF w.call.by = "flush" THEN FlushFailed(w.job) ELSE Unsaid(w.job))

TakenAsCancelled(w) ==
  LET j == [w.job EXCEPT !.stop = "cancelled"] IN
  Free(IF w.call.by = "flush"
       THEN [j EXCEPT !.flush = "none", !.interrupt = @ \/ j.at # "closing"]
       ELSE Raise(j))

Acknowledged(w) ==
  LET j == [w.job EXCEPT !.cursor = @ + Len(Head(w.call.queue))]
      rest == Tail(w.call.queue)
  IN IF w.call.cut THEN Free(Raise(j))
     ELSE IF rest # <<>> THEN [job |-> j, call |-> [w.call EXCEPT !.queue = rest, !.tries = 1]]
     ELSE Free(IF w.call.by = "flush" THEN [j EXCEPT !.flush = "none"] ELSE Said(j))

Replied(w, verdict) ==
  CASE verdict \in {"accepted", "replayed"} -> Acknowledged(w)
    [] verdict = "stale_callback"           -> TakenAsCancelled(w)
    [] OTHER -> Failed([w EXCEPT !.job.stop = "stale_lease"])

------------------------------------------------------------------------------
(* The callbacks.                                                           *)

Speaks == job.at \in {"begin", "publish", "complete", "sayCancelled", "sayFailed", "resign"}
Kind ==
  CASE job.at = "begin" -> "started" [] job.at = "publish" -> "artifact"
    [] job.at = "complete" -> "complete" [] job.at = "sayFailed" -> "failed"
    [] OTHER -> "cancelled"
Own == <<Event(Kind, IF job.at \in {"sayCancelled", "sayFailed"} THEN 0 ELSE made)>>

(* What goes out: the buffered text and the event, in one batch or, by the  *)
(* single callbacks of a recovered job and around a publication, in two.    *)
Outgoing(text) ==
  LET alone == IF text = <<>> THEN <<>> ELSE <<text>> IN
  IF job.at = "resign" THEN alone
  ELSE IF job.batch /\ job.at # "publish" THEN <<text \o Own>>
  ELSE Append(alone, Own)

Undisturbed == Alive /\ ~job.interrupt
Proceeds(j) == job' = j /\ UNCHANGED <<remote, call, late, made, forgiven, grants>> /\ Calm

(* _callback, with callback_lock obtained; the events are detached first.   *)
Speak ==
  /\ Undisturbed /\ Speaks
  /\ call = NoCall
  /\ job.at = "complete" => job.stop = "none"
  /\ IF Outgoing(job.buffer) = <<>> THEN Proceeds(Ended(job)) ELSE
     /\ job' = Detached(job)
     /\ call' = [by |-> "task", queue |-> Outgoing(job.buffer), tries |-> 1, cut |-> FALSE]
     /\ UNCHANGED <<remote, late, made, forgiven, grants>> /\ Calm

(* _timed_text_flush, when its time has come. *)
FlushText ==
  /\ Alive /\ job.flush = "timer"
  /\ call = NoCall
  /\ IF job.buffer = <<>> THEN Proceeds([job EXCEPT !.flush = "none"]) ELSE
     /\ job' = [Detached(job) EXCEPT !.flush = "sending"]
     /\ call' = [by |-> "flush", queue |-> <<job.buffer>>, tries |-> 1, cut |-> FALSE]
     /\ UNCHANGED <<remote, late, made, forgiven, grants>> /\ Calm

Request == [token |-> job.token, first |-> job.cursor + 1, batch |-> Head(call.queue)]
Numbers(queue) ==
  {e.n : e \in UNION {{queue[i][k] : k \in DOMAIN queue[i]} : i \in DOMAIN queue}} \ {0}

(* What a publication loses when it fails, but for the file's own event if  *)
(* it is tried again.                                                       *)
GivenUp(retry) ==
  IF call.by = "task" /\ job.at = "publish"
  THEN Numbers(call.queue) \ (IF retry THEN {made} ELSE {}) ELSE {}

Answer ==
  /\ call # NoCall
  /\ LET verdict == Verdict(Request) IN
     /\ Handle(Request)
     /\ Becomes(Replied(Now, verdict))
     /\ forgiven' = forgiven \cup
          (IF verdict \in {"accepted", "replayed"} THEN {} ELSE GivenUp(FALSE))
  /\ UNCHANGED <<late, made, grants>> /\ Calm

(* A transport error.  A batch is sent once more as it is; a publication    *)
(* may be tried again by the research, with the same event.                 *)
NoAnswer ==
  /\ call # NoCall
  /\ Fault
  /\ Abandon(Request)
  /\ \/ /\ job.batch /\ call.tries = 1
        /\ call' = [call EXCEPT !.tries = 2]
        /\ UNCHANGED <<job, forgiven>>
     \/ /\ ~(job.batch /\ call.tries = 1)
        /\ Becomes(Failed(Now))
        /\ forgiven' = forgiven \cup GivenUp(FALSE)
     \/ /\ ~(job.batch /\ call.tries = 1)
        /\ call.by = "task" /\ job.at = "publish" /\ ~call.cut
        /\ call' = NoCall /\ UNCHANGED job
        /\ forgiven' = forgiven \cup GivenUp(TRUE)
  /\ UNCHANGED <<made, grants>>

LateRequestArrives ==
  /\ late # NoRequest
  /\ Handle(late)
  /\ late' = NoRequest
  /\ UNCHANGED <<job, call, made, forgiven, grants>> /\ Calm

------------------------------------------------------------------------------
(* The task.                                                                *)

(* A recovered job whose run was to be cancelled publishes that and no more. *)
BeginDirect ==
  /\ Undisturbed /\ job.at = "direct"
  /\ Proceeds(PublishCancelled(job))

(* cancel_run: under the lease, and only an open checkpoint changes.        *)
CancelRun ==
  /\ Undisturbed /\ job.at = "cancelRun"
  /\ IF HasLease(job.token) /\ job.stop # "stale_lease"
     THEN /\ phase' = IF phase = "open" THEN "cancelled" ELSE phase
          /\ job' = [job EXCEPT !.at = "sayCancelled"]
          /\ UNCHANGED <<run, journal, call, late, made, forgiven, grants>> /\ Calm
     ELSE Proceeds(Ended(job))

CancelRunFails ==
  /\ Undisturbed /\ job.at = "cancelRun"
  /\ Fault
  /\ job' = Ended(job)
  /\ UNCHANGED <<remote, call, late, made, forgiven, grants>>

(* The interruption of a single callback drops it; that of a batch waits    *)
(* for its answer, unless it is the second.                                 *)
Interrupted ==
  /\ Alive /\ job.interrupt
  /\ \/ /\ call.by = "task" /\ job.batch /\ ~call.cut
        /\ job' = [job EXCEPT !.interrupt = FALSE]
        /\ call' = [call EXCEPT !.cut = TRUE]
        /\ UNCHANGED <<remote, late>>
     \/ /\ \/ call.by = "task" /\ ~(job.batch /\ ~call.cut)
           \/ call.by = "flush" /\ job.at = "closing"
        /\ Abandon(Request)
        /\ Becomes(Free(Raise(job)))
     \/ /\ call.by # "task" /\ ~(call.by = "flush" /\ job.at = "closing")
        /\ job' = Raise(job)
        /\ UNCHANGED <<remote, call, late>>
  /\ UNCHANGED <<made, forgiven, grants>> /\ Calm

(* The task has waited for the flush task to stop. *)
FlushStopped ==
  /\ Undisturbed /\ job.at = "closing"
  /\ \/ call = NoCall /\ UNCHANGED <<remote, late>>
     \/ call # NoCall /\ ~job.batch /\ Abandon(Request)
  /\ Becomes(Free(LeaveStopped(job)))
  /\ UNCHANGED <<made, forgiven, grants>> /\ Calm

(* The events of the research are handled only while nothing stops the run. *)
NoticeStop ==
  /\ Undisturbed /\ job.at \in {"work", "complete"} /\ call.by # "task"
  /\ job.stop # "none"
  /\ Proceeds(Raise(job))

------------------------------------------------------------------------------
(* The research, seen from the worker.                                      *)

Working == Undisturbed /\ job.at = "work" /\ phase = "open"

(* Adjacent text is joined, so a second piece changes nothing here.         *)
Text ==
  /\ Working /\ job.stop = "none"
  /\ call = NoCall /\ job.buffer = <<>>
  /\ made < MaxMade
  /\ made' = made + 1
  /\ job' = [job EXCEPT !.buffer = <<Event("text", made + 1)>>,
                        !.flush = IF @ = "none" THEN "timer" ELSE @]
  /\ UNCHANGED <<remote, call, late, forgiven, grants>> /\ Calm

Publication ==
  /\ Working
  /\ made < MaxMade
  /\ made' = made + 1
  /\ job' = [job EXCEPT !.at = "publish"]
  /\ UNCHANGED <<remote, call, late, forgiven, grants>> /\ Calm

(* The phase is saved under the lease before the run's end is told; a save  *)
(* that is refused leaves the run to be recovered.                          *)
Concludes(saved, then) ==
  /\ Working
  /\ IF HasLease(job.token) /\ job.stop # "stale_lease"
     THEN /\ phase' = saved
          /\ job' = then
          /\ UNCHANGED <<run, journal>>
     ELSE job' = Resign(job) /\ UNCHANGED remote
  /\ UNCHANGED <<call, late, forgiven, grants>> /\ Calm

Finish == Concludes("finished", [job EXCEPT !.at = "complete"]) /\ made' = made + 1
Fail == Concludes("failed", TellFailed(job)) /\ UNCHANGED made

(* A dispatch checkpoint: the run is to be cancelled. *)
CheckpointRefuses ==
  /\ Working
  /\ run.stopping /\ HasLease(job.token)
  /\ Proceeds(Raise([job EXCEPT !.stop = "cancelled"]))

(* The cleanup or the outcome of an action is uncertain: RecoveryPending.   *)
LeavePending ==
  /\ Working
  /\ Fault
  /\ job' = Resign(job)
  /\ UNCHANGED <<remote, call, late, made, forgiven, grants>>

(* What a later lease finds in the checkpoint: the answer is told again, an *)
(* end that was saved is reported as a failure.                             *)
Resume ==
  /\ Undisturbed /\ job.at = "work" /\ phase # "open"
  /\ job' = IF phase = "finished" THEN [job EXCEPT !.at = "complete"] ELSE TellFailed(job)
  /\ made' = made + 1
  /\ UNCHANGED <<remote, call, late, forgiven, grants>> /\ Calm

------------------------------------------------------------------------------
(* Renewal, cancellation, recovery, and the end of the process.             *)

Stop(j, reason) == [j EXCEPT !.stop = reason, !.interrupt = TRUE]

RenewSeesCancellation ==
  /\ Alive /\ job.renew /\ HasLease(job.token) /\ run.stopping
  /\ Proceeds([Stop(job, "cancelled") EXCEPT !.renew = FALSE])

RenewFails ==
  /\ Alive /\ job.renew
  /\ IF HasLease(job.token) THEN Fault ELSE Calm
  /\ job' = [Stop(job, "stale_lease") EXCEPT !.renew = FALSE]
  /\ UNCHANGED <<remote, call, late, made, forgiven, grants>>

(* requestAgentRunCancellation. *)
RequestCancellation ==
  /\ run.outcome = "open" /\ ~run.stopping
  /\ run' = [run EXCEPT !.stopping = TRUE]
  /\ journal' = Append(journal, [kind |-> "cancel_requested", n |-> 0, token |-> 0])
  /\ UNCHANGED <<phase, job, call, late, made, forgiven, grants>> /\ Calm

(* cancel, which the cancellation route calls; repeating it is a fault. *)
TellWorker ==
  /\ run.outcome = "open" /\ run.stopping
  /\ Alive
  /\ IF job.stop = "cancelled" THEN Fault ELSE Calm
  /\ job' = Stop(job, "cancelled")
  /\ UNCHANGED <<remote, call, late, made, forgiven, grants>>

(* The worker answers that the run is not running: the route ends it, with  *)
(* finalizeAgentRunCancellation.                                            *)
FinalizeCancellation ==
  /\ run.outcome = "open" /\ run.stopping
  /\ ~Alive
  /\ run' = [run EXCEPT !.outcome = "cancelled", !.lease = 0, !.live = FALSE]
  /\ journal' = Append(journal, [kind |-> "cancelled", n |-> 0, token |-> 0])
  /\ UNCHANGED <<phase, job, call, late, made, forgiven, grants>> /\ Calm

(* The lease runs out.  While its task is there, that is a fault: the task  *)
(* renews it, and what it does without renewing takes much less time.       *)
Expire ==
  /\ run.live
  /\ IF Alive /\ job.token = run.lease THEN Fault ELSE Calm
  /\ run' = [run EXCEPT !.live = FALSE]
  /\ UNCHANGED <<journal, phase, job, call, late, made, forgiven, grants>>

(* The recovery poll: the route leases the run, and start_recovered takes   *)
(* it up or, for a run that is still in the table, gives the lease back.    *)
Recoverable == run.outcome = "open" /\ (run.lease = 0 \/ ~run.live)

Recover ==
  /\ Recoverable
  /\ IF job = NoJob
     THEN /\ run' = [run EXCEPT !.lease = grants + 1, !.live = TRUE]
          /\ grants' = grants + 1
          /\ job' = IF run.stopping
                    THEN Job(grants + 1, run.cursor, FALSE, "direct", "cancelled")
                    ELSE Job(grants + 1, run.cursor, FALSE, "begin", "none")
          /\ made' = made + 1
     ELSE /\ run' = [run EXCEPT !.lease = 0, !.live = FALSE]
          /\ UNCHANGED <<grants, job, made>>
  /\ UNCHANGED <<journal, phase, call, late, forgiven>> /\ Calm

(* The route's answer, or the request that gives the lease back, is lost.   *)
RecoverLost ==
  /\ Recoverable
  /\ Fault
  /\ run' = [run EXCEPT !.lease = grants + 1, !.live = TRUE]
  /\ grants' = grants + 1
  /\ UNCHANGED <<journal, phase, job, call, late, made, forgiven>>

Crash ==
  /\ job # NoJob
  /\ Fault
  /\ IF call = NoCall THEN UNCHANGED <<remote, late>> ELSE Abandon(Request)
  /\ job' = NoJob /\ call' = NoCall
  /\ UNCHANGED <<made, forgiven, grants>>

------------------------------------------------------------------------------
(* The claim of the run was answered and its task goes through _run.        *)
Init ==
  /\ run = [outcome |-> "open", stopping |-> FALSE, lease |-> 1, live |-> TRUE,
            cursor |-> 0]
  /\ journal = <<>> /\ phase = "open"
  /\ job = Job(1, 0, TRUE, "begin", "none")
  /\ call = NoCall /\ late = NoRequest
  /\ made = 1 /\ forgiven = {} /\ grants = 1 /\ faults = 0

(* What happens of itself: the tasks' steps, answers, renewals, the clock   *)
(* and the poll.                                                            *)
Advance ==
  \/ Speak \/ FlushText \/ Answer
  \/ BeginDirect \/ CancelRun \/ Interrupted \/ FlushStopped \/ NoticeStop
  \/ Text \/ Publication \/ Finish \/ Fail \/ CheckpointRefuses \/ Resume
  \/ RenewSeesCancellation \/ RenewFails \/ Expire \/ Recover

Next ==
  \/ Advance
  \/ RequestCancellation \/ TellWorker \/ FinalizeCancellation
  \/ NoAnswer \/ LateRequestArrives \/ CancelRunFails \/ LeavePending
  \/ RecoverLost \/ Crash

Spec == Init /\ [][Next]_vars /\ WF_vars(Advance)

------------------------------------------------------------------------------
(* Every variable holds a legal value. *)
Kinds == Ends \cup {"started", "text", "artifact", "cancel_requested"}
TypeOK ==
  /\ run \in [outcome : Ends \cup {"open"}, stopping : BOOLEAN, lease : 0..grants,
              live : BOOLEAN, cursor : Nat]
  /\ \A i \in DOMAIN journal : journal[i] \in [kind : Kinds, n : 0..made, token : 0..grants]
  /\ phase \in {"open", "finished", "failed", "cancelled"}
  /\ job.at \in Places /\ job.flush \in {"none", "timer", "sending"}
  /\ job.stop \in {"none", "cancelled", "stale_lease", "callback_failed"}
  /\ call.by = "flush" <=> job.flush = "sending"
  /\ call.by = "task" => job.at \in {"begin", "publish", "complete", "sayCancelled", "sayFailed", "resign"}
  /\ forgiven \subseteq 1..made
  /\ faults <= MaxFaults

(* Events taken under one lease come in the order in which they were made,  *)
(* none twice and none left out, unless a publication was given up: an      *)
(* event that was lost otherwise is the last the lease is used for.         *)
NoSilentGap ==
  \A i, k \in DOMAIN journal :
    (/\ i < k
     /\ journal[i].token = journal[k].token /\ journal[i].n > 0 /\ journal[k].n > 0
     /\ \A m \in (i+1)..(k-1) : journal[m].n = 0)
    => /\ journal[i].n < journal[k].n
       /\ (journal[i].n + 1)..(journal[k].n - 1) \subseteq forgiven

(* A worker tells that a run is over only when its checkpoint says so: what *)
(* the readers were told to be over is never taken up again, and what was   *)
(* cancelled has had its executor cleaned up before.                        *)
EndsAsSaved ==
  /\ run.outcome = "complete" => phase = "finished"
  /\ run.outcome = "failed" => phase \in {"failed", "cancelled"}
  /\ \A i \in DOMAIN journal :
       journal[i].kind = "cancelled" /\ journal[i].token # 0 => phase # "open"

(* A run is cancelled because its user asked for it, with one exception: a  *)
(* publication was given up although NewsCraft had taken its event.  Then   *)
(* the next callback repeats a cursor with other content, and the worker    *)
(* reads the refusal as a cancellation.                                     *)
GaveUpWhatWasTaken == \E i \in DOMAIN journal : journal[i].n \in forgiven
CancelledOnRequest == phase = "cancelled" => run.stopping \/ GaveUpWhatWasTaken

(* The task ended without a word and its job stays in the table: every      *)
(* later lease is given back, until the process restarts.                   *)
Stranded == job.at = "ended" /\ job.unsaid # "none"

(* Whatever gets lost, every run ends, provided it was not stranded.        *)
RunEnds == [](~Stranded) => <>(run.outcome # "open")

(* A task that was stopped to be cancelled has told NewsCraft, or left the  *)
(* run to be recovered.                                                     *)
CancellationSaid ==
  job.at = "ended" /\ job.stop = "cancelled" => run.outcome # "open"

(* What the readers of the run were promised. *)
Contract == INSTANCE RunContract WITH
  Progress <- {"started", "text", "artifact"}, Limit <- 2,
  outcome <- run.outcome, stopping <- run.stopping,
  journal <- [i \in DOMAIN journal |-> journal[i].kind]
KeepsContract == Contract!Spec
==============================================================================
