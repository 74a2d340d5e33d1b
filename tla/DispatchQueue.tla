---------------------------- MODULE DispatchQueue ----------------------------
(***************************************************************************)
(* Admission of runs by one worker process: the bounded round-robin queue, *)
(* the active slots and the job table of DurableRunWorker in               *)
(* services/agent/src/newscraft_agent/durable.py.                          *)
(*                                                                         *)
(* The process is one event loop.  A section under its lock awaits nothing *)
(* and so is one step; a job's task, the request that started it and any   *)
(* cancellation interleave between their awaits.  A task that is cancelled *)
(* gets the cancellation at its next step, and the first step counts: a    *)
(* task cancelled before it never enters its try block.                    *)
(*                                                                         *)
(* What NewsCraft answers to a claim, and how a run goes, are left open.   *)
(***************************************************************************)
EXTENDS Naturals, Sequences, FiniteSets

CONSTANTS
  Runs, Tenants,
  TenantOf,               \* the tenant of each run
  MaxActive,              \* max_active_runs
  MaxActivePerTenant,     \* max_active_runs_per_tenant
  MaxQueued,              \* max_queued_runs
  MaxQueuedPerTenant,     \* max_queued_runs_per_tenant
  MaxJobs,                \* bound: job objects of one run alive at the same time
  MaxAlive,               \* bound: job objects alive at the same time
  Closes                  \* bound: whether the worker is shut down

ASSUME LimitsAssumption ==
  /\ TenantOf \in [Runs -> Tenants]
  /\ MaxActive \in Nat \ {0} /\ MaxActivePerTenant \in 1..MaxActive
  /\ MaxQueued \in Nat \ {0} /\ MaxQueuedPerTenant \in 1..MaxQueued
  /\ MaxJobs \in Nat /\ MaxAlive \in Nat /\ Closes \in BOOLEAN

(* A job object is its run and the rank that tells it from other objects of *)
(* the run.                                                                 *)
Jobs == Runs \X (1..MaxJobs)
RunOf(j) == j[1]
NoJob == <<>>

VARIABLES
  heap,       \* the DurableJob objects that something refers to
  table,      \* self.jobs: the job each run id leads to
  queue,      \* _tenant_queues: run ids by tenant
  order,      \* _tenant_order
  active,     \* _active_runs
  byTenant,   \* _active_by_tenant
  closed,     \* _closed
  closing     \* the tasks that close() has still to interrupt

vars == <<heap, table, queue, order, active, byTenant, closed, closing>>

(* queued: no task yet; new: created, its first step is to come; told: the  *)
(* outcome of the claim is known and waits to be settled; closing: only the *)
(* finally block is to come; dropped: cancelled before the first step.      *)
Phases == {"queued", "new", "claiming", "told", "running", "closing", "done", "dropped"}
Over == {"done", "dropped"}

(* waited: the start request awaits the claim; cancelled: stop_reason, and  *)
(* until the task acts on it, the interruption that is on its way.          *)
Job(phase, answer) ==
  [task |-> phase, slot |-> FALSE, waited |-> FALSE, claim |-> answer, cancelled |-> FALSE]

(* The part of the state that a step under the lock works on.               *)
Now == [heap |-> heap, table |-> table, queue |-> queue, order |-> order,
        active |-> active, byTenant |-> byTenant]

(* Of a job that is over and not waited for, nothing but its slot matters.  *)
Tidy(h, t) ==
  [j \in {k \in DOMAIN h : h[k].task \notin Over \/ h[k].waited \/ t[RunOf(k)] = k} |->
     IF h[j].task \in Over /\ ~h[j].waited
     THEN [Job(h[j].task, "none") EXCEPT !.slot = h[j].slot] ELSE h[j]]
Installs(s) ==
  /\ heap' = Tidy(s.heap, s.table) /\ table' = s.table
  /\ queue' = s.queue /\ order' = s.order
  /\ active' = s.active /\ byTenant' = s.byTenant
Becomes(s) == Installs(s) /\ UNCHANGED <<closed, closing>>

With(h, j, job) == [k \in DOMAIN h \cup {j} |-> IF k = j THEN job ELSE h[k]]
Without(q, x) ==
  LET at == {i \in DOMAIN q : q[i] = x} IN
  IF at = {} THEN q ELSE
  LET i == CHOOSE i \in at : \A k \in at : i <= k
  IN SubSeq(q, 1, i - 1) \o SubSeq(q, i + 1, Len(q))
TotalQueued == Cardinality({p \in Tenants \X (1..MaxQueued) : p[2] <= Len(queue[p[1]])})

------------------------------------------------------------------------------
(* Faulty forms of some of the definitions below; no specification uses     *)
(* them.  They are what the checked properties are there to exclude.        *)

HasSlotAtTenantLimit(s, t) == s.active < MaxActive /\ s.byTenant[t] <= MaxActivePerTenant
EnqueueTurn(s, r) ==
  LET t == TenantOf[r] IN
  [s EXCEPT !.order = Append(@, t), !.queue[t] = Append(@, r)]
EnqueueInFront(s, r) ==
  LET t == TenantOf[r] IN
  [s EXCEPT !.order = IF s.queue[t] = <<>> THEN <<t>> \o @ ELSE @, !.queue[t] = Append(@, r)]
OnlyGivesSlot(s, j) ==
  [s EXCEPT !.active = @ - 1, !.byTenant[TenantOf[RunOf(j)]] = @ - 1, !.heap[j].slot = FALSE]
GivesSlotAgain(s, j) == [s EXCEPT !.active = @ - 2, !.byTenant[TenantOf[RunOf(j)]] = @ - 2]
ReadyOnClaim(j) == heap[j].claim # "none"

------------------------------------------------------------------------------
(* The helpers that run under the lock.                                     *)

(* _has_active_slot_locked. *)
HasSlot(s, t) == s.active < MaxActive /\ s.byTenant[t] < MaxActivePerTenant

(* _enqueue_locked: a tenant takes its turn when its queue was empty. *)
Enqueue(s, r) ==
  LET t == TenantOf[r] IN
  [s EXCEPT !.order = IF s.queue[t] = <<>> THEN Append(@, t) ELSE @,
            !.queue[t] = Append(@, r)]

(* _remove_queued_locked.  A tenant has one turn, so what is removed first   *)
(* is all of it (QueueMatchesJobs).                                         *)
RemoveQueued(s, r) ==
  LET t == TenantOf[r]
      rest == Without(s.queue[t], r)
  IN [s EXCEPT !.queue[t] = rest, !.order = IF rest = <<>> THEN Without(@, t) ELSE @]

(* The turns after the tenant at position k had its own: the blocked ones   *)
(* before it went to the back, and it follows them if it has more runs.     *)
NextTurns(o, k, more) ==
  SubSeq(o, k + 1, Len(o)) \o SubSeq(o, 1, k - 1) \o (IF more THEN <<o[k]>> ELSE <<>>)

Reserve(s, j) ==
  [s EXCEPT !.active = @ + 1, !.byTenant[TenantOf[RunOf(j)]] = @ + 1,
            !.heap[j].slot = TRUE, !.heap[j].task = "new"]

(* _dispatch: _next_queued_job_locked, then _reserve_slot_locked and the     *)
(* task of the job it found.  The loop ends when nobody is found; a second  *)
(* round never finds anybody, as NobodyWaitsBesideASlot holds before and    *)
(* after and a step frees one slot or adds one run.                         *)
Dispatch(s) ==
  LET open == {k \in DOMAIN s.order : HasSlot(s, s.order[k])} IN
  IF closed \/ open = {} THEN s ELSE
  LET k == CHOOSE k \in open : \A l \in open : k <= l
      t == s.order[k]
      j == s.table[Head(s.queue[t])]
      rest == Tail(s.queue[t])
      turned == [s EXCEPT !.queue[t] = rest, !.order = NextTurns(@, k, rest # <<>>)]
  IN IF j = NoJob \/ s.heap[j].cancelled THEN turned ELSE Reserve(turned, j)

(* _release_slot, with the dispatch that follows it in the same step. *)
ReleaseSlot(s, j) ==
  Dispatch(IF s.heap[j].slot
           THEN [s EXCEPT !.active = @ - 1, !.byTenant[TenantOf[RunOf(j)]] = @ - 1,
                          !.heap[j].slot = FALSE]
           ELSE s)

(* The run id no longer leads to job j. *)
Forget(s, j) ==
  [s EXCEPT !.table[RunOf(j)] = IF @ = j THEN NoJob ELSE @]
ForgetUnleased(s, j) == IF s.heap[j].claim = "granted" THEN s ELSE Forget(s, j)

------------------------------------------------------------------------------
(* The requests.                                                            *)

NoJobFor(r) == table[r] = NoJob
Overloaded(t) == Len(queue[t]) >= MaxQueuedPerTenant \/ TotalQueued >= MaxQueued

Init ==
  /\ heap = [j \in {} |-> Job("done", "none")]
  /\ table = [r \in Runs |-> NoJob]
  /\ queue = [t \in Tenants |-> <<>>]
  /\ order = <<>>
  /\ active = 0
  /\ byTenant = [t \in Tenants |-> 0]
  /\ closed = FALSE /\ closing = {}

Unused(j) ==
  /\ ~closed
  /\ Cardinality(DOMAIN heap) < MaxAlive
  /\ j \notin DOMAIN heap /\ \A n \in 1..(j[2] - 1) : <<RunOf(j), n>> \in DOMAIN heap

(* start.  A run that has a job is answered from it and a full queue with   *)
(* 429; neither changes anything.  The request waits for the claim only if  *)
(* its own job was admitted at once.                                        *)
Start(j) == LET r == RunOf(j) IN
  /\ Unused(j)
  /\ NoJobFor(r) /\ ~Overloaded(TenantOf[r])
  /\ LET known == [Now EXCEPT !.heap = With(heap, j, Job("queued", "none")),
                              !.table[r] = j]
         s == Dispatch(Enqueue(known, r))
     IN Becomes([s EXCEPT !.heap[j].waited = s.heap[j].task = "new"])

(* start_recovered, for a run whose lease the recovery route has claimed.   *)
(* It is never queued: without a slot its lease is given back.              *)
StartRecovered(j) == LET r == RunOf(j) IN
  /\ Unused(j)
  /\ NoJobFor(r) /\ HasSlot(Now, TenantOf[r])
  /\ Becomes(Reserve([Now EXCEPT !.heap = With(heap, j, Job("new", "granted")),
                                 !.table[r] = j], j))

(* cancel.  A finished job is left as it is; a task that is ending anyway   *)
(* runs its finally block with or without the interruption.                 *)
Cancel(r) ==
  LET j == table[r] IN
  /\ j # NoJob
  /\ \/ /\ heap[j].task = "queued" /\ ~heap[j].cancelled
        /\ Becomes(RemoveQueued([Now EXCEPT !.heap[j].cancelled = TRUE], r))
     \/ /\ heap[j].task \notin Over \cup {"queued"}
        /\ Becomes([Now EXCEPT !.heap[j].cancelled = TRUE])

(* close: the waiting runs leave the queue, and the tasks at work are       *)
(* interrupted once what they had buffered was sent.                        *)
Known(j) == table[RunOf(j)] = j
AtWork(j) == heap[j].slot /\ heap[j].task \notin Over
Shutdown ==
  /\ Closes /\ ~closed /\ closed' = TRUE
  /\ closing' = {j \in DOMAIN heap : Known(j) /\ AtWork(j)}
  /\ Installs([Now EXCEPT
       !.heap = [j \in DOMAIN heap |->
                  [heap[j] EXCEPT !.cancelled = @ \/ (Known(j) /\ heap[j].task = "queued")]],
       !.queue = [t \in Tenants |-> <<>>], !.order = <<>>])
InterruptTasks ==
  /\ closing # {} /\ closing' = {}
  /\ Installs([Now EXCEPT !.heap = [j \in DOMAIN heap |->
                 [heap[j] EXCEPT !.cancelled = @ \/ (j \in closing /\ AtWork(j))]]])
  /\ UNCHANGED closed

------------------------------------------------------------------------------
(* A job's task: _admit_and_run, or _run_recovered for a recovered run.     *)

In(j, phase) == j \in DOMAIN heap /\ heap[j].task = phase
Undisturbed(j, phase) == In(j, phase) /\ ~heap[j].cancelled

(* claim_ready: set with the claim's outcome, or by the finally block.      *)
ClaimReady(j) == heap[j].claim # "none" \/ heap[j].task = "done"

Begin(j) ==
  /\ Undisturbed(j, "new")
  /\ Becomes([Now EXCEPT !.heap[j].task = IF heap[j].claim = "granted" THEN "running" ELSE "claiming"])

(* Cancelled before its first step: nothing of the task runs, its finally   *)
(* block neither.                                                           *)
DropTask(j) ==
  /\ In(j, "new") /\ heap[j].cancelled
  /\ Becomes([Now EXCEPT !.heap[j].task = "dropped"])

(* The claim is answered: the lease, word that the run ended or is leased   *)
(* to someone else, or an error.                                            *)
ClaimAnswered(j, outcome) ==
  /\ Undisturbed(j, "claiming")
  /\ Becomes([Now EXCEPT !.heap[j].claim = outcome,
                         !.heap[j].task = IF outcome = "granted" THEN "running" ELSE "told"])

(* _settle_claim_outcome, once the request that started the run has seen    *)
(* the outcome.                                                             *)
Settle(j) ==
  /\ Undisturbed(j, "told") /\ ~heap[j].waited
  /\ Becomes(ForgetUnleased([Now EXCEPT !.heap[j].task = "closing"], j))

Interrupt(j) ==
  /\ In(j, "claiming") \/ In(j, "told")
  /\ heap[j].cancelled
  /\ Becomes([Now EXCEPT !.heap[j].task = "closing"])

(* The finally block of a task that never had the lease.  A settled job has *)
(* left the table before.                                                   *)
Close(j) ==
  /\ In(j, "closing")
  /\ LET ended == [Now EXCEPT !.heap[j].task = "done"] IN
     Becomes(ReleaseSlot(IF heap[j].cancelled THEN ForgetUnleased(ended, j) ELSE ended, j))

(* The run is over in this process: ended, or left to be recovered.         *)
EndRun(j, recoveryPending) ==
  /\ In(j, "running")
  /\ LET ended == [Now EXCEPT !.heap[j].task = "done"] IN
     Becomes(ReleaseSlot(IF recoveryPending THEN Forget(ended, j) ELSE ended, j))

(* The request that started the run is answered; a claim that did not give  *)
(* the lease is settled before it is.                                       *)
AnswerStart(j) ==
  /\ j \in DOMAIN heap /\ heap[j].waited
  /\ ClaimReady(j)
  /\ LET seen == [Now EXCEPT !.heap[j].waited = FALSE] IN
     Becomes(IF heap[j].claim \in {"duplicate", "error"}
             THEN ForgetUnleased(seen, j) ELSE seen)

TaskStep(j) ==
  \/ Begin(j) \/ DropTask(j) \/ Settle(j) \/ Interrupt(j) \/ Close(j)
  \/ \E outcome \in {"granted", "duplicate", "error"} : ClaimAnswered(j, outcome)
  \/ \E recoveryPending \in BOOLEAN : EndRun(j, recoveryPending)

Next ==
  \/ \E j \in Jobs : Start(j) \/ StartRecovered(j)
  \/ \E r \in Runs : Cancel(r)
  \/ Shutdown \/ InterruptTasks
  \/ \E j \in Jobs : TaskStep(j) \/ AnswerStart(j)

(* What the event loop can run next: a job's task, and the request that     *)
(* waits for its claim.                                                     *)
TaskReady(j) ==
  /\ j \in DOMAIN heap /\ heap[j].task \notin Over \cup {"queued"}
  /\ heap[j].task = "told" /\ heap[j].waited => heap[j].cancelled
AnswerReady(j) == j \in DOMAIN heap /\ heap[j].waited /\ ClaimReady(j)

(* Weak fairness, with its two enabling conditions spelled out: the loop    *)
(* runs what can run, a claim has a timeout and a run a budget of time.     *)
(* Nothing is assumed of the requests.                                      *)
Fairness == \A j \in Jobs :
  /\ <>[]TaskReady(j) => []<><<TaskStep(j)>>_vars
  /\ <>[]AnswerReady(j) => []<><<AnswerStart(j)>>_vars

Spec == Init /\ [][Next]_vars /\ Fairness

------------------------------------------------------------------------------
(* Every variable holds a legal value.                                      *)
TypeOK ==
  /\ DOMAIN heap \subseteq Jobs
  /\ \A j \in DOMAIN heap :
       heap[j] \in [task : Phases, slot : BOOLEAN, waited : BOOLEAN,
                    claim : {"none", "granted", "duplicate", "error"}, cancelled : BOOLEAN]
  /\ table \in [Runs -> Jobs \cup {NoJob}]
  /\ \A r \in Runs : table[r] # NoJob => table[r] \in DOMAIN heap /\ RunOf(table[r]) = r
  /\ queue \in [Tenants -> Seq(Runs)]
  /\ order \in Seq(Tenants)
  /\ active \in Nat /\ byTenant \in [Tenants -> Nat]
  /\ closed \in BOOLEAN /\ closing \subseteq Jobs

Holders(t) == {j \in DOMAIN heap : heap[j].slot /\ TenantOf[RunOf(j)] = t}

(* The counters are exactly the slots that jobs hold, and stay within their *)
(* limits, whatever is started, recovered, cancelled or failed meanwhile.   *)
SlotsCounted ==
  /\ active = Cardinality({j \in DOMAIN heap : heap[j].slot}) /\ active <= MaxActive
  /\ \A t \in Tenants : byTenant[t] = Cardinality(Holders(t)) /\ byTenant[t] <= MaxActivePerTenant

(* A run is in its tenant's queue, once, exactly as long as its job waits   *)
(* and was not cancelled, and each tenant with waiting runs has one turn:   *)
(* no run is forgotten in the table and no turn is spent on nobody.         *)
QueueMatchesJobs ==
  /\ \A r \in Runs :
       Cardinality({i \in DOMAIN queue[TenantOf[r]] : queue[TenantOf[r]][i] = r})
         = IF table[r] # NoJob /\ heap[table[r]].task = "queued" /\ ~heap[table[r]].cancelled
           THEN 1 ELSE 0
  /\ \A t \in Tenants :
       Cardinality({k \in DOMAIN order : order[k] = t}) = IF queue[t] # <<>> THEN 1 ELSE 0

(* No run waits beside a slot it could have: every change that frees one    *)
(* hands it on.                                                             *)
NobodyWaitsBesideASlot == \A t \in Tenants : queue[t] # <<>> => ~HasSlot(Now, t)

(* A task that holds a slot without an end.                                 *)
Stuck == \E j \in DOMAIN heap : heap[j].task = "dropped"

Waits(r) == \E i \in DOMAIN queue[TenantOf[r]] : queue[TenantOf[r]][i] = r

(* Every waiting run gets its turn, however many runs other tenants start   *)
(* and have recovered, provided no task was dropped before its first step.  *)
WaitingRunServed == [](~Stuck) => \A r \in Runs : Waits(r) ~> ~Waits(r)

(* Under the same condition every start request that waits is answered.     *)
StartAnswered ==
  [](~Stuck) => \A j \in Jobs :
    (j \in DOMAIN heap /\ heap[j].waited) ~> (j \notin DOMAIN heap \/ ~heap[j].waited)

(* What the load test asserts after cancellations: when all tasks are over, *)
(* no slot is taken.                                                        *)
SlotsGivenBack ==
  (\A j \in DOMAIN heap : heap[j].task \in Over) => active = 0
==============================================================================
