------------------------------ MODULE AgentRuns ------------------------------
(***************************************************************************)
(* One durable agent run: its agent_runs row, its append-only journal      *)
(* (agent_run_events), its private runtime checkpoint and the assistant    *)
(* message it projects to, as src/lib/server/db/agent-runs.ts and          *)
(* agent-runtime.ts maintain them.  Every operation there is one database  *)
(* transaction on the locked row, so every operation is one action here.   *)
(* The callers are not trusted: any grant ever issued may be presented at  *)
(* any time, with any batch, any cursor and any version, which covers      *)
(* late, repeated and reordered requests.                                  *)
(*                                                                         *)
(* "now" is read before the row lock is obtained, so an operation may act  *)
(* on a time up to MaxLag older than the clock at which it commits.        *)
(***************************************************************************)
EXTENDS Naturals, Sequences

CONSTANTS
  Workers,          \* lease owners (worker processes)
  Lease,            \* AGENT_LEASE_MS
  Grace,            \* AGENT_RECOVERY_GRACE_MS
  MaxLag,           \* how stale "now" may be when the row lock is obtained
  BatchLimit,       \* events one callback may carry (32 in the code)
  Kinds,            \* the event kinds workers send, a subset of WorkerKinds
  MaxClock,         \* bound: ticks of the clock
  MaxGrants,        \* bound: leases ever granted
  MaxWorkerEvents,  \* bound: events accepted from workers
  MaxSaves          \* bound: checkpoint versions

Outcomes == {"cancelled", "failed", "complete"}

(* Event kinds by what appendAgentRunEvents does with them: "text" changes *)
(* the answer only, "replace" changes it and projects it, "progress" stands *)
(* for the source, citation, tool and activity events that project the      *)
(* message, "note" for run.started, agent.meta and run.reconnecting.        *)
WorkerKinds == {"text", "replace", "progress", "note"} \cup Outcomes

ASSUME RunAssumption ==
  /\ Lease \in Nat \ {0}
  /\ Grace \in Nat
  /\ MaxLag \in Nat
  /\ BatchLimit \in Nat \ {0}
  /\ Kinds \subseteq WorkerKinds
  /\ MaxClock \in Nat /\ MaxGrants \in Nat
  /\ MaxWorkerEvents \in Nat /\ MaxSaves \in Nat

(* "running" stands for researching, writing and reconnecting: no guard of  *)
(* the repository tells the three apart.                                    *)
Active == {"queued", "running", "cancel_requested"}
States == Active \cup Outcomes

None == 0           \* a NULL lease token or lease expiry

VARIABLES
  clock,            \* database-wide time, in ticks
  state,            \* agent_runs.state
  grants,           \* grants[n] is the owner the n-th lease token was issued to
  token,            \* lease_token (its owner is grants[token]), None when NULL
  expiry,           \* lease_expires_at, None when NULL
  cancelRequested,  \* cancel_requested_at IS NOT NULL
  log,              \* agent_run_events by cursor
  workerCursor,     \* worker_cursor
  answer,           \* the cursor of the event that last changed answer_text
  message,          \* the assistant message: partial flag, answer it shows
  saves             \* the checkpoint's versions: saves[v] wrote version v

lease == <<grants, token, expiry>>
journal == <<log, workerCursor, answer, message>>
vars == <<clock, state, lease, cancelRequested, journal, saves>>

(* The event a journal row holds, with the source that wrote it; wc and     *)
(* token record under which worker cursor and grant a worker's was taken.   *)
Entry(kind, by, wc, n) == [kind |-> kind, by |-> by, wc |-> wc, token |-> n]
Entries == [kind : WorkerKinds \cup {"cancel_requested"},
            by : {"worker", "user", "start", "finalize", "reconcile"},
            wc : Nat, token : Nat]
Batches == UNION {[1..n -> Kinds] : n \in 1..BatchLimit}

------------------------------------------------------------------------------
(* Faulty forms of some of the definitions below; no specification uses     *)
(* them.  They are what the checked properties are there to exclude.        *)

RawState(kind) == kind
AnyGrant(n) == n \in 1..Len(grants)
AnyCursor(first) == first \in 1..(workerCursor + 1)
AdmitsBeyondEnd(batch) ==
  /\ state \in Active
  /\ state = "cancel_requested" => \A i \in DOMAIN batch : batch[i] = "cancelled"
AdmitsWhileStopping(batch) ==
  /\ state \in Active
  /\ \A i \in 1..(Len(batch) - 1) : batch[i] \notin Outcomes
ClaimableEarly(t) == expiry = None \/ expiry <= t + Grace
RunningOnClaim == "running"
KeepHolder == token' = token /\ expiry' = None
PersistsSome(batch) == \E i \in DOMAIN batch : batch[i] \in {"replace", "progress"}
AbandonAnyway == TRUE
DispatchAnyway(dispatch) == dispatch \in BOOLEAN

------------------------------------------------------------------------------
(* Guards shared by the operations.                                         *)

Nows == {t \in 0..clock : t + MaxLag >= clock}

HoldsLease(n) == n = token
Unexpired(t) == expiry # None /\ expiry > t
Claimable(t) == expiry = None \/ expiry < t

(* A worker's callback names its cursors; only the next one is accepted.    *)
Continues(first) == first = workerCursor + 1

(* The loop over a batch, whole or not at all: a terminal event ends the    *)
(* run, so it can only come last, and after a cancellation request only the *)
(* acknowledgement of the cancellation is taken.                            *)
Admits(batch) ==
  /\ state \in Active
  /\ \A i \in 1..(Len(batch) - 1) : batch[i] \notin Outcomes
  /\ state = "cancel_requested" => \A i \in DOMAIN batch : batch[i] = "cancelled"

NextState(kind) == IF kind \in Outcomes THEN kind ELSE "running"
NextExpiry(kind, t) == IF kind \in Outcomes THEN None ELSE t + Lease
ChangesAnswer(batch) ==
  \E i \in DOMAIN batch : batch[i] \in {"text", "replace"} \cup Outcomes
PersistsMessage(batch) ==
  \/ log = <<>>
  \/ \E i \in DOMAIN batch : batch[i] \in {"replace", "progress"} \cup Outcomes

StateOnClaim == IF cancelRequested THEN "cancel_requested" ELSE "running"
StateOnRelease == IF cancelRequested THEN "cancel_requested" ELSE "queued"

NoCheckpoint == saves = <<>>
MayDispatch(dispatch) ==
  dispatch => /\ ~cancelRequested
              /\ state \in Active \ {"cancel_requested"}
CurrentVersion(v) == v = Len(saves)

------------------------------------------------------------------------------
(* The operations.                                                          *)

(* The row createOrGetAgentRun inserts, beside its assistant placeholder.   *)
Init ==
  /\ clock = 1
  /\ state = "queued"
  /\ grants = <<>> /\ token = None /\ expiry = None
  /\ cancelRequested = FALSE
  /\ log = <<>> /\ workerCursor = 0 /\ answer = 0
  /\ message = [partial |-> TRUE, shows |-> 0]
  /\ saves = <<>>

Tick ==
  /\ clock < MaxClock
  /\ clock' = clock + 1
  /\ UNCHANGED <<state, lease, cancelRequested, journal, saves>>

(* claimAgentRunLease, for a claim of this run or as one of the candidates  *)
(* of reclaimQueuedOrExpiredAgentRuns.                                      *)
Claim(w, t) ==
  /\ Len(grants) < MaxGrants
  /\ state \in Active
  /\ Claimable(t)
  /\ grants' = Append(grants, w)
  /\ token' = Len(grants) + 1
  /\ expiry' = t + Lease
  /\ state' = StateOnClaim
  /\ UNCHANGED <<clock, cancelRequested, journal, saves>>

Renew(n, t) ==
  /\ HoldsLease(n)
  /\ state \in Active
  /\ Unexpired(t)
  /\ expiry' = t + Lease
  /\ UNCHANGED <<clock, state, grants, token, cancelRequested, journal, saves>>

(* A release needs the grant only, not an unexpired lease.                  *)
Release(n) ==
  /\ HoldsLease(n)
  /\ state \in Active
  /\ token' = None /\ expiry' = None
  /\ state' = StateOnRelease
  /\ UNCHANGED <<clock, grants, cancelRequested, journal, saves>>

(* appendAgentRunEvents, for a batch that is not a replay of the last one   *)
(* (a replay is answered from the journal and changes nothing).             *)
AppendEvents(n, first, batch, t) ==
  LET last == batch[Len(batch)]
      cursor == Len(log) + Len(batch)
  IN
  /\ HoldsLease(n)
  /\ Unexpired(t)
  /\ Admits(batch)
  /\ Continues(first)
  /\ workerCursor + Len(batch) <= MaxWorkerEvents
  /\ log' = log \o [i \in 1..Len(batch) |->
                      Entry(batch[i], "worker", first + i - 1, n)]
  /\ workerCursor' = first + Len(batch) - 1
  /\ state' = NextState(last)
  /\ expiry' = NextExpiry(last, t)
  /\ answer' = IF ChangesAnswer(batch) THEN cursor ELSE answer
  /\ message' = IF PersistsMessage(batch)
                THEN [partial |-> last # "complete", shows |-> answer']
                ELSE message
  /\ UNCHANGED <<clock, grants, token, cancelRequested, saves>>

RequestCancellation ==
  /\ state \in Active \ {"cancel_requested"}
  /\ log' = Append(log, Entry("cancel_requested", "user", 0, 0))
  /\ state' = "cancel_requested"
  /\ cancelRequested' = TRUE
  /\ UNCHANGED <<clock, lease, workerCursor, answer, message, saves>>

(* The assignments that fence off whoever held the lease.                   *)
ClearLease == token' = None /\ expiry' = None

(* How the application itself ends a run: one event, one projection of the  *)
(* saved answer to a message that stays partial.                            *)
CloseRun(outcome, by) ==
  /\ log' = Append(log, Entry(outcome, by, 0, 0))
  /\ state' = outcome
  /\ message' = [partial |-> TRUE, shows |-> answer]
  /\ UNCHANGED <<clock, grants, cancelRequested, workerCursor, answer, saves>>

(* failQueuedAgentRun: the worker did not take the run.                     *)
FailQueued ==
  /\ state = "queued" /\ token = None
  /\ CloseRun("failed", "start")
  /\ UNCHANGED <<token, expiry>>

(* finalizeAgentRunCancellation: no worker is running it; any holder of the *)
(* lease is fenced off.                                                     *)
FinalizeCancellation ==
  /\ state = "cancel_requested"
  /\ CloseRun("cancelled", "finalize")
  /\ ClearLease

(* reconcileExpiredAgentRun: the lease stayed expired beyond the grace.     *)
Reconcile(t) ==
  /\ state \in Active \ {"queued"}
  /\ token # None /\ expiry # None
  /\ expiry + Grace <= t
  /\ NoCheckpoint
  /\ CloseRun(IF cancelRequested THEN "cancelled" ELSE "failed", "reconcile")
  /\ ClearLease

(* runtimeCheckpoint with an update: compare-and-set on the version, under  *)
(* the lease; the time is read inside the transaction.                      *)
SaveCheckpoint(n, v, dispatch) ==
  /\ Len(saves) < MaxSaves
  /\ HoldsLease(n)
  /\ Unexpired(clock)
  /\ MayDispatch(dispatch)
  /\ CurrentVersion(v)
  /\ saves' = Append(saves, [token |-> n, dispatch |-> dispatch, at |-> Len(log)])
  /\ UNCHANGED <<clock, state, lease, cancelRequested, journal>>

Next ==
  \/ Tick
  \/ \E w \in Workers, t \in Nows : Claim(w, t)
  \/ \E n \in 1..Len(grants), t \in Nows : Renew(n, t)
  \/ \E n \in 1..Len(grants) : Release(n)
  \/ \E n \in 1..Len(grants), first \in 1..MaxWorkerEvents, batch \in Batches, t \in Nows :
       AppendEvents(n, first, batch, t)
  \/ RequestCancellation
  \/ FailQueued
  \/ FinalizeCancellation
  \/ \E t \in Nows : Reconcile(t)
  \/ \E n \in 1..Len(grants), v \in 0..MaxSaves, dispatch \in BOOLEAN :
       SaveCheckpoint(n, v, dispatch)

Spec == Init /\ [][Next]_vars

------------------------------------------------------------------------------
(* What must hold.                                                          *)

(* Every variable holds a legal value; token names an issued grant or none. *)
TypeOK ==
  /\ clock \in Nat \ {0}
  /\ state \in States
  /\ grants \in Seq(Workers)
  /\ token \in 0..Len(grants)
  /\ expiry \in Nat
  /\ cancelRequested \in BOOLEAN
  /\ log \in Seq(Entries)
  /\ workerCursor \in Nat
  /\ answer \in Nat
  /\ message \in [partial : BOOLEAN, shows : Nat]
  /\ saves \in Seq([token : Nat, dispatch : BOOLEAN, at : Nat])

FromWorker(i) == log[i].by = "worker"

(* Every worker event is in the journal exactly once and in the order of    *)
(* the worker's cursors, whatever was resent, delayed or taken over: the    *)
(* cursor check of appendAgentRunEvents.                                    *)
JournalExactlyOnce ==
  /\ \A c \in 1..workerCursor : \E i \in DOMAIN log : FromWorker(i) /\ log[i].wc = c
  /\ \A i \in DOMAIN log : FromWorker(i) => log[i].wc \in 1..workerCursor
  /\ \A i, j \in DOMAIN log :
       i < j /\ FromWorker(i) /\ FromWorker(j) => log[i].wc < log[j].wc

(* Holders write in the order their leases were granted, in the journal, in *)
(* the checkpoint and across the two: once a later holder has written, an   *)
(* earlier one never does.  Both tables check the token under the row lock. *)
FencedHolders ==
  /\ \A i, j \in DOMAIN log :
       i < j /\ FromWorker(i) /\ FromWorker(j) => log[i].token <= log[j].token
  /\ \A k, m \in DOMAIN saves : k < m => saves[k].token <= saves[m].token
  /\ \A i \in DOMAIN log, k \in DOMAIN saves :
       FromWorker(i) => IF i <= saves[k].at THEN log[i].token <= saves[k].token
                                            ELSE saves[k].token <= log[i].token

(* The run's state and its journal agree on how it ended, and the event     *)
(* that ended it is the last: a subscriber stops at that event.             *)
EndsOnce ==
  /\ \A i \in DOMAIN log :
       log[i].kind \in Outcomes => i = Len(log) /\ state = log[i].kind
  /\ state \in Outcomes => log # <<>> /\ log[Len(log)].kind = state

(* A cancellation requested before the end is never undone or overtaken: no *)
(* claim, release or recovery resurrects the run, no other outcome wins,    *)
(* and nothing but the cancellation itself is published after it.           *)
CancellationWins ==
  /\ cancelRequested => state \in {"cancel_requested", "cancelled"}
  /\ \A i, j \in DOMAIN log :
       i < j /\ log[i].kind = "cancel_requested" => log[j].kind = "cancelled"

(* While a grant can be presented, the journal holds only its holder's and  *)
(* earlier holders' events besides the cancellation request.  The lookup of *)
(* a repeated batch skips that one event and compares the last rows, so a   *)
(* lost acknowledgement (of the last event too) is always recognised.       *)
ReplayWindow ==
  token # None =>
    \A i \in DOMAIN log : log[i].kind = "cancel_requested" \/ FromWorker(i)

(* Answer deltas are not projected one by one; when the run ends the message *)
(* shows the whole answer, and it is complete exactly when the run is.       *)
MessageShowsOutcome ==
  /\ state \in Outcomes => message.shows = answer
  /\ message.partial <=> state # "complete"

(* A run that has a checkpoint is left to a recovering worker: the reader   *)
(* side that closes abandoned runs never closed one.                        *)
CheckpointedNotAbandoned ==
  \A i \in DOMAIN log : log[i].by = "reconcile" => saves = <<>>

(* No paid or external step is dispatched after the cancellation request,   *)
(* and no checkpoint is saved after the run's end.                          *)
NoDispatchAfterCancel ==
  \A i \in DOMAIN log, k \in DOMAIN saves :
    /\ log[i].kind = "cancel_requested" /\ saves[k].dispatch => saves[k].at < i
    /\ log[i].kind \in Outcomes => saves[k].at < i

(* A lease that has not run out is given up only by its own holder, by the  *)
(* end of the run, or to finish a cancellation no worker is running: it is  *)
(* never claimed over or reconciled away, however stale a caller's "now".   *)
LiveLeaseKept ==
  [][Unexpired(clock) /\ token' # token =>
       /\ token' = None
       /\ log' = log \/ log'[Len(log')].by = "finalize"]_vars

(* The run as the readers of its journal see it. *)
Contract == INSTANCE RunContract WITH
  Progress <- Kinds \ Outcomes,
  Ends <- Outcomes,
  Limit <- BatchLimit,
  outcome <- IF state \in Outcomes THEN state ELSE "open",
  stopping <- cancelRequested,
  journal <- [i \in DOMAIN log |-> log[i].kind]

(* The run keeps its contract with the readers of its journal: leases,      *)
(* workers, recovery and checkpoints are invisible to them.                 *)
KeepsContract == Contract!Spec
==============================================================================
