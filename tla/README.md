# NewsCraft: TLA+ models of the durable agent run

NewsCraft answers a newsroom's questions with an agent that may work for
minutes. A SvelteKit application keeps every run in Postgres; a Python worker
it owns (`services/agent`) does the work and reports back through callbacks
that a lease fences; the browser follows a run by reading its journal and may
leave, return, cancel or retry at any time. The promises that are hard to keep
are about this triangle: an answer is produced once, nothing of it is lost or
shown twice, a dead worker's run is taken up by another and a slow worker's
output is refused, a cancellation is final, and nobody waits for ever.

Paths below are relative to the repository's root. `src/lib/...` and
`src/routes/...` are the application, `services/agent/...` the worker.

## 1. The system

| Component | Code | State it keeps | Operations |
|---|---|---|---|
| Durable run record | `src/lib/server/db/agent-runs.ts`, `agent-runtime.ts` | one row per run: state, lease owner, token and expiry, worker cursor, cancellation time; its event journal; its checkpoint version; the message it projects to | create, claim, renew, release, append events, request / finalise cancellation, fail queued, reconcile, save checkpoint |
| Prepared turns | `src/lib/server/db/conversations.ts`, `src/routes/api/chat/stream/+server.ts` | `partial` and `resume_claimed_at` of the assistant message | prepare, wait, take over, claim for resume or discard, create or get the run, start it, settle locally |
| Run subscription | `src/lib/server/agent-subscription.ts`, `src/lib/client/stream.ts`, `src/routes/c/[id]/+page.svelte` | the server's position in the journal; the page's answer, cards and cursor | snapshot, list a page of events, end the response, read, reconnect |
| Worker admission and dispatch | `services/agent/src/newscraft_agent/durable.py` | job table, queues by tenant, turn order, slot counters; one task per admitted job | start, start_recovered, cancel, dispatch, claim, settle, release a slot |
| Worker callbacks, renewal, recovery | `durable.py`, `service.py` | event and text buffers, worker cursor, stop reason, recovery flags | buffer, flush, deliver, renew, publish a cancellation, recovery batch, close |
| Portable research loop | `portable.py` | the checkpointed state: intents, receipts, pending calls, answer, budget | model step, tool step, resume, finish, cancel |
| Executor and browser stores | `executor_state.py`, `browser_store.py`, `oci_executor.py` | SQLite rows per operation, workspace snapshots | admit, created, finish, cancelled, capacity |
| Artifact publication | `db/artifacts.ts`, `artifacts/storage.ts`, `artifact_publish.py` | families, revisions, upload grants, assets | grant, upload, verify, finalise, fail, cancel |
| Budgets | `budgets.py` | reserved tokens and micro-dollars | reserve, calls_left |
| Retrieval, search, model adapters | `retrieval.py`, `search_adapters.py`, `model_adapters.py` | none across calls | provider I/O |
| Documents, transcripts | `src/lib/server/documents`, `transcripts`, `db/transcripts.ts` | upload and transcription jobs | extraction, polling |
| Accounts, sessions, rate limits; projects, feedback, ledger; migrations; interface; infrastructure; legacy runtimes | see `PROJECT.json` | | |

How they interact. `POST /api/chat/stream` prepares a turn, creates a run and
asks the worker to start it; the worker queues the run and, when it has a slot,
claims its lease, works, and posts event batches with consecutive worker
cursors. It renews the lease every 30 s (the lease is 90 s); a poll every 15 s
claims runs whose lease ran out and recovers them from their checkpoint. The
page reads a snapshot and then events after its cursor, and reconnects when the
response breaks. A cancellation is recorded on the row first, then told to the
worker. Readers also close runs that expired long ago and have no checkpoint.

What is hard here:

- every call between the two services may be late, lost after it took effect,
  or sent twice, and a caller's "now" is older than the row it then locks;
- two workers, or a worker and a reader of the page, may act on one run;
- several tabs may submit, resume, discard and cancel one answer at once, and
  take each other's claims over after a timeout on clocks that differ;
- the worker is one event loop: any two awaits of a task are points where
  others act, and a cancelled task may not have begun;
- the journal grows and ends while it is being read.

What makes each component correct is stated as properties in section 4; the
hazards, each at its line and with the properties that cover it, are in
`PROJECT.json`.

## 2. Modules

| Module | Models |
|---|---|
| `RunContract` | what a run promises to the readers of its journal (abstract) |
| `AgentRuns` | one run row with its journal, lease, checkpoint and message; implements `RunContract` |
| `MCAgentRuns` | two symmetric workers |
| `AgentRunsProofs`, `AgentRunsLeaseProofs`, `DurableWorkerProofs`, `PortableRunProofs`, `PreparedTurnProofs`, `RunSubscriptionProofs`, `DispatchQueueProofs`, `ArtifactsProofs` | the theorems of section 6 |
| `PreparedTurn` | one assistant message and the requests that compete to answer it |
| `MCPreparedTurn` | two senders, two resumers, in symmetric sets, and a key sent along |
| `RunSubscription` | one page following one run; the run is an instance of `RunContract` |
| `DispatchQueue` | the queue, slots, job table and tasks of one worker process |
| `MCDispatchQueue` | three runs of two tenants |
| `DurableWorker` | the task of one admitted run in the worker, its buffers, callbacks, renewal, cancellation and recovery; implements `RunContract` |
| `Computer` | the operation rows and containers of one conversation's computer |
| `PortableRun` | the research loop of one run under two workers, with its checkpoints; extends `Computer` |
| `MCPortableRun` | two symmetric workers, replies that call a search or the computer |
| `Artifacts` | the publication of one file of one run |

`AgentRuns`, `DurableWorker` and `RunSubscription` meet in `RunContract`: the
first two are shown to implement it, the row under every order of requests and
the worker with its row under the requests it really makes; the third reads a
journal of which it assumes no more. So what is shown of the page holds for
every run the application can produce, without exploring the product of the
state spaces. `PortableRun` composes the loop with `Computer`. Where a module
needs its neighbour it has as much of it as it can tell apart: `DurableWorker`
has the checks of `appendAgentRunEvents` and the phase of the checkpoint,
`PortableRun` and `Artifacts` the lease that guards their saves and commits.

### AgentRuns

Every operation of `agent-runs.ts` is one transaction on the locked row, and so
one action. `clock` is time in ticks; an operation acts on a `now` up to
`MaxLag` ticks older, because the code reads `Date.now()` before it gets the
lock. Lease tokens are numbered in the order they were issued (`grants` names
their owners), and *any* token ever issued may be presented to any operation
with any batch, first cursor and checkpoint version: that covers delayed,
repeated and reordered requests and workers that were presumed dead. Events are
their kind, who wrote them, the worker cursor and the token. An accepted repeat
of the last batch (`agent-runs.ts:801-818`) changes nothing and is a stuttering
step; `ReplayWindow` is about when it can be recognised. `answer` counts the
changes of the answer text and `message.shows` the last that was written to the
message.

| Action | Code |
|---|---|
| `Claim`, `Renew`, `Release` | `claimAgentRunLease`, `renewAgentRunLease`, `releaseAgentRunLease` |
| `AppendEvents` | `appendAgentRunEvents`: fences, cursor check, state, journal, lease and message |
| `RequestCancellation`, `FinalizeCancellation` | the functions of the cancel route |
| `FailQueued`, `Reconcile` | `failQueuedAgentRun`, `reconcileExpiredAgentRun` |
| `SaveCheckpoint` | `runtimeCheckpoint` with an expected version and `dispatch` |

### PreparedTurn

`message` is the assistant row, `runs` the runs created for it, `pc` the place
of each request in its handler. Every database call is an action; between two
of them others act, the process may die (`Abandon`), and `CreateRun` may commit
without its caller learning of it (`lost`). A request may come with an
idempotency key of the page's (`ClientKeys`) or be given one of its own (`Keys`,
`chat/stream/+server.ts:1192-1198`); the look for that key before anything else
(759-770), which ends a request that finds its run, is a request that does
nothing, and a key that belongs to another conversation is a failure like any
other (`CloseLocally`, `Abandon`). A claim's token is the time it was
taken, as in the code, on the clock of the machine that took it; clocks differ
by up to `Skew`. The run's own life is reduced to what touches the message.

One assumption is made of time and is not enforced by the code: between a claim
and the creation of its run (`Settled`) more time passes than clocks differ.
Without it two claims could carry the same number. Preparing a run loads the
history, the provenance and the research context; tests of this assumption
belong to operations, not to the model.

### RunSubscription

`server` is the loop of `agentSubscriptionResponse` (its cursor, and the state
and last cursor it read *before* listing), `wire` the frames on their way,
`reader` the local variables of `consumeDurableResponse`, `text`, `cards` and
`cursor` what the page shows and would reconnect with. Text is the sequence of
journal positions it was made of. `Drop` loses what is on the wire, `CutShort`
ends the response early; both reconnect, at most `MaxDrops` times.

### DispatchQueue

A section of `durable.py` that awaits nothing is one step: helpers are
functions from a record of the whole state to such a record, composed as the
code calls them, and an action installs the result (`Becomes`). A job is an
object in `heap` with the phase of its task; `table` is `self.jobs`, which may
lead to another object of the same run while an older task is still closing.
`cancelled` is the interruption on its way to a task: it takes effect at the
task's next step, and before the first step it means that nothing of the task
runs, not even its `finally` (`DropTask`; asyncio's documented behaviour).
Claims are answered with a lease, with "duplicate or terminal", or with an
error; a run ends or is left to be recovered. `Tidy` forgets objects nothing
refers to. `Shutdown` and `InterruptTasks` are the two halves of `close()`,
with the sending of buffered text between them.

### DurableWorker

`job` is the `DurableJob`: where its task is (`at`), its buffer, the timed
flush (`flush`), `stop` for `stop_reason`, and whether an interruption is on
its way. `call` is the callback that holds `callback_lock`; it is sent when it
is made, so between its detaching the events and its answer everything else may
happen. A lost request was handled, never will be, or arrives later (`late`).
Of the research there are its texts and files, numbered by `made`, and the
phase of its checkpoint.

| Action | Code in `durable.py` unless named |
|---|---|
| `Speak`, `FlushText`, `Answer`, `NoAnswer`, `LateRequestArrives` | `_callback`, `_timed_text_flush`, `_send_callback_locked`, `_deliver_event_batch_locked` |
| `Text`, `Publication`, `Finish`, `Fail`, `LeavePending`, `CheckpointRefuses` | what `portable.py` yields, publishes and saves; `_buffer_text`, `publish_artifact_spec`, `runtime_checkpoint` |
| `NoticeStop`, `Interrupted`, `FlushStopped`, `BeginDirect`, `CancelRun`, `CancelRunFails`, `Resume` | `_run`, `_run_recovered`, `_publish_cancelled`, `_stop_text_flush` and their handlers |
| `RenewSeesCancellation`, `RenewFails`, `TellWorker` | `_renew`, `cancel` |
| `Recover`, `RecoverLost`, `Expire` | `start_recovered`, the recovery batch and the passage of 90 s |
| `RequestCancellation`, `FinalizeCancellation` | the cancel route |
| `Crash` | the process dies; `close()`, which interrupts the task and leaves the run to be recovered, is not told apart from it |

Abstracted: events that are batched like text stand as text; joining adjacent
texts and flushing by size change when a batch is sent, which is open anyway;
of a recovery batch there is the one run, not the leases of the others;
reconciliation is left to `AgentRuns`; a worker without a checkpoint store
is not modelled.

### PortableRun and Computer

`saved` is the checkpoint in Postgres, `proc` what each worker is doing with
its own copy. In the loop every save, request and effect is a step of its own and a worker
may crash, be interrupted or lose its lease between any two; a worker that lost
its lease goes on until the code makes it look. A save is accepted under the
live lease, and not before a dispatch once cancellation was asked for
(`Accepts`). `sent` counts the requests that left a worker; a request to the
model is known by the replies taken in before it (`turns`), so that asking again
after a reply, for a correction of its citations too, is another request. The
version of the checkpoint is not modelled: the lease is checked with it, and
only its holder writes. Time-outs and the passing of deadlines are open choices
(`ToolFails`, `TooLate`); each request costs one unit.

Before the loop (`portable.py:1374-1805`) a new turn in a deployment without a
computer may be classified, planned, searched for and answered. Those routes
reserve in memory alone, save no intent and ask nobody whether the lease is
still held; they save once, at their end. So each is one step, with any number
of requests and searches (`Researches`) up to its own and the bounds:
`AnswerEarly` (the chat and the quick route), `FailEarly`, `ResearchFile` (the
deliverable route, whose loop is then cut short, `LoopSteps` and `cap`), and
`Entered` (a quick turn that falls through to the loop, which saves what it
reserved together with its first intent or its answer). A worker that dies in
between leaves the turn new, and the next one begins it again. `sent` therefore
does not count these requests, and `NothingRepeated` and `PaidFirst` make no
claim about them; section 5 says how that agrees with the documentation.
`fast` says which of the routes was taken: `Owed` is a file that a deliverable
still lacks.

In `Computer`, `row` is the operation's row in SQLite and the container is
asked for, present or gone; the daemon may answer late, and may make a container
after its client has given up (`Appears`), or never (`Vanishes`). The
operations of other runs and the browser's actions are not kept: they may stand
in the way of an operation at any time (`AdmitCall`), and the worker then gives
up the run.

A reply that is a document is a call to publish it; one that was cut off, or
that leaves a promised file unwritten, leads to a request for the file at once.

Left out: plan and decision tools, what happens inside the routes before the
loop and what is checked of the texts they write, what a search finds, the
wording that tells a reply which promises a file from one that does not (either
is an open choice where a file is owed), the browser computer, policy and
adapter mismatches on loading, the limit on the size of the state. Malformed
arguments and a search too many are `Refuse`; the cap on actions and a search
that the budget has no room for, after which the loop wraps up, are
`RefuseForGood`.

### Artifacts

One publication key: `revision`, `grant` (its state, its generation, whether it
has expired), `asset` (the request whose copy it names), objects by the request
that put them, the upload and the finalize requests at each of their awaits,
and each lease's worker. A request goes on when its client has stopped waiting;
a finalize request may be delivered twice; a commit whose answer was lost is
done later or never (`CommitUnanswered`, `Land`). The upload goes through the
server (`local`) or to the store and is completed (`direct`). Objects are
versioned at every put, as in the VPS and the local stores; the removal by path
of the Supabase store is not modelled. A store that does not answer, or an
object that is not there, is an error to be tried again or, where an adapter
reports it so (`storage.ts:98-100`, `220-224`, `263-265`), the verifier's refusal
(`NotHad`), which then fails the file. A grant request delayed past its
client's time-out is an attempt whose upload never comes. Copies that nobody
refers to may stay for ever; the code has no collector. Not used outside tests
and so not modelled: `cancelArtifactRevision`, `markArtifactGrantUploaded`,
`attachArtifactReferencesToEvent`. Several revisions of one family exist only on
the demonstration route.

Each module has a section of *faulty forms*: alternatives to some definitions
that no specification uses. They are the mistakes the properties exclude, and
`PROJECT.json` names for each property the one that breaks it.

## 3. Runs

| Run | Question | Bounds |
|---|---|---|
| `agent_runs` | Is the row safe under every order of requests? Does it implement the contract? | 2 workers, lease of 2 ticks, grace 1, lag 1, clock to 5, 2 grants, 2 worker events in batches of up to 2, 2 checkpoints |
| `prepared_turn` | Is a turn answered once, by its owner? | 2 senders, 2 resumers, a discarder, a key of the page, skew 1, clock to 7, 2 runs |
| `prepared_turn_race` | Does the claim alone protect a run at work? (It does not.) | fewer requests |
| `run_subscription` | Does the page show the journal, and its end? | 4 events, pages of 2, 1 break |
| `run_subscription_cards` | Are cards kept over a reconnect? (They are not.) | the same |
| `dispatch_queue` | Do slots, queue, turns and job table agree? | 2 slots, 1 per tenant, queue of 2, 3 job objects alive |
| `dispatch_queue_fair` | Is every waiting run served and every start answered? | 1 slot, the rest the same |
| `dispatch_queue_slots` | Is every slot given back? (Not always.) | 1 slot |
| `durable_worker` | Does a worker tell its run truly, and does the run end? | 3 texts or files, 2 faults |
| `durable_worker_cancel` | Is a cancellation the worker was told of always said? (It is not.) | 3 texts or files, no fault |
| `portable_run` | Is anything the loop asks for done twice, unpaid, or left behind? | 2 workers, 2 leases, 2 model steps, 1 of them after a deliverable's research, 1 request before the loop, 2 calls, 1 search, 2 publication attempts, a budget of 3 requests |
| `artifacts` | Does a published file keep its object? | 2 attempts, 2 leases, 2 deliveries of a finalize request, 3 faults |

Why the bounds suffice. `agent_runs`: two grants make a stale and a current
holder, and two workers make them different ones; two worker events let a batch
be split, repeated and continued; five ticks let a lease run out by every
caller's clock, be claimed and run out again, and reach the grace period; the
proofs of section 6 remove these bounds. `prepared_turn`: a sender, its
duplicate that takes over, and two resumers give a claim that was superseded
twice; seven ticks cover the takeover age and the claim's lifetime.
`run_subscription`: four events and pages of two give a full page, a journal
that grows between the snapshot and the listing, a replacement and an end.
`dispatch_queue`: with one slot per tenant and two in total a tenant at the head
of the order can be blocked while the next one is not; three objects give a
running, a closing and a waiting job at once. `dispatch_queue_fair` gives the
busy tenant two runs, which is enough to keep it busy for ever; it does not shut
the worker down (`Closes`), after which nobody waits.
`durable_worker`: three events let a text be buffered while another is sent and
a file be published after both; two faults give a lost answer and a crash, or a
crash during the recovery from a crash. `portable_run`: two calls let one be
settled and one pending; the leases let a worker die and its successor be
overtaken; one request and one search before the loop let the loop be entered
with part of its steps and its budget spent. `artifacts`: two attempts make an old and a new generation, two
deliveries two finalize requests side by side within one; three faults let a
commit be lost, its retry be delivered twice and a removal fail. Faults are
bounded and not the course of events; each run's `.cfg` has the numbers.

Deadlock is not checked: a run ends, a page is closed, a worker has nothing to
do, and bounded counters run out. That something still happens where it must is
what the liveness properties say.

## 4. Properties

**AgentRuns** — `JournalExactlyOnce`: worker events appear once and in order.
`FencedHolders`: over journal and checkpoint together, no older holder writes
after a newer one. `EndsOnce`: the ending event is the last, and the row agrees.
`CancellationWins`: nothing but the cancellation follows its request, whoever
claims the run in between. `ReplayWindow`: while a token can be presented, the
last batch of its holder is where the repeat lookup searches.
`MessageShowsOutcome`, `CheckpointedNotAbandoned`, `NoDispatchAfterCancel`, the
action property `LiveLeaseKept`, and `KeepsContract`, the refinement.

**PreparedTurn** — `OneActiveRun`; `PreparedAnsweredOnce`: a turn its sender
settled with local text has no run, even one whose creation was not
acknowledged; `SupersededNeverCommits`: once a claim was taken over, its former
owner neither creates a run nor writes.

**RunSubscription** — `ShowsPrefix`: the page's text is the answer of exactly
the first `cursor` events; `FinishedTold`: it stops only when it showed the
whole journal of an ended run; `EndIsLearned` (liveness).

**DispatchQueue** — `SlotsCounted`, `QueueMatchesJobs`, `NobodyWaitsBesideASlot`,
and the liveness properties `WaitingRunServed` and `StartAnswered`.

**DurableWorker** — `NoSilentGap`: the events taken under one lease are those
the research made, in their order, none twice and none left out but those of a
publication that was given up; `EndsAsSaved`: what the readers were told to be
over the checkpoint says is over; `CancelledOnRequest`: a worker saves its run
as cancelled only if somebody asked, but for one case it names (section 5); `RunEnds` (liveness): every
run ends, unless it was stranded (section 5); `KeepsContract`.

**PortableRun** — `NothingRepeated`: no model request, search or program of the
computer that the loop makes is made twice, whatever crashes lie between an
intent and its receipt; `PaidFirst`: a saved reservation covers every request the
loop made, and what is reserved stays within the budget; both are about the
`while True` loop and not the research before it (section 5); `EndsSettled`: a run that
a worker reports as ended has no unsettled operation and no container left, but
for a call let in by a worker that had lost its lease, and the checkpoint says
the same end; `ReceiptsTrue`: a receipt says what the computer did.

**Artifacts** — `ReadyHasItsObject`: a ready file has the verified object its
asset names, for good, and is announced only when ready; `FailureIsCurrent`: a
file is failed only for the present upload; `ReadyInTimeForGood`: it becomes
ready only in an active run and never changes after.

Each module also has one type invariant.

**Fairness.** `RunSubscription`: weak fairness of `Follow`, the server's poll
loop and the page's reads and reconnections, which are unconditional loops in
the code; nothing is assumed of the run, and breaks are finite in number.
`DispatchQueue`: the event loop runs a task that can run (a claim has an HTTP
timeout, a run a time budget), and the request that waits for `claim_ready`.
Nothing is assumed of starts, recoveries and cancellations. Fairness is written
out with the enabling conditions `TaskReady` and `AnswerReady` in place of
`WF_vars`, which they equal: evaluating ENABLED of these actions is
what would cost most of the run. Its liveness properties are stated for
executions in which no task was dropped before its first step; that case is
`dispatch_queue_slots`. `DurableWorker`: weak fairness of `Advance`, the steps
the event loop and the recovery poll take by themselves (a callback has a
time-out, the poll runs every 15 s, a lease that is not renewed runs out).
Nothing is assumed of users, faults, or crashes, which are bounded in number.
The safety-only modules state none.

## 5. Where the code and its own words part

- **`prepared_turn_race`** (`src/routes/api/chat/stream/+server.ts:843-847`).
  `conversations.ts:718-722` says of the claim token that "a stale retry cannot
  append, replace, finalize, or rewrite provenance after another owner wins".
  A resume looks for an active run, finds none, and then takes the claim. If
  the turn's owner creates its run in between, `createOrGetAgentRun` frees the
  claim, the resume gets it, and its failure path (or a discard, which does not
  look at all) settles the message while the run is at work.
- **`run_subscription_cards`** (`src/routes/c/[id]/+page.svelte:881`).
  `stream.ts:174-178` explains that artifact events below the snapshot are
  delivered again so that a card does not disappear. On a reconnect the page
  asks for events after the cursor it took from the last *snapshot*, so an
  artifact event between the events it had received and that snapshot is not
  sent in this session. (A reload of the page reads artifacts from the database.)
- **`dispatch_queue_slots`** (`durable.py:1086`, `1453`). The load test
  `services/agent/tests/jig_197_load.py:912-915` and
  `tests/test_jig_185_load.py:71` assert that no slot is taken after
  cancellations. `cancel` interrupts a task by `task.cancel()`; when the task
  was created but has not run yet, its `try` is never entered, its `finally`
  never releases the slot, and the start request waits on `claim_ready`.

- **`durable_worker_cancel`** (`durable.py:1665`). The documentation says
  (`docs/durable-agent-streaming.md:48-50`) that an explicit cancellation "asks
  the agent service to cancel that run ID, and records the terminal `cancelled`
  event". `_publish_cancelled` begins by stopping the timed text flush, which is
  alive for a quarter of a second after any buffered text. The flush task's own
  handler sees the stop reason `cancelled` and cancels the job's task, which is
  the one that publishes; its `gather` raises, nothing is published, and the
  error is swallowed in `_run`. The job stays in the table and turns every later
  recovery away, so the run stays `cancel_requested` until the process restarts
  or the user asks again. No fault is needed. The tests that cancel have no
  flush alive at that time.

Met while modelling, and stated as conditions of properties or here only:

- A publication is given up although NewsCraft had taken its event. The next
  callback uses the same cursor with other content, is refused as
  `stale_callback` (`agent-runs.ts:834`), and the worker takes that answer for
  the user's cancellation (`durable.py:1628-1634`). `CancelledOnRequest` names
  this case (`GaveUpWhatWasTaken`) as the only one.
- The callback that reports a failure is lost (`durable.py:1897`): the job stays
  in the table as finished, and a recovery gives each new lease back.
  `RunEnds` excludes this (`Stranded`).
- A worker dies with an operation of the computer pending, and the user cancels
  before the recovery: the run is ended by `finalizeAgentRunCancellation`, and
  nobody settles the operation, so the conversation's later ones are refused
  (`executor_state.py`, `admit`). `EndsSettled` is about ends that a worker
  reports. A creation whose container never appears stays quarantined by design.
- A finalize request commits after its worker's attempt was over, or its answer
  is lost to a connection error, which is not tried again (`portable.py:780`):
  the run answers that the file could not be saved, although it is ready.
- The routes before the loop keep less than the documentation promises.
  `services/agent/README.md:19` says of a model request that was interrupted
  that recovery "does not resubmit inference", that "Stale workers cannot begin
  a new request", and that dispatch checkpoints "reject committed cancellation";
  line 21 says: "Every request reserves its maximum estimated charge before
  dispatch; reservations are never refunded, even when a response is lost." The
  classifier, the planner, the searches, the chat and quick writers and the
  repair call (`portable.py:879-886`, `902-909`, `1463`, `1633-1639`, `1698-1705`)
  reserve in memory, save no intent and no dispatch checkpoint. A crash among
  them loses the reservations, and the next worker makes the requests again; a
  worker whose lease is gone, or whose run is being cancelled, may make them
  until its renewal or
  a callback finds out. The code says so itself for the quick route: "A crash
  before then simply reruns it (plan, search and one writing call)"
  (`portable.py:1653-1654`); the deliverable route (1775-1805) does the same and
  says nothing. No run shows this, because the model takes these routes as
  single steps: a run would only find what that summary assumes. The properties
  about requests are limited to the loop instead.
- The documentation gives a publication attempt 60 s
  (`services/agent/README.md:19`), the code 20 (`portable.py:40`).

## 6. What is proved

The theorems hold for every value of the constants that a module's assumption
allows: any number of workers, requests, runs, tenants, slots, attempts and
leases, any lengths, delays and limits, and every bound. The assumptions are
`RunAssumption` (lease and batch limit are positive), `TurnAssumption` (the
takeover age is more than twice the skew of the clocks and no more than the
claim's lifetime: 45 s in `chat/stream/+server.ts` and 5 min in `conversations.ts`;
the page's keys are not claim tokens),
`SubscriptionAssumption` (a page and a batch hold at least one event),
`LimitsAssumption` (every run has a tenant; limits are positive, a tenant's no
more than the worker's, as the constructor checks), `WorkerAssumption` (the bounds on
events and faults are numbers), `ArtifactsAssumption` (at least one
delivery), `CallsAssumption` of `Computer` (the bound on tool calls is a number)
and `RunAssumption` of `PortableRun` (its limits are numbers, "no worker" is not
a worker, and a reply that calls tools calls at least one: one that calls none
is an answer or a reason to wrap up).

| Module | Theorem | Establishes |
|---|---|---|
| `AgentRunsProofs` | `TypeCorrect`, `JournalIsExactlyOnce` | `TypeOK`, `JournalExactlyOnce` |
| | `EndInvariant`, `RunEndsOnce`, `CancellationAlwaysWins`, `MessageAgrees`, `RunKeepsContract` | `EndInv` and its parts; the refinement of `RunContract` |
| `AgentRunsLeaseProofs` | `LeaseInvariant`, `HoldersAreFenced`, `RepeatsAreRecognised`, `CheckpointsAreRecovered`, `CancellationStopsDispatch`, `LiveLeasesAreKept` | `LeaseInv`, its parts, and the action property |
| `DurableWorkerProofs` | `TypeCorrect`, `NoGaps`, `EndsTold`, `CancelledAsAsked`, `WorkerKeepsContract` | `TypeOK`, `NoSilentGap`, `EndsAsSaved`, `CancelledOnRequest`, and the refinement of `RunContract` |
| `PortableRunProofs` | `RunInvariant`, `TypeCorrect`, `NothingTwice`, `PaidBefore`, `EndsAreSettled`, `ReceiptsAreTrue`, `WorkIsKept` | `RunInv`, `TypeOK`, `NothingRepeated`, `PaidFirst`, `EndsSettled`, `ReceiptsTrue`, and `NothingUndone`, an action property |
| `PreparedTurnProofs` | `TypeCorrect`, `OneRun`, `AnsweredOnce`, `SupersededNever` | `TypeOK`, `OneActiveRun`, `PreparedAnsweredOnce`, `SupersededNeverCommits` |
| `RunSubscriptionProofs` | `TypeCorrect`, `PrefixShown`, `FinishedKnowsTheEnd` | `TypeOK`, `ShowsPrefix`, `FinishedTold` |
| `DispatchQueueProofs` | `Admission`, `TypeCorrect`, `LimitsHold`, `QueuedOnce`, `SlotsHandedOn` | `AdmissionInv`, `TypeOK`, `SlotsCounted`, `QueueMatchesJobs`, `NobodyWaitsBesideASlot` |
| `ArtifactsProofs` | `TypeCorrect`, `ReadyForGood`, `FailedForItsOwn`, `ReadyOnce` | `TypeOK`, `ReadyHasItsObject`, `FailureIsCurrent`, and `ReadyInTimeForGood`, an action property |

Each argument is an inductive invariant with an `Init` lemma, lemmas with one
case per action, and a temporal step. Every one was model-checked before it was
proved.

**AgentRuns.** `JournalExactlyOnce` is inductive with the type invariant: a
batch is added only at `workerCursor + 1`, as consecutive rows. `EndInv` joins
`EndsOnce`, `CancellationWins` and `MessageShowsOutcome` with `CancelRecorded`
(a request in the journal is also in the row), without which the row and the
journal could disagree about a cancellation. `LeaseInv` adds `LeaseSync` (only
the newest token is ever the lease, and an ended run has no expiry: this is what
makes the comparison of tokens a fence), `WritersKnown` (rows carry tokens that
were issued) and `WorkersOnly` (a run that can still be claimed was written by
workers and by the user's request only), without which `ReplayWindow` fails at
the next claim. The refinement follows from `EndInv` step by step: a step that
writes events publishes them, a request stops the run, all others stutter.

**PreparedTurn.** `ClaimInv`. That a superseded owner is harmless rests on its
token never becoming the message's again. The token is a time of the claimant's
clock, so that is a fact about time: `TokensBehind` says that a claim which is
not the present one is older than what any clock now shows. A takeover keeps it
because it waits for more than twice the skew, a first claim because of
`Settled` (section 2). `OneOwner` (one request holds the present claim),
`SupersededSpent` and `SendersSpent` (once there is a run no sender holds the
claim) then give the two properties about owners; `BeforeTurn` is what is true
before anything was submitted.

**RunSubscription.** `FollowInv`. `ShowsPrefix` says nothing of what is under
way, and what is under way is where text could be lost or doubled. `WireInv`
says there is a number *b* such that the *k*-th frame on the wire, unless it is
the snapshot that comes first, is the journal's event *b + k*, up to what the
server has listed, and that the frames begin no later than the event after the
page's cursor. So a frame the snapshot does not cover is the next one. `RunInv` (an end is the last
event) makes a reader that saw the end know that it saw all. `Answer(n)` is the
set of the rising enumerations of the positions that count; it has one member,
and that there is one for *every* journal is induction over data, which is left
to the runs. That the text shown is such an enumeration is proved.

**DispatchQueue.** `AdmissionInv` is stated over the record on which the
sections under the lock work, and each helper of the code (`_reserve_slot`,
`_dispatch`, `_remove_queued`, `_release_slot`, `_forget`, ...) has a lemma: given a
sound record it returns one. An action is a composition of helpers. Its parts
are `Sound` (counters, phases, queues and turns agree), `Idle` (nobody waits
beside a slot) and `EmptyIfClosed`. The lemma on `Dispatch` also shows that one
round over the turns leaves nobody who could start, so that the code's loop
stops where the model's single round does.

**DurableWorker.** `RunInv` is a conjunction of three parts. `WorldInv` is about
NewsCraft's row and journal, `LateInv` about the request still on its way, and
`TaskInv` about the task and its call:

- `TextInv`: there is one text, perhaps empty, that was made and not yet taken;
  it is in the buffer or in the call, and it comes after the newest event of
  this lease and before the one the task is about to tell. `NoSilentGap` is not
  inductive without it, because what will be taken next is not in the journal.
- `CursorInv`, `SyncInv` and `LateSync`: the worker's cursor is never ahead of
  NewsCraft's; where it is behind and nobody asked to stop, what the task sends
  next is the batch that was taken, so it is recognised as a repetition, or the
  task has nothing left to send. A late request with the next cursor is that
  same batch, or a publication that was given up. This is what makes a refusal
  (`stale_callback`) evidence of a cancellation, but for the publications that
  were given up after they had been taken.
- `PhaseInv`: an end on its way to the readers is in the checkpoint already.
- `CauseInv`: whatever makes the task publish a cancellation was asked for, or
  is the case that `CancelledOnRequest` names.
- `JobInv`: types, and where the task may be while a callback is under way.

What a step does to the row and the journal is one of nine (`WorldStep`: a
batch is taken, the phase is saved, the lease moves, and so on), and
`WorldInv`, `NoSilentGap`, `EndsAsSaved` and the refinement are shown once for
each; `TaskInv` has a lemma for each action. The helpers that take the task to
its end (`Close`, `Leave`, `PublishCancelled`, `Raise`, ...) have lemmas of
their own: it rests, or waits for the flush.

**Artifacts.** `PublicationInv`. Revision, grant and asset change together
(`RowsAgree`), and a generation is finalized for the first time once
(`BegunOnce`). What is inductive about a copy is what its request knows:
`CopyKept` (the copy of a request that has the asset, or may still get it, is
there and is good), `KnowsItTried` (such a request knows that it tried to
commit, so it never discards its copy) and `RefusalKnown`.

**PortableRun and Computer.** `RunInv` is a conjunction of five parts.

- `LoopInv`, about checkpoint and workers. `Fits` says what a worker's copy is
  like at each place of the loop. `Fresh`: the copy of the worker that has the
  lease is the saved state. `Held`: what *any* worker is at, also one that lost
  its lease, stays recorded in the saved state. `Unique`: one worker at most is
  between an intent and its receipt. The last two are the reason that nothing
  is repeated: the next holder finds the intent, and stops.
- `SentInv`: a request that was sent is `Recorded`, was sent once, and one that
  a worker is about to send has not been sent (`Unsent`). The requests sent,
  with those about to be sent (`Reserved`), are no more than the reservations.
  `PaidFirst` is not inductive, because it says nothing of the latter.
- `UploadInv`: the uploads of a call and the workers about to upload it are
  together no more than the saved attempts.
- `HostInv`: rows and containers agree (`RowsInv`), each worker's place agrees
  with its call's row (`StandInv`), cleanup that was confirmed stays so
  (`TidyInv`), and the end that was told is the saved one (`EndInv`).
- `FilesInv`: the files hold exactly the operations whose rows say so, and the
  receipts, those on their way included, say what the rows say.

A step is a save (`Writes`: what is saved extends what was saved before), a step
that saves nothing and gets nobody to the place before a request (`Plain`), the
sending of a request, or a step of the computer; each part is shown for these
kinds, not for forty actions. What is saved before the loop has one lemma for
all routes (`EarlyWrites`): the calls and receipts stay, the counters grow, and
an end is told only of a run that has nothing in the computer. An executor call
that gives up without an answer leaves its row unfinished and goes to the
cleanup (`GivesUpRows`). `WorkIsKept` is a consequence of what a save
extends: whichever worker saves, no call, receipt, reservation or answer is
taken back, and a run that ended in the checkpoint never ends there in another way.

Model-checked only: liveness (`EndIsLearned`, `WaitingRunServed`,
`StartAnswered`, `RunEnds`), which needs ENABLED or fairness and is out of the
prover's reach.

## 7. Not modelled

- What sections 2 and `PROJECT.json` name as left out of a modelled component:
  the inside of the routes before the research loop, the browser store, the
  capacity of the executor's disk, prices, their rounding and the limit on
  tokens, several revisions of a file, the ledger's claims.
- Documents and transcription jobs: a system of their own with their own leases.
- Accounts, sessions, projects, feedback: single statements keyed by account.
- Content: text, sources, citations, the ledger and its claims, titles,
  history, rendering; provider I/O. They are payloads of events.
- Postgres transactions with `FOR UPDATE` are atomic; migrations, pools and
  retries of the connection are infrastructure.
- The legacy runtimes and the newsroom harness, which
  `docs/legacy-runtime-disposition.md` takes out of the deployed system.

## 8. Plan

1. `RunContract`, `AgentRuns`, `PreparedTurn`, `RunSubscription`,
   `DispatchQueue`, `DurableWorker`, `Artifacts`, `PortableRun`, `Computer` —
   modelled, and all their safety properties proved.
2. What the notes in `PROJECT.json` name as left out of a modelled component.
3. Documents and transcription jobs.
