----------------------------- MODULE PortableRun -----------------------------
(***************************************************************************)
(* One run in PortableAgentRunner.run (services/agent/src/newscraft_agent/  *)
(* portable.py), as the workers that hold its lease one after the other go  *)
(* through it: the research before the loop, in one step; the loop with the *)
(* checkpoint saved between its steps, the intent saved before every        *)
(* request, the receipts, the budget and publication attempts; the end of   *)
(* the run and its resumption; the conversation's computer (Computer).      *)
(*                                                                         *)
(* A worker may die anywhere, and one that has lost its lease goes on until *)
(* a save is refused or the renewal stops it.  Delivery of events to        *)
(* NewsCraft is in DurableWorker: here an end is told whole or not at all.  *)
(* Answers of the model are cut down to what the loop tells apart.          *)
(***************************************************************************)
EXTENDS Computer, FiniteSets

CONSTANTS
  Workers,      \* worker processes on the host; they share the computer's store
  Nobody,       \* no worker
  MaxSteps,     \* settings.max_iterations: model requests before the loop wraps up
  LoopSteps,    \* DELIVERABLE_LOOP_STEPS: of these, after a deliverable's research
  MaxSearches,  \* settings.max_search_calls
  MaxAttempts,  \* MAX_PUBLICATION_ATTEMPTS
  Budget,       \* cost limit; a model request and a search reserve one unit each
  Replies,      \* bound: the sequences of tools a reply of the model may call
  MaxLeases,    \* bound: leases granted
  MaxBefore     \* bound: model requests made before the loop

Tools == {"search", "publish", "computer"}

ASSUME RunAssumption ==
  /\ Nobody \notin Workers
  /\ MaxSteps \in Nat /\ LoopSteps \in Nat /\ MaxSearches \in Nat
  /\ MaxAttempts \in Nat /\ Budget \in Nat
  /\ MaxLeases \in Nat /\ MaxBefore \in Nat /\ Replies \subseteq Seq(Tools) \ {<<>>}

Kinds == {"none", "model", "wrapUp", "tool", "publication"}

VARIABLES
  saved,        \* agent_runtime_checkpoints.state_json
  lease,        \* the worker that holds the run's lease
  leases,       \* leases granted so far
  stopping,     \* cancellation requested
  outcome,      \* the end NewsCraft has recorded, and who reported it
  proc,         \* the run in each worker process
  sent,         \* requests of the loop that left a worker, counted
  strayed       \* operations admitted by a worker that had lost its lease

run == <<saved, lease, leases, stopping, outcome, proc>>
vars == <<computer, run, sent, strayed>>

(* calls: the tools the model has called, by identity; the first            *)
(* Len(receipts) of them have their receipt, the others are pending.  turns:*)
(* the replies taken into the messages.  steps, used, searches, attempts:   *)
(* reservations and counters that outlive the worker.  wrap: wrap_reason.   *)
(* filed: publish_attempted.  fallback: publication_fallback.  fast: what   *)
(* went before the loop.  cap: step_cap().                                  *)
NoState ==
  [phase |-> "none", intent |-> "none", calls |-> <<>>, receipts |-> <<>>, turns |-> 0,
   steps |-> 0, used |-> 0, searches |-> 0, attempts |-> 0, wrap |-> FALSE,
   filed |-> FALSE, fallback |-> FALSE, answer |-> FALSE, fast |-> "no", cap |-> MaxSteps]
Begun == [NoState EXCEPT !.phase = "running"]
Over == {"finished", "failed", "cancelled"}

(* at: where the worker is.  got: the result of the tool at hand.  removed: *)
(* the call whose container it has removed while cleaning up.               *)
Away == [at |-> "out", state |-> NoState, got |-> "none", removed |-> 0]
InComputer == {"create", "creating", "start", "program", "ran"}
Asking == {"ask", "wrapAsk", "fileAsk"}
Answering == {"reply", "wrapReply", "fileReply"}
Cleaning == {"discard", "fail", "failed", "finish", "interrupted", "cancelRun", "resign"}
Ending == {"saveFailed", "saveFinished", "saveCancelled", "tellFailed", "tellComplete", "tellCancelled"}
Locations == {"out", "load", "recovered", "work", "tool", "search", "upload", "done", "commit"}
               \cup Asking \cup Answering \cup InComputer \cup Cleaning \cup Ending

(* The requests of the loop.  One of the model is known by the replies      *)
(* taken in before, one for a file by its step; there is one for a closing  *)
(* text.                                                                    *)
Requests == ({"model"} \X (0..Budget)) \cup ({"file"} \X (1..Budget)) \cup {<<"wrapUp", 0>>}
              \cup ({"search", "program", "publish"} \X Calls)

Current(s) == Len(s.receipts) + 1
Pending(s) == Current(s) <= Len(s.calls)
Tool(s) == s.calls[Current(s)]
Reserve(s) == [s EXCEPT !.used = @ + 1]
Affordable(s) == s.used < Budget

------------------------------------------------------------------------------
(* Faulty forms of some of the definitions below; no specification uses     *)
(* them.  They are what the checked properties are there to exclude.        *)

ForgetsIntent(s) == FALSE
ReservesNothing(s) == [s EXCEPT !.intent = "model", !.steps = @ + 1]
AnyRowWillDo(s) ==
  s.intent = "tool" /\ Tool(s) = "computer" /\ row[Current(s)].phase # "none"

------------------------------------------------------------------------------
(* Steps of one worker.                                                     *)

Go(w, at) == proc' = [proc EXCEPT ![w].at = at]
Turn(w, at) == proc' = [proc EXCEPT ![w].at = at, ![w].removed = 0]
Abandon(w, at) == proc' = [proc EXCEPT ![w] = [Away EXCEPT !.at = at]]
Leave(w) == Abandon(w, "out")

Holds(w) == lease = w /\ outcome.state = "open"

(* A checkpoint write: taken under the current lease, and one that is to be *)
(* followed by a request is refused once cancellation was asked for.  The   *)
(* write or its answer may be lost; the worker then leaves the run to a     *)
(* later lease.                                                             *)
Accepts(w, dispatch) == Holds(w) /\ ~(dispatch /\ stopping)
Save(w, s, dispatch, next) ==
  /\ \/ /\ Accepts(w, dispatch)
        /\ saved' = s
        /\ proc' = [proc EXCEPT ![w] = [@ EXCEPT !.state = s, !.at = next, !.got = "none"]]
     \/ /\ Accepts(w, dispatch)
        /\ saved' = s
        /\ Abandon(w, "resign")
     \/ /\ UNCHANGED saved
        /\ Abandon(w, IF Holds(w) /\ dispatch /\ stopping THEN "interrupted" ELSE "resign")
  /\ UNCHANGED <<lease, leases, stopping, outcome>>

Alone == UNCHANGED <<computer, sent, strayed>>
Local == UNCHANGED <<saved, lease, leases, stopping, outcome>>

Send(r) == sent' = [sent EXCEPT ![r] = @ + 1] /\ UNCHANGED <<computer, strayed>>

------------------------------------------------------------------------------
(* Taking the run up.                                                       *)

(* Admission, and every later recovery of a lease that ran out or was given *)
(* back.  A cancelled run is taken up to be cleaned up only.                *)
Take(w) ==
  /\ outcome.state = "open" /\ leases < MaxLeases
  /\ proc[w].at = "out"
  /\ lease' = w /\ leases' = leases + 1
  /\ Go(w, IF stopping THEN "cancelRun" ELSE "load")
  /\ UNCHANGED <<saved, stopping, outcome>>
  /\ Alone

(* A request other than a publication or a wrap-up whose outcome is unknown *)
(* is never made again.                                                     *)
Uncertain(s) == s.intent \in {"model", "tool"}

(* completed: the computer's own receipt, for the call the intent names.    *)
Recovered(s) ==
  s.intent = "tool" /\ Tool(s) = "computer" /\ row[Current(s)].phase = "done"

(* The saved state is read and saved again before anything else is done.    *)
Load(w) ==
  /\ proc[w].at = "load"
  /\ LET s == IF saved.phase = "none" THEN Begun ELSE saved IN
     Save(w, s, FALSE,
          IF s.phase \in {"failed", "cancelled"} THEN "fail"
          ELSE IF s.answer THEN "finish"
          ELSE IF Recovered(s) THEN "recovered"
          ELSE IF Uncertain(s) THEN "fail"
          ELSE "work")
  /\ Alone

------------------------------------------------------------------------------
(* Before the loop.  A turn that is new, in a deployment without a computer,*)
(* may first be classified, planned and searched for, and then be answered  *)
(* by one more request, corrected by another.  All of this is reserved and  *)
(* counted in the worker's memory alone, without an intent and without      *)
(* asking for the lease: it is saved once, when it is done, and a worker    *)
(* that dies before leaves no trace of it.  So it is one step here, and its *)
(* requests are not among those that are counted in sent.                   *)

Working(w) == proc[w].at = "work"
State(w) == proc[w].state

NewTurn(s) == s.fast = "no" /\ s.intent = "none" /\ ~Pending(s) /\ s.steps = 0
Researched(s, mark, requests, searches) ==
  [s EXCEPT !.fast = mark, !.steps = @ + requests, !.used = @ + requests, !.searches = @ + searches]
Researches(s, mark, requests) ==
  {t \in {Researched(s, mark, n, k) : n \in (0..requests) \cap (0..MaxBefore), k \in 0..MaxSearches} :
     NewTurn(s) /\ t.used <= Budget /\ t.searches <= MaxSearches}

(* The chat reply or the text of the fast path is the answer; nothing is    *)
(* left in a computer.                                                      *)
AnswerEarly(w) ==
  /\ Working(w) /\ Mine = {}
  /\ \E s \in Researches(State(w), "started", 4) :
       /\ s.steps > 0
       /\ Save(w, [s EXCEPT !.answer = TRUE, !.phase = "finished"], FALSE, "tellComplete")
  /\ Alone

(* No budget for the request, or no reply.                                  *)
FailEarly(w) ==
  /\ Working(w)
  /\ \E s \in Researches(State(w), "started", 3) : Save(w, [s EXCEPT !.phase = "failed"], FALSE, "failed")
  /\ Alone

(* Nothing usable was written: the loop takes over, with its first request  *)
(* or answer, from what this worker alone knows.                            *)
Entered(s) == {s} \cup Researches(s, "started", 3)

(* The research for a file is saved, and the loop after it is short.        *)
Shortened(s) == [s EXCEPT !.cap = IF s.steps + LoopSteps < MaxSteps THEN s.steps + LoopSteps ELSE MaxSteps]
ResearchFile(w) ==
  /\ Working(w)
  /\ \E s \in Researches(State(w), "deliverable", 2) : Save(w, Shortened(s), FALSE, "work")
  /\ Alone

------------------------------------------------------------------------------
(* The model.                                                               *)

Interrupted(s) == s.intent = "wrapUp"
Exhausted(s) == s.wrap \/ s.steps >= s.cap \/ ~Affordable(s)
Idle(w) == Working(w) /\ ~Pending(State(w)) /\ ~State(w).fallback

(* The reservation and the step are saved with the intent.                  *)
Intend(s) == [Reserve(s) EXCEPT !.intent = "model", !.steps = @ + 1]
IntendFile(s) == [Reserve(s) EXCEPT !.intent = "wrapUp", !.steps = @ + 1]
IntendWrapUp(s) == [IntendFile(s) EXCEPT !.wrap = TRUE]

AskModel(w) ==
  /\ Idle(w) /\ ~Interrupted(State(w))
  /\ \E s \in Entered(State(w)) : ~Exhausted(s) /\ Save(w, Intend(s), TRUE, "ask")
  /\ Alone

(* The very first request is too large.                                     *)
CannotAfford(w) ==
  /\ Idle(w) /\ ~Interrupted(State(w)) /\ ~State(w).wrap /\ State(w).steps = 0
  /\ Go(w, "fail") /\ Local /\ Alone

(* One last request that offers the publish tools only, once, where a file  *)
(* is owed (unpublished_tools).                                             *)
Owed(s) ==
  /\ s.fast = "deliverable"
  /\ \A i \in DOMAIN s.receipts : s.calls[i] = "publish" => s.receipts[i] # "ok"
AskForFile(w) ==
  /\ Idle(w) /\ ~Interrupted(State(w)) /\ Exhausted(State(w))
  /\ Affordable(State(w)) /\ ~State(w).filed /\ Owed(State(w))
  /\ Save(w, [IntendWrapUp(State(w)) EXCEPT !.filed = TRUE], TRUE, "fileAsk")
  /\ Alone

(* One last request without tools.                                          *)
AskToWrapUp(w) ==
  /\ Idle(w) /\ ~Interrupted(State(w))
  /\ \E s \in Entered(State(w)) :
       Exhausted(s) /\ Affordable(s) /\ Save(w, IntendWrapUp(s), TRUE, "wrapAsk")
  /\ Alone

(* conclude and the end of wrap_up: the answer is saved before cleanup.     *)
Answered(s) == [s EXCEPT !.intent = "none", !.answer = TRUE, !.phase = "finishing"]
Conclude(w) == Save(w, Answered(State(w)), FALSE, "finish")

(* No request at all: the time is up, the last one was interrupted, nothing *)
(* fits the budget, the file was the answer or could not be saved.          *)
AnswerUnasked(w) ==
  /\ Working(w)
  /\ State(w).fallback \/ ~Pending(State(w))
  /\ \E s \in Entered(State(w)) : Save(w, Answered(s), FALSE, "finish")
  /\ Alone

(* The request leaves the worker.                                           *)
Ask(w) ==
  /\ proc[w].at \in Asking
  /\ CASE proc[w].at = "ask"     -> Send(<<"model", State(w).turns>>) /\ Go(w, "reply")
       [] proc[w].at = "wrapAsk" -> Send(<<"wrapUp", 0>>) /\ Go(w, "wrapReply")
       [] proc[w].at = "fileAsk" -> Send(<<"file", State(w).steps>>) /\ Go(w, "fileReply")
  /\ Local

(* The time ran out while the intent was being saved.                       *)
TooLate(w) ==
  /\ \/ proc[w].at = "ask" /\ Go(w, "fail") /\ Local
     \/ proc[w].at = "wrapAsk" /\ Conclude(w)
     \/ proc[w].at = "fileAsk" /\ Save(w, [State(w) EXCEPT !.intent = "none"], FALSE, "work")
  /\ Alone

(* Tool calls of fresh identity, a reason to wrap up, an answer, or one with *)
(* citations to be corrected.  A document that was cut off is continued by  *)
(* one more request, and one that is still owed is asked for once.          *)
Heard(s) == [s EXCEPT !.intent = "none", !.turns = @ + 1]
Named(s, tools) == [Heard(s) EXCEPT !.calls = @ \o tools]
Reply(w) ==
  /\ proc[w].at = "reply"
  /\ LET s == Heard(State(w)) IN
     \/ \E tools \in Replies :
          /\ Len(s.calls) + Len(tools) <= MaxCalls
          /\ s.fast = "no" \/ \A i \in DOMAIN tools : tools[i] # "computer"
          /\ Save(w, Named(State(w), tools), FALSE, "work")
     \/ \E wrap \in {s.wrap, TRUE} : Save(w, [s EXCEPT !.wrap = wrap], FALSE, "work")
     \/ \E filed \in {s.filed, TRUE} :
          /\ Affordable(s) /\ (filed # s.filed => Owed(s))
          /\ Save(w, [IntendFile(s) EXCEPT !.filed = filed], TRUE, "fileAsk")
     \/ Conclude(w)
  /\ Alone

(* An error, a time-out or a repeated call identity fails the run.          *)
ReplyFails(w) ==
  /\ proc[w].at = "reply"
  /\ Go(w, "fail") /\ Local /\ Alone

(* With or without a text there is an answer.                               *)
WrapUpReply(w) ==
  /\ proc[w].at = "wrapReply"
  /\ Conclude(w)
  /\ Alone

(* A call to publish, or none, whereupon an answer that was at hand may give *)
(* a reason to wrap up; a document that was cut off is continued.           *)
FileReply(w) ==
  /\ proc[w].at = "fileReply"
  /\ LET s == [State(w) EXCEPT !.intent = "none"] IN
     \/ \E wrap \in {s.wrap, TRUE} : Save(w, [s EXCEPT !.wrap = wrap], FALSE, "work")
     \/ Len(s.calls) < MaxCalls /\ Save(w, Named(s, <<"publish">>), FALSE, "work")
     \/ Affordable(s) /\ Save(w, IntendFile(s), TRUE, "fileAsk")
  /\ Alone

------------------------------------------------------------------------------
(* Tools.                                                                   *)

IntendTool(s) == [s EXCEPT !.intent = IF Tool(s) = "publish" THEN "publication" ELSE "tool"]

(* A publication that was interrupted goes on under its saved identity.     *)
StartTool(w) ==
  /\ Working(w) /\ Pending(State(w)) /\ ~State(w).fallback
  /\ Save(w, IntendTool(State(w)), TRUE, "tool")
  /\ Alone

Gets(w, result, next) == proc' = [proc EXCEPT ![w].got = result, ![w].at = next, ![w].removed = 0]

(* Arguments that do not fit the schema, a search too many.                 *)
Refuse(w) ==
  /\ \/ Working(w) /\ Pending(State(w)) /\ ~State(w).fallback /\ State(w).intent = "none"
     \/ proc[w].at = "tool"
  /\ Gets(w, "failed", "done")
  /\ Local /\ Alone

UseReceipt(w) ==
  /\ proc[w].at = "recovered"
  /\ Gets(w, row[Current(State(w))].result, "done")
  /\ Local /\ Alone

(* The receipt, the end of the intent and of the pending call in one write. *)
Receipt(s, result) ==
  [s EXCEPT !.intent = "none", !.attempts = 0, !.receipts = Append(@, result)]
FinishTool(w) ==
  /\ proc[w].at = "done"
  /\ Save(w, Receipt(State(w), proc[w].got), FALSE, "work")
  /\ Alone

(* Too many actions, or a search the budget has no room for: with the       *)
(* receipt goes a reason to wrap up.                                        *)
WrapReceipt(s) == [Receipt(s, "failed") EXCEPT !.wrap = TRUE]
RefuseForGood(w) ==
  /\ proc[w].at = "tool"
  /\ \/ Save(w, WrapReceipt(State(w)), FALSE, "work")
     \/ /\ Tool(State(w)) = "search" /\ State(w).searches < MaxSearches /\ ~Affordable(State(w))
        /\ Save(w, [WrapReceipt(State(w)) EXCEPT !.searches = @ + 1], FALSE, "work")
  /\ Alone

(* A search is counted and reserved before it is made; what it finds is     *)
(* left out.                                                                *)
ReserveSearch(w) ==
  /\ proc[w].at = "tool" /\ Tool(State(w)) = "search"
  /\ State(w).searches < MaxSearches /\ Affordable(State(w))
  /\ Save(w, [Reserve(State(w)) EXCEPT !.searches = @ + 1], TRUE, "search")
  /\ Alone

(* With the time up, or an error no tool result stands for, the run fails.  *)
Search(w) ==
  /\ proc[w].at = "search"
  /\ \/ Gets(w, "ok", "done") /\ Send(<<"search", Current(State(w))>>)
     \/ Go(w, "fail") /\ Send(<<"search", Current(State(w))>>)
     \/ Go(w, "fail") /\ Alone
  /\ Local

(* Every attempt is saved before it is made.                                *)
Attempt(s) == [s EXCEPT !.attempts = @ + 1]
AttemptPublication(w) ==
  /\ proc[w].at = "tool" /\ Tool(State(w)) = "publish"
  /\ State(w).attempts < MaxAttempts
  /\ Save(w, Attempt(State(w)), TRUE, "upload")
  /\ Alone

(* publish saves once more, then uploads: the file is saved, the specifi-   *)
(* cation is rejected, the attempt may be repeated, the next lease has to   *)
(* go on.                                                                   *)
Upload(w) ==
  /\ proc[w].at = "upload"
  /\ \/ /\ Send(<<"publish", Current(State(w))>>)
        /\ \/ \E result \in {"ok", "failed"} : Gets(w, result, "done") /\ Local
           \/ Save(w, State(w), FALSE, "tool")
           \/ Abandon(w, "resign") /\ Local
     \/ ~Accepts(w, TRUE) /\ Save(w, State(w), TRUE, "upload") /\ Alone

(* Attempts, window or patience used up: the document becomes the answer.   *)
GiveUpFile(w) ==
  /\ proc[w].at = "tool" /\ Tool(State(w)) = "publish"
  /\ proc' = [proc EXCEPT ![w].state.fallback = TRUE, ![w].got = "failed", ![w].at = "done"]
  /\ Local /\ Alone

(* No time or, for a search, no budget left and nothing found before; for   *)
(* the computer, no capacity; for a publication, too many files or bytes.   *)
ToolFails(w) ==
  /\ proc[w].at = "tool"
  /\ Go(w, "fail") /\ Local /\ Alone

------------------------------------------------------------------------------
(* OCIComputer.execute, one call at a time.                                 *)

Call(w) == Current(State(w))
Quiet == UNCHANGED <<sent, strayed>>

(* Nothing is admitted while another operation of the conversation, of this *)
(* run or another, or an action of the browser is unfinished; nor is a call *)
(* that was begun before and is not done.                                   *)
AdmitCall(w) ==
  /\ proc[w].at = "tool" /\ Tool(State(w)) = "computer"
  /\ \/ Admit(Call(w)) /\ Go(w, "create")
        /\ strayed' = IF Holds(w) THEN strayed ELSE strayed \cup {Call(w)}
     \/ Abandon(w, "resign") /\ UNCHANGED <<computer, strayed>>
  /\ Local /\ UNCHANGED sent

Create(w) ==
  /\ proc[w].at = "create"
  /\ AskForContainer(Call(w)) /\ Go(w, "creating")
  /\ Local /\ Quiet

(* A creation that is not confirmed, or whose row was cancelled meanwhile,  *)
(* leaves the outcome uncertain, unless the container is found and removed. *)
CreateAnswer(w) ==
  /\ proc[w].at = "creating"
  /\ \/ container[Call(w)] \in {"there", "gone"} /\ Created(Call(w)) /\ Go(w, "start")
     \/ Gets(w, "failed", "discard") /\ UNCHANGED computer
     \/ Abandon(w, "resign") /\ UNCHANGED computer
  /\ Local /\ Quiet

(* Inspected, verified, started, restored; then the program runs.           *)
RunProgram(w) ==
  /\ proc[w].at = "start" /\ container[Call(w)] = "there"
  /\ Send(<<"program", Call(w)>>) /\ Go(w, "program")
  /\ Local

(* A successful program has its files read back.                            *)
ProgramEnds(w) ==
  /\ proc[w].at = "program"
  /\ \E result \in {"ok", "failed"} :
       /\ result = "ok" => container[Call(w)] = "there"
       /\ Gets(w, result, "ran")
  /\ Local /\ Alone

(* Anything wrong with the container, before or after: changes discarded.   *)
ExecutorFails(w) ==
  /\ proc[w].at \in {"start", "program", "ran"}
  /\ Gets(w, "failed", "discard")
  /\ Local /\ Alone

(* The container goes before the result is committed.                       *)
RemoveContainer(w) ==
  /\ proc[w].at = "ran" /\ Unfinished(Call(w))
  /\ IF container[Call(w)] = "there" THEN Remove(Call(w)) ELSE UNCHANGED computer
  /\ Go(w, "commit")
  /\ Local /\ Quiet

(* A result or files too large for the store are discarded.                 *)
Commit(w) ==
  /\ proc[w].at = "commit"
  /\ \/ Finish(Call(w), proc[w].got) /\ Go(w, "done")
     \/ Gets(w, "failed", "discard") /\ UNCHANGED computer
     \/ row[Call(w)].phase # "running" /\ Abandon(w, "resign") /\ UNCHANGED computer
  /\ Local /\ Quiet

------------------------------------------------------------------------------
(* Cleanup: OCIComputer.cancel, which close, cancel_run, the failure path   *)
(* and the executor's own error path all come to.                           *)

RemoveLeftover(w) ==
  /\ proc[w].at \in Cleaning
  /\ \E c \in Mine : Remove(c) /\ proc' = [proc EXCEPT ![w].removed = c]
  /\ Local /\ Quiet

(* What follows once cleanup is confirmed.                                  *)
After[at \in Cleaning] ==
  CASE at = "discard"     -> "done"
    [] at = "fail"        -> "saveFailed"
    [] at = "failed"      -> "tellFailed"
    [] at = "finish"      -> "saveFinished"
    [] at = "interrupted" -> "cancelRun"
    [] at = "cancelRun"   -> "saveCancelled"
    [] at = "resign"      -> "out"
Confirm(w) ==
  /\ proc[w].at \in Cleaning
  /\ \A c \in Mine : Confirmed(c, proc[w].removed = c)
  /\ Cancelled(Mine)
  /\ IF proc[w].at \in {"discard", "fail", "finish"} THEN Turn(w, After[proc[w].at])
     ELSE Abandon(w, After[proc[w].at])
  /\ Local /\ Quiet

(* Unconfirmed: the run is left to a later lease, which tries again.        *)
CannotConfirm(w) ==
  /\ proc[w].at \in Cleaning /\ Mine # {}
  /\ IF proc[w].at \in {"discard", "fail", "finish"} THEN Abandon(w, "resign") ELSE Leave(w)
  /\ Local /\ Alone

------------------------------------------------------------------------------
(* The end of the run.                                                      *)

(* A run that had ended stays as it ended.                                  *)
SaveFailed(w) ==
  /\ proc[w].at = "saveFailed"
  /\ IF State(w).phase \in Over THEN Abandon(w, "failed") /\ Local
     ELSE Save(w, [State(w) EXCEPT !.phase = "failed"], FALSE, "failed")
  /\ Alone

SaveFinished(w) ==
  /\ proc[w].at = "saveFinished"
  /\ Save(w, [State(w) EXCEPT !.phase = "finished"], FALSE, "tellComplete")
  /\ Alone

(* cancel_run reads the checkpoint afresh. *)
SaveCancelled(w) ==
  /\ proc[w].at = "saveCancelled"
  /\ IF saved.phase \in Over THEN Go(w, "tellCancelled") /\ Local
     ELSE Save(w, [saved EXCEPT !.phase = "cancelled"], FALSE, "tellCancelled")
  /\ Alone

(* NewsCraft takes the end under the current lease; once cancellation was   *)
(* asked for it takes no other, and the worker turns to cancelling.         *)
Ends == [tellFailed |-> "failed", tellComplete |-> "complete", tellCancelled |-> "cancelled"]
Tell(w) ==
  /\ proc[w].at \in DOMAIN Ends
  /\ LET end == Ends[proc[w].at] IN
     \/ /\ Holds(w) /\ (stopping => end = "cancelled")
        /\ outcome' = [state |-> end, by |-> "worker"] /\ Leave(w)
     \/ Holds(w) /\ stopping /\ end # "cancelled" /\ Abandon(w, "cancelRun") /\ UNCHANGED outcome
     \/ Leave(w) /\ UNCHANGED outcome
  /\ UNCHANGED <<saved, lease, leases, stopping>>
  /\ Alone

------------------------------------------------------------------------------
(* What else may happen.                                                    *)

RequestCancellation ==
  /\ outcome.state = "open" /\ ~stopping
  /\ stopping' = TRUE
  /\ UNCHANGED <<saved, lease, leases, outcome, proc>> /\ Alone

(* The worker is told of the cancellation, or the renewal finds the lease   *)
(* gone: the task is cancelled wherever it waits.                           *)
Interrupt(w) ==
  /\ proc[w].at \in Asking \cup Answering \cup InComputer \cup {"work", "tool", "search", "upload"}
  /\ \/ stopping /\ Abandon(w, "interrupted")
     \/ ~Holds(w) /\ Abandon(w, "resign")
  /\ Local /\ Alone

(* A computer call takes too long. *)
ComputerTimesOut(w) ==
  /\ proc[w].at \in InComputer
  /\ Turn(w, "fail")
  /\ Local /\ Alone

(* The cancel route ends a run of which the worker it asks knows nothing.   *)
FinalizeCancellation ==
  /\ stopping /\ outcome.state = "open"
  /\ \E w \in Workers : proc[w].at = "out"
  /\ outcome' = [state |-> "cancelled", by |-> "newscraft"]
  /\ UNCHANGED <<saved, lease, leases, stopping, proc>> /\ Alone

Crash(w) ==
  /\ proc[w].at # "out"
  /\ Leave(w) /\ Local /\ Alone

Daemon == \E c \in Calls : (Appears(c) \/ Vanishes(c)) /\ UNCHANGED run /\ Quiet

------------------------------------------------------------------------------
Init ==
  /\ ComputerInit
  /\ saved = NoState
  /\ lease = Nobody /\ leases = 0
  /\ stopping = FALSE
  /\ outcome = [state |-> "open", by |-> "nobody"]
  /\ proc = [w \in Workers |-> Away]
  /\ sent = [r \in Requests |-> 0]
  /\ strayed = {}

WorkerStep(w) ==
  \/ Take(w) \/ Load(w) \/ AnswerEarly(w) \/ FailEarly(w) \/ ResearchFile(w)
  \/ AskModel(w) \/ CannotAfford(w) \/ AskForFile(w) \/ AskToWrapUp(w) \/ AnswerUnasked(w)
  \/ Ask(w) \/ TooLate(w) \/ Reply(w) \/ ReplyFails(w) \/ WrapUpReply(w)
  \/ FileReply(w) \/ StartTool(w) \/ Refuse(w) \/ UseReceipt(w) \/ FinishTool(w)
  \/ RefuseForGood(w)
  \/ ReserveSearch(w) \/ Search(w) \/ AttemptPublication(w) \/ Upload(w) \/ GiveUpFile(w)
  \/ ToolFails(w) \/ AdmitCall(w) \/ Create(w) \/ CreateAnswer(w)
  \/ RunProgram(w) \/ ProgramEnds(w) \/ ExecutorFails(w) \/ RemoveContainer(w) \/ Commit(w)
  \/ RemoveLeftover(w) \/ Confirm(w) \/ CannotConfirm(w)
  \/ SaveFailed(w) \/ SaveFinished(w) \/ SaveCancelled(w) \/ Tell(w)
  \/ Interrupt(w) \/ ComputerTimesOut(w) \/ Crash(w)

Next == (\E w \in Workers : WorkerStep(w)) \/ RequestCancellation \/ FinalizeCancellation \/ Daemon

Spec == Init /\ [][Next]_vars

------------------------------------------------------------------------------
(* The checkpoint, the processes and the computer have the shape the code   *)
(* gives them; a receipt always says how its call ended, and the saved      *)
(* counters stay within their limits.                                       *)
TypeOK ==
  /\ ComputerTypeOK
  /\ saved.phase \in {"none", "running", "finishing"} \cup Over
  /\ saved.intent \in Kinds
  /\ saved.calls \in Seq(Tools) /\ saved.receipts \in Seq(Results \ {"none"})
  /\ saved.steps \in Nat /\ saved.searches <= MaxSearches /\ saved.attempts <= MaxAttempts
  /\ lease \in Workers \cup {Nobody} /\ leases <= MaxLeases
  /\ stopping \in BOOLEAN
  /\ \A w \in Workers : proc[w].at \in Locations
  /\ \A r \in Requests : sent[r] \in Nat
  /\ strayed \subseteq Calls

(* Whatever dies, and even while a worker that lost its lease is still at   *)
(* it: no model request, search or program of the computer that the loop    *)
(* makes is made twice, and a file is uploaded at most                      *)
(* MAX_PUBLICATION_ATTEMPTS times.  What is asked before the loop is not    *)
(* among these requests: a crash there has it all asked again.              *)
NothingRepeated ==
  \A r \in Requests : sent[r] <= IF r[1] = "publish" THEN MaxAttempts ELSE 1

(* Every request of the loop that costs money was reserved in the saved     *)
(* state before it left, no crash gives such a reservation back, and what   *)
(* is reserved, before the loop and in it, stays within the budget          *)
(* (budgets.reserve and save(dispatch=True)).                               *)
Paid == {r \in Requests : r[1] \in {"model", "wrapUp", "file", "search"}}
PaidFirst ==
  /\ Cardinality(UNION {{r} \X (1..sent[r]) : r \in Paid}) <= saved.used
  /\ saved.used <= Budget

(* When a worker has reported the end of the run, nothing of the run is     *)
(* left in the computer, neither a container, nor a create under way, nor   *)
(* an unfinished row, except of a call that a worker without the lease let  *)
(* in; and the checkpoint says the same end, with an answer if it is        *)
(* "complete" (finish, cancel_run and the failure path of run).             *)
Leftovers == {c \in Calls : Unfinished(c) \/ container[c] \in {"coming", "there"}}
EndsSettled ==
  outcome.by = "worker" =>
    /\ Leftovers \subseteq strayed
    /\ outcome.state = "complete" => saved.phase = "finished" /\ saved.answer
    /\ outcome.state = "failed" => saved.phase \in {"failed", "cancelled"}
    /\ outcome.state = "cancelled" => saved.phase \in Over

(* What the model is told of a computer call is what became of the files:   *)
(* a receipt says ok exactly if the call's files were committed, also when  *)
(* the receipt was recovered from the computer's store after a crash.       *)
ReceiptsTrue ==
  \A i \in DOMAIN saved.receipts :
    saved.calls[i] = "computer" =>
      (saved.receipts[i] = "ok" <=> \E k \in DOMAIN files : files[k] = i)

=============================================================================
