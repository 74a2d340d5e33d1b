---------------------------- MODULE PreparedTurn ----------------------------
(***************************************************************************)
(* One assistant message and the requests that compete to answer it: the   *)
(* message row of src/lib/server/db/conversations.ts (partial,             *)
(* resume_claimed_at), the runs createOrGetAgentRun starts for it, and the *)
(* steps of POST /api/chat/stream and of the claim and discard routes.     *)
(* Every database call is one action; between two calls of a request any   *)
(* other request may act, the process may die, and an answer from the      *)
(* database may be lost after its transaction committed.                   *)
(*                                                                         *)
(* A claim token is the time its claim was made.  Requests run on machines *)
(* whose clocks differ from true time by up to Skew, and the work between  *)
(* a claim and the creation of its run (history, provenance, the research  *)
(* context) takes longer than clocks differ.                               *)
(***************************************************************************)
EXTENDS Integers, Sequences

CONSTANTS
  Senders,          \* requests that submit the same user message
  Resumers,         \* requests that resume the unfinished answer
  Discarders,       \* claim-partial followed by clear-partial
  ClientKeys,       \* idempotency keys the page may send along with a request
  DuplicateWindow,  \* DURABLE_DUPLICATE_WINDOW_MS
  TakeoverAge,      \* 45 s: a prepared turn its owner seems to have left
  ClaimTTL,         \* RESUME_CLAIM_TTL_MS
  Skew,             \* how far a request's clock may be off
  MaxClock,         \* bound: ticks of the clock
  MaxRuns           \* bound: runs ever created

Requests == Senders \cup Resumers \cup Discarders

ASSUME TurnAssumption ==
  /\ DuplicateWindow \in Nat /\ ClaimTTL \in Nat
  /\ Skew \in Nat /\ MaxClock \in Nat /\ MaxRuns \in Nat
  /\ TakeoverAge \in Nat /\ 2 * Skew < TakeoverAge /\ TakeoverAge <= ClaimTTL
  /\ Senders \cap Resumers = {} /\ Senders \cap Discarders = {}
  /\ Resumers \cap Discarders = {}
  /\ ClientKeys \cap Nat = {}

Unclaimed == 0
ActiveStates == {"queued", "running"}
RunStates == ActiveStates \cup {"complete", "stopped"}   \* stopped: failed or cancelled

VARIABLES
  clock,
  message,    \* the assistant row; created is 0 until the turn is prepared
  runs,       \* its agent_runs rows in order: state and idempotency key
  pc,         \* where each request is
  token,      \* the claim token each request holds
  job,        \* the run each request is about to start
  superseded  \* requests whose unspent claim another request took over

vars == <<clock, message, runs, pc, token, job, superseded>>

(* owner: holds a claim and prepares the run; closing: its preflight failed *)
(* and it is about to answer locally; starting: createOrGetAgentRun         *)
(* returned a queued run.                                                   *)
Places == {"new", "waiting", "checked", "owner", "closing", "starting", "done"}

Now == {t \in (clock - Skew)..(clock + Skew) : t >= 1}
ActiveRun == {i \in DOMAIN runs : runs[i].state \in ActiveStates}
Go(r, place) == pc' = [pc EXCEPT ![r] = place]

------------------------------------------------------------------------------
(* Faulty forms of some of the definitions below; no specification uses     *)
(* them.  They are what the checked properties are there to exclude.        *)

OwnsPartialOnly(r) == message.partial
KeptToken(t) == message.claim
NoneReusable == {}
FailedAsStarted(r) == "starting"

------------------------------------------------------------------------------
(* The compare-and-set on partial and resume_claimed_at that every commit   *)
(* of a claim makes.                                                        *)
Owns(r) == message.partial /\ message.claim = token[r]

(* The runs for which createOrGetAgentRun returns the row that is there.    *)
Reusable == ActiveRun

(* The token of a takeover is newer than the one it replaces on any clock.  *)
TakeoverToken(t) == IF t > message.claim THEN t ELSE message.claim + 1

Claim(r, value) ==
  /\ message' = [message EXCEPT !.claim = value]
  /\ token' = [token EXCEPT ![r] = value]
  /\ superseded' = superseded \cup
       {q \in Requests \ {r} : /\ pc[q] \in {"owner", "closing"}
                              /\ message.claim # Unclaimed
                              /\ token[q] = message.claim}

(* By now every clock is past the token.                                    *)
Settled(r) == clock - Skew > token[r]

(* The run has the key the request came with or else one of its own: for a  *)
(* sender that of its message, for a resume that of its claim.              *)
Keys(r) == ClientKeys \cup {IF r \in Senders THEN 0 ELSE token[r]}

Init ==
  /\ clock = Skew + 1
  /\ message = [created |-> 0, partial |-> TRUE, claim |-> Unclaimed, closedBy |-> "nobody"]
  /\ runs = <<>>
  /\ pc = [r \in Requests |-> "new"]
  /\ token = [r \in Requests |-> Unclaimed]
  /\ job = [r \in Requests |-> 0]
  /\ superseded = {}

Tick ==
  /\ clock < MaxClock
  /\ clock' = clock + 1
  /\ UNCHANGED <<message, runs, pc, token, job, superseded>>

------------------------------------------------------------------------------
(* prepareDurableUserTurn.                                                  *)

Prepare(r, t) ==
  /\ pc[r] = "new" /\ message.created = 0
  /\ message' = [message EXCEPT !.created = t + 1, !.claim = t + 1]
  /\ token' = [token EXCEPT ![r] = t + 1]
  /\ Go(r, "owner")
  /\ UNCHANGED <<clock, runs, job, superseded>>

(* The same submit from another tab: it waits for the turn's outcome when   *)
(* the turn is recent and unanswered, and otherwise prepares another turn.  *)
Duplicate(r, t) ==
  /\ pc[r] = "new" /\ message.created # 0
  /\ IF /\ message.partial
        /\ t - (message.created - 1) <= DuplicateWindow
        /\ runs # <<>> => runs[Len(runs)].state \in ActiveStates
     THEN Go(r, "waiting")
     ELSE Go(r, "done")
  /\ UNCHANGED <<clock, message, runs, token, job, superseded>>

(* waitForPreparedAgentRun found the run or the finished text.              *)
SeeOutcome(r) ==
  /\ pc[r] = "waiting"
  /\ runs # <<>> \/ ~message.partial
  /\ Go(r, "done")
  /\ UNCHANGED <<clock, message, runs, token, job, superseded>>

(* takeOverPreparedDurableTurn, when the wait ran out or was aborted.       *)
TakeOver(r, t) ==
  /\ pc[r] = "waiting"
  /\ IF /\ runs = <<>> /\ message.partial
        /\ message.claim # Unclaimed /\ message.claim <= t - TakeoverAge
     THEN Claim(r, TakeoverToken(t)) /\ Go(r, "owner")
     ELSE Go(r, "done") /\ UNCHANGED <<message, token, superseded>>
  /\ UNCHANGED <<clock, runs, job>>

------------------------------------------------------------------------------
(* The resume and discard paths up to their claim.                          *)

(* A resume reads the message and its active run before it claims.          *)
CheckResume(r) ==
  /\ pc[r] = "new" /\ message.created # 0
  /\ Go(r, IF message.partial /\ ActiveRun = {} THEN "checked" ELSE "done")
  /\ UNCHANGED <<clock, message, runs, token, job, superseded>>

CheckDiscard(r) ==
  /\ pc[r] = "new" /\ message.created # 0
  /\ Go(r, "checked")
  /\ UNCHANGED <<clock, message, runs, token, job, superseded>>

(* claimPartialAssistantMessage.                                            *)
ClaimPartial(r, t) ==
  /\ pc[r] = "checked"
  /\ IF message.partial /\ (message.claim = Unclaimed \/ message.claim < t - ClaimTTL)
     THEN Claim(r, t) /\ Go(r, "owner")
     ELSE Go(r, "done") /\ UNCHANGED <<message, token, superseded>>
  /\ UNCHANGED <<clock, runs, job>>

------------------------------------------------------------------------------
(* createOrGetAgentRun and what its caller does next.                       *)

(* What a request does when the call failed: an owner of a prepared turn    *)
(* answers locally, a resume gives up and leaves its claim behind.          *)
Failed(r) == IF r \in Senders THEN "closing" ELSE "done"

GetRun(r) ==
  /\ pc[r] = "owner" /\ r \notin Discarders
  /\ \E i \in Reusable :
       /\ job' = [job EXCEPT ![r] = i]
       /\ Go(r, IF runs[i].state = "queued" THEN "starting" ELSE "done")
  /\ UNCHANGED <<clock, message, runs, token, superseded>>

(* The insert; a conflict on the idempotency key returns the older run and  *)
(* leaves the claim.  "lost": it committed and its answer did not arrive.   *)
CreateRun(r, key, lost) ==
  /\ pc[r] = "owner" /\ r \notin Discarders
  /\ Reusable = {} /\ Owns(r) /\ Settled(r)
  /\ Len(runs) < MaxRuns
  /\ IF \E i \in DOMAIN runs : runs[i].key = key
     THEN UNCHANGED <<message, runs, job>> /\ Go(r, IF lost THEN Failed(r) ELSE "done")
     ELSE /\ runs' = Append(runs, [state |-> "queued", key |-> key])
          /\ message' = [message EXCEPT !.claim = Unclaimed]
          /\ job' = [job EXCEPT ![r] = Len(runs) + 1]
          /\ Go(r, IF lost THEN Failed(r) ELSE "starting")
  /\ UNCHANGED <<clock, token, superseded>>

StaleOwner(r) ==
  /\ pc[r] = "owner" /\ r \notin Discarders
  /\ Reusable = {} /\ ~Owns(r)
  /\ Go(r, Failed(r))
  /\ UNCHANGED <<clock, message, runs, token, job, superseded>>

(* finalizePreparedAssistantMessage, finalizeResumedAssistantMessage and    *)
(* discardPartialAssistantMessage: the answer ends without a run, with the  *)
(* text of a local failure or with the draft as it is.                      *)
CloseLocally(r) ==
  /\ pc[r] \in {"owner", "closing"}
  /\ message' = IF Owns(r)
                THEN [message EXCEPT !.partial = FALSE, !.claim = Unclaimed,
                        !.closedBy = IF r \in Senders THEN "sender" ELSE "other"]
                ELSE message
  /\ Go(r, "done")
  /\ UNCHANGED <<clock, runs, token, job, superseded>>

(* The process dies, or a resume fails outside the calls it recovers from.  *)
Abandon(r) ==
  /\ pc[r] \in {"owner", "closing", "starting"}
  /\ Go(r, "done")
  /\ UNCHANGED <<clock, message, runs, token, job, superseded>>

(* The worker took the run, or is taken not to have: failQueuedAgentRun.    *)
StartAccepted(r) ==
  /\ pc[r] = "starting"
  /\ Go(r, "done")
  /\ UNCHANGED <<clock, message, runs, token, job, superseded>>

StartFailed(r) ==
  /\ pc[r] = "starting"
  /\ IF runs[job[r]].state = "queued"
     THEN /\ runs' = [runs EXCEPT ![job[r]].state = "stopped"]
          /\ message' = [message EXCEPT !.partial = TRUE]
     ELSE UNCHANGED <<runs, message>>
  /\ Go(r, "done")
  /\ UNCHANGED <<clock, token, job, superseded>>

------------------------------------------------------------------------------
(* The run's own life, as AgentRuns has it, and its writes to the message.  *)

RunStarts(i) ==
  /\ runs[i].state = "queued"
  /\ runs' = [runs EXCEPT ![i].state = "running"]
  /\ UNCHANGED <<clock, message, pc, token, job, superseded>>

RunReleased(i) ==
  /\ runs[i].state = "running"
  /\ runs' = [runs EXCEPT ![i].state = "queued"]
  /\ UNCHANGED <<clock, message, pc, token, job, superseded>>

RunProjects(i) ==
  /\ runs[i].state = "running"
  /\ message' = [message EXCEPT !.partial = TRUE]
  /\ UNCHANGED <<clock, runs, pc, token, job, superseded>>

RunEnds(i, outcome) ==
  /\ runs[i].state \in ActiveStates
  /\ outcome = "complete" => runs[i].state = "running"
  /\ runs' = [runs EXCEPT ![i].state = outcome]
  /\ message' = [message EXCEPT !.partial = outcome # "complete"]
  /\ UNCHANGED <<clock, pc, token, job, superseded>>

Next ==
  \/ Tick
  \/ \E r \in Senders, t \in Now : Prepare(r, t) \/ Duplicate(r, t) \/ TakeOver(r, t)
  \/ \E r \in Senders : SeeOutcome(r)
  \/ \E r \in Resumers : CheckResume(r)
  \/ \E r \in Discarders : CheckDiscard(r)
  \/ \E r \in Resumers \cup Discarders, t \in Now : ClaimPartial(r, t)
  \/ \E r \in Requests, lost \in BOOLEAN : \E key \in Keys(r) : CreateRun(r, key, lost)
  \/ \E r \in Requests : \/ GetRun(r) \/ StaleOwner(r) \/ CloseLocally(r) \/ Abandon(r)
                         \/ StartAccepted(r) \/ StartFailed(r)
  \/ \E i \in DOMAIN runs : \/ RunStarts(i) \/ RunReleased(i) \/ RunProjects(i)
                            \/ \E outcome \in {"complete", "stopped"} : RunEnds(i, outcome)

Spec == Init /\ [][Next]_vars

------------------------------------------------------------------------------
(* Every variable holds a legal value, and a request that is to commit or   *)
(* to start something holds a token or knows a run.                         *)
TypeOK ==
  /\ clock \in Nat
  /\ message \in [created : Nat, partial : BOOLEAN, claim : Nat,
                  closedBy : {"nobody", "sender", "other"}]
  /\ runs \in Seq([state : RunStates, key : Nat \cup ClientKeys])
  /\ pc \in [Requests -> Places]
  /\ token \in [Requests -> Nat]
  /\ job \in [Requests -> 0..Len(runs)]
  /\ \A r \in Requests : pc[r] \in {"owner", "closing"} => token[r] # Unclaimed
  /\ \A r \in Requests : pc[r] = "starting" => job[r] # 0
  /\ superseded \subseteq Requests

(* However many tabs submit and resume at once, at most one run works on    *)
(* the message: createOrGetAgentRun looks for one under the message's lock. *)
OneActiveRun == \A i, j \in ActiveRun : i = j

(* A prepared turn is answered by a run or by local text and never by both, *)
(* even when the run was created and the request never learned of it.       *)
PreparedAnsweredOnce ==
  message.closedBy = "sender" => runs = <<>> /\ ~message.partial

(* Once a request's claim was taken over it creates no run and finishes no  *)
(* text, whatever claims came and went since: no other claim ever has its   *)
(* token, although clocks differ.                                           *)
SupersededNeverCommits ==
  [][\A r \in superseded :
       pc[r] \in {"owner", "closing"} /\ pc'[r] # pc[r] =>
         /\ message' = message /\ runs' = runs]_vars

(* What conversations.ts says of the claim: a retry that is stale cannot    *)
(* append, replace or finalize after another owner won, that is, while the  *)
(* run the other owner created is at work.                                  *)
NotClosedUnderRun ==
  [][ActiveRun # {} /\ runs' = runs => message'.closedBy = message.closedBy]_vars
==============================================================================
