------------------------------ MODULE Artifacts ------------------------------
(***************************************************************************)
(* The publication of one file of one run: the revision, its upload grant   *)
(* and its asset (src/lib/server/db/artifacts.ts), the requests that move   *)
(* them (routes artifacts/revisions, artifact-grants, upload and finalize), *)
(* the object store, and the workers that try again under one publication   *)
(* key (publish_artifact_spec and publish_artifact_file in durable.py, the  *)
(* publication loop of portable.py).                                        *)
(*                                                                         *)
(* A request whose client stopped waiting goes on in the server, and a      *)
(* finalize request may be delivered twice.  One grant row serves every     *)
(* attempt: issuing it again makes a new generation, with a new token and   *)
(* new object keys.  A worker that takes no more steps has died.            *)
(***************************************************************************)
EXTENDS Naturals

CONSTANTS
  MaxAttempts,    \* MAX_PUBLICATION_ATTEMPTS
  MaxLeases,      \* bound: leases of the run granted
  MaxDeliveries,  \* bound: times one finalize request is delivered
  MaxFaults       \* bound: things that go wrong, the steps under Trouble

ASSUME ArtifactsAssumption ==
  /\ MaxAttempts \in Nat /\ MaxLeases \in Nat /\ MaxDeliveries \in Nat \ {0}
  /\ MaxFaults \in Nat

Generations == 1..MaxAttempts
Leases == 1..MaxLeases

(* A finalize request: the generation its worker had uploaded, and which    *)
(* delivery of it this is.                                                  *)
Requests == Generations \X (1..MaxDeliveries)
NoRequest == <<0, 0>>

VARIABLES
  mode,           \* artifactStorageMode
  run,            \* whether the run is active, and its lease that has not expired
  leases,         \* leases granted so far
  attempts,       \* state["publication_attempts"], in the checkpoint
  revision,       \* artifact_revisions.status
  grant,          \* artifact_upload_grants: state, generation, not expired
  asset,          \* artifact_assets: the request whose copy it names
  staged,         \* objects under the staging keys
  copies,         \* objects under the final keys, by the request that put them
  upload,         \* the upload or completion request of each generation
  finalize,       \* the finalize requests
  worker,         \* the publication in each worker, by its lease
  rejected,       \* generations the verifier has turned down
  faults          \* faults so far

rows == <<revision, grant, asset>>
store == <<staged, copies>>
requests == <<upload, finalize>>
vars == <<mode, run, leases, attempts, rows, store, requests, worker, rejected, faults>>

Objects == {"none", "good", "bad", "removed"}
UploadSteps == {"none", "sent", "writing", "put", "stored", "ok", "refused"}
FinalizeSteps == {"none", "read", "staged", "copy", "verify", "commit", "tidy", "recover", "compare",
                  "discard", "reject", "mark", "ok", "retry", "no"}
WorkerSteps == {"idle", "asked", "revised", "uploading", "finalizing", "ready", "told", "over"}

(* of: the generation the request found in the grant row.  copied: the      *)
(* request knows of its copy.  attempted: finalizeAttempted.  landing: its  *)
(* transaction may still be done, though its answer was lost.  refused: the *)
(* error it caught is the verifier's.                                       *)
NoFinalize ==
  [at |-> "none", lease |-> 0, of |-> 0, copied |-> FALSE, attempted |-> FALSE,
   landing |-> FALSE, refused |-> FALSE]

(* Every stored status, state and step is one the code knows.               *)
TypeOK ==
  /\ mode \in {"local", "direct"}
  /\ run \in [active : BOOLEAN, lease : 0..MaxLeases] /\ leases \in 0..MaxLeases
  /\ attempts \in 0..MaxAttempts
  /\ revision \in {"none", "draft", "publishing", "ready", "failed"}
  /\ grant \in [state : {"none", "issued", "uploaded", "consumed"},
                generation : 0..MaxAttempts, open : BOOLEAN]
  /\ asset \in Requests \cup {NoRequest}
  /\ staged \in [Generations -> Objects] /\ copies \in [Requests -> Objects]
  /\ upload \in [Generations -> UploadSteps]
  /\ finalize \in [Requests -> [at : FinalizeSteps, lease : 0..MaxLeases, of : 0..MaxAttempts,
                                copied : BOOLEAN, attempted : BOOLEAN, landing : BOOLEAN,
                                refused : BOOLEAN]]
  /\ worker \in [Leases -> [at : WorkerSteps, generation : 0..MaxAttempts]]
  /\ rejected \in SUBSET Generations /\ faults \in 0..MaxFaults

------------------------------------------------------------------------------
(* Small conditions.                                                        *)

Holds(l) == run.active /\ run.lease = l          \* lockArtifactRunLease
Current(g) == grant.generation = g
Uploadable(g) == Current(g) /\ grant.state = "issued" /\ grant.open
Final(q) == finalize[q]

------------------------------------------------------------------------------
(* Faulty forms of some of the definitions below; no specification uses     *)
(* them.  They are what the checked properties are there to exclude.        *)

FailsTheGrantToo(q) ==
  /\ revision' = "failed" /\ grant' = [grant EXCEPT !.state = "failed"] /\ UNCHANGED asset
TakesErrorForProof(q) == FALSE
ChecksLeaseEarlier(q) ==
  asset = NoRequest /\ Current(Final(q).of) /\ grant.state = "uploaded" /\ grant.open
FailsWhateverIsCurrent(q) == revision # "ready"

------------------------------------------------------------------------------
(* The run's lease, as the publication sees it.                             *)

Claim ==
  /\ run.active /\ run.lease = 0 /\ leases < MaxLeases
  /\ leases' = leases + 1
  /\ run' = [run EXCEPT !.lease = leases + 1]
  /\ UNCHANGED <<mode, attempts, rows, store, requests, worker, rejected>>

Lapse ==
  /\ run.lease # 0
  /\ run' = [run EXCEPT !.lease = 0]
  /\ UNCHANGED <<mode, leases, attempts, rows, store, requests, worker, rejected>>

(* The run is asked to cancel, or ends.                                     *)
Stop ==
  /\ run.active
  /\ run' = [run EXCEPT !.active = FALSE]
  /\ UNCHANGED <<mode, leases, attempts, rows, store, requests, worker, rejected>>

------------------------------------------------------------------------------
(* The worker.  Any answer but a timeout or a 5xx ends its attempts.        *)

Step(l, at) == worker' = [worker EXCEPT ![l].at = at]

(* An attempt is saved, under the lease, before it is made.                 *)
Admit(l) ==
  /\ worker[l].at = "idle" /\ Holds(l) /\ attempts < MaxAttempts
  /\ attempts' = attempts + 1
  /\ Step(l, "asked")
  /\ UNCHANGED <<mode, run, leases, rows, store, requests, rejected>>

(* createArtifactRevisionForRun: the key finds the revision again.          *)
AskRevision(l) ==
  /\ worker[l].at = "asked"
  /\ IF Holds(l)
     THEN /\ revision' = IF revision = "none" THEN "draft" ELSE revision
          /\ Step(l, IF revision = "ready" THEN "ready" ELSE "revised")
     ELSE Step(l, "over") /\ UNCHANGED revision
  /\ UNCHANGED <<mode, run, leases, attempts, grant, asset, store, requests, rejected>>

(* createArtifactUploadGrant: a grant that is not consumed is issued again, *)
(* in place.  The file is sent off with the answer.                         *)
Reissue ==
  /\ revision' = "publishing"
  /\ grant' = [state |-> "issued", generation |-> grant.generation + 1, open |-> TRUE]
  /\ UNCHANGED asset

AskGrant(l) ==
  /\ worker[l].at = "revised"
  /\ IF Holds(l) /\ revision \in {"draft", "publishing"} /\ grant.state # "consumed"
     THEN /\ Reissue
          /\ upload' = [upload EXCEPT ![grant.generation + 1] = "sent"]
          /\ worker' = [worker EXCEPT ![l] = [at |-> "uploading", generation |-> grant.generation + 1]]
     ELSE Step(l, "over") /\ UNCHANGED <<rows, upload>>
  /\ UNCHANGED <<mode, run, leases, attempts, store, finalize, rejected>>

Begin(q, l) == finalize' = [finalize EXCEPT ![q] = [NoFinalize EXCEPT !.at = "read", !.lease = l]]

UploadAnswered(l) ==
  LET g == worker[l].generation IN
  /\ worker[l].at = "uploading"
  /\ \/ upload[g] = "ok" /\ Begin(<<g, 1>>, l) /\ Step(l, "finalizing")
     \/ upload[g] = "refused" /\ Step(l, "over") /\ UNCHANGED finalize
  /\ UNCHANGED <<mode, run, leases, attempts, rows, store, upload, rejected>>

FinalizeAnswered(l) ==
  LET answer == Final(<<worker[l].generation, 1>>).at IN
  /\ worker[l].at = "finalizing"
  /\ \/ answer = "ok" /\ Step(l, "ready")
     \/ answer = "retry" /\ Step(l, "idle")
     \/ answer = "no" /\ Step(l, "over")
  /\ UNCHANGED <<mode, run, leases, attempts, rows, store, requests, rejected>>

(* The attempt's time is up, or a 5xx came back: what it asked for may have *)
(* been done or be under way.                                               *)
TryAgain(l) ==
  /\ worker[l].at \in {"asked", "revised", "uploading", "finalizing"}
  /\ Step(l, "idle")
  /\ UNCHANGED <<mode, run, leases, attempts, rows, store, requests, rejected>>

(* The callback artifact.ready, refused without the lease or the revision.  *)
Announce(l) ==
  /\ worker[l].at = "ready"
  /\ Step(l, IF Holds(l) /\ revision = "ready" THEN "told" ELSE "over")
  /\ UNCHANGED <<mode, run, leases, attempts, rows, store, requests, rejected>>

------------------------------------------------------------------------------
(* The upload of a generation: through the server (PUT, mode local), or to  *)
(* the store by a signed URL and then completed (POST).                     *)

Uploading(g, from, to) ==
  /\ upload[g] = from
  /\ upload' = [upload EXCEPT ![g] = to]
  /\ UNCHANGED <<mode, run, leases, attempts, revision, asset, copies, finalize, worker, rejected>>

ReadToken(g) ==
  /\ mode = "local"
  /\ Uploading(g, "sent", IF Uploadable(g) THEN "writing" ELSE "refused")
  /\ UNCHANGED <<grant, staged>>

(* What arrives may not be the file.                                        *)
Put(g, object) ==
  /\ IF mode = "local" THEN Uploading(g, "writing", "stored") ELSE Uploading(g, "sent", "put")
  /\ staged' = [staged EXCEPT ![g] = object]
  /\ UNCHANGED grant

(* The completion verifies the newest object; what the verifier turns down  *)
(* is removed.                                                              *)
Complete(g) ==
  /\ \/ Uploadable(g) /\ staged[g] = "good" /\ Uploading(g, "put", "stored") /\ UNCHANGED staged
     \/ /\ Uploadable(g) /\ staged[g] = "bad" /\ Uploading(g, "put", "refused")
        /\ staged' = [staged EXCEPT ![g] = "removed"]
     \/ ~Uploadable(g) /\ Uploading(g, "put", "refused") /\ UNCHANGED staged
  /\ UNCHANGED grant

(* markArtifactGrantUploadedForToken.                                       *)
MarkUploaded(g) ==
  \/ /\ Uploadable(g)
     /\ Uploading(g, "stored", "ok")
     /\ grant' = [grant EXCEPT !.state = "uploaded"]
     /\ UNCHANGED staged
  \/ /\ ~Uploadable(g)
     /\ Uploading(g, "stored", "refused")
     /\ staged' = IF mode = "local" THEN [staged EXCEPT ![g] = "removed"] ELSE staged
     /\ UNCHANGED grant

GrantExpires ==
  /\ grant.open
  /\ grant' = [grant EXCEPT !.open = FALSE]
  /\ UNCHANGED <<mode, run, leases, attempts, revision, asset, store, requests, worker, rejected>>

------------------------------------------------------------------------------
(* The finalize request.                                                    *)

Goes(q, from, r) ==
  /\ Final(q).at = from
  /\ finalize' = [finalize EXCEPT ![q] = r]
  /\ UNCHANGED <<mode, run, leases, attempts, upload, worker>>
To(q, at) == [Final(q) EXCEPT !.at = at]
Answer(q, with) ==
  [NoFinalize EXCEPT !.at = with, !.lease = Final(q).lease, !.landing = Final(q).landing]
Fails(q) == To(q, "recover")
Refuses(q) == [Fails(q) EXCEPT !.refused = TRUE]

Redeliver(g, i) ==
  /\ Final(<<g, i>>).at = "none" /\ i > 1 /\ Final(<<g, i - 1>>).at # "none"
  /\ Begin(<<g, i>>, Final(<<g, 1>>).lease)
  /\ UNCHANGED <<mode, run, leases, attempts, rows, store, upload, worker, rejected>>

(* The grant row as it is now, whatever generation the request is for.      *)
ReadGrant(q) ==
  /\ Goes(q, "read",
          CASE grant.state = "consumed" -> Answer(q, IF Holds(Final(q).lease) THEN "ok" ELSE "no")
            [] grant.state = "uploaded" -> [To(q, "staged") EXCEPT !.of = grant.generation]
            [] OTHER -> Answer(q, "no"))
  /\ UNCHANGED <<rows, store, rejected>>

VerifyStaged(q) ==
  /\ Final(q).at = "staged"
  /\ \/ staged[Final(q).of] = "good" /\ Goes(q, "staged", To(q, "copy")) /\ UNCHANGED rejected
     \/ /\ staged[Final(q).of] # "good" /\ Goes(q, "staged", Refuses(q))
        /\ rejected' = rejected \cup {Final(q).of}
  /\ UNCHANGED <<rows, store>>

(* get and putStaged: every put is a new version of its own.  An object may *)
(* be there though its put was not answered.                                *)
Copy(q, object) ==
  /\ Final(q).at = "copy" /\ staged[Final(q).of] = "good"
  /\ Goes(q, "copy", [To(q, "verify") EXCEPT !.copied = TRUE])
  /\ copies' = [copies EXCEPT ![q] = object]
  /\ UNCHANGED <<rows, staged, rejected>>
CopyUnanswered(q) ==
  /\ Final(q).at = "copy" /\ staged[Final(q).of] = "good"
  /\ Goes(q, "copy", Fails(q))
  /\ copies' = [copies EXCEPT ![q] = "good"]
  /\ UNCHANGED <<rows, staged, rejected>>

VerifyCopy(q) ==
  /\ \/ /\ copies[q] = "good" /\ Goes(q, "verify", [To(q, "commit") EXCEPT !.attempted = TRUE])
        /\ UNCHANGED rejected
     \/ /\ copies[q] = "bad" /\ Goes(q, "verify", Refuses(q))
        /\ rejected' = rejected \cup {Final(q).of}
  /\ UNCHANGED <<rows, store>>

(* The object is not there to be copied, or the store does not answer.      *)
(* Some of the adapters (stat and get of storage.ts) report either as an    *)
(* object that is missing or has changed, which is the verifier's refusal.  *)
NotHad(q, from) ==
  /\ \/ Goes(q, from, Fails(q)) /\ UNCHANGED rejected
     \/ Goes(q, from, Refuses(q)) /\ rejected' = rejected \cup {Final(q).of}
  /\ UNCHANGED <<rows, store>>
StagedGone(q) ==
  Final(q).at = "copy" /\ staged[Final(q).of] # "good" /\ NotHad(q, "copy")
Unavailable(q) == \E from \in {"staged", "copy", "verify"} : NotHad(q, from)

(* finalizeArtifactReady: the locks, the checks of the grant, and the       *)
(* commit.  Its answer may be lost, before it is done or after.             *)
Finalizable(q) ==
  /\ Holds(Final(q).lease)
  /\ asset = NoRequest
  /\ Current(Final(q).of) /\ grant.state = "uploaded" /\ grant.open
FinalizeReady(q) ==
  IF Finalizable(q)
  THEN /\ asset' = q
       /\ grant' = [grant EXCEPT !.state = "consumed"]
       /\ revision' = "ready"
  ELSE UNCHANGED rows

Commit(q) ==
  /\ Goes(q, "commit", IF Finalizable(q) THEN To(q, "tidy") ELSE Fails(q))
  /\ FinalizeReady(q)
  /\ UNCHANGED <<store, rejected>>
CommitUnanswered(q) ==
  /\ Goes(q, "commit", [Fails(q) EXCEPT !.landing = TRUE])
  /\ UNCHANGED <<rows, store, rejected>>
Land(q) ==
  /\ Final(q).landing
  /\ finalize' = [finalize EXCEPT ![q].landing = FALSE]
  /\ FinalizeReady(q)
  /\ UNCHANGED <<mode, run, leases, attempts, store, upload, worker, rejected>>

(* Every removal is best effort: done or not.                               *)
RemovesStaged(g, done) == staged' = IF done THEN [staged EXCEPT ![g] = "removed"] ELSE staged
RemovesCopy(q, done) ==
  copies' = IF done /\ Final(q).copied THEN [copies EXCEPT ![q] = "removed"] ELSE copies

Tidy(q, done) ==
  /\ Goes(q, "tidy", Answer(q, "ok"))
  /\ RemovesStaged(Final(q).of, done)
  /\ UNCHANGED <<rows, copies, rejected>>

(* What the grant row says decides whether the copy may be needed.          *)
Unsure(q) == Final(q).attempted
Recover(q) ==
  /\ Goes(q, "recover", CASE grant.state = "consumed" -> To(q, "compare")
                          [] grant.state # "consumed" /\ Unsure(q) -> Answer(q, "retry")
                          [] OTHER -> To(q, "discard"))
  /\ UNCHANGED <<rows, store, rejected>>
CannotTell(q) ==
  /\ Goes(q, "recover", Answer(q, "retry"))
  /\ UNCHANGED <<rows, store, rejected>>

Compare(q, done) ==
  /\ IF Holds(Final(q).lease)
     THEN /\ Goes(q, "compare", Answer(q, "ok"))
          /\ IF asset # q THEN RemovesCopy(q, done) ELSE UNCHANGED copies
     ELSE Goes(q, "compare", Answer(q, "retry")) /\ UNCHANGED copies
  /\ UNCHANGED <<rows, staged, rejected>>

Discard(q, done) ==
  /\ Goes(q, "discard", IF Final(q).refused THEN To(q, "reject") ELSE Answer(q, "retry"))
  /\ RemovesCopy(q, done)
  /\ UNCHANGED <<rows, staged, rejected>>

(* Only the verifier's refusal closes the generation.                       *)
Reject(q, done) ==
  /\ Goes(q, "reject", To(q, "mark"))
  /\ RemovesStaged(Final(q).of, done)
  /\ UNCHANGED <<rows, copies, rejected>>

Failable(q) ==
  revision # "ready" /\ Current(Final(q).of) /\ grant.state = "uploaded"
MarkFailed(q) == revision' = "failed" /\ UNCHANGED <<grant, asset>>
Mark(q) ==
  /\ Goes(q, "mark", Answer(q, "no"))
  /\ IF Failable(q) THEN MarkFailed(q) ELSE UNCHANGED rows
  /\ UNCHANGED <<store, rejected>>
MarkLost(q) ==
  /\ Goes(q, "mark", Answer(q, "no"))
  /\ UNCHANGED <<rows, store, rejected>>

------------------------------------------------------------------------------
Init ==
  /\ mode \in {"local", "direct"}
  /\ run = [active |-> TRUE, lease |-> 0] /\ leases = 0
  /\ attempts = 0
  /\ revision = "none"
  /\ grant = [state |-> "none", generation |-> 0, open |-> FALSE]
  /\ asset = NoRequest
  /\ staged = [g \in Generations |-> "none"] /\ copies = [q \in Requests |-> "none"]
  /\ upload = [g \in Generations |-> "none"]
  /\ finalize = [q \in Requests |-> NoFinalize]
  /\ worker = [l \in Leases |-> [at |-> "idle", generation |-> 0]]
  /\ rejected = {} /\ faults = 0

Removing(done) ==
  \E q \in Requests : Tidy(q, done) \/ Compare(q, done) \/ Discard(q, done) \/ Reject(q, done)

Course ==
  \/ Claim \/ Removing(TRUE)
  \/ \E l \in Leases :
       \/ Admit(l) \/ AskRevision(l) \/ AskGrant(l) \/ UploadAnswered(l)
       \/ FinalizeAnswered(l) \/ Announce(l)
  \/ \E g \in Generations : ReadToken(g) \/ Put(g, "good") \/ Complete(g) \/ MarkUploaded(g)
  \/ \E q \in Requests :
       \/ ReadGrant(q) \/ VerifyStaged(q) \/ Copy(q, "good") \/ StagedGone(q) \/ VerifyCopy(q)
       \/ Commit(q) \/ Land(q) \/ Recover(q) \/ Mark(q)

Trouble ==
  \/ Lapse \/ Stop \/ GrantExpires \/ Removing(FALSE)
  \/ \E l \in Leases : TryAgain(l)
  \/ \E g \in Generations : Put(g, "bad") \/ \E i \in 1..MaxDeliveries : Redeliver(g, i)
  \/ \E q \in Requests :
       \/ Copy(q, "bad") \/ CopyUnanswered(q) \/ Unavailable(q)
       \/ CommitUnanswered(q) \/ CannotTell(q) \/ MarkLost(q)

Next ==
  \/ Course /\ UNCHANGED faults
  \/ Trouble /\ faults < MaxFaults /\ faults' = faults + 1

Spec == Init /\ [][Next]_vars

------------------------------------------------------------------------------
(* A file is ready exactly when an asset names it, the verified object the  *)
(* asset names is in the store and stays there -- none of the finalize      *)
(* requests that ran beside the one that won, or that lost sight of their   *)
(* own transaction, takes it for a copy of no use (finalize/+server.ts) --  *)
(* and it is announced only when it is ready.                               *)
ReadyHasItsObject ==
  /\ (revision = "ready") <=> (asset # NoRequest)
  /\ asset # NoRequest => copies[asset] = "good"
  /\ \A l \in Leases : worker[l].at = "told" => revision = "ready"

(* A file becomes ready only while the run is active, whatever happened     *)
(* while its objects were copied and verified; and from then on neither its *)
(* status nor its asset changes, whatever requests arrive late              *)
(* (lockArtifactRunLease, finalizeArtifactReady, markArtifactFailed).       *)
ReadyInTimeForGood ==
  [][/\ revision # "ready" /\ revision' = "ready" => run.active
     /\ revision = "ready" => revision' = "ready" /\ asset' = asset]_vars

(* A file is marked failed only for an upload of the grant's present        *)
(* generation that the verifier turned down, be it because the store did    *)
(* not produce the object: a finalize request that was slow to fail does    *)
(* not end the attempt that has replaced its own (markArtifactFailed, its   *)
(* generation).                                                             *)
FailureIsCurrent == revision = "failed" => grant.generation \in rejected

=============================================================================
