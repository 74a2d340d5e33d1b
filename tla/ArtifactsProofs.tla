--------------------------- MODULE ArtifactsProofs ---------------------------
(***************************************************************************)
(* The publication of a file, for every number of attempts, leases,        *)
(* deliveries and faults: it is typed, a ready file keeps the object its   *)
(* asset names, becomes ready only for an active run and stays so, and a   *)
(* failed one was turned down in the grant's present generation.           *)
(*                                                                         *)
(* The argument is PublicationInv.  Status, grant and asset change as one  *)
(* (RowsAgree); the copy of a request that has the asset, or may still get *)
(* it, is good (CopyKept), and such a request knows that it tried to       *)
(* commit, so that it never discards (KnowsItTried); a refusal is of a     *)
(* generation the verifier rejected (RefusalKnown); and a generation is    *)
(* finalized for the first time once (BegunOnce).                          *)
(***************************************************************************)
EXTENDS Artifacts, FiniteSetTheorems, TLAPS

AskingOnes == {l \in Leases : worker[l].at \in {"asked", "revised"}}

(* Every grant that is or may still be asked for was paid for by an attempt, *)
(* and only an issued grant and what it uploaded are looked at.              *)
Numbered ==
  /\ grant.generation + Cardinality(AskingOnes) <= attempts
  /\ grant.state # "none" => grant.generation > 0
  /\ \A q \in Requests : Final(q).at \in {"staged", "copy", "verify"} => Final(q).of > 0

FinalizeRows ==
  [at : FinalizeSteps, lease : 0..MaxLeases, of : 0..MaxAttempts,
   copied : BOOLEAN, attempted : BOOLEAN, landing : BOOLEAN, refused : BOOLEAN]
WorkerRows == [at : WorkerSteps, generation : 0..MaxAttempts]

LEMMA Constants ==
  /\ MaxAttempts \in Nat /\ MaxLeases \in Nat /\ MaxDeliveries \in Nat /\ MaxFaults \in Nat
  /\ \A q \in Requests : q # NoRequest /\ q[1] \in Generations
<1>1. MaxDeliveries \in Nat
  BY ArtifactsAssumption
<1>2. ASSUME NEW q \in Requests PROVE q # NoRequest /\ q[1] \in Generations
  BY <1>1 DEF Requests, Generations, NoRequest
<1> QED
  BY <1>1, <1>2, ArtifactsAssumption

(* A finalize request goes from a legal row to a legal row.                 *)
LEMMA RowTyped ==
  ASSUME TypeOK, NEW q \in Requests, NEW at \in FinalizeSteps
  PROVE  /\ Final(q) \in FinalizeRows
         /\ To(q, at) \in FinalizeRows
         /\ Answer(q, at) \in FinalizeRows
         /\ "recover" \in FinalizeSteps
         /\ Fails(q) \in FinalizeRows
         /\ Refuses(q) \in FinalizeRows
<1>1. Final(q) \in FinalizeRows
  BY DEF TypeOK, Final, FinalizeRows
<1>2. "recover" \in FinalizeSteps /\ "none" \in FinalizeSteps
  BY DEF FinalizeSteps
<1>3. To(q, at) \in FinalizeRows
  BY <1>1 DEF To, FinalizeRows
<1>4. Fails(q) \in FinalizeRows
  BY <1>1, <1>2 DEF Fails, To, FinalizeRows
<1>5. Refuses(q) \in FinalizeRows
  BY <1>4 DEF Refuses, FinalizeRows
<1>6. Answer(q, at) \in FinalizeRows
  <2>1. NoFinalize \in FinalizeRows
    BY <1>2, Constants DEF NoFinalize, FinalizeRows
  <2>2. Answer(q, at) =
          [[[NoFinalize EXCEPT !.at = at] EXCEPT !.lease = Final(q).lease] EXCEPT !.landing = Final(q).landing]
    BY DEF Answer
  <2> QED
    BY <1>1, <2>1, <2>2 DEF FinalizeRows
<1> QED
  BY <1>1, <1>2, <1>3, <1>4, <1>5, <1>6

LEMMA BeginTyped ==
  ASSUME TypeOK, NEW q, NEW l \in 0..MaxLeases, Begin(q, l)
  PROVE  /\ finalize' \in [Requests -> FinalizeRows]
         /\ \A p \in Requests : IF p = q THEN finalize'[p] = [NoFinalize EXCEPT !.at = "read", !.lease = l]
                                        ELSE finalize'[p] = finalize[p]
         /\ \A p \in Requests : finalize'[p] = finalize[p] \/ finalize'[p].at = "read"
<1> DEFINE row == [NoFinalize EXCEPT !.at = "read", !.lease = l]
<1>1. row \in FinalizeRows /\ row.at = "read"
  <2>1. NoFinalize \in FinalizeRows /\ "read" \in FinalizeSteps
    BY Constants DEF NoFinalize, FinalizeRows, FinalizeSteps
  <2> QED
    BY <2>1 DEF FinalizeRows
<1>2. finalize \in [Requests -> FinalizeRows] /\ finalize' = [finalize EXCEPT ![q] = row]
  BY DEF TypeOK, FinalizeRows, Begin
<1> HIDE DEF row
<1>3. finalize' \in [Requests -> FinalizeRows] /\ \A p \in Requests : finalize'[p] = IF p = q THEN row ELSE finalize[p]
  BY <1>1, <1>2
<1> QED
  BY <1>1, <1>3 DEF row

LEMMA GoesTyped ==
  ASSUME TypeOK, NEW q \in Requests, NEW from, NEW r \in FinalizeRows, Goes(q, from, r)
  PROVE  /\ finalize' \in [Requests -> FinalizeRows]
         /\ finalize' = [finalize EXCEPT ![q] = r]
         /\ Final(q).at = from
         /\ UNCHANGED <<mode, run, leases, attempts, upload, worker>>
<1>1. finalize \in [Requests -> FinalizeRows]
  BY DEF TypeOK, FinalizeRows
<1> QED
  BY <1>1 DEF Goes

(* How a step of one worker changes the number of workers that ask.         *)
LEMMA AskingFinite ==
  \A S \in SUBSET Leases : IsFiniteSet(S) /\ Cardinality(S) \in Nat
<1>1. IsFiniteSet(Leases)
  BY FS_Interval, Constants DEF Leases
<1> QED
  BY <1>1, FS_Subset, FS_CardinalityType

LEMMA WorkerMoves ==
  ASSUME TypeOK, NEW l \in Leases, NEW row \in WorkerRows, worker' = [worker EXCEPT ![l] = row]
  PROVE  /\ worker' \in [Leases -> WorkerRows]
         /\ Cardinality(AskingOnes) \in Nat /\ Cardinality(AskingOnes') \in Nat
         /\ Cardinality(AskingOnes') =
              IF row.at \in {"asked", "revised"} <=> worker[l].at \in {"asked", "revised"}
              THEN Cardinality(AskingOnes)
              ELSE IF row.at \in {"asked", "revised"} THEN Cardinality(AskingOnes) + 1
                                                     ELSE Cardinality(AskingOnes) - 1
<1>1. worker \in [Leases -> WorkerRows]
  BY DEF TypeOK, WorkerRows
<1>2. AskingOnes \subseteq Leases /\ AskingOnes' \subseteq Leases
  BY DEF AskingOnes
<1>3. /\ IsFiniteSet(AskingOnes) /\ Cardinality(AskingOnes) \in Nat
      /\ Cardinality(AskingOnes') \in Nat
  BY <1>2, AskingFinite
<1>4. CASE row.at \in {"asked", "revised"} <=> worker[l].at \in {"asked", "revised"}
  <2>1. AskingOnes' = AskingOnes
    BY <1>1, <1>4 DEF AskingOnes
  <2> QED
    BY <1>1, <1>3, <1>4, <2>1
<1>5. CASE row.at \in {"asked", "revised"} /\ worker[l].at \notin {"asked", "revised"}
  <2>1. AskingOnes' = AskingOnes \cup {l} /\ l \notin AskingOnes
    BY <1>1, <1>5 DEF AskingOnes
  <2>2. Cardinality(AskingOnes') = Cardinality(AskingOnes) + 1
    BY <1>3, <2>1, FS_AddElement
  <2> QED
    BY <1>1, <1>3, <1>5, <2>2
<1>6. CASE row.at \notin {"asked", "revised"} /\ worker[l].at \in {"asked", "revised"}
  <2>1. AskingOnes' = AskingOnes \ {l} /\ l \in AskingOnes
    BY <1>1, <1>6 DEF AskingOnes
  <2>2. Cardinality(AskingOnes') = Cardinality(AskingOnes) - 1
    BY <1>3, <2>1, FS_RemoveElement
  <2> QED
    BY <1>1, <1>3, <1>6, <2>2
<1> QED
  BY <1>4, <1>5, <1>6

LEMMA StepMoves ==
  ASSUME TypeOK, NEW l \in Leases, NEW at \in WorkerSteps, Step(l, at)
  PROVE  /\ [worker[l] EXCEPT !.at = at] \in WorkerRows
         /\ [worker[l] EXCEPT !.at = at].at = at
         /\ worker' = [worker EXCEPT ![l] = [worker[l] EXCEPT !.at = at]]
         /\ worker' \in [Leases -> WorkerRows]
         /\ \A k \in Leases : worker'[k].generation = worker[k].generation
         /\ \A k \in Leases : worker'[k].at = IF k = l THEN at ELSE worker[k].at
<1>1. worker \in [Leases -> WorkerRows] /\ worker[l] \in WorkerRows
  BY DEF TypeOK, WorkerRows
<1>2. [worker[l] EXCEPT !.at = at] \in WorkerRows /\ [worker[l] EXCEPT !.at = at].at = at
      /\ [worker[l] EXCEPT !.at = at].generation = worker[l].generation
  BY <1>1 DEF WorkerRows
<1>3. worker' = [worker EXCEPT ![l] = [worker[l] EXCEPT !.at = at]]
  BY DEF Step
<1> QED
  BY <1>1, <1>2, <1>3

------------------------------------------------------------------------------
(* Types.                                                                   *)

Typed == TypeOK /\ Numbered
RunStates == [active : BOOLEAN, lease : 0..MaxLeases]
GrantStates == [state : {"none", "issued", "uploaded", "consumed"},
                generation : 0..MaxAttempts, open : BOOLEAN]

LEMMA TypedInit == Init => Typed
<1> SUFFICES ASSUME Init PROVE Typed
  OBVIOUS
<1>1. NoFinalize \in FinalizeRows
  BY Constants DEF NoFinalize, FinalizeRows, FinalizeSteps
<1>2. finalize \in [Requests -> FinalizeRows]
  BY <1>1 DEF Init
<1>3. /\ run \in RunStates /\ grant \in GrantStates
      /\ worker \in [Leases -> WorkerRows]
  BY Constants DEF Init, RunStates, GrantStates, WorkerRows, WorkerSteps
<1>4. TypeOK
  BY <1>2, <1>3, Constants
     DEF Init, TypeOK, FinalizeRows, RunStates, GrantStates, WorkerRows, NoRequest, Objects, UploadSteps
<1>5. AskingOnes = {}
  BY DEF Init, AskingOnes
<1>6. Cardinality(AskingOnes) = 0
  BY <1>5, FS_EmptySet
<1> QED
  BY <1>4, <1>6 DEF Init, Typed, Numbered, Final, NoFinalize

(* A step that leaves the requests, the grant's numbers and the workers alone. *)
LEMMA NumbersKept ==
  ASSUME Typed, UNCHANGED <<attempts, worker, finalize>>,
         grant'.generation = grant.generation, grant'.state # "none" => grant.state # "none"
  PROVE  Numbered'
<1>1. AskingOnes' = AskingOnes
  BY DEF AskingOnes
<1> QED
  BY <1>1 DEF Typed, Numbered, Final

LEMMA TypedByRun ==
  ASSUME Typed, Claim \/ Lapse \/ Stop \/ GrantExpires, faults' \in 0..MaxFaults
  PROVE  Typed'
<1>t. run \in RunStates /\ grant \in GrantStates /\ leases \in 0..MaxLeases
  BY DEF Typed, TypeOK, RunStates, GrantStates
<1>1. run' \in RunStates /\ leases' \in 0..MaxLeases
  <2>1. CASE Claim
    <3>1. leases + 1 \in 0..MaxLeases
      BY <1>t, <2>1, Constants DEF Claim
    <3> QED
      BY <1>t, <2>1, <3>1 DEF Claim, RunStates
  <2>2. CASE Lapse
    BY <1>t, <2>2, Constants DEF Lapse, RunStates
  <2>3. CASE Stop \/ GrantExpires
    BY <1>t, <2>3 DEF Stop, GrantExpires, RunStates
  <2> QED
    BY <2>1, <2>2, <2>3
<1>2. grant' \in GrantStates /\ grant'.generation = grant.generation /\ grant'.state = grant.state
  BY <1>t DEF Claim, Lapse, Stop, GrantExpires, GrantStates, rows
<1>3. /\ UNCHANGED <<mode, attempts, revision, asset, staged, copies, upload>>
      /\ UNCHANGED <<finalize, worker, rejected>>
  BY DEF Claim, Lapse, Stop, GrantExpires, rows, store, requests
<1>4. TypeOK'
  BY <1>1, <1>2, <1>3 DEF Typed, TypeOK, RunStates, GrantStates
<1> QED
  BY <1>2, <1>3, <1>4, NumbersKept DEF Typed

LEMMA TypedByWorker ==
  ASSUME Typed, NEW l \in Leases, faults' \in 0..MaxFaults,
         Admit(l) \/ AskRevision(l) \/ AskGrant(l) \/ UploadAnswered(l)
         \/ FinalizeAnswered(l) \/ TryAgain(l) \/ Announce(l)
  PROVE  Typed'
<1> USE Constants
<1>t. /\ TypeOK /\ attempts \in 0..MaxAttempts /\ grant \in GrantStates
      /\ worker \in [Leases -> WorkerRows] /\ finalize \in [Requests -> FinalizeRows]
      /\ grant.generation + Cardinality(AskingOnes) <= attempts
      /\ grant.state # "none" => grant.generation > 0
      /\ \A q \in Requests : Final(q).at \in {"staged", "copy", "verify"} => Final(q).of > 0
  BY DEF Typed, TypeOK, GrantStates, WorkerRows, FinalizeRows, Numbered
<1>s. ASSUME NEW at \in WorkerSteps, Step(l, at), UNCHANGED <<mode, run, leases, asset, grant>>,
             UNCHANGED <<staged, copies, upload, finalize, rejected>>,
             revision' \in {"none", "draft", "publishing", "ready", "failed"},
             \/ /\ attempts' = attempts
                /\ at \in {"asked", "revised"} => worker[l].at \in {"asked", "revised"}
             \/ attempts' = attempts + 1 /\ attempts' <= MaxAttempts
      PROVE  Typed'
  <2>1. /\ worker' \in [Leases -> WorkerRows] /\ Cardinality(AskingOnes) \in Nat
        /\ grant'.generation + Cardinality(AskingOnes') <= attempts'
    <3> DEFINE row == [worker[l] EXCEPT !.at = at]
    <3>1. row \in WorkerRows /\ row.at = at /\ worker' = [worker EXCEPT ![l] = row]
      BY <1>t, <1>s, StepMoves
    <3> HIDE DEF row
    <3>2. grant.generation \in Nat /\ attempts \in Nat
      BY <1>t DEF GrantStates
    <3> DEFINE c == Cardinality(AskingOnes)
    <3>3. /\ worker' \in [Leases -> WorkerRows] /\ c \in Nat /\ c' \in Nat
          /\ c' = IF at \in {"asked", "revised"} <=> worker[l].at \in {"asked", "revised"}
                  THEN c ELSE IF at \in {"asked", "revised"} THEN c + 1 ELSE c - 1
      BY <1>t, <3>1, WorkerMoves
    <3>4. grant.generation + c <= attempts /\ grant' = grant
      BY <1>s, <1>t
    <3> HIDE DEF c
    <3>5. grant'.generation + c' <= attempts'
      BY <1>s, <3>2, <3>3, <3>4
    <3> QED
      BY <3>3, <3>5 DEF c
  <2>2. TypeOK'
    BY <1>s, <1>t, <2>1 DEF TypeOK, WorkerRows
  <2> QED
    BY <1>s, <1>t, <2>1, <2>2 DEF Typed, Numbered, Final
<1>1. CASE Admit(l)
  <2>1. Step(l, "asked") /\ "asked" \in WorkerSteps
    BY <1>1 DEF Admit, WorkerSteps
  <2> QED
    BY <1>1, <1>s, <1>t, <2>1 DEF Admit, rows, store, requests, TypeOK
<1>2. CASE AskRevision(l)
  <2>1. PICK at \in {"ready", "revised", "over"} : Step(l, at)
    BY <1>2 DEF AskRevision
  <2> QED
    BY <1>2, <1>s, <1>t, <2>1 DEF AskRevision, store, requests, TypeOK, WorkerSteps
<1>3. CASE AskGrant(l) /\ Step(l, "over") /\ UNCHANGED <<rows, upload>>
  BY <1>3, <1>s, <1>t DEF AskGrant, rows, store, TypeOK, WorkerSteps
<1>4. CASE AskGrant(l) /\ ~(Step(l, "over") /\ UNCHANGED <<rows, upload>>)
  <2> DEFINE g == grant.generation + 1
            row == [at |-> "uploading", generation |-> g]
  <2>1. /\ worker[l].at = "revised" /\ Reissue
        /\ upload' = [upload EXCEPT ![g] = "sent"]
        /\ worker' = [worker EXCEPT ![l] = row]
        /\ UNCHANGED <<mode, run, leases, attempts, store, finalize, rejected>>
    BY <1>4 DEF AskGrant
  <2>2. g \in 0..MaxAttempts
    <3>1. worker[l].at \in {"asked", "revised"} /\ [worker[l] EXCEPT !.at = "idle"] \in WorkerRows
          /\ [worker[l] EXCEPT !.at = "idle"].at = "idle"
      BY <1>t, <2>1 DEF WorkerRows, WorkerSteps
    <3>2. l \in AskingOnes /\ AskingOnes \subseteq Leases
      BY <3>1 DEF AskingOnes
    <3>3. IsFiniteSet(AskingOnes) /\ Cardinality(AskingOnes) \in Nat /\ Cardinality(AskingOnes) # 0
      BY <3>2, AskingFinite, FS_EmptySet
    <3>4. grant.generation \in Nat /\ attempts \in Nat /\ attempts <= MaxAttempts
      BY <1>t DEF GrantStates
    <3> QED
      BY <1>t, <3>3, <3>4
  <2>3. row \in WorkerRows /\ row.at = "uploading"
    BY <2>2 DEF WorkerRows, WorkerSteps
  <2>4. grant' \in GrantStates /\ grant'.generation = g /\ g > 0
    BY <1>t, <2>1, <2>2 DEF Reissue, GrantStates
  <2>5. /\ worker' \in [Leases -> WorkerRows]
        /\ g + Cardinality(AskingOnes)' <= attempts
    <3> HIDE DEF row, g
    <3>1. /\ worker' \in [Leases -> WorkerRows] /\ Cardinality(AskingOnes) \in Nat
          /\ Cardinality(AskingOnes') = Cardinality(AskingOnes) - 1
      BY <1>t, <2>1, <2>3, WorkerMoves
    <3>2. g = grant.generation + 1 /\ grant.generation \in Nat
      BY <1>t DEF g, GrantStates
    <3> QED
      BY <1>t, <3>1, <3>2
  <2>6. upload' \in [Generations -> UploadSteps]
    BY <1>t, <2>1 DEF TypeOK, UploadSteps
  <2>7. TypeOK'
    BY <1>t, <2>1, <2>4, <2>5, <2>6 DEF TypeOK, Reissue, GrantStates, WorkerRows, store
  <2> QED
    BY <1>t, <2>1, <2>4, <2>5, <2>7 DEF Typed, Numbered, Final
<1>5. CASE UploadAnswered(l)
  <2>1. PICK at \in {"finalizing", "over"} : Step(l, at)
    BY <1>5 DEF UploadAnswered
  <2>2. CASE UNCHANGED finalize
    BY <1>5, <1>s, <1>t, <2>1, <2>2 DEF UploadAnswered, rows, store, TypeOK, WorkerSteps
  <2>3. CASE Begin(<<worker[l].generation, 1>>, l)
    <3>1. /\ finalize' \in [Requests -> FinalizeRows]
          /\ \A q \in Requests : finalize'[q] = finalize[q] \/ finalize'[q].at = "read"
      <4>1. l \in 0..MaxLeases
        BY DEF Leases
      <4> QED
        BY <1>t, <2>3, <4>1, BeginTyped
    <3>2. UNCHANGED <<mode, run, leases, attempts, rows, store, upload, rejected>>
      BY <1>5 DEF UploadAnswered
    <3>3. /\ worker' \in [Leases -> WorkerRows]
          /\ Cardinality(AskingOnes') <= Cardinality(AskingOnes)
      <4> DEFINE row == [worker[l] EXCEPT !.at = at]
      <4>1. /\ row \in WorkerRows /\ row.at = at /\ worker' = [worker EXCEPT ![l] = row]
            /\ worker[l].at = "uploading"
        <5>1. at \in WorkerSteps /\ worker[l].at = "uploading"
          BY <1>5 DEF WorkerSteps, UploadAnswered
        <5> QED
          BY <1>t, <2>1, <5>1, StepMoves
      <4> HIDE DEF row
      <4> QED
        <5>1. ~(row.at \in {"asked", "revised"}) /\ ~(worker[l].at \in {"asked", "revised"})
          BY <2>1, <4>1
        <5> DEFINE c == Cardinality(AskingOnes)
        <5>3. /\ worker' \in [Leases -> WorkerRows] /\ c \in Nat /\ c' \in Nat
              /\ c' = IF row.at \in {"asked", "revised"} <=> worker[l].at \in {"asked", "revised"}
                      THEN c ELSE IF row.at \in {"asked", "revised"} THEN c + 1 ELSE c - 1
          BY <1>t, <4>1, WorkerMoves
        <5> HIDE DEF c
        <5>4. c' <= c
          BY <5>1, <5>3
        <5> QED
          BY <5>3, <5>4 DEF c
    <3>4. Cardinality(AskingOnes) \in Nat /\ Cardinality(AskingOnes') \in Nat
      BY AskingFinite DEF AskingOnes
    <3>5. grant.generation \in Nat /\ attempts \in Nat
      BY <1>t DEF GrantStates
    <3>6. TypeOK'
      BY <1>t, <3>1, <3>2, <3>3 DEF TypeOK, FinalizeRows, WorkerRows, rows, store
    <3> QED
      BY <1>t, <3>1, <3>2, <3>3, <3>4, <3>5, <3>6 DEF Typed, Numbered, Final, rows
  <2> QED
    BY <1>5, <2>2, <2>3 DEF UploadAnswered
<1>6. CASE FinalizeAnswered(l) \/ TryAgain(l) \/ Announce(l)
  <2>1. PICK at \in {"ready", "idle", "over", "told"} : Step(l, at)
    BY <1>6 DEF FinalizeAnswered, TryAgain, Announce
  <2>2. UNCHANGED <<mode, run, leases, attempts, rows, store, requests, rejected>>
    BY <1>6 DEF FinalizeAnswered, TryAgain, Announce
  <2> QED
    BY <1>s, <1>t, <2>1, <2>2 DEF rows, store, requests, TypeOK, WorkerSteps
<1> QED
  BY <1>1, <1>2, <1>3, <1>4, <1>5, <1>6 DEF AskGrant

LEMMA TypedByUpload ==
  ASSUME Typed, NEW g \in Generations, faults' \in 0..MaxFaults,
         \/ ReadToken(g) \/ Put(g, "good") \/ Put(g, "bad") \/ Complete(g) \/ MarkUploaded(g)
         \/ \E i \in 1..MaxDeliveries : Redeliver(g, i)
  PROVE  Typed'
<1>t. /\ TypeOK /\ grant \in GrantStates /\ staged \in [Generations -> Objects]
      /\ upload \in [Generations -> UploadSteps]
  BY DEF Typed, TypeOK, GrantStates
<1>1. CASE ReadToken(g) \/ Put(g, "good") \/ Put(g, "bad") \/ Complete(g) \/ MarkUploaded(g)
  <2>1. PICK from \in UploadSteps, to \in UploadSteps : Uploading(g, from, to)
    BY <1>1 DEF ReadToken, Put, Complete, MarkUploaded, UploadSteps
  <2>2. upload' \in [Generations -> UploadSteps]
    BY <1>t, <2>1 DEF Uploading
  <2>3. UNCHANGED staged \/ \E object \in Objects : staged' = [staged EXCEPT ![g] = object]
    BY <1>1 DEF ReadToken, Put, Complete, MarkUploaded, Objects
  <2>4. staged' \in [Generations -> Objects]
    BY <1>t, <2>3
  <2>5. UNCHANGED grant \/ (grant.state = "issued" /\ grant' = [grant EXCEPT !.state = "uploaded"])
    BY <1>1 DEF ReadToken, Put, Complete, MarkUploaded, Uploadable
  <2>6. /\ grant' \in GrantStates /\ grant'.generation = grant.generation
        /\ grant'.state # "none" => grant.state # "none"
    BY <1>t, <2>5 DEF GrantStates
  <2>7. TypeOK'
    BY <1>t, <2>1, <2>2, <2>4, <2>6 DEF TypeOK, Uploading, GrantStates
  <2> QED
    BY <2>1, <2>6, <2>7, NumbersKept DEF Typed, Uploading
<1>2. ASSUME NEW i \in 1..MaxDeliveries, Redeliver(g, i) PROVE Typed'
  <2>1. Final(<<g, 1>>).lease \in 0..MaxLeases
    <3>1. <<g, 1>> \in Requests
      BY ArtifactsAssumption DEF Requests
    <3> QED
      BY <1>t, <3>1 DEF TypeOK, Final
  <2>2. /\ finalize' \in [Requests -> FinalizeRows]
        /\ \A q \in Requests : finalize'[q] = finalize[q] \/ finalize'[q].at = "read"
    BY <1>2, <1>t, <2>1, BeginTyped DEF Redeliver
  <2>3. UNCHANGED <<mode, run, leases, attempts, rows, store, upload, worker, rejected>>
    BY <1>2 DEF Redeliver
  <2>4. TypeOK'
    BY <1>t, <2>2, <2>3 DEF TypeOK, FinalizeRows, rows, store
  <2>5. AskingOnes' = AskingOnes
    BY <2>3 DEF AskingOnes
  <2> QED
    BY <2>2, <2>3, <2>4, <2>5 DEF Typed, Numbered, Final, rows
<1> QED
  BY <1>1, <1>2

(* A step of a finalize request.                                            *)
LEMMA TypedByFinalize ==
  ASSUME Typed, NEW q \in Requests, NEW from, NEW r \in FinalizeRows, Goes(q, from, r),
         r.at \in {"staged", "copy", "verify"} => r.of > 0,
         revision' \in {"none", "draft", "publishing", "ready", "failed"},
         grant' = grant \/ (grant' = [grant EXCEPT !.state = "consumed"] /\ grant.state # "none"),
         asset' \in Requests \cup {NoRequest},
         staged' \in [Generations -> Objects], copies' \in [Requests -> Objects],
         rejected' \subseteq Generations, faults' \in 0..MaxFaults
  PROVE  Typed'
<1>1. /\ grant' \in GrantStates /\ grant'.generation = grant.generation
      /\ grant'.state # "none" => grant.state # "none"
  BY DEF Typed, TypeOK, GrantStates
<1>2. /\ finalize' \in [Requests -> FinalizeRows] /\ finalize' = [finalize EXCEPT ![q] = r]
      /\ finalize \in [Requests -> FinalizeRows]
      /\ UNCHANGED <<mode, run, leases, attempts, upload, worker>>
  BY GoesTyped DEF Typed, TypeOK, FinalizeRows
<1>3. TypeOK'
  BY <1>1, <1>2 DEF Typed, TypeOK, GrantStates, FinalizeRows
<1>4. AskingOnes' = AskingOnes
  BY <1>2 DEF AskingOnes
<1>5. \A p \in Requests : Final(p)'.at \in {"staged", "copy", "verify"} => Final(p)'.of > 0
  BY <1>2 DEF Typed, Numbered, Final
<1> QED
  BY <1>1, <1>2, <1>3, <1>4, <1>5 DEF Typed, Numbered

(* The verifier's work and the store's.                                     *)
LEMMA TypedByVerifier ==
  ASSUME Typed, NEW q \in Requests, faults' \in 0..MaxFaults,
         \/ ReadGrant(q) \/ VerifyStaged(q) \/ Copy(q, "good") \/ Copy(q, "bad")
         \/ CopyUnanswered(q) \/ StagedGone(q) \/ Unavailable(q) \/ VerifyCopy(q)
  PROVE  Typed'
<1>t. /\ TypeOK /\ Final(q) \in FinalizeRows
      /\ \A at \in FinalizeSteps : To(q, at) \in FinalizeRows /\ Answer(q, at) \in FinalizeRows
      /\ Fails(q) \in FinalizeRows /\ Refuses(q) \in FinalizeRows
      /\ {"staged", "copy", "verify", "commit", "ok", "no"} \subseteq FinalizeSteps
  BY RowTyped DEF Typed, FinalizeSteps
<1>n. /\ \A at \in FinalizeSteps : To(q, at).at = at /\ To(q, at).of = Final(q).of /\ Answer(q, at).at = at
      /\ Fails(q).at = "recover" /\ Refuses(q).at = "recover"
  BY <1>t DEF FinalizeRows, To, Answer, Fails, Refuses, NoFinalize
<1>o. Final(q).at \in {"staged", "copy", "verify"} => Final(q).of \in Generations
  BY <1>t, Constants DEF Typed, Numbered, FinalizeRows, Generations
<1>u. /\ revision \in {"none", "draft", "publishing", "ready", "failed"}
      /\ asset \in Requests \cup {NoRequest} /\ staged \in [Generations -> Objects]
      /\ copies \in [Requests -> Objects] /\ rejected \subseteq Generations
  BY DEF Typed, TypeOK
<1>1. CASE ReadGrant(q)
  <2> DEFINE r == CASE grant.state = "consumed" -> Answer(q, IF Holds(Final(q).lease) THEN "ok" ELSE "no")
                    [] grant.state = "uploaded" -> [To(q, "staged") EXCEPT !.of = grant.generation]
                    [] OTHER -> Answer(q, "no")
  <2>1. [To(q, "staged") EXCEPT !.of = grant.generation] \in FinalizeRows
        /\ [To(q, "staged") EXCEPT !.of = grant.generation].of = grant.generation
    BY <1>t DEF FinalizeRows, TypeOK
  <2>2. r \in FinalizeRows /\ (r.at \in {"staged", "copy", "verify"} => r.of > 0)
    <3>1. CASE grant.state = "uploaded"
      BY <2>1, <3>1 DEF Typed, Numbered
    <3>2. CASE grant.state # "uploaded"
      BY <1>t, <1>n, <3>2
    <3> QED
      BY <3>1, <3>2
  <2>3. Goes(q, "read", r) /\ UNCHANGED <<rows, store, rejected>>
    BY <1>1 DEF ReadGrant
  <2> HIDE DEF r
  <2> QED
    BY <1>u, <2>2, <2>3, TypedByFinalize DEF rows, store
<1>2. CASE VerifyStaged(q)
  <2>1. PICK r \in {To(q, "copy"), Refuses(q)} : Goes(q, "staged", r)
    BY <1>2 DEF VerifyStaged
  <2>2. r \in FinalizeRows /\ (r.at \in {"staged", "copy", "verify"} => r.of > 0)
    BY <1>t, <1>n, <1>2 DEF VerifyStaged, Typed, Numbered
  <2>3. rejected' \subseteq Generations /\ UNCHANGED <<rows, store>>
    BY <1>2, <1>o, <1>u DEF VerifyStaged
  <2> QED
    BY <1>u, <2>1, <2>2, <2>3, TypedByFinalize DEF rows, store
<1>3. CASE Copy(q, "good") \/ Copy(q, "bad") \/ CopyUnanswered(q)
  <2>1. PICK r \in {[To(q, "verify") EXCEPT !.copied = TRUE], Fails(q)} : Goes(q, "copy", r)
    BY <1>3 DEF Copy, CopyUnanswered
  <2>2. r \in FinalizeRows /\ (r.at \in {"staged", "copy", "verify"} => r.of > 0)
    <3>1. [To(q, "verify") EXCEPT !.copied = TRUE] \in FinalizeRows
          /\ [To(q, "verify") EXCEPT !.copied = TRUE].of = Final(q).of
      BY <1>t DEF FinalizeRows, To
    <3>2. Final(q).of > 0
      BY <1>3 DEF Copy, CopyUnanswered, Typed, Numbered
    <3> QED
      BY <1>t, <1>n, <3>1, <3>2
  <2>3. copies' \in [Requests -> Objects] /\ UNCHANGED <<rows, staged, rejected>>
    BY <1>3, <1>u DEF Copy, CopyUnanswered, Objects
  <2> QED
    BY <1>u, <2>1, <2>2, <2>3, TypedByFinalize DEF rows
<1>4. CASE StagedGone(q) \/ Unavailable(q)
  <2>1. PICK from \in {"staged", "copy", "verify"} : NotHad(q, from)
    BY <1>4 DEF StagedGone, Unavailable
  <2>2. PICK r \in {Fails(q), Refuses(q)} : Goes(q, from, r)
    BY <2>1 DEF NotHad
  <2>3. Final(q).of \in Generations
    BY <1>o, <2>2 DEF Goes
  <2>4. rejected' \subseteq Generations /\ UNCHANGED <<rows, store>>
    BY <1>u, <2>1, <2>3 DEF NotHad
  <2>5. r \in FinalizeRows /\ r.at = "recover"
    BY <1>t, <1>n
  <2> QED
    BY <1>u, <2>2, <2>4, <2>5, TypedByFinalize DEF rows, store
<1>5. CASE VerifyCopy(q)
  <2>1. PICK r \in {[To(q, "commit") EXCEPT !.attempted = TRUE], Refuses(q)} : Goes(q, "verify", r)
    BY <1>5 DEF VerifyCopy
  <2>2. r \in FinalizeRows /\ r.at \notin {"staged", "copy", "verify"}
    BY <1>t, <1>n DEF FinalizeRows, To
  <2>3. Final(q).at = "verify"
    BY <1>5 DEF VerifyCopy, Goes
  <2>4. rejected' \subseteq Generations /\ UNCHANGED <<rows, store>>
    BY <1>5, <1>o, <1>u, <2>3 DEF VerifyCopy
  <2> QED
    BY <1>u, <2>1, <2>2, <2>4, TypedByFinalize DEF rows, store
<1> QED
  BY <1>1, <1>2, <1>3, <1>4, <1>5

LEMMA TypedByCommit ==
  ASSUME Typed, NEW q \in Requests, faults' \in 0..MaxFaults,
         Commit(q) \/ CommitUnanswered(q) \/ Land(q) \/ Mark(q) \/ MarkLost(q)
  PROVE  Typed'
<1>t. /\ TypeOK /\ Final(q) \in FinalizeRows
      /\ To(q, "tidy") \in FinalizeRows /\ Answer(q, "no") \in FinalizeRows /\ Fails(q) \in FinalizeRows
  BY RowTyped DEF Typed, FinalizeSteps
<1>n. To(q, "tidy").at = "tidy" /\ Answer(q, "no").at = "no" /\ Fails(q).at = "recover"
  BY <1>t DEF FinalizeRows, To, Answer, Fails, NoFinalize
<1>u. /\ revision \in {"none", "draft", "publishing", "ready", "failed"}
      /\ asset \in Requests \cup {NoRequest} /\ staged \in [Generations -> Objects]
      /\ copies \in [Requests -> Objects] /\ rejected \subseteq Generations
  BY DEF Typed, TypeOK
<1>f. ASSUME FinalizeReady(q)
      PROVE  /\ revision' \in {"none", "draft", "publishing", "ready", "failed"}
             /\ grant' = grant \/ (grant' = [grant EXCEPT !.state = "consumed"] /\ grant.state # "none")
             /\ asset' \in Requests \cup {NoRequest}
  BY <1>f, <1>u DEF FinalizeReady, Finalizable, rows
<1>1. CASE Commit(q)
  <2>1. PICK r \in {To(q, "tidy"), Fails(q)} : Goes(q, "commit", r)
    BY <1>1 DEF Commit
  <2>2. FinalizeReady(q) /\ UNCHANGED <<store, rejected>>
    BY <1>1 DEF Commit
  <2> QED
    BY <1>f, <1>n, <1>t, <1>u, <2>1, <2>2, TypedByFinalize DEF store
<1>2. CASE CommitUnanswered(q)
  <2>1. [Fails(q) EXCEPT !.landing = TRUE] \in FinalizeRows /\ [Fails(q) EXCEPT !.landing = TRUE].at = "recover"
    BY <1>n, <1>t DEF FinalizeRows
  <2> QED
    BY <1>2, <1>u, <2>1, TypedByFinalize DEF CommitUnanswered, rows, store
<1>3. CASE Land(q)
  <2> DEFINE r == [Final(q) EXCEPT !.landing = FALSE]
  <2>1. r \in FinalizeRows /\ r.at = Final(q).at /\ r.of = Final(q).of
    BY <1>t DEF FinalizeRows
  <2>2. Goes(q, Final(q).at, r) /\ FinalizeReady(q) /\ UNCHANGED <<store, rejected>>
    BY <1>3 DEF Land, Goes, Final
  <2>3. r.at \in {"staged", "copy", "verify"} => r.of > 0
    BY <2>1 DEF Typed, Numbered
  <2> HIDE DEF r
  <2> QED
    BY <1>f, <1>u, <2>1, <2>2, <2>3, TypedByFinalize DEF store
<1>4. CASE Mark(q) \/ MarkLost(q)
  <2>1. Goes(q, "mark", Answer(q, "no")) /\ UNCHANGED <<grant, asset, store, rejected>>
    BY <1>4 DEF Mark, MarkLost, MarkFailed, rows
  <2>2. revision' \in {"none", "draft", "publishing", "ready", "failed"}
    BY <1>4, <1>u DEF Mark, MarkLost, MarkFailed, rows
  <2> QED
    BY <1>n, <1>t, <1>u, <2>1, <2>2, TypedByFinalize DEF store
<1> QED
  BY <1>1, <1>2, <1>3, <1>4

LEMMA TypedByCleaning ==
  ASSUME Typed, NEW q \in Requests, NEW done \in BOOLEAN, faults' \in 0..MaxFaults,
         \/ Tidy(q, done) \/ Compare(q, done) \/ Discard(q, done) \/ Reject(q, done)
         \/ Recover(q) \/ CannotTell(q)
  PROVE  Typed'
<1>t. /\ TypeOK /\ Final(q) \in FinalizeRows
      /\ \A at \in FinalizeSteps : To(q, at) \in FinalizeRows /\ Answer(q, at) \in FinalizeRows
      /\ {"compare", "discard", "reject", "mark", "ok", "retry"} \subseteq FinalizeSteps
  BY RowTyped DEF Typed, FinalizeSteps
<1>n. \A at \in FinalizeSteps : To(q, at).at = at /\ Answer(q, at).at = at
  BY <1>t DEF FinalizeRows, To, Answer, NoFinalize
<1>u. /\ revision \in {"none", "draft", "publishing", "ready", "failed"}
      /\ asset \in Requests \cup {NoRequest} /\ staged \in [Generations -> Objects]
      /\ copies \in [Requests -> Objects] /\ rejected \subseteq Generations
  BY DEF Typed, TypeOK
<1>1. PICK from, r : /\ Goes(q, from, r)
                     /\ \/ r \in {To(q, "compare"), To(q, "discard"), To(q, "reject"), To(q, "mark")}
                        \/ r \in {Answer(q, "ok"), Answer(q, "retry")}
  BY DEF Tidy, Compare, Discard, Reject, Recover, CannotTell
<1>2. r \in FinalizeRows /\ r.at \notin {"staged", "copy", "verify"}
  BY <1>1, <1>n, <1>t
<1>3. UNCHANGED rows /\ UNCHANGED rejected
  BY DEF Tidy, Compare, Discard, Reject, Recover, CannotTell
<1>4. staged' \in [Generations -> Objects] /\ copies' \in [Requests -> Objects]
  BY <1>u DEF Tidy, Compare, Discard, Reject, Recover, CannotTell, RemovesStaged, RemovesCopy, store, Objects
<1> QED
  BY <1>1, <1>2, <1>3, <1>4, <1>u, TypedByFinalize DEF rows

LEMMA TypedStep == Typed /\ [Next]_vars => Typed'
<1> SUFFICES ASSUME Typed, [Next]_vars PROVE Typed'
  OBVIOUS
<1>1. CASE Next
  <2>1. faults' \in 0..MaxFaults
    BY <1>1, Constants DEF Typed, TypeOK, Next
  <2> QED
    BY <1>1, <2>1, TypedByRun, TypedByWorker, TypedByUpload, TypedByVerifier, TypedByCommit,
       TypedByCleaning DEF Next, Course, Trouble, Removing
<1>2. CASE UNCHANGED vars
  <2>1. TypeOK' /\ AskingOnes' = AskingOnes
    BY <1>2 DEF Typed, TypeOK, vars, rows, store, requests, AskingOnes
  <2> QED
    BY <1>2, <2>1 DEF Typed, Numbered, Final, vars, rows, requests
<1> QED
  BY <1>1, <1>2

(* Every stored status, state and step stays one the code knows; above all, *)
(* no grant is issued beyond the attempts that were saved before it.        *)
THEOREM TypeCorrect == Spec => []TypeOK
<1>1. Typed => TypeOK
  BY DEF Typed
<1> QED
  BY <1>1, TypedInit, TypedStep, PTL DEF Spec

------------------------------------------------------------------------------
(* The inductive invariant of the publication.                              *)

(* Status, grant and asset change together.                                 *)
RowsAgree ==
  /\ (revision = "ready") <=> (asset # NoRequest)
  /\ (grant.state = "consumed") <=> (asset # NoRequest)
  /\ \A l \in Leases : worker[l].at = "told" => revision = "ready"

(* The object of a request that is to commit, has committed or may still    *)
(* commit is good.                                                          *)
CopyKept(q) ==
  Final(q).at = "commit" \/ asset = q \/ (Final(q).landing /\ asset = NoRequest) => copies[q] = "good"

(* A request that may have committed knows that it tried, and so never gets *)
(* to discard its copy.                                                     *)
Undecided == {"recover", "compare", "ok", "retry", "no"}
KnowsItTried(q) ==
  /\ asset = q => Final(q).at \in Undecided \cup {"tidy"}
  /\ Final(q).landing => Final(q).at \in Undecided
  /\ Final(q).at = "commit" => Final(q).attempted
  /\ Final(q).at = "recover" /\ (asset = q \/ Final(q).landing) => Final(q).attempted
  /\ Final(q).at = "discard" => ~Final(q).attempted
  /\ Final(q).at = "compare" => asset # NoRequest

(* A refusal is the verifier's, of the generation the request read.         *)
RefusalKnown(q) ==
  /\ Final(q).refused \/ Final(q).at \in {"reject", "mark"} => Final(q).of \in rejected
  /\ Final(q).at = "read" => ~Final(q).refused

RequestInv(q) == CopyKept(q) /\ KnowsItTried(q) /\ RefusalKnown(q)

(* The first finalize request of a generation is sent once, by the one      *)
(* worker that uploads it.                                                  *)
NotBegun(g) == \A i \in 1..MaxDeliveries : finalize[<<g, i>>].at = "none"
BegunOnce ==
  /\ \A g \in Generations : g > grant.generation => NotBegun(g)
  /\ \A l \in Leases : worker[l].at = "uploading" =>
       worker[l].generation \in 1..grant.generation /\ NotBegun(worker[l].generation)
  /\ \A k, l \in Leases : worker[k].at = "uploading" /\ worker[l].at = "uploading"
                          /\ worker[k].generation = worker[l].generation => k = l

PublicationInv ==
  /\ Typed /\ RowsAgree /\ FailureIsCurrent /\ BegunOnce
  /\ \A q \in Requests : RequestInv(q)

(* A step that makes or moves one request leaves what holds of the others.  *)
LEMMA OthersKeep ==
  ASSUME NEW p \in Requests, RequestInv(p), finalize'[p] = finalize[p], copies'[p] = copies[p],
         rejected \subseteq rejected', asset' = asset \/ (asset' # p /\ asset' # NoRequest /\ asset = NoRequest)
  PROVE  RequestInv(p)'
BY DEF RequestInv, CopyKept, KnowsItTried, RefusalKnown, Final

(* What the rows may become.                                                *)
RowsStep ==
  \/ UNCHANGED <<revision, asset>> /\ grant'.generation = grant.generation
     /\ (grant'.state = "consumed" <=> grant.state = "consumed")
  \/ revision = "none" /\ revision' = "draft" /\ UNCHANGED <<grant, asset>>
  \/ /\ revision \in {"draft", "publishing"} /\ revision' = "publishing"
     /\ grant.state # "consumed" /\ grant'.state # "consumed" /\ UNCHANGED asset
  \/ \E q \in Requests : /\ Finalizable(q) /\ asset' = q /\ revision' = "ready"
                         /\ grant'.state = "consumed" /\ grant'.generation = grant.generation
  \/ /\ revision # "ready" /\ revision' = "failed" /\ UNCHANGED <<grant, asset>>
     /\ grant.generation \in rejected

LEMMA RowsKeep ==
  ASSUME PublicationInv, RowsStep, rejected \subseteq rejected',
         \A l \in Leases : worker'[l].at = "told" => worker[l].at = "told" \/ revision = "ready"
  PROVE  RowsAgree' /\ FailureIsCurrent'
<1> USE DEF PublicationInv, RowsAgree, FailureIsCurrent
<1>1. CASE UNCHANGED <<revision, asset>> /\ grant'.generation = grant.generation
           /\ (grant'.state = "consumed" <=> grant.state = "consumed")
  BY <1>1
<1>2. CASE \E q \in Requests : /\ Finalizable(q) /\ asset' = q /\ revision' = "ready"
                              /\ grant'.state = "consumed" /\ grant'.generation = grant.generation
  BY <1>2, Constants
<1>3. CASE \/ revision = "none" /\ revision' = "draft" /\ UNCHANGED <<grant, asset>>
           \/ /\ revision \in {"draft", "publishing"} /\ revision' = "publishing"
              /\ grant.state # "consumed" /\ grant'.state # "consumed" /\ UNCHANGED asset
           \/ /\ revision # "ready" /\ revision' = "failed" /\ UNCHANGED <<grant, asset>>
              /\ grant.generation \in rejected
  BY <1>3
<1> QED
  BY <1>1, <1>2, <1>3 DEF RowsStep

(* The three kinds of steps by what they do to requests.                    *)
LEMMA BegunKept ==
  ASSUME PublicationInv, NEW q \in Requests, NEW r, finalize' = [finalize EXCEPT ![q] = r],
         Final(q).at # "none", UNCHANGED worker, grant'.generation = grant.generation
  PROVE  BegunOnce'
<1>1. \A g \in Generations : NotBegun(g) => NotBegun(g)'
  <2> SUFFICES ASSUME NEW g \in Generations, NotBegun(g), NEW i \in 1..MaxDeliveries
               PROVE  finalize'[<<g, i>>].at = "none"
    BY DEF NotBegun
  <2>1. <<g, i>> \in Requests /\ finalize[<<g, i>>].at = "none"
    BY DEF NotBegun, Requests
  <2> QED
    BY <2>1 DEF Final
<1>2. grant.generation \in 0..MaxAttempts /\ worker \in [Leases -> WorkerRows]
  BY DEF PublicationInv, Typed, TypeOK, WorkerRows
<1>3. \A l \in Leases : worker[l].at = "uploading" => worker[l].generation \in Generations
  BY <1>2, Constants DEF PublicationInv, BegunOnce, Generations
<1> QED
  BY <1>1, <1>3 DEF PublicationInv, BegunOnce

LEMMA RequestMoves ==
  ASSUME PublicationInv, Typed', NEW q \in Requests, NEW r, finalize' = [finalize EXCEPT ![q] = r],
         Final(q).at # "none", UNCHANGED worker, RowsStep, grant'.generation = grant.generation,
         rejected \subseteq rejected', asset' = asset \/ (asset' = q /\ asset = NoRequest),
         \A p \in Requests \ {q} : copies'[p] = copies[p],
         RequestInv(q)'
  PROVE  PublicationInv'
<1>1. RowsAgree' /\ FailureIsCurrent'
  BY RowsKeep
<1>2. BegunOnce'
  BY BegunKept
<1>3. ASSUME NEW p \in Requests \ {q} PROVE RequestInv(p)'
  <2>1. finalize'[p] = finalize[p]
    BY DEF PublicationInv, Typed, TypeOK
  <2> QED
    BY <2>1, Constants, OthersKeep DEF PublicationInv
<1> QED
  BY <1>1, <1>2, <1>3 DEF PublicationInv

(* What a finalize request is after its step.                               *)
LEMMA After ==
  ASSUME TypeOK, NEW q \in Requests, NEW at \in FinalizeSteps
  PROVE  /\ Final(q) \in FinalizeRows
         /\ To(q, at).at = at /\ To(q, at).of = Final(q).of
         /\ To(q, at).landing = Final(q).landing /\ To(q, at).attempted = Final(q).attempted
         /\ To(q, at).refused = Final(q).refused
         /\ Answer(q, at).at = at /\ Answer(q, at).landing = Final(q).landing
         /\ ~Answer(q, at).attempted /\ ~Answer(q, at).refused
         /\ To(q, at) \in FinalizeRows /\ Answer(q, at) \in FinalizeRows
         /\ Fails(q) = To(q, "recover")
         /\ Refuses(q) = [To(q, "recover") EXCEPT !.refused = TRUE]
<1>1. Final(q) \in FinalizeRows /\ To(q, at) \in FinalizeRows /\ Answer(q, at) \in FinalizeRows
  BY RowTyped
<1>2. Fails(q) = To(q, "recover") /\ Refuses(q) = [To(q, "recover") EXCEPT !.refused = TRUE]
  BY DEF Fails, Refuses
<1>3. /\ To(q, at).at = at /\ To(q, at).of = Final(q).of
      /\ To(q, at).landing = Final(q).landing /\ To(q, at).attempted = Final(q).attempted
      /\ To(q, at).refused = Final(q).refused
  BY <1>1 DEF To, FinalizeRows
<1>4. /\ Answer(q, at).at = at /\ Answer(q, at).landing = Final(q).landing
      /\ ~Answer(q, at).attempted /\ ~Answer(q, at).refused
  BY <1>1 DEF Answer, NoFinalize, FinalizeRows
<1> QED
  BY <1>1, <1>2, <1>3, <1>4

(* A request that is neither to commit nor has the asset nor may still land *)
(* moves to a step that claims nothing of it.                               *)
LEMMA EarlyStep ==
  ASSUME PublicationInv, Typed', NEW q \in Requests, NEW from \in {"read", "staged", "copy", "verify"},
         NEW r \in FinalizeRows, Goes(q, from, r),
         r.at \notin {"none", "read", "tidy", "discard", "compare"},
         UNCHANGED rows, \A p \in Requests \ {q} : copies'[p] = copies[p],
         r.landing = Final(q).landing,
         r.refused \/ r.at \in {"reject", "mark"} => r.of \in rejected',
         rejected \subseteq rejected',
         r.at = "commit" => r.attempted /\ copies'[q] = "good"
  PROVE  PublicationInv'
<1>1. /\ finalize' = [finalize EXCEPT ![q] = r] /\ Final(q).at = from /\ UNCHANGED worker
      /\ Final(q)' = r
  BY GoesTyped DEF PublicationInv, Typed, Goes, TypeOK, Final
<1>2. asset # q /\ ~Final(q).landing
  BY <1>1 DEF PublicationInv, RequestInv, KnowsItTried, Undecided
<1>3. RequestInv(q)'
  BY <1>1, <1>2 DEF RequestInv, CopyKept, KnowsItTried, RefusalKnown, rows
<1> QED
  BY <1>1, <1>3, RequestMoves DEF RowsStep, rows

LEMMA PublicationByVerifier ==
  ASSUME PublicationInv, Typed', NEW q \in Requests,
         \/ ReadGrant(q) \/ VerifyStaged(q) \/ Copy(q, "good") \/ Copy(q, "bad")
         \/ CopyUnanswered(q) \/ StagedGone(q) \/ Unavailable(q) \/ VerifyCopy(q)
  PROVE  PublicationInv'
<1>t. /\ TypeOK /\ {"staged", "copy", "verify", "commit", "ok", "no", "recover"} \subseteq FinalizeSteps
      /\ \A at \in FinalizeSteps :
           /\ To(q, at).at = at /\ To(q, at).of = Final(q).of
           /\ To(q, at).landing = Final(q).landing /\ To(q, at).attempted = Final(q).attempted
           /\ To(q, at).refused = Final(q).refused
           /\ Answer(q, at).at = at /\ Answer(q, at).landing = Final(q).landing
           /\ ~Answer(q, at).attempted /\ ~Answer(q, at).refused
           /\ To(q, at) \in FinalizeRows /\ Answer(q, at) \in FinalizeRows
  BY After DEF PublicationInv, Typed, FinalizeSteps
<1>f. /\ Final(q).refused => Final(q).of \in rejected
      /\ Final(q) \in FinalizeRows
  BY <1>t, RowTyped DEF PublicationInv, RequestInv, RefusalKnown
<1>r. /\ Fails(q) = To(q, "recover")
      /\ Refuses(q) \in FinalizeRows /\ Refuses(q).at = "recover" /\ Refuses(q).of = Final(q).of
      /\ Refuses(q).landing = Final(q).landing
  <2> DEFINE f == To(q, "recover")
  <2>1. /\ f \in FinalizeRows /\ Refuses(q) = [f EXCEPT !.refused = TRUE] /\ Fails(q) = f
        /\ f.at = "recover" /\ f.of = Final(q).of /\ f.landing = Final(q).landing
    BY <1>t DEF Fails, Refuses
  <2> HIDE DEF f
  <2>2. /\ [f EXCEPT !.refused = TRUE] \in FinalizeRows /\ [f EXCEPT !.refused = TRUE].at = f.at
        /\ [f EXCEPT !.refused = TRUE].of = f.of /\ [f EXCEPT !.refused = TRUE].landing = f.landing
    BY <2>1 DEF FinalizeRows
  <2> QED
    BY <2>1, <2>2 DEF f
<1>1. CASE ReadGrant(q)
  <2> DEFINE s == To(q, "staged")
             r == [s EXCEPT !.of = grant.generation]
  <2>1. Final(q).at = "read" /\ ~Final(q).refused /\ UNCHANGED <<rows, store, rejected>>
    BY <1>1 DEF ReadGrant, Goes, PublicationInv, RequestInv, RefusalKnown
  <2>2. /\ s \in FinalizeRows /\ s.at = "staged" /\ s.landing = Final(q).landing /\ ~s.refused
        /\ grant.generation \in 0..MaxAttempts
    BY <1>t, <2>1 DEF TypeOK
  <2>3. \/ Goes(q, "read", Answer(q, "ok"))
        \/ Goes(q, "read", Answer(q, "no"))
        \/ Goes(q, "read", r)
    BY <1>1 DEF ReadGrant
  <2> HIDE DEF s
  <2>4. r \in FinalizeRows /\ r.at = "staged" /\ r.landing = Final(q).landing /\ ~r.refused
    BY <2>2 DEF FinalizeRows
  <2> HIDE DEF r
  <2>5. CASE Goes(q, "read", r)
    BY <2>1, <2>4, <2>5, EarlyStep DEF store
  <2>6. CASE Goes(q, "read", Answer(q, "ok"))
    BY <1>t, <2>1, <2>6, EarlyStep DEF store
  <2>7. CASE Goes(q, "read", Answer(q, "no"))
    BY <1>t, <2>1, <2>7, EarlyStep DEF store
  <2> QED
    BY <2>3, <2>5, <2>6, <2>7
<1>2. CASE VerifyStaged(q)
  <2>1. CASE Goes(q, "staged", To(q, "copy")) /\ UNCHANGED <<rows, store, rejected>>
    BY <1>f, <1>t, <2>1, EarlyStep DEF store
  <2>2. CASE /\ Goes(q, "staged", Refuses(q)) /\ rejected' = rejected \cup {Final(q).of}
             /\ UNCHANGED <<rows, store>>
    BY <1>r, <1>t, <2>2, EarlyStep DEF store
  <2> QED
    BY <1>2, <2>1, <2>2 DEF VerifyStaged
<1>3. CASE Copy(q, "good") \/ Copy(q, "bad") \/ CopyUnanswered(q)
  <2> DEFINE r == [To(q, "verify") EXCEPT !.copied = TRUE]
  <2>1. /\ r \in FinalizeRows /\ r.at = "verify" /\ r.of = Final(q).of /\ r.landing = Final(q).landing
        /\ r.refused = Final(q).refused
    <3>1. To(q, "verify") \in FinalizeRows
      BY <1>t
    <3> QED
      BY <1>t, <3>1 DEF FinalizeRows
  <2>2. /\ Goes(q, "copy", r) \/ Goes(q, "copy", Fails(q))
        /\ \A p \in Requests \ {q} : copies'[p] = copies[p]
    BY <1>3 DEF Copy, CopyUnanswered, PublicationInv, Typed, TypeOK
  <2> HIDE DEF r
  <2>3. UNCHANGED <<rows, rejected>>
    BY <1>3 DEF Copy, CopyUnanswered
  <2>4. CASE Goes(q, "copy", r)
    BY <1>f, <2>1, <2>2, <2>3, <2>4, EarlyStep
  <2>5. CASE Goes(q, "copy", Fails(q))
    BY <1>f, <1>r, <1>t, <2>2, <2>3, <2>5, EarlyStep
  <2> QED
    BY <2>2, <2>4, <2>5
<1>4. CASE StagedGone(q) \/ Unavailable(q)
  <2>1. PICK from \in {"staged", "copy", "verify"} : NotHad(q, from)
    BY <1>4 DEF StagedGone, Unavailable
  <2>2. CASE Goes(q, from, Fails(q)) /\ UNCHANGED <<rows, store, rejected>>
    BY <1>f, <1>r, <1>t, <2>2, EarlyStep DEF store
  <2>3. CASE /\ Goes(q, from, Refuses(q)) /\ rejected' = rejected \cup {Final(q).of}
             /\ UNCHANGED <<rows, store>>
    BY <1>r, <1>t, <2>3, EarlyStep DEF store
  <2> QED
    BY <2>1, <2>2, <2>3 DEF NotHad
<1>5. CASE VerifyCopy(q)
  <2> DEFINE r == [To(q, "commit") EXCEPT !.attempted = TRUE]
  <2>1. /\ r \in FinalizeRows /\ r.at = "commit" /\ r.of = Final(q).of /\ r.landing = Final(q).landing
        /\ r.attempted /\ r.refused = Final(q).refused
    <3>1. To(q, "commit") \in FinalizeRows
      BY <1>t
    <3> QED
      BY <1>t, <3>1 DEF FinalizeRows
  <2> HIDE DEF r
  <2>2. CASE copies[q] = "good" /\ Goes(q, "verify", r) /\ UNCHANGED <<rows, store, rejected>>
    BY <1>f, <2>1, <2>2, EarlyStep DEF store
  <2>3. CASE /\ Goes(q, "verify", Refuses(q)) /\ rejected' = rejected \cup {Final(q).of}
             /\ UNCHANGED <<rows, store>>
    BY <1>r, <1>t, <2>3, EarlyStep DEF store
  <2> QED
    BY <1>5, <2>2, <2>3 DEF VerifyCopy, r
<1> QED
  BY <1>1, <1>2, <1>3, <1>4, <1>5

(* finalizeArtifactReady changes all the rows or none.                      *)
LEMMA ReadyOrNot ==
  ASSUME TypeOK, NEW q \in Requests, FinalizeReady(q)
  PROVE  /\ RowsStep /\ grant'.generation = grant.generation
         /\ IF Finalizable(q) THEN asset = NoRequest /\ asset' = q ELSE UNCHANGED rows
<1>1. CASE Finalizable(q)
  <2>1. grant'.state = "consumed" /\ grant'.generation = grant.generation
    BY <1>1 DEF FinalizeReady, TypeOK
  <2> QED
    BY <1>1, <2>1 DEF FinalizeReady, Finalizable, RowsStep
<1>2. CASE ~Finalizable(q)
  BY <1>2 DEF FinalizeReady, RowsStep, rows
<1> QED
  BY <1>1, <1>2

LEMMA PublicationByCommit ==
  ASSUME PublicationInv, Typed', NEW q \in Requests,
         Commit(q) \/ CommitUnanswered(q) \/ Land(q) \/ Mark(q) \/ MarkLost(q)
  PROVE  PublicationInv'
<1>t. /\ TypeOK /\ Final(q) \in FinalizeRows /\ RequestInv(q)
      /\ \A at \in {"tidy", "recover", "no"} :
           /\ To(q, at).at = at /\ To(q, at).of = Final(q).of
           /\ To(q, at).landing = Final(q).landing /\ To(q, at).attempted = Final(q).attempted
           /\ To(q, at).refused = Final(q).refused
           /\ Answer(q, at).at = at /\ Answer(q, at).landing = Final(q).landing
           /\ ~Answer(q, at).refused
           /\ To(q, at) \in FinalizeRows /\ Answer(q, at) \in FinalizeRows
  BY After DEF PublicationInv, Typed, FinalizeSteps
<1>f. Fails(q) = To(q, "recover")
  BY DEF Fails
<1>g. ASSUME NEW from, NEW r, Goes(q, from, r)
      PROVE  finalize' = [finalize EXCEPT ![q] = r] /\ Final(q).at = from /\ UNCHANGED worker /\ Final(q)' = r
  BY <1>t, <1>g, GoesTyped DEF Goes, TypeOK, Final
<1>1. CASE Commit(q)
  <2>1. /\ Final(q).at = "commit" /\ copies[q] = "good" /\ asset # q /\ ~Final(q).landing /\ Final(q).attempted
    BY <1>1, <1>t DEF Commit, Goes, RequestInv, CopyKept, KnowsItTried, Undecided
  <2>2. FinalizeReady(q) /\ UNCHANGED <<store, rejected>>
    BY <1>1 DEF Commit
  <2>3. CASE Finalizable(q)
    <3>1. Goes(q, "commit", To(q, "tidy")) /\ asset = NoRequest /\ asset' = q
      BY <1>1, <1>t, <2>2, <2>3, ReadyOrNot DEF Commit
    <3>2. Final(q)' = To(q, "tidy")
      BY <1>g, <3>1
    <3>3. RequestInv(q)'
      BY <1>t, <2>1, <2>2, <3>1, <3>2 DEF RequestInv, CopyKept, KnowsItTried, RefusalKnown, store
    <3> QED
      BY <1>g, <1>t, <2>1, <2>2, <3>1, <3>3, ReadyOrNot, RequestMoves DEF store
  <2>4. CASE ~Finalizable(q)
    <3>1. Goes(q, "commit", To(q, "recover")) /\ UNCHANGED rows
      BY <1>1, <1>f, <1>t, <2>2, <2>4, ReadyOrNot DEF Commit
    <3>2. Final(q)' = To(q, "recover")
      BY <1>g, <3>1
    <3>3. RequestInv(q)'
      BY <1>t, <2>1, <2>2, <3>1, <3>2 DEF RequestInv, CopyKept, KnowsItTried, RefusalKnown, store, rows
    <3> QED
      BY <1>g, <1>t, <2>1, <2>2, <3>1, <3>3, ReadyOrNot, RequestMoves DEF store, rows
  <2> QED
    BY <2>3, <2>4
<1>2. CASE CommitUnanswered(q)
  <2> DEFINE f == To(q, "recover")
             r == [f EXCEPT !.landing = TRUE]
  <2>1. /\ Final(q).at = "commit" /\ copies[q] = "good" /\ asset # q /\ Final(q).attempted
    BY <1>2, <1>t DEF CommitUnanswered, Goes, RequestInv, CopyKept, KnowsItTried, Undecided
  <2>2. Goes(q, "commit", r) /\ UNCHANGED <<rows, store, rejected>>
    BY <1>2, <1>f DEF CommitUnanswered
  <2>3. f \in FinalizeRows /\ f.at = "recover" /\ f.of = Final(q).of /\ f.attempted /\ f.refused = Final(q).refused
    BY <1>t, <2>1
  <2> HIDE DEF f
  <2>4. r.at = "recover" /\ r.of = Final(q).of /\ r.attempted /\ r.refused = Final(q).refused /\ r.landing
    BY <2>3 DEF FinalizeRows
  <2> HIDE DEF r
  <2>5. Final(q)' = r
    BY <1>g, <2>2
  <2>6. RequestInv(q)'
    BY <1>t, <2>1, <2>2, <2>4, <2>5 DEF RequestInv, CopyKept, KnowsItTried, RefusalKnown, Undecided, store, rows
  <2> QED
    BY <1>g, <2>1, <2>2, <2>6, RequestMoves DEF RowsStep, store, rows
<1>3. CASE Land(q)
  <2> DEFINE r == [Final(q) EXCEPT !.landing = FALSE]
  <2>1. /\ Final(q).landing /\ Final(q).at \in Undecided
        /\ asset = NoRequest => copies[q] = "good"
        /\ Final(q).at = "recover" => Final(q).attempted
    BY <1>3, <1>t DEF Land, RequestInv, CopyKept, KnowsItTried
  <2>2. Goes(q, Final(q).at, r) /\ FinalizeReady(q) /\ UNCHANGED <<store, rejected>>
    BY <1>3 DEF Land, Goes, Final
  <2>3. r.at = Final(q).at /\ r.of = Final(q).of /\ r.attempted = Final(q).attempted
        /\ r.refused = Final(q).refused /\ ~r.landing
    BY <1>t DEF FinalizeRows
  <2> HIDE DEF r
  <2>4. Final(q)' = r
    BY <1>g, <2>2
  <2>5. asset' = asset \/ (asset' = q /\ asset = NoRequest)
    BY <1>t, <2>2, ReadyOrNot DEF rows
  <2>6. RequestInv(q)'
    BY <1>t, <2>1, <2>2, <2>3, <2>4, <2>5, Constants
    DEF RequestInv, CopyKept, KnowsItTried, RefusalKnown, Undecided, store
  <2> QED
    BY <1>g, <1>t, <2>1, <2>2, <2>5, <2>6, ReadyOrNot, RequestMoves DEF Undecided, store
<1>4. CASE Mark(q) \/ MarkLost(q)
  <2>1. Goes(q, "mark", Answer(q, "no")) /\ UNCHANGED <<grant, asset, store, rejected>>
    BY <1>4 DEF Mark, MarkLost, MarkFailed, rows
  <2>2. Final(q).at = "mark" /\ Final(q).of \in rejected /\ asset # q /\ ~Final(q).landing
    BY <1>t, <2>1 DEF Goes, RequestInv, KnowsItTried, RefusalKnown, Undecided
  <2>3. RowsStep
    BY <1>4, <2>2 DEF Mark, MarkLost, MarkFailed, Failable, Current, RowsStep, rows
  <2>4. Final(q)' = Answer(q, "no")
    BY <1>g, <2>1
  <2>5. RequestInv(q)'
    BY <1>t, <2>1, <2>2, <2>4 DEF RequestInv, CopyKept, KnowsItTried, RefusalKnown, store
  <2> QED
    BY <1>g, <2>1, <2>2, <2>3, <2>5, RequestMoves DEF store
<1> QED
  BY <1>1, <1>2, <1>3, <1>4

(* Cleaning touches only a copy that nobody may need.                       *)
LEMMA PublicationByCleaning ==
  ASSUME PublicationInv, Typed', NEW q \in Requests, NEW done \in BOOLEAN,
         \/ Tidy(q, done) \/ Compare(q, done) \/ Discard(q, done) \/ Reject(q, done)
         \/ Recover(q) \/ CannotTell(q)
  PROVE  PublicationInv'
<1>t. /\ TypeOK /\ Final(q) \in FinalizeRows /\ RequestInv(q) /\ copies \in [Requests -> Objects]
      /\ \A at \in {"compare", "discard", "reject", "mark", "ok", "retry"} :
           /\ To(q, at).at = at /\ To(q, at).of = Final(q).of
           /\ To(q, at).landing = Final(q).landing /\ To(q, at).attempted = Final(q).attempted
           /\ To(q, at).refused = Final(q).refused
           /\ Answer(q, at).at = at /\ Answer(q, at).landing = Final(q).landing
           /\ ~Answer(q, at).refused
  BY After DEF PublicationInv, Typed, TypeOK, FinalizeSteps
<1>g. ASSUME NEW from, NEW r, Goes(q, from, r)
      PROVE  finalize' = [finalize EXCEPT ![q] = r] /\ Final(q).at = from /\ UNCHANGED worker /\ Final(q)' = r
  BY <1>t, <1>g, GoesTyped DEF Goes, TypeOK, Final
<1>u. /\ UNCHANGED rows /\ UNCHANGED rejected /\ RowsStep
      /\ \A p \in Requests \ {q} : copies'[p] = copies[p]
  BY <1>t DEF Tidy, Compare, Discard, Reject, Recover, CannotTell, RemovesCopy, RowsStep, rows, store
<1>k. ASSUME NEW from \in FinalizeSteps \ {"none"}, NEW r, Goes(q, from, r), RequestInv(q)'
      PROVE  PublicationInv'
  BY <1>g, <1>k, <1>u, RequestMoves DEF rows
<1>s. {"tidy", "compare", "discard", "reject", "recover"} \subseteq FinalizeSteps \ {"none"}
  BY DEF FinalizeSteps
<1>1. CASE Tidy(q, done)
  <2>1. Goes(q, "tidy", Answer(q, "ok")) /\ UNCHANGED copies
    BY <1>1 DEF Tidy
  <2>2. RequestInv(q)'
    BY <1>g, <1>t, <1>u, <2>1 DEF RequestInv, CopyKept, KnowsItTried, RefusalKnown, Undecided, rows
  <2> QED
    BY <1>k, <1>s, <2>1, <2>2
<1>2. CASE Compare(q, done)
  <2>1. PICK r \in {Answer(q, "ok"), Answer(q, "retry")} : Goes(q, "compare", r)
    BY <1>2 DEF Compare
  <2>2. /\ Final(q).at = "compare" /\ asset # NoRequest /\ asset = q => UNCHANGED copies
    BY <1>2, <1>t DEF Compare, Goes, RequestInv, KnowsItTried
  <2>3. RequestInv(q)'
    BY <1>g, <1>t, <1>u, <2>1, <2>2 DEF RequestInv, CopyKept, KnowsItTried, RefusalKnown, Undecided, rows
  <2> QED
    BY <1>k, <1>s, <2>1, <2>3
<1>3. CASE Discard(q, done)
  <2>1. PICK r : /\ Goes(q, "discard", r)
                 /\ (r = To(q, "reject") /\ Final(q).refused) \/ r = Answer(q, "retry")
    BY <1>3 DEF Discard
  <2>2. Final(q).at = "discard" /\ asset # q /\ ~Final(q).landing
    BY <1>g, <1>t, <2>1 DEF RequestInv, KnowsItTried, Undecided
  <2>3. RequestInv(q)'
    BY <1>g, <1>t, <1>u, <2>1, <2>2 DEF RequestInv, CopyKept, KnowsItTried, RefusalKnown, Undecided, rows
  <2> QED
    BY <1>k, <1>s, <2>1, <2>3
<1>4. CASE Reject(q, done)
  <2>1. Goes(q, "reject", To(q, "mark")) /\ UNCHANGED copies
    BY <1>4 DEF Reject
  <2>2. RequestInv(q)'
    BY <1>g, <1>t, <1>u, <2>1 DEF RequestInv, CopyKept, KnowsItTried, RefusalKnown, Undecided, rows
  <2> QED
    BY <1>k, <1>s, <2>1, <2>2
<1>5. CASE Recover(q) \/ CannotTell(q)
  <2>1. PICK r : /\ Goes(q, "recover", r)
                 /\ \/ r = To(q, "compare") /\ grant.state = "consumed"
                    \/ r = To(q, "discard") /\ grant.state # "consumed" /\ ~Final(q).attempted
                    \/ r = Answer(q, "retry")
    BY <1>5 DEF Recover, CannotTell, Unsure
  <2>2. UNCHANGED copies /\ (grant.state = "consumed" <=> asset # NoRequest) /\ Final(q).at = "recover"
    BY <1>5, <1>g, <2>1 DEF Recover, CannotTell, store, PublicationInv, RowsAgree
  <2>3. RequestInv(q)'
    BY <1>g, <1>t, <1>u, <2>1, <2>2 DEF RequestInv, CopyKept, KnowsItTried, RefusalKnown, Undecided, rows
  <2> QED
    BY <1>k, <1>s, <2>1, <2>3
<1> QED
  BY <1>1, <1>2, <1>3, <1>4, <1>5

(* A step that leaves the requests, their copies and the asset alone.       *)
LEMMA WithoutRequests ==
  ASSUME PublicationInv, Typed', RowsStep, UNCHANGED <<asset, copies, finalize, rejected>>,
         \A l \in Leases : worker'[l].at = "told" => worker[l].at = "told" \/ revision = "ready",
         BegunOnce'
  PROVE  PublicationInv'
<1>1. RowsAgree' /\ FailureIsCurrent'
  BY RowsKeep
<1>2. \A q \in Requests : RequestInv(q)'
  BY OthersKeep DEF PublicationInv
<1> QED
  BY <1>1, <1>2 DEF PublicationInv

(* A step of the grant or of an upload.                                     *)
LEMMA GrantMoves ==
  ASSUME PublicationInv, Typed', UNCHANGED <<revision, asset, copies, finalize, worker, rejected>>,
         grant'.generation = grant.generation, grant'.state = "consumed" <=> grant.state = "consumed"
  PROVE  PublicationInv'
<1>1. RowsStep
  BY DEF RowsStep
<1>2. BegunOnce'
  BY DEF PublicationInv, BegunOnce, NotBegun
<1> QED
  BY <1>1, <1>2, WithoutRequests

LEMMA PublicationByRun ==
  ASSUME PublicationInv, Typed', Claim \/ Lapse \/ Stop \/ GrantExpires
  PROVE  PublicationInv'
<1>1. grant'.generation = grant.generation /\ grant'.state = grant.state
  BY DEF Claim, Lapse, Stop, GrantExpires, rows, PublicationInv, Typed, TypeOK
<1> QED
  BY <1>1, GrantMoves DEF Claim, Lapse, Stop, GrantExpires, rows, store, requests

(* A finalize request is sent.                                              *)
LEMMA BeginMoves ==
  ASSUME PublicationInv, NEW g \in Generations, NEW i \in 1..MaxDeliveries, NEW l \in 0..MaxLeases,
         Begin(<<g, i>>, l), Final(<<g, i>>).at = "none", UNCHANGED <<asset, copies, rejected>>
  PROVE  /\ \A q \in Requests : RequestInv(q)'
         /\ \A h \in Generations \ {g} : NotBegun(h) => NotBegun(h)'
<1> DEFINE q == <<g, i>>
           row == [NoFinalize EXCEPT !.at = "read", !.lease = l]
<1>1. q \in Requests /\ TypeOK
  BY DEF Requests, PublicationInv, Typed
<1>2. \A p \in Requests : IF p = q THEN finalize'[p] = row ELSE finalize'[p] = finalize[p]
  BY <1>1, BeginTyped
<1>3. row.at = "read" /\ ~row.landing /\ ~row.refused
  BY DEF NoFinalize
<1>4. asset # q
  BY <1>1 DEF PublicationInv, RequestInv, KnowsItTried, Undecided
<1> HIDE DEF row
<1>5. RequestInv(q)'
  BY <1>1, <1>2, <1>3, <1>4 DEF RequestInv, CopyKept, KnowsItTried, RefusalKnown, Final
<1>6. ASSUME NEW p \in Requests, p # q PROVE RequestInv(p)'
  BY <1>2, <1>6, OthersKeep DEF PublicationInv
<1>7. ASSUME NEW h \in Generations, h # g, NotBegun(h), NEW j \in 1..MaxDeliveries
      PROVE  finalize'[<<h, j>>].at = "none"
  <2>1. <<h, j>> \in Requests /\ <<h, j>> # q
    BY <1>7 DEF Requests
  <2> QED
    BY <1>2, <1>7, <2>1 DEF NotBegun
<1> QED
  BY <1>5, <1>6, <1>7 DEF NotBegun

LEMMA PublicationByUpload ==
  ASSUME PublicationInv, Typed', NEW g \in Generations,
         \/ ReadToken(g) \/ Put(g, "good") \/ Put(g, "bad") \/ Complete(g) \/ MarkUploaded(g)
         \/ \E i \in 1..MaxDeliveries : Redeliver(g, i)
  PROVE  PublicationInv'
<1>t. grant \in GrantStates /\ finalize \in [Requests -> FinalizeRows]
  BY DEF PublicationInv, Typed, TypeOK, GrantStates, FinalizeRows
<1>1. CASE ReadToken(g) \/ Put(g, "good") \/ Put(g, "bad") \/ Complete(g) \/ MarkUploaded(g)
  <2>1. UNCHANGED <<revision, asset, copies, finalize, worker, rejected>>
    BY <1>1 DEF ReadToken, Put, Complete, MarkUploaded, Uploading
  <2>2. UNCHANGED grant \/ (grant.state = "issued" /\ grant' = [grant EXCEPT !.state = "uploaded"])
    BY <1>1 DEF ReadToken, Put, Complete, MarkUploaded, Uploadable
  <2>3. grant'.generation = grant.generation /\ (grant'.state = "consumed" <=> grant.state = "consumed")
    BY <1>t, <2>2 DEF GrantStates
  <2> QED
    BY <2>1, <2>3, GrantMoves
<1>2. ASSUME NEW i \in 1..MaxDeliveries, Redeliver(g, i) PROVE PublicationInv'
  <2>1. i > 1 /\ Final(<<g, i>>).at = "none" /\ Final(<<g, i - 1>>).at # "none"
        /\ Begin(<<g, i>>, Final(<<g, 1>>).lease)
        /\ UNCHANGED <<rows, copies, worker, rejected>>
    BY <1>2 DEF Redeliver, store
  <2>2. ~NotBegun(g)
    <3>1. i - 1 \in 1..MaxDeliveries
      BY <2>1, Constants
    <3> QED
      BY <2>1, <3>1 DEF NotBegun, Final
  <2>3. Final(<<g, 1>>).lease \in 0..MaxLeases
    <3>1. <<g, 1>> \in Requests
      BY ArtifactsAssumption DEF Requests
    <3> QED
      BY <1>t, <3>1 DEF FinalizeRows, Final
  <2>4. /\ \A q \in Requests : RequestInv(q)'
        /\ \A h \in Generations \ {g} : NotBegun(h) => NotBegun(h)'
    BY <2>1, <2>3, BeginMoves DEF rows
  <2>5. \A h \in Generations : NotBegun(h) => NotBegun(h)'
    BY <2>2, <2>4
  <2>6. \A l \in Leases : worker[l].at = "uploading" => worker[l].generation \in Generations
    <3>1. grant.generation \in 0..MaxAttempts
      BY <1>t DEF GrantStates
    <3> QED
      BY <3>1, Constants DEF PublicationInv, BegunOnce, Generations
  <2>7. BegunOnce'
    BY <2>1, <2>5, <2>6 DEF PublicationInv, BegunOnce, rows
  <2> QED
    BY <2>1, <2>4, <2>7 DEF PublicationInv, RowsAgree, FailureIsCurrent, rows
<1> QED
  BY <1>1, <1>2

LEMMA PublicationByWorker ==
  ASSUME PublicationInv, Typed', NEW l \in Leases,
         Admit(l) \/ AskRevision(l) \/ AskGrant(l) \/ UploadAnswered(l)
         \/ FinalizeAnswered(l) \/ TryAgain(l) \/ Announce(l)
  PROVE  PublicationInv'
<1>t. /\ TypeOK /\ grant \in GrantStates /\ worker \in [Leases -> WorkerRows]
      /\ grant.generation \in Nat /\ grant.generation <= MaxAttempts
      /\ MaxAttempts \in Nat /\ l \in 0..MaxLeases
  <2>1. TypeOK /\ grant \in GrantStates /\ worker \in [Leases -> WorkerRows]
    BY DEF PublicationInv, Typed, TypeOK, GrantStates, WorkerRows
  <2>2. grant.generation \in 0..MaxAttempts
    BY <2>1 DEF GrantStates
  <2> QED
    BY <2>1, <2>2, Constants DEF Leases
<1>s. ASSUME NEW at \in WorkerSteps \ {"uploading"}, Step(l, at), RowsStep, UNCHANGED grant,
             UNCHANGED <<asset, copies, finalize, rejected>>, at = "told" => revision = "ready"
      PROVE  PublicationInv'
  <2>1. /\ \A k \in Leases : worker'[k].generation = worker[k].generation
        /\ \A k \in Leases : worker'[k].at = IF k = l THEN at ELSE worker[k].at
    BY <1>s, <1>t, StepMoves
  <2>2. \A g \in Generations : NotBegun(g)' = NotBegun(g)
    BY <1>s DEF NotBegun
  <2>3. \A k \in Leases : worker[k].at = "uploading" => worker[k].generation \in Generations
    BY <1>t DEF PublicationInv, BegunOnce, Generations
  <2>4. BegunOnce'
    BY <1>s, <2>1, <2>2, <2>3 DEF PublicationInv, BegunOnce
  <2> QED
    BY <1>s, <2>1, <2>4, WithoutRequests
<1>1. CASE Admit(l) \/ FinalizeAnswered(l) \/ TryAgain(l) \/ Announce(l)
  <2>1. PICK at \in {"asked", "ready", "idle", "over", "told"} :
          Step(l, at) /\ (at = "told" => revision = "ready")
    BY <1>1 DEF Admit, FinalizeAnswered, TryAgain, Announce
  <2>2. UNCHANGED <<rows, store, requests, rejected>>
    BY <1>1 DEF Admit, FinalizeAnswered, TryAgain, Announce
  <2>3. RowsStep
    BY <2>2 DEF RowsStep, rows
  <2> QED
    BY <1>s, <2>1, <2>2, <2>3 DEF rows, store, requests, WorkerSteps
<1>2. CASE AskRevision(l)
  <2>1. PICK at \in {"ready", "revised", "over"} : Step(l, at)
    BY <1>2 DEF AskRevision
  <2>2. RowsStep
    BY <1>2 DEF AskRevision, RowsStep
  <2> QED
    BY <1>2, <1>s, <2>1, <2>2 DEF AskRevision, store, requests, WorkerSteps
<1>3. CASE AskGrant(l) /\ Step(l, "over") /\ UNCHANGED <<rows, upload>>
  <2>1. RowsStep
    BY <1>3 DEF RowsStep, rows
  <2> QED
    BY <1>3, <1>s, <2>1 DEF AskGrant, rows, store, WorkerSteps
<1>4. CASE AskGrant(l) /\ ~(Step(l, "over") /\ UNCHANGED <<rows, upload>>)
  <2> DEFINE g == grant.generation + 1
            row == [at |-> "uploading", generation |-> g]
  <2>1. /\ revision \in {"draft", "publishing"} /\ grant.state # "consumed" /\ Reissue
        /\ worker' = [worker EXCEPT ![l] = row]
        /\ UNCHANGED <<store, finalize, rejected>>
    BY <1>4 DEF AskGrant
  <2>2. /\ grant'.generation = g /\ grant'.state = "issued" /\ UNCHANGED asset
        /\ revision' = "publishing"
    BY <2>1 DEF Reissue
  <2>3. RowsStep
    BY <2>1, <2>2 DEF RowsStep
  <2>4. g \in Generations
    <3>1. grant'.generation \in 0..MaxAttempts
      BY DEF Typed, TypeOK
    <3> QED
      BY <1>t, <2>2, <3>1 DEF Generations
  <2>5. /\ worker'[l].at = "uploading" /\ worker'[l].generation = g
        /\ \A k \in Leases \ {l} : worker'[k] = worker[k]
    BY <1>t, <2>1
  <2>6. \A h \in Generations : NotBegun(h)' = NotBegun(h)
    BY <2>1 DEF NotBegun
  <2>7. \A k \in Leases : worker[k].at = "uploading" =>
          worker[k].generation \in Generations /\ worker[k].generation <= grant.generation
    BY <1>t DEF PublicationInv, BegunOnce, Generations
  <2>8. BegunOnce'
    <3> HIDE DEF row
    <3>1. g = grant.generation + 1 /\ g \in Generations /\ grant'.generation = g
      BY <2>2, <2>4
    <3> HIDE DEF g
    <3>2. \A h \in Generations : h > grant'.generation => NotBegun(h)'
      BY <1>t, <2>6, <3>1 DEF PublicationInv, BegunOnce, Generations
    <3>3. NotBegun(g)
      BY <1>t, <3>1 DEF PublicationInv, BegunOnce
    <3>4. ASSUME NEW k \in Leases, worker'[k].at = "uploading"
          PROVE  worker'[k].generation \in 1..grant'.generation /\ NotBegun(worker[k].generation)'
      <4>1. CASE k = l
        BY <1>t, <2>5, <2>6, <3>1, <3>3, <4>1 DEF Generations
      <4>2. CASE k # l
        BY <1>t, <2>5, <2>6, <2>7, <3>1, <3>4, <4>2 DEF PublicationInv, BegunOnce
      <4> QED
        BY <4>1, <4>2
    <3>5. ASSUME NEW k \in Leases, NEW m \in Leases, worker'[k].at = "uploading",
                 worker'[m].at = "uploading", worker'[k].generation = worker'[m].generation
          PROVE  k = m
      <4>1. CASE k # l /\ m # l
        BY <2>5, <3>5, <4>1 DEF PublicationInv, BegunOnce
      <4>2. CASE (k = l) # (m = l)
        <5>1. PICK j \in {k, m} \ {l} : worker[j].at = "uploading" /\ worker[j].generation = g
          BY <2>5, <3>5, <4>2
        <5>2. j \in Leases /\ g <= grant.generation
          BY <2>7, <5>1
        <5> QED
          BY <1>t, <3>1, <5>2
      <4> QED
        BY <4>1, <4>2
    <3> QED
      BY <3>2, <3>4, <3>5 DEF BegunOnce
  <2> HIDE DEF row
  <2> QED
    BY <2>1, <2>2, <2>3, <2>5, <2>8, WithoutRequests DEF store
<1>5. CASE UploadAnswered(l)
  <2>1. PICK at \in {"finalizing", "over"} : Step(l, at)
    BY <1>5 DEF UploadAnswered
  <2>2. /\ worker[l].at = "uploading" /\ UNCHANGED <<rows, store, upload, rejected>>
    BY <1>5 DEF UploadAnswered
  <2>3. CASE UNCHANGED finalize
    <3>1. RowsStep
      BY <2>2 DEF RowsStep, rows
    <3> QED
      BY <1>s, <2>1, <2>2, <2>3, <3>1 DEF rows, store, WorkerSteps
  <2>4. CASE Begin(<<worker[l].generation, 1>>, l)
    <3> DEFINE g == worker[l].generation
    <3>1. g \in 1..grant.generation /\ g \in Generations /\ NotBegun(g)
      BY <1>t, <2>2 DEF PublicationInv, BegunOnce, Generations
    <3>2. 1 \in 1..MaxDeliveries /\ Final(<<g, 1>>).at = "none"
      BY <3>1, ArtifactsAssumption DEF NotBegun, Final
    <3>3. Begin(<<g, 1>>, l)
      BY <2>4
    <3>w. /\ \A k \in Leases : worker'[k].generation = worker[k].generation
          /\ \A k \in Leases : worker'[k].at = IF k = l THEN at ELSE worker[k].at
      <4>1. at \in WorkerSteps
        BY DEF WorkerSteps
      <4> QED
        BY <1>t, <2>1, <4>1, StepMoves
    <3>u. \A k \in Leases \ {l} : worker[k].at = "uploading" =>
            worker[k].generation \in Generations /\ worker[k].generation # g
      BY <1>t, <2>2 DEF PublicationInv, BegunOnce, Generations
    <3> HIDE DEF g
    <3>4. /\ \A q \in Requests : RequestInv(q)'
          /\ \A h \in Generations \ {g} : NotBegun(h) => NotBegun(h)'
      BY <1>t, <2>2, <3>1, <3>2, <3>3, BeginMoves DEF rows, store
    <3>5. BegunOnce'
      <4>1. \A h \in Generations : h > grant'.generation => NotBegun(h)'
        BY <1>t, <2>2, <3>1, <3>4 DEF PublicationInv, BegunOnce, Generations, rows
      <4> QED
        BY <2>1, <2>2, <3>4, <3>w, <3>u, <4>1 DEF PublicationInv, BegunOnce, rows
    <3>6. RowsAgree' /\ FailureIsCurrent'
      BY <2>1, <2>2, <3>w DEF PublicationInv, RowsAgree, FailureIsCurrent, rows
    <3> QED
      BY <3>4, <3>5, <3>6 DEF PublicationInv
  <2> QED
    BY <1>5, <2>3, <2>4 DEF UploadAnswered
<1> QED
  BY <1>1, <1>2, <1>3, <1>4, <1>5 DEF AskGrant

LEMMA PublicationInit == Init => PublicationInv
<1> SUFFICES ASSUME Init PROVE PublicationInv
  OBVIOUS
<1>1. Typed
  BY TypedInit
<1>2. \A q \in Requests : /\ Final(q).at = "none" /\ ~Final(q).landing /\ ~Final(q).refused
                          /\ asset # q
  BY Constants DEF Init, Final, NoFinalize
<1>3. \A q \in Requests : RequestInv(q)
  BY <1>2 DEF RequestInv, CopyKept, KnowsItTried, RefusalKnown
<1>4. \A g \in Generations : NotBegun(g)
  <2>1. \A g \in Generations, i \in 1..MaxDeliveries : <<g, i>> \in Requests
    BY DEF Requests
  <2> QED
    BY <1>2, <2>1 DEF NotBegun, Final
<1> QED
  BY <1>1, <1>3, <1>4 DEF Init, PublicationInv, RowsAgree, FailureIsCurrent, BegunOnce

LEMMA PublicationStep == PublicationInv /\ [Next]_vars => PublicationInv'
<1> SUFFICES ASSUME PublicationInv, [Next]_vars PROVE PublicationInv'
  OBVIOUS
<1>1. Typed'
  BY TypedStep DEF PublicationInv
<1>2. CASE Next
  BY <1>1, <1>2, PublicationByRun, PublicationByWorker, PublicationByUpload, PublicationByVerifier,
     PublicationByCommit, PublicationByCleaning DEF Next, Course, Trouble, Removing
<1>3. CASE UNCHANGED vars
  BY <1>1, <1>3, GrantMoves DEF vars, rows, store, requests
<1> QED
  BY <1>2, <1>3

LEMMA PublicationHolds == Spec => []PublicationInv
BY PublicationInit, PublicationStep, PTL DEF Spec

(* A file is ready exactly when an asset names it, and the object the asset *)
(* names is in the store and good, through every clean-up of every finalize *)
(* request that ran beside the one that won or lost its commit's answer     *)
(* (finalizeArtifactReady and finalize/+server.ts).                         *)
THEOREM ReadyForGood == Spec => []ReadyHasItsObject
<1>1. PublicationInv => ReadyHasItsObject
  <2> SUFFICES ASSUME PublicationInv PROVE ReadyHasItsObject
    OBVIOUS
  <2>1. asset # NoRequest => copies[asset] = "good"
    BY DEF PublicationInv, Typed, TypeOK, RequestInv, CopyKept
  <2> QED
    BY <2>1 DEF PublicationInv, RowsAgree, ReadyHasItsObject
<1> QED
  BY <1>1, PublicationHolds, PTL

(* A file is failed only for an upload of the grant's present generation    *)
(* that the verifier turned down (markArtifactFailed).                      *)
THEOREM FailedForItsOwn == Spec => []FailureIsCurrent
<1>1. PublicationInv => FailureIsCurrent
  BY DEF PublicationInv
<1> QED
  BY <1>1, PublicationHolds, PTL

(* A file becomes ready only under a lease of an active run, and stays      *)
(* ready with the same asset (lockArtifactRunLease, finalizeArtifactReady). *)
THEOREM ReadyOnce == Spec => ReadyInTimeForGood
<1> DEFINE Good == /\ revision # "ready" /\ revision' = "ready" => run.active
                   /\ revision = "ready" => revision' = "ready" /\ asset' = asset
<1>1. PublicationInv /\ [Next]_vars => [Good]_vars
  <2> SUFFICES ASSUME PublicationInv, Next PROVE Good
    OBVIOUS
  <2>c. /\ (grant.state = "consumed") <=> (asset # NoRequest)
        /\ (revision = "ready") <=> (asset # NoRequest)
    BY DEF PublicationInv, RowsAgree
  <2>1. ASSUME NEW l \in Leases,
               Admit(l) \/ AskRevision(l) \/ AskGrant(l) \/ UploadAnswered(l)
               \/ FinalizeAnswered(l) \/ TryAgain(l) \/ Announce(l)
        PROVE  Good
    BY <2>1 DEF Admit, AskRevision, AskGrant, Reissue, UploadAnswered, FinalizeAnswered, TryAgain, Announce, rows
  <2>2. ASSUME NEW q \in Requests, Commit(q) \/ Land(q) \/ Mark(q)
        PROVE  Good
    BY <2>2, <2>c DEF Commit, Land, FinalizeReady, Finalizable, Holds, Mark, Failable, MarkFailed, rows
  <2>3. ASSUME NEW g \in Generations,
               ReadToken(g) \/ Put(g, "good") \/ Put(g, "bad") \/ Complete(g) \/ MarkUploaded(g)
               \/ \E i \in 1..MaxDeliveries : Redeliver(g, i)
        PROVE  Good
    BY <2>3 DEF ReadToken, Put, Complete, MarkUploaded, Uploading, Redeliver, rows
  <2>4. ASSUME NEW q \in Requests, NEW done \in BOOLEAN,
               \/ ReadGrant(q) \/ VerifyStaged(q) \/ Copy(q, "good") \/ Copy(q, "bad")
               \/ CopyUnanswered(q) \/ StagedGone(q) \/ Unavailable(q) \/ VerifyCopy(q)
               \/ CommitUnanswered(q) \/ MarkLost(q) \/ Recover(q) \/ CannotTell(q)
               \/ Tidy(q, done) \/ Compare(q, done) \/ Discard(q, done) \/ Reject(q, done)
        PROVE  Good
    BY <2>4 DEF ReadGrant, VerifyStaged, Copy, CopyUnanswered, StagedGone, Unavailable, NotHad, VerifyCopy,
                CommitUnanswered, MarkLost, Recover, CannotTell, Tidy, Compare, Discard, Reject, rows
  <2>5. CASE Claim \/ Lapse \/ Stop \/ GrantExpires
    BY <2>5 DEF Claim, Lapse, Stop, GrantExpires, rows
  <2> HIDE DEF Good
  <2> QED
    BY <2>1, <2>2, <2>3, <2>4, <2>5 DEF Next, Course, Trouble, Removing
<1>2. Spec => [][Good]_vars
  BY <1>1, PublicationHolds, PTL DEF Spec
<1> QED
  BY <1>2 DEF ReadyInTimeForGood
=============================================================================
