-------------------------- MODULE PreparedTurnProofs --------------------------
(***************************************************************************)
(* Proofs about PreparedTurn for any number of requests, every skew of the *)
(* clocks the assumption allows, and every bound.                          *)
(***************************************************************************)
EXTENDS PreparedTurn, SequenceTheorems, TLAPS

Rows == [state : RunStates, key : Nat \cup ClientKeys]
Messages == [created : Nat, partial : BOOLEAN, claim : Nat,
             closedBy : {"nobody", "sender", "other"}]

(* What a step does to the legal values, action by action.                  *)
LEMMA InitTypeOK == Init => TypeOK
BY TurnAssumption DEF Init, TypeOK, Places, Unclaimed

LEMMA ClaimTyped ==
  ASSUME TypeOK, NEW r \in Requests, NEW value \in Nat, Claim(r, value)
  PROVE  /\ message' \in Messages
         /\ token' \in [Requests -> Nat] /\ token'[r] = value
         /\ \A q \in Requests \ {r} : token'[q] = token[q]
         /\ superseded' \subseteq Requests
BY DEF TypeOK, Claim, Messages

LEMMA RunMoves ==
  ASSUME TypeOK, NEW i \in 1..Len(runs), NEW state \in RunStates
  PROVE  /\ [runs EXCEPT ![i].state = state] \in Seq(Rows)
         /\ Len([runs EXCEPT ![i].state = state]) = Len(runs)
         /\ \A j \in 1..Len(runs) : [runs EXCEPT ![i].state = state][j].state =
                                      IF j = i THEN state ELSE runs[j].state
<1>1. runs \in Seq(Rows)
  BY DEF TypeOK, Rows
<1>2. \A j \in 1..Len(runs) : runs[j] \in Rows
  BY <1>1, ElementOfSeq
<1>3. [runs[i] EXCEPT !.state = state] \in Rows /\ [runs[i] EXCEPT !.state = state].state = state
  BY <1>2 DEF Rows
<1>4. [runs EXCEPT ![i].state = state] = [runs EXCEPT ![i] = [runs[i] EXCEPT !.state = state]]
  OBVIOUS
<1> DEFINE row == [runs[i] EXCEPT !.state = state]
<1> HIDE DEF row
<1>5. row \in Rows /\ row.state = state /\ [runs EXCEPT ![i].state = state] = [runs EXCEPT ![i] = row]
  BY <1>3, <1>4 DEF row
<1> QED
  BY <1>1, <1>5, ExceptSeq

LEMMA NextTypeOK == TypeOK /\ [Next]_vars => TypeOK'
<1> SUFFICES ASSUME TypeOK, [Next]_vars PROVE TypeOK'
  OBVIOUS
<1> USE TurnAssumption
<1>t. /\ \A t \in Now : t \in Nat \ {0}
      /\ Senders \subseteq Requests /\ Resumers \subseteq Requests /\ Discarders \subseteq Requests
      /\ Len(runs) \in Nat /\ DOMAIN runs = 1..Len(runs)
  BY DEF TypeOK, Now, Requests
<1>1. CASE Tick
  BY <1>1 DEF TypeOK, Tick
<1>2. ASSUME NEW r \in Senders, NEW t \in Now, Prepare(r, t) \/ Duplicate(r, t) PROVE TypeOK'
  <2>1. CASE Prepare(r, t)
    <3>1. message \in Messages /\ t + 1 \in Nat \ {0} /\ r \in Requests
      BY <1>t DEF TypeOK, Messages
    <3>2. message' \in Messages
      BY <2>1, <3>1 DEF Prepare, Messages
    <3>3. token' \in [Requests -> Nat] /\ token'[r] # 0 /\ \A q \in Requests \ {r} : token'[q] = token[q]
      BY <2>1, <3>1 DEF TypeOK, Prepare
    <3> QED
      BY <2>1, <3>1, <3>2, <3>3 DEF TypeOK, Prepare, Go, Places, Unclaimed, Messages
  <2>2. CASE Duplicate(r, t)
    <3>1. PICK place \in {"waiting", "done"} : Go(r, place)
      BY <2>2 DEF Duplicate
    <3> QED
      BY <1>t, <2>2, <3>1 DEF TypeOK, Duplicate, Go, Places
  <2> QED
    BY <1>2, <2>1, <2>2
<1>3. ASSUME NEW r \in Senders, NEW t \in Now, TakeOver(r, t) PROVE TypeOK'
  <2>1. TakeoverToken(t) \in Nat \ {0}
    BY <1>t DEF TakeoverToken, TypeOK
  <2>2. CASE Claim(r, TakeoverToken(t)) /\ Go(r, "owner")
    BY <1>t, <1>3, <2>1, <2>2, ClaimTyped DEF TypeOK, TakeOver, Go, Places, Unclaimed, Messages
  <2>3. CASE Go(r, "done") /\ UNCHANGED <<message, token, superseded>>
    BY <1>t, <1>3, <2>3 DEF TypeOK, TakeOver, Go, Places, Unclaimed
  <2> QED
    BY <1>3, <2>2, <2>3 DEF TakeOver
<1>4. ASSUME NEW r \in Requests, SeeOutcome(r) \/ CheckResume(r) \/ CheckDiscard(r) PROVE TypeOK'
  BY <1>t, <1>4 DEF TypeOK, SeeOutcome, CheckResume, CheckDiscard, Go, Places, Unclaimed
<1>5. ASSUME NEW r \in Requests, NEW t \in Now, ClaimPartial(r, t) PROVE TypeOK'
  <2>1. CASE Claim(r, t) /\ Go(r, "owner")
    BY <1>t, <1>5, <2>1, ClaimTyped DEF TypeOK, ClaimPartial, Go, Places, Unclaimed, Messages
  <2>2. CASE Go(r, "done") /\ UNCHANGED <<message, token, superseded>>
    BY <1>t, <1>5, <2>2 DEF TypeOK, ClaimPartial, Go, Places, Unclaimed
  <2> QED
    BY <1>5, <2>1, <2>2 DEF ClaimPartial
<1>6. ASSUME NEW r \in Requests, NEW lost \in BOOLEAN, NEW key \in Keys(r), CreateRun(r, key, lost)
      PROVE  TypeOK'
  <2> DEFINE row == [state |-> "queued", key |-> key]
  <2>1. row \in Rows
    BY DEF Rows, Keys, TypeOK, RunStates, ActiveStates
  <2>2. Append(runs, row) \in Seq(Rows) /\ Len(Append(runs, row)) = Len(runs) + 1
    BY <2>1, AppendProperties DEF TypeOK, Rows
  <2>3. runs' = runs \/ runs' = Append(runs, row)
    BY <1>6 DEF CreateRun
  <2>4. runs' \in Seq(Rows) /\ (Len(runs') = Len(runs) \/ Len(runs') = Len(runs) + 1)
    <3> HIDE DEF row
    <3>1. runs \in Seq(Rows)
      BY DEF TypeOK, Rows
    <3> QED
      BY <2>2, <2>3, <3>1
  <2>5. job' \in [Requests -> 0..Len(runs')] /\ (pc'[r] = "starting" => job'[r] # 0)
        /\ \A q \in Requests \ {r} : job'[q] = job[q]
    <3>1. CASE UNCHANGED <<runs, job>> /\ Go(r, IF lost THEN Failed(r) ELSE "done")
      BY <3>1 DEF TypeOK, Go, Failed
    <3>2. CASE runs' = Append(runs, row) /\ job' = [job EXCEPT ![r] = Len(runs) + 1]
      <4> HIDE DEF row
      <4> QED
      BY <1>t, <2>2, <3>2 DEF TypeOK
    <3> QED
      BY <1>6, <3>1, <3>2 DEF CreateRun
  <2> HIDE DEF row
  <2>6. /\ pc' \in [Requests -> Places] /\ \A q \in Requests \ {r} : pc'[q] = pc[q]
        /\ pc[r] = "owner"
    <3>1. PICK place \in {"done", "closing", "starting"} : Go(r, place)
      BY <1>6 DEF CreateRun, Failed
    <3> QED
      BY <1>6, <3>1 DEF TypeOK, CreateRun, Go, Places
  <2>7. message' \in Messages
    <3>1. message \in Messages
      BY DEF TypeOK, Messages
    <3>2. message' = message \/ message' = [message EXCEPT !.claim = 0]
      BY <1>6 DEF CreateRun, Unclaimed
    <3> QED
      BY <3>1, <3>2 DEF Messages
  <2>8. UNCHANGED <<clock, token, superseded>>
    BY <1>6 DEF CreateRun
  <2> QED
    BY <2>4, <2>5, <2>6, <2>7, <2>8 DEF TypeOK, Unclaimed, Rows, Messages
<1>7. ASSUME NEW r \in Requests, GetRun(r) PROVE TypeOK'
  BY <1>t, <1>7 DEF TypeOK, GetRun, Reusable, ActiveRun, Go, Places, Unclaimed
<1>8. ASSUME NEW r \in Requests, StaleOwner(r) \/ Abandon(r) \/ StartAccepted(r) PROVE TypeOK'
  <2>1. PICK place \in {"done", "closing"} :
          Go(r, place) /\ (place = "closing" => pc[r] = "owner")
    BY <1>8 DEF StaleOwner, Abandon, StartAccepted, Failed
  <2> QED
    BY <1>8, <2>1 DEF TypeOK, StaleOwner, Abandon, StartAccepted, Go, Places
<1>9. ASSUME NEW r \in Requests, CloseLocally(r) PROVE TypeOK'
  BY <1>t, <1>9 DEF TypeOK, CloseLocally, Go, Places, Unclaimed
<1>10. ASSUME NEW r \in Requests, StartFailed(r) PROVE TypeOK'
  <2>1. job[r] \in 1..Len(runs)
    BY <1>t, <1>10 DEF TypeOK, StartFailed
  <2>2. /\ runs' \in Seq(Rows) /\ Len(runs') = Len(runs)
        /\ message' \in Messages
    <3>1. message \in Messages /\ runs \in Seq(Rows) /\ "stopped" \in RunStates
      BY DEF TypeOK, Messages, Rows, RunStates
    <3>2. CASE UNCHANGED <<runs, message>>
      BY <3>1, <3>2
    <3>3. CASE runs' = [runs EXCEPT ![job[r]].state = "stopped"] /\ message' = [message EXCEPT !.partial = TRUE]
      <4>1. message' \in Messages
        BY <3>1, <3>3 DEF Messages
      <4> QED
        BY <2>1, <3>1, <3>3, <4>1, RunMoves
    <3> QED
      BY <1>10, <3>2, <3>3 DEF StartFailed
  <2> QED
    BY <1>10, <2>2 DEF TypeOK, StartFailed, Go, Places, Rows, Messages
<1>11. ASSUME NEW i \in DOMAIN runs,
              RunStarts(i) \/ RunReleased(i) \/ RunProjects(i)
              \/ (\E outcome \in {"complete", "stopped"} : RunEnds(i, outcome))
       PROVE TypeOK'
  <2>2. {"running", "queued", "complete", "stopped"} \subseteq RunStates
    BY DEF RunStates, ActiveStates
  <2>3. message \in Messages /\ i \in 1..Len(runs)
    BY <1>t DEF TypeOK, Messages
  <2>4. CASE RunStarts(i) \/ RunReleased(i)
    <3>1. PICK state \in RunStates : runs' = [runs EXCEPT ![i].state = state]
      BY <2>2, <2>4 DEF RunStarts, RunReleased
    <3>2. runs' \in Seq(Rows) /\ Len(runs') = Len(runs)
      BY <2>3, <3>1, RunMoves
    <3> QED
      BY <2>4, <3>2 DEF TypeOK, RunStarts, RunReleased, Rows
  <2>5. CASE RunProjects(i)
    <3>1. message' \in Messages
      BY <2>3, <2>5 DEF RunProjects, Messages
    <3> QED
      BY <2>5, <3>1 DEF TypeOK, RunProjects, Messages
  <2>6. ASSUME NEW outcome \in {"complete", "stopped"}, RunEnds(i, outcome) PROVE TypeOK'
    <3>1. runs' \in Seq(Rows) /\ Len(runs') = Len(runs)
      BY RunMoves, <2>2, <2>3, <2>6 DEF RunEnds
    <3>2. message' \in Messages
      BY <2>3, <2>6 DEF RunEnds, Messages
    <3> QED
      BY <2>6, <3>1, <3>2 DEF TypeOK, RunEnds, Rows, Messages
  <2> QED
    BY <1>11, <2>4, <2>5, <2>6
<1>12. CASE UNCHANGED vars
  BY <1>12 DEF TypeOK, vars
<1> QED
  BY <1>t, <1>1, <1>2, <1>3, <1>4, <1>5, <1>6, <1>7, <1>8, <1>9, <1>10, <1>11, <1>12 DEF Next, Requests

(* Every variable keeps its type, and a request that is to commit or to     *)
(* start something holds a token or knows a run.                            *)
THEOREM TypeCorrect == Spec => []TypeOK
BY InitTypeOK, NextTypeOK, PTL DEF Spec
------------------------------------------------------------------------------
(* The inductive invariant of the claims.                                   *)

(* A request that holds a claim, or believes it does.                       *)
Prepares(r) == pc[r] \in {"owner", "closing"}
PastItsClaim == {"owner", "closing", "starting", "done"}

(* Before the turn is prepared nobody has done anything.                    *)
BeforeTurn ==
  message.created = 0 => /\ runs = <<>> /\ \A r \in Requests : pc[r] = "new"
                         /\ message.partial /\ message.claim = Unclaimed
                         /\ message.closedBy = "nobody" /\ superseded = {}

(* A claim that is not the present one is older than any clock shows, so    *)
(* that no later claim can be given its token; and only one request holds   *)
(* the present one.                                                         *)
TokensBehind ==
  \A r \in Requests : Prepares(r) => token[r] = message.claim \/ token[r] < clock - Skew
OneOwner ==
  \A r, q \in Requests :
    Prepares(r) /\ Prepares(q) /\ token[r] = message.claim /\ token[q] = message.claim => r = q

SupersededSpent ==
  \A r \in superseded : pc[r] \in PastItsClaim /\ (Prepares(r) => token[r] # message.claim)

(* Once there is a run, no sender holds the claim any more.                 *)
SendersSpent ==
  runs # <<>> => \A r \in Senders : Prepares(r) => token[r] # message.claim

ClaimInv ==
  /\ TypeOK /\ BeforeTurn /\ TokensBehind /\ OneOwner /\ SupersededSpent /\ SendersSpent
  /\ PreparedAnsweredOnce

(* A step that makes and spends no claim.                                   *)
Quiet ==
  /\ UNCHANGED <<token, superseded>> /\ clock' >= clock
  /\ message'.created = message.created /\ message'.claim = message.claim
  /\ message'.closedBy = message.closedBy
  /\ runs = <<>> => message'.partial = message.partial
  /\ runs' = <<>> <=> runs = <<>>
  /\ message.created # 0 \/ UNCHANGED <<pc, runs>>
  /\ \A r \in Requests : /\ pc'[r] \in {"owner", "closing"} => Prepares(r)
                         /\ pc[r] \in PastItsClaim => pc'[r] \in PastItsClaim

LEMMA QuietKeeps == ClaimInv /\ Quiet /\ TypeOK' => ClaimInv'
<1> SUFFICES ASSUME ClaimInv, Quiet, TypeOK' PROVE ClaimInv'
  OBVIOUS
<1> USE TurnAssumption DEF ClaimInv, Quiet
<1>1. BeforeTurn'
  BY DEF BeforeTurn
<1>2. TokensBehind'
  <2>1. clock \in Nat /\ clock' \in Nat /\ \A r \in Requests : token[r] \in Nat
    BY DEF TypeOK
  <2>2. \A r \in Requests : Prepares(r)' => Prepares(r)
    BY DEF Prepares
  <2> QED
    BY <2>1, <2>2 DEF TokensBehind
<1>3. OneOwner'
  BY DEF OneOwner, Prepares
<1>4. SupersededSpent'
  BY DEF SupersededSpent, Prepares, TypeOK
<1>5. SendersSpent'
  BY DEF SendersSpent, Prepares, Requests
<1>6. PreparedAnsweredOnce'
  BY DEF PreparedAnsweredOnce
<1> QED
  BY <1>1, <1>2, <1>3, <1>4, <1>5, <1>6

(* A step is quiet, or makes or spends a claim.                             *)
Claims(r, t) ==
  \/ r \in Senders /\ Prepare(r, t)
  \/ r \in Senders /\ TakeOver(r, t) /\ Claim(r, TakeoverToken(t)) /\ Go(r, "owner")
  \/ r \in Resumers \cup Discarders /\ ClaimPartial(r, t) /\ Claim(r, t) /\ Go(r, "owner")
Spends(r) ==
  \/ CloseLocally(r) /\ Owns(r)
  \/ \E lost \in BOOLEAN, key \in Keys(r) : CreateRun(r, key, lost) /\ runs' # runs

LEMMA QuietOrClaim ==
  ASSUME TypeOK, BeforeTurn, [Next]_vars
  PROVE  \/ Quiet
         \/ \E r \in Requests, t \in Now : Claims(r, t)
         \/ \E r \in Requests : Spends(r)
<1> USE TurnAssumption
<1>t. /\ Senders \subseteq Requests /\ Resumers \subseteq Requests /\ Discarders \subseteq Requests
      /\ DOMAIN runs = 1..Len(runs) /\ Len(runs) \in Nat
      /\ pc \in [Requests -> Places]
  BY DEF TypeOK, Requests
<1>m. ASSUME NEW r \in Requests, NEW place \in Places, Go(r, place), UNCHANGED <<token, superseded, clock>>,
             place \in {"owner", "closing"} => Prepares(r),
             pc[r] \in PastItsClaim => place \in PastItsClaim,
             message.created # 0, runs' = <<>> <=> runs = <<>>,
             \/ UNCHANGED message
             \/ runs # <<>> /\ message' = [message EXCEPT !.partial = TRUE]
      PROVE  Quiet
  <2>1. /\ message'.created = message.created /\ message'.claim = message.claim
        /\ message'.closedBy = message.closedBy
        /\ runs = <<>> => message'.partial = message.partial
    <3>1. message \in Messages
      BY DEF TypeOK, Messages
    <3> QED
      BY <1>m, <3>1 DEF Messages
  <2>2. \A q \in Requests : /\ pc'[q] \in {"owner", "closing"} => Prepares(q)
                            /\ pc[q] \in PastItsClaim => pc'[q] \in PastItsClaim
    BY <1>t, <1>m DEF Go, Prepares
  <2>3. clock' >= clock
    BY <1>m DEF TypeOK
  <2> QED
    BY <1>m, <2>1, <2>2, <2>3 DEF Quiet
<1>b. ASSUME NEW r \in Requests, pc[r] # "new" \/ runs # <<>> PROVE message.created # 0
  BY <1>b DEF BeforeTurn
<1>1. CASE Tick
  BY <1>1 DEF Tick, Quiet, TypeOK, Prepares
<1>2. ASSUME NEW r \in Senders, NEW t \in Now, Duplicate(r, t)
      PROVE  Quiet
  <2>1. PICK place \in {"waiting", "done"} : Go(r, place)
    BY <1>2 DEF Duplicate
  <2> QED
    BY <1>t, <1>m, <1>2, <2>1 DEF Duplicate, Places, PastItsClaim
<1>3. ASSUME NEW r \in Senders, NEW t \in Now, TakeOver(r, t)
      PROVE  Quiet \/ Claims(r, t)
  <2>1. CASE Go(r, "done") /\ UNCHANGED <<message, token, superseded>>
    BY <1>t, <1>b, <1>m, <1>3, <2>1 DEF TakeOver, Places, PastItsClaim
  <2> QED
    BY <1>3, <2>1 DEF TakeOver, Claims
<1>4. ASSUME NEW r \in Resumers \cup Discarders, NEW t \in Now, ClaimPartial(r, t)
      PROVE  Quiet \/ Claims(r, t)
  <2>1. CASE Go(r, "done") /\ UNCHANGED <<message, token, superseded>>
    BY <1>t, <1>b, <1>m, <1>4, <2>1 DEF ClaimPartial, Places, PastItsClaim
  <2> QED
    BY <1>4, <2>1 DEF ClaimPartial, Claims
<1>5. ASSUME NEW r \in Requests, SeeOutcome(r) \/ CheckResume(r) \/ CheckDiscard(r)
      PROVE  Quiet
  <2>1. PICK place \in {"checked", "done"} : Go(r, place)
    BY <1>5 DEF SeeOutcome, CheckResume, CheckDiscard
  <2>2. message.created # 0 /\ UNCHANGED <<clock, message, runs, token, superseded>>
    BY <1>5, <1>b DEF SeeOutcome, CheckResume, CheckDiscard
  <2>3. pc[r] \in {"new", "waiting"}
    BY <1>5 DEF SeeOutcome, CheckResume, CheckDiscard
  <2> QED
    BY <1>m, <1>5, <2>1, <2>2, <2>3 DEF Places, PastItsClaim
<1>6. ASSUME NEW r \in Requests, NEW lost \in BOOLEAN, NEW key \in Keys(r), CreateRun(r, key, lost)
      PROVE  Quiet \/ Spends(r)
  <2>1. CASE runs' = runs
    <3>1. UNCHANGED message
      <4>1. runs \in Seq(Rows) /\ [state |-> "queued", key |-> key] \in Rows
        BY DEF TypeOK, Rows, Keys, RunStates, ActiveStates
      <4>2. runs' # Append(runs, [state |-> "queued", key |-> key])
        BY <2>1, <4>1, AppendProperties
      <4> QED
        BY <1>6, <4>2 DEF CreateRun
    <3>2. PICK place \in {"done", "closing", "starting"} : Go(r, place)
      BY <1>6 DEF CreateRun, Failed
    <3> QED
      BY <1>b, <1>m, <1>6, <2>1, <3>1, <3>2 DEF CreateRun, Places, PastItsClaim, Prepares
  <2>2. CASE runs' # runs
    BY <1>6, <2>2 DEF Spends
  <2> QED
    BY <2>1, <2>2
<1>7. ASSUME NEW r \in Requests, GetRun(r) \/ StaleOwner(r) \/ Abandon(r) \/ StartAccepted(r)
      PROVE  Quiet
  <2>1. PICK place \in {"starting", "done", "closing"} :
          Go(r, place) /\ (place = "closing" => pc[r] = "owner")
    BY <1>7 DEF GetRun, StaleOwner, Abandon, StartAccepted, Failed
  <2>2. message.created # 0 /\ UNCHANGED <<clock, message, runs, token, superseded>>
    BY <1>7, <1>b DEF GetRun, StaleOwner, Abandon, StartAccepted
  <2> QED
    BY <1>m, <1>7, <2>1, <2>2 DEF Places, PastItsClaim, Prepares
<1>8. ASSUME NEW r \in Requests, CloseLocally(r)
      PROVE  Quiet \/ Spends(r)
  <2>1. CASE ~Owns(r)
    BY <1>b, <1>m, <1>8, <2>1 DEF CloseLocally, Places, PastItsClaim
  <2> QED
    BY <1>8, <2>1 DEF Spends
<1>9. ASSUME NEW r \in Requests, StartFailed(r)
      PROVE  Quiet
  <2>1. job[r] \in 1..Len(runs) /\ runs # <<>> /\ message.created # 0
    BY <1>t, <1>9, <1>b DEF StartFailed, TypeOK
  <2>2. runs' # <<>>
    BY <1>9, <2>1, RunMoves DEF StartFailed, RunStates
  <2> QED
    BY <1>m, <1>9, <2>1, <2>2 DEF StartFailed, Places, PastItsClaim
<1>10. ASSUME NEW i \in DOMAIN runs,
              RunStarts(i) \/ RunReleased(i) \/ RunProjects(i)
              \/ (\E outcome \in {"complete", "stopped"} : RunEnds(i, outcome))
       PROVE  Quiet
  <2>1. runs # <<>> /\ i \in 1..Len(runs) /\ message.created # 0
    BY <1>t DEF BeforeTurn
  <2>2. runs' # <<>>
    BY <1>10, <2>1, RunMoves DEF RunStarts, RunReleased, RunProjects, RunEnds, RunStates, ActiveStates
  <2>3. /\ message'.created = message.created /\ message'.claim = message.claim
        /\ message'.closedBy = message.closedBy
    <3>1. message \in Messages
      BY DEF TypeOK, Messages
    <3>2. UNCHANGED message \/ \E partial \in BOOLEAN : message' = [message EXCEPT !.partial = partial]
      BY <1>10 DEF RunStarts, RunReleased, RunProjects, RunEnds
    <3> QED
      BY <3>1, <3>2 DEF Messages
  <2>4. UNCHANGED <<clock, pc, token, superseded>>
    BY <1>10 DEF RunStarts, RunReleased, RunProjects, RunEnds
  <2> QED
    BY <2>1, <2>2, <2>3, <2>4 DEF Quiet, Prepares, TypeOK
<1>11. CASE UNCHANGED vars
  BY <1>11 DEF vars, Quiet, TypeOK, Prepares
<1>12. ASSUME NEW r \in Senders, NEW t \in Now, Prepare(r, t)
       PROVE  Claims(r, t)
  BY <1>12 DEF Claims
<1> QED
  BY <1>t, <1>1, <1>2, <1>3, <1>4, <1>5, <1>6, <1>7, <1>8, <1>9, <1>10, <1>11, <1>12 DEF Next, Requests

(* A new claim has a token no other request has: the one it replaces is     *)
(* older by more than clocks differ, and all others were spent.             *)
NewClaim(r) ==
  /\ clock' = clock /\ UNCHANGED runs
  /\ pc' = [pc EXCEPT ![r] = "owner"] /\ pc[r] \notin PastItsClaim
  /\ token' = [token EXCEPT ![r] = message'.claim]
  /\ message'.claim \in Nat \ {Unclaimed} /\ message'.claim >= clock - Skew
  /\ message.claim = Unclaimed \/ message.claim < clock - Skew
  /\ message'.claim # message.claim
  /\ message'.created # 0 /\ message'.closedBy = message.closedBy
  /\ message.partial /\ message'.partial
  /\ r \in Senders => runs = <<>>
  /\ superseded' \subseteq superseded \cup
       {q \in Requests \ {r} : Prepares(q) /\ token[q] = message.claim}

LEMMA ClaimIsNew ==
  ASSUME ClaimInv, NEW r \in Requests, NEW t \in Now, Claims(r, t)
  PROVE  NewClaim(r)
<1> USE TurnAssumption DEF Unclaimed
<1>t. /\ t \in Nat \ {0} /\ t >= clock - Skew /\ t <= clock + Skew /\ clock \in Nat
      /\ message \in Messages /\ message.claim \in Nat
  BY DEF ClaimInv, TypeOK, Now, Messages
<1>1. CASE r \in Senders /\ Prepare(r, t)
  <2>1. message.created = 0 /\ runs = <<>> /\ message.partial /\ message.claim = 0
    BY <1>1 DEF Prepare, ClaimInv, BeforeTurn
  <2>2. /\ message'.claim = t + 1 /\ message'.created = t + 1
        /\ message'.closedBy = message.closedBy /\ message'.partial = message.partial
    BY <1>1, <1>t DEF Prepare, Messages
  <2> QED
    BY <1>1, <1>t, <2>1, <2>2 DEF Prepare, NewClaim, Go, PastItsClaim
<1>2. ASSUME NEW value \in Nat \ {0}, Claim(r, value), Go(r, "owner"), UNCHANGED <<clock, runs>>,
             message.created # 0, message.partial, r \in Senders => runs = <<>>,
             value >= clock - Skew, message.claim = 0 \/ message.claim < clock - Skew,
             message.claim # value, pc[r] \in {"waiting", "checked"}
      PROVE  NewClaim(r)
  <2>1. /\ message'.claim = value /\ message'.created = message.created
        /\ message'.closedBy = message.closedBy /\ message'.partial = message.partial
    BY <1>2, <1>t DEF Claim, Messages
  <2> QED
    BY <1>2, <1>t, <2>1 DEF Claim, NewClaim, Go, PastItsClaim, Prepares
<1>b. pc[r] # "new" => message.created # 0
  BY DEF ClaimInv, BeforeTurn
<1>3. CASE r \in Senders /\ TakeOver(r, t) /\ Claim(r, TakeoverToken(t)) /\ Go(r, "owner")
  <2>1. /\ runs = <<>> /\ message.partial /\ message.claim # 0
        /\ message.claim <= t - TakeoverAge /\ pc[r] = "waiting" /\ UNCHANGED <<clock, runs>>
    BY <1>3 DEF TakeOver, Go, ClaimInv, TypeOK
  <2>2. message.claim < t /\ TakeoverToken(t) = t /\ message.claim < clock - Skew
    BY <1>t, <2>1 DEF TakeoverToken
  <2> QED
    BY <1>2, <1>3, <1>b, <1>t, <2>1, <2>2
<1>4. CASE r \in Resumers \cup Discarders /\ ClaimPartial(r, t) /\ Claim(r, t) /\ Go(r, "owner")
  <2>1. /\ message.partial /\ (message.claim = 0 \/ message.claim < t - ClaimTTL)
        /\ pc[r] = "checked" /\ UNCHANGED <<clock, runs>>
    BY <1>4 DEF ClaimPartial, Go, ClaimInv, TypeOK
  <2>2. message.claim < t /\ (message.claim = 0 \/ message.claim < clock - Skew)
    BY <1>t, <2>1
  <2>3. r \notin Senders
    BY <1>4
  <2> QED
    BY <1>2, <1>4, <1>b, <1>t, <2>1, <2>2, <2>3
<1> QED
  BY <1>1, <1>3, <1>4 DEF Claims

LEMMA ClaimKeeps ==
  ASSUME ClaimInv, TypeOK', NEW r \in Requests, NewClaim(r)
  PROVE  ClaimInv'
<1> USE TurnAssumption DEF NewClaim
<1>t. /\ token \in [Requests -> Nat] /\ clock \in Nat /\ pc \in [Requests -> Places]
      /\ \A q \in Requests : Prepares(q) => token[q] # Unclaimed
      /\ message.claim \in Nat
  BY DEF ClaimInv, TypeOK, Prepares
<1>1. \A q \in Requests \ {r} : /\ Prepares(q)' <=> Prepares(q)
                               /\ token'[q] = token[q] /\ pc'[q] = pc[q]
  BY <1>t DEF Prepares
<1>2. \A q \in Requests \ {r} : Prepares(q) => token[q] < clock - Skew
  BY <1>t DEF ClaimInv, TokensBehind
<1>3. token'[r] = message'.claim /\ Prepares(r)' /\ pc'[r] = "owner"
  BY <1>t DEF Prepares
<1>4. BeforeTurn'
  BY DEF BeforeTurn
<1>5. TokensBehind'
  BY <1>t, <1>1, <1>2, <1>3 DEF TokensBehind
<1>6. OneOwner'
  BY <1>t, <1>1, <1>2, <1>3 DEF OneOwner
<1>7. SupersededSpent'
  <2>1. ASSUME NEW q \in superseded' PROVE q \in Requests \ {r} /\ pc[q] \in PastItsClaim
    BY <2>1 DEF ClaimInv, TypeOK, SupersededSpent, Prepares, PastItsClaim
  <2> QED
    BY <1>t, <1>1, <1>2, <2>1 DEF SupersededSpent
<1>8. SendersSpent'
  BY <1>t, <1>1, <1>2 DEF SendersSpent, Requests
<1>9. PreparedAnsweredOnce'
  BY DEF ClaimInv, PreparedAnsweredOnce
<1> QED
  BY <1>4, <1>5, <1>6, <1>7, <1>8, <1>9 DEF ClaimInv

(* Spending a claim leaves no other request with its token.                 *)
LEMMA SpendKeeps ==
  ASSUME ClaimInv, TypeOK', NEW r \in Requests, Spends(r)
  PROVE  ClaimInv'
<1> USE TurnAssumption DEF Unclaimed
<1>t. /\ token \in [Requests -> Nat] /\ clock \in Nat /\ pc \in [Requests -> Places]
      /\ \A q \in Requests : Prepares(q) => token[q] # Unclaimed
      /\ message \in Messages /\ message.claim \in Nat /\ superseded \subseteq Requests
  BY DEF ClaimInv, TypeOK, Prepares, Messages
<1>1. /\ UNCHANGED <<clock, token, superseded>> /\ message'.created = message.created
      /\ message'.claim = 0 /\ message.partial /\ message.claim = token[r] /\ Prepares(r)
      /\ \A q \in Requests \ {r} : pc'[q] = pc[q]
      /\ pc'[r] \in PastItsClaim
      /\ Prepares(r)' => token[r] < clock - Skew
  <2>1. CASE CloseLocally(r) /\ Owns(r)
    BY <1>t, <2>1 DEF CloseLocally, Owns, Go, Prepares, PastItsClaim, Messages
  <2>2. ASSUME NEW lost \in BOOLEAN, NEW key \in Keys(r), CreateRun(r, key, lost), runs' # runs
        PROVE  <1>1
    <3>1. PICK place \in {"closing", "done", "starting"} : Go(r, place)
      BY <2>2 DEF CreateRun, Failed
    <3>2. message' = [message EXCEPT !.claim = 0]
      BY <2>2 DEF CreateRun
    <3> QED
      BY <1>t, <2>2, <3>1, <3>2 DEF CreateRun, Owns, Settled, Go, Prepares, PastItsClaim, Messages
  <2> QED
    BY <2>1, <2>2 DEF Spends
<1>2. \A q \in Requests \ {r} : (Prepares(q)' <=> Prepares(q)) /\ (Prepares(q) => token[q] < clock - Skew)
  BY <1>t, <1>1 DEF ClaimInv, TokensBehind, OneOwner, Prepares
<1>3. BeforeTurn'
  BY <1>1 DEF ClaimInv, BeforeTurn, Prepares
<1>4. TokensBehind' /\ OneOwner' /\ SendersSpent'
  BY <1>t, <1>1, <1>2 DEF TokensBehind, OneOwner, SendersSpent, Requests
<1>5. SupersededSpent'
  BY <1>t, <1>1, <1>2 DEF ClaimInv, SupersededSpent
<1>6. PreparedAnsweredOnce'
  <2>1. CASE CloseLocally(r) /\ Owns(r)
    <3>1. /\ ~message'.partial /\ UNCHANGED runs
          /\ message'.closedBy = "sender" => r \in Senders
      BY <1>t, <2>1 DEF CloseLocally, Messages
    <3> QED
      BY <1>1, <3>1 DEF ClaimInv, SendersSpent, PreparedAnsweredOnce
  <2>2. ASSUME NEW lost \in BOOLEAN, NEW key \in Keys(r), CreateRun(r, key, lost), runs' # runs
        PROVE  PreparedAnsweredOnce'
    <3>1. message' = [message EXCEPT !.claim = 0]
      BY <2>2 DEF CreateRun
    <3> QED
      BY <1>t, <1>1, <3>1 DEF ClaimInv, PreparedAnsweredOnce, Messages
  <2> QED
    BY <2>1, <2>2, <1>1 DEF Spends
<1> QED
  BY <1>3, <1>4, <1>5, <1>6 DEF ClaimInv

LEMMA ClaimInvStep == ClaimInv /\ [Next]_vars => ClaimInv'
<1> SUFFICES ASSUME ClaimInv, [Next]_vars PROVE ClaimInv'
  OBVIOUS
<1>1. TypeOK'
  BY NextTypeOK DEF ClaimInv
<1>2. CASE Quiet
  BY <1>1, <1>2, QuietKeeps
<1>3. CASE \E r \in Requests, t \in Now : Claims(r, t)
  BY <1>1, <1>3, ClaimIsNew, ClaimKeeps
<1>4. CASE \E r \in Requests : Spends(r)
  BY <1>1, <1>4, SpendKeeps
<1> QED
  BY <1>2, <1>3, <1>4, QuietOrClaim DEF ClaimInv

LEMMA ClaimInvHolds == Spec => []ClaimInv
<1>1. Init => ClaimInv
  <2> SUFFICES ASSUME Init PROVE ClaimInv
    OBVIOUS
  <2>1. TypeOK
    BY InitTypeOK
  <2>2. BeforeTurn /\ TokensBehind /\ OneOwner /\ SupersededSpent /\ SendersSpent /\ PreparedAnsweredOnce
    BY DEF Init, BeforeTurn, TokensBehind, OneOwner, SupersededSpent, SendersSpent,
           PreparedAnsweredOnce, Prepares
  <2> QED
    BY <2>1, <2>2 DEF ClaimInv
<1> QED
  BY <1>1, ClaimInvStep, PTL DEF Spec

(* A prepared turn is answered by a run or by local text and never by both: *)
(* a sender that holds the claim knows that there is no run, for as long as *)
(* clocks differ by less than half of the age of a takeover.                *)
THEOREM AnsweredOnce == Spec => []PreparedAnsweredOnce
<1>1. ClaimInv => PreparedAnsweredOnce
  BY DEF ClaimInv
<1> QED
  BY <1>1, ClaimInvHolds, PTL

(* A request that prepares a run moves on only by itself.                   *)
LEMMA OwnersMove ==
  ASSUME TypeOK, [Next]_vars, NEW r \in Requests, Prepares(r), pc'[r] # pc[r]
  PROVE  \/ GetRun(r) \/ StaleOwner(r) \/ Abandon(r) \/ CloseLocally(r)
         \/ \E lost \in BOOLEAN, key \in Keys(r) : CreateRun(r, key, lost)
<1>t. pc \in [Requests -> Places] /\ Senders \cup Resumers \cup Discarders = Requests
  BY DEF TypeOK, Requests
<1>1. ASSUME NEW q \in Requests, q # r, NEW place, Go(q, place) PROVE FALSE
  BY <1>t, <1>1 DEF Go
<1>2. CASE Tick
  BY <1>2 DEF Tick
<1>3. ASSUME NEW q \in Senders, NEW t \in Now, Prepare(q, t) \/ Duplicate(q, t) \/ TakeOver(q, t) PROVE FALSE
  <2>1. pc[q] \in {"new", "waiting"} /\ \E place : Go(q, place)
    BY <1>3 DEF Prepare, Duplicate, TakeOver
  <2> QED
    BY <1>1, <1>t, <2>1 DEF Prepares
<1>4. ASSUME NEW q \in Requests, NEW t \in Now, ClaimPartial(q, t) PROVE FALSE
  <2>1. pc[q] = "checked" /\ \E place : Go(q, place)
    BY <1>4 DEF ClaimPartial
  <2> QED
    BY <1>1, <1>t, <2>1 DEF Prepares
<1>5. ASSUME NEW q \in Requests, q # r, NEW lost \in BOOLEAN, NEW key \in Keys(q),
             \/ CreateRun(q, key, lost) \/ GetRun(q) \/ StaleOwner(q) \/ CloseLocally(q) \/ Abandon(q)
             \/ StartAccepted(q) \/ StartFailed(q)
      PROVE  FALSE
  <2>1. \E place : Go(q, place)
    BY <1>5 DEF CreateRun, GetRun, StaleOwner, CloseLocally, Abandon, StartAccepted, StartFailed
  <2> QED
    BY <1>1, <1>5, <2>1
<1>6. ~StartAccepted(r) /\ ~StartFailed(r)
  BY DEF StartAccepted, StartFailed, Prepares
<1>7. ASSUME NEW i \in DOMAIN runs,
             RunStarts(i) \/ RunReleased(i) \/ RunProjects(i)
             \/ (\E outcome \in {"complete", "stopped"} : RunEnds(i, outcome))
      PROVE  FALSE
  BY <1>7 DEF RunStarts, RunReleased, RunProjects, RunEnds
<1>8. ~UNCHANGED vars
  BY DEF vars
<1>9. ASSUME NEW q \in Requests, SeeOutcome(q) \/ CheckResume(q) \/ CheckDiscard(q) PROVE FALSE
  <2>1. pc[q] \in {"new", "waiting", "checked"} /\ \E place : Go(q, place)
    BY <1>9 DEF SeeOutcome, CheckResume, CheckDiscard
  <2> QED
    BY <1>1, <1>t, <2>1 DEF Prepares
<1>10. ASSUME NEW q \in Requests, NEW lost \in BOOLEAN, NEW key \in Keys(q), CreateRun(q, key, lost)
       PROVE  \E l \in BOOLEAN, k \in Keys(r) : CreateRun(r, k, l)
  <2>1. q = r
    BY <1>5, <1>10
  <2> QED
    BY <1>10, <2>1
<1>11. ASSUME NEW q \in Requests,
              \/ GetRun(q) \/ StaleOwner(q) \/ CloseLocally(q) \/ Abandon(q)
              \/ StartAccepted(q) \/ StartFailed(q)
       PROVE  GetRun(r) \/ StaleOwner(r) \/ Abandon(r) \/ CloseLocally(r)
  <2>1. Keys(q) # {}
    BY DEF Keys
  <2>2. q = r
    BY <1>5, <1>11, <2>1
  <2> QED
    BY <1>6, <1>11, <2>2
<1> QED
  BY <1>t, <1>2, <1>3, <1>4, <1>6, <1>7, <1>8, <1>9, <1>10, <1>11 DEF Next

(* A request whose claim was taken over creates no run and finishes no text *)
(* with it: no other claim ever has its token.                              *)
THEOREM SupersededNever == Spec => SupersededNeverCommits
<1> DEFINE Commits(r) == pc[r] \in {"owner", "closing"} /\ pc'[r] # pc[r] /\ ~UNCHANGED <<message, runs>>
<1>1. ASSUME ClaimInv, [Next]_vars, NEW r \in superseded, Commits(r) PROVE FALSE
  <2>1. r \in Requests /\ Prepares(r) /\ token[r] # message.claim
    BY <1>1 DEF ClaimInv, TypeOK, SupersededSpent, Prepares
  <2>2. \/ GetRun(r) \/ StaleOwner(r) \/ Abandon(r) \/ CloseLocally(r)
        \/ \E lost \in BOOLEAN, key \in Keys(r) : CreateRun(r, key, lost)
    BY <1>1, <2>1, OwnersMove DEF ClaimInv
  <2> QED
    BY <1>1, <2>1, <2>2 DEF GetRun, StaleOwner, Abandon, CloseLocally, CreateRun, Owns
<1>2. ClaimInv /\ [Next]_vars =>
        [\A r \in superseded :
           pc[r] \in {"owner", "closing"} /\ pc'[r] # pc[r] =>
             /\ message' = message /\ runs' = runs]_vars
  BY <1>1
<1> QED
  BY <1>2, ClaimInvHolds, PTL DEF Spec, SupersededNeverCommits

------------------------------------------------------------------------------
(* One run at a time.                                                       *)

LEMMA RunsStep ==
  ASSUME TypeOK, [Next]_vars
  PROVE  \/ UNCHANGED runs
         \/ ActiveRun = {} /\ \E row \in Rows : runs' = Append(runs, row)
         \/ \E i \in ActiveRun, state \in RunStates : runs' = [runs EXCEPT ![i].state = state]
<1>1. CASE Tick \/ UNCHANGED vars
  BY <1>1 DEF Tick, vars
<1>2. ASSUME NEW r \in Senders, NEW t \in Now, Prepare(r, t) \/ Duplicate(r, t) \/ TakeOver(r, t)
      PROVE  UNCHANGED runs
  BY <1>2 DEF Prepare, Duplicate, TakeOver
<1>3. ASSUME NEW r, NEW t, SeeOutcome(r) \/ CheckResume(r) \/ CheckDiscard(r) \/ ClaimPartial(r, t)
      PROVE  UNCHANGED runs
  BY <1>3 DEF SeeOutcome, CheckResume, CheckDiscard, ClaimPartial
<1>4. ASSUME NEW r \in Requests, NEW lost \in BOOLEAN, NEW key \in Keys(r), CreateRun(r, key, lost)
      PROVE  UNCHANGED runs \/ (ActiveRun = {} /\ \E row \in Rows : runs' = Append(runs, row))
  <2>1. [state |-> "queued", key |-> key] \in Rows
    BY DEF TypeOK, Rows, Keys, RunStates, ActiveStates
  <2> QED
    BY <1>4, <2>1 DEF CreateRun, Reusable
<1>5. ASSUME NEW r \in Requests,
             \/ GetRun(r) \/ StaleOwner(r) \/ CloseLocally(r) \/ Abandon(r) \/ StartAccepted(r)
      PROVE  UNCHANGED runs
  BY <1>5 DEF GetRun, StaleOwner, CloseLocally, Abandon, StartAccepted
<1>6. ASSUME NEW r \in Requests, StartFailed(r)
      PROVE  \/ UNCHANGED runs
             \/ \E i \in ActiveRun : runs' = [runs EXCEPT ![i].state = "stopped"]
  BY <1>6 DEF StartFailed, ActiveRun, ActiveStates, TypeOK
<1>7. ASSUME NEW i \in DOMAIN runs,
             RunStarts(i) \/ RunReleased(i) \/ RunProjects(i)
             \/ (\E outcome \in {"complete", "stopped"} : RunEnds(i, outcome))
      PROVE  \/ UNCHANGED runs
             \/ /\ i \in ActiveRun
                /\ \E state \in RunStates : runs' = [runs EXCEPT ![i].state = state]
  BY <1>7 DEF RunStarts, RunReleased, RunProjects, RunEnds, ActiveRun, ActiveStates, RunStates
<1>8. "stopped" \in RunStates
  BY DEF RunStates
<1> QED
  BY <1>1, <1>2, <1>3, <1>4, <1>5, <1>6, <1>7, <1>8 DEF Next

LEMMA OneActiveStep == TypeOK /\ OneActiveRun /\ [Next]_vars => OneActiveRun'
<1> SUFFICES ASSUME TypeOK, OneActiveRun, [Next]_vars PROVE OneActiveRun'
  OBVIOUS
<1>t. runs \in Seq(Rows) /\ Len(runs) \in Nat /\ DOMAIN runs = 1..Len(runs)
  BY DEF TypeOK, Rows
<1>1. CASE UNCHANGED runs
  BY <1>1 DEF OneActiveRun, ActiveRun
<1>2. ASSUME NEW row \in Rows, ActiveRun = {}, runs' = Append(runs, row) PROVE OneActiveRun'
  <2>1. /\ DOMAIN runs' = 1..(Len(runs) + 1)
        /\ \A i \in 1..Len(runs) : runs'[i] = runs[i]
    BY <1>t, <1>2, AppendProperties
  <2>2. \A i \in ActiveRun' : i = Len(runs) + 1
    BY <1>t, <1>2, <2>1 DEF ActiveRun
  <2> QED
    BY <2>2 DEF OneActiveRun
<1>3. ASSUME NEW i \in ActiveRun, NEW state \in RunStates, runs' = [runs EXCEPT ![i].state = state]
      PROVE  OneActiveRun'
  <2>1. i \in 1..Len(runs)
    BY <1>t DEF ActiveRun
  <2>2. DOMAIN runs' = 1..Len(runs) /\ \A j \in 1..Len(runs) : j # i => runs'[j].state = runs[j].state
    BY <1>t, <1>3, <2>1, RunMoves
  <2>3. ActiveRun' \subseteq ActiveRun
    BY <1>t, <2>1, <2>2 DEF ActiveRun
  <2> QED
    BY <2>3 DEF OneActiveRun
<1> QED
  BY <1>1, <1>2, <1>3, RunsStep

(* However many tabs submit and resume at once, at most one run works on    *)
(* the message: one is created only under the message's lock and when none  *)
(* is active.                                                               *)
THEOREM OneRun == Spec => []OneActiveRun
<1>1. Init => OneActiveRun
  BY DEF Init, OneActiveRun, ActiveRun
<1> QED
  BY <1>1, OneActiveStep, TypeCorrect, PTL DEF Spec
==============================================================================
