------------------------- MODULE AgentRunsLeaseProofs -------------------------
(***************************************************************************)
(* What the lease protects, for every value of the constants: the order in *)
(* which holders write, the recognition of repeated batches, checkpoints   *)
(* after a cancellation or the end, and the live lease itself.             *)
(***************************************************************************)
EXTENDS AgentRunsProofs

(* Only the newest grant can be the lease, and a run that is not leased or  *)
(* has ended has no expiry: claims append, releases and endings clear.      *)
LeaseSync ==
  /\ token # None => token = Len(grants)
  /\ token = None \/ state \in Outcomes => expiry = None

(* Rows and checkpoints carry grants that were issued, and a checkpoint was *)
(* saved no later than now.                                                 *)
WritersKnown ==
  /\ \A i \in DOMAIN log : FromWorker(i) => log[i].token <= Len(grants)
  /\ \A k \in DOMAIN saves : saves[k].token <= Len(grants) /\ saves[k].at <= Len(log)

(* A run that can still be claimed, or whose lease is held, has been written *)
(* by workers only; ReplayWindow alone is not inductive, since a claim gives *)
(* a token to any journal.                                                   *)
WorkersOnly ==
  state \in Active \/ token # None =>
    \A i \in DOMAIN log :
      (log[i].kind = "cancel_requested" /\ log[i].by = "user") \/ FromWorker(i)

LeaseInv ==
  /\ LeaseSync /\ WritersKnown /\ WorkersOnly
  /\ FencedHolders /\ CheckpointedNotAbandoned /\ NoDispatchAfterCancel

(* A step that writes neither the journal nor the checkpoint.               *)
Silent ==
  /\ UNCHANGED <<log, saves>>
  /\ Len(grants) <= Len(grants')
  /\ state' \in Active \/ token' # None => state \in Active \/ token # None

(* A step by which the application writes one event.                        *)
Writes(kind, by) ==
  /\ AppEvent(kind, by)
  /\ UNCHANGED <<saves, grants>>
  /\ by = "reconcile" => saves = <<>>
  /\ state' \in Active \/ token' # None =>
       kind = "cancel_requested" /\ by = "user" /\ state \in Active

LEMMA RowTypes ==
  ASSUME TypeOK
  PROVE  /\ \A i \in DOMAIN log : log[i].token \in Nat
         /\ \A k \in DOMAIN saves : saves[k].token \in Nat /\ saves[k].at \in Nat
<1>1. ASSUME NEW i \in DOMAIN log PROVE log[i].token \in Nat
  <2>1. log \in Seq(Entries)
    BY DEF TypeOK
  <2>2. log[i] \in Entries
    BY <2>1
  <2> QED
    BY <2>2 DEF Entries
<1>2. ASSUME NEW k \in DOMAIN saves PROVE saves[k].token \in Nat /\ saves[k].at \in Nat
  <2> DEFINE Save == [token : Nat, dispatch : BOOLEAN, at : Nat]
  <2>1. saves \in Seq(Save)
    BY DEF TypeOK
  <2>2. saves[k] \in Save
    <3> HIDE DEF Save
    <3> QED
      BY <2>1
  <2> QED
    BY <2>2
<1> QED
  BY <1>1, <1>2

LEMMA LeaseSteps ==
  ASSUME TypeOK, [Next]_vars
  PROVE  \/ Silent
         \/ \E n \in 1..Len(grants), v \in 0..MaxSaves, dispatch \in BOOLEAN :
              SaveCheckpoint(n, v, dispatch)
         \/ \E n \in 1..Len(grants), first \in 1..MaxWorkerEvents,
               batch \in Batches, t \in Nows : AppendEvents(n, first, batch, t)
         \/ \E kind, by : Writes(kind, by)
<1>0. Len(grants) \in Nat
  BY DEF TypeOK
<1>1. CASE Tick \/ UNCHANGED vars
  BY <1>0, <1>1 DEF Tick, vars, lease, journal, Silent
<1>2. ASSUME NEW w \in Workers, NEW t \in Nows, Claim(w, t) PROVE Silent
  <2>1. Len(grants') = Len(grants) + 1
    BY <1>2 DEF Claim, TypeOK
  <2> QED
    BY <1>0, <1>2, <2>1 DEF Claim, journal, Silent
<1>3. ASSUME NEW n \in 1..Len(grants), NEW t \in Nows, Renew(n, t) PROVE Silent
  BY <1>0, <1>3 DEF Renew, journal, Silent
<1>4. ASSUME NEW n \in 1..Len(grants), Release(n) PROVE Silent
  BY <1>0, <1>4 DEF Release, journal, Silent
<1>5. CASE RequestCancellation
  BY <1>5 DEF RequestCancellation, lease, AppEvent, Writes
<1>6. CASE FailQueued
  BY <1>6 DEF FailQueued, CloseRun, AppEvent, Writes, Active, Outcomes, None
<1>7. CASE FinalizeCancellation
  BY <1>7 DEF FinalizeCancellation, CloseRun, ClearLease, AppEvent, Writes, Active, Outcomes
<1>8. ASSUME NEW t \in Nows, Reconcile(t)
      PROVE Writes(IF cancelRequested THEN "cancelled" ELSE "failed", "reconcile")
  BY <1>8 DEF Reconcile, NoCheckpoint, CloseRun, ClearLease, AppEvent, Writes, Active, Outcomes
<1> QED
  BY <1>1, <1>2, <1>3, <1>4, <1>5, <1>6, <1>7, <1>8 DEF Next

LEMMA InitLease == Init => LeaseInv
BY DEF Init, LeaseInv, LeaseSync, WritersKnown, WorkersOnly, FencedHolders,
       CheckpointedNotAbandoned, NoDispatchAfterCancel

LEMMA NextLeaseSync == TypeOK /\ LeaseSync /\ [Next]_vars => LeaseSync'
<1> SUFFICES ASSUME TypeOK, LeaseSync, [Next]_vars PROVE LeaseSync'
  OBVIOUS
<1> USE DEF LeaseSync
<1>1. CASE Tick \/ UNCHANGED vars
  BY <1>1 DEF Tick, vars, lease, journal
<1>2. ASSUME NEW w \in Workers, NEW t \in Nows, Claim(w, t) PROVE LeaseSync'
  <2>1. token' = Len(grants') /\ token' # None
    BY <1>2 DEF Claim, TypeOK, None
  <2>2. state' \notin Outcomes
    BY <1>2 DEF Claim, StateOnClaim, Outcomes
  <2> QED
    BY <2>1, <2>2
<1>3. ASSUME NEW n \in 1..Len(grants), NEW t \in Nows, Renew(n, t) PROVE LeaseSync'
  BY <1>3 DEF Renew, HoldsLease, Active, Outcomes, None
<1>4. ASSUME NEW n \in 1..Len(grants), Release(n) PROVE LeaseSync'
  BY <1>4 DEF Release
<1>5. ASSUME NEW n \in 1..Len(grants), NEW first \in 1..MaxWorkerEvents,
             NEW batch \in Batches, NEW t \in Nows, AppendEvents(n, first, batch, t)
      PROVE LeaseSync'
  <2>1. token = n /\ token # None /\ token' = token /\ grants' = grants
    BY <1>5 DEF AppendEvents, HoldsLease, None
  <2>2. state' \in Outcomes => expiry' = None
    BY <1>5 DEF AppendEvents, NextState, NextExpiry, Outcomes
  <2> QED
    BY <2>1, <2>2
<1>6. CASE RequestCancellation
  BY <1>6 DEF RequestCancellation, lease, Outcomes
<1>7. CASE FailQueued
  BY <1>7 DEF FailQueued, CloseRun
<1>8. CASE FinalizeCancellation
  BY <1>8 DEF FinalizeCancellation, ClearLease
<1>9. ASSUME NEW t \in Nows, Reconcile(t) PROVE LeaseSync'
  BY <1>9 DEF Reconcile, ClearLease
<1>10. ASSUME NEW n \in 1..Len(grants), NEW v \in 0..MaxSaves, NEW dispatch \in BOOLEAN,
              SaveCheckpoint(n, v, dispatch)
       PROVE LeaseSync'
  BY <1>10 DEF SaveCheckpoint, lease
<1> QED
  BY <1>1, <1>2, <1>3, <1>4, <1>5, <1>6, <1>7, <1>8, <1>9, <1>10 DEF Next

LEMMA SilentLease ==
  ASSUME TypeOK, TypeOK', LeaseInv, Silent
  PROVE  /\ WritersKnown' /\ WorkersOnly'
         /\ FencedHolders' /\ CheckpointedNotAbandoned' /\ NoDispatchAfterCancel'
<1>1. FencedHolders' /\ CheckpointedNotAbandoned' /\ NoDispatchAfterCancel'
  BY DEF LeaseInv, Silent, FencedHolders, CheckpointedNotAbandoned,
         NoDispatchAfterCancel, FromWorker
<1>2. WorkersOnly'
  BY DEF LeaseInv, Silent, WorkersOnly, FromWorker
<1>3. WritersKnown'
  <2>1. \A i \in DOMAIN log : log[i].token \in Nat
    BY RowTypes
  <2>2. \A k \in DOMAIN saves : saves[k].token \in Nat
    BY RowTypes
  <2>3. Len(grants) \in Nat /\ Len(grants') \in Nat
    BY SMTT(60) DEF TypeOK
  <2> QED
    BY <2>1, <2>2, <2>3 DEF LeaseInv, Silent, WritersKnown, FromWorker
<1> QED
  BY <1>1, <1>2, <1>3

(* A checkpoint is saved only by the newest holder, of a run that is open.  *)
LEMMA SaveLease ==
  ASSUME TypeOK, EndInv, LeaseInv, NEW n \in 1..Len(grants), NEW v \in 0..MaxSaves,
         NEW dispatch \in BOOLEAN, SaveCheckpoint(n, v, dispatch)
  PROVE  /\ WritersKnown' /\ WorkersOnly'
         /\ FencedHolders' /\ CheckpointedNotAbandoned' /\ NoDispatchAfterCancel'
<1>1. /\ n = Len(grants) /\ state \in Active
  <2>1. token = n /\ token # None /\ expiry # None
    BY DEF SaveCheckpoint, HoldsLease, Unexpired, None
  <2> QED
    BY <2>1 DEF LeaseInv, LeaseSync, TypeOK, States
<1>2. /\ UNCHANGED <<log, grants, state, token>>
  BY DEF SaveCheckpoint, lease, journal
<1>3. /\ Len(saves) \in Nat /\ DOMAIN saves = 1..Len(saves)
      /\ Len(saves') = Len(saves) + 1 /\ DOMAIN saves' = 1..Len(saves')
      /\ \A k \in DOMAIN saves : saves'[k] = saves[k]
      /\ saves'[Len(saves')] = [token |-> n, dispatch |-> dispatch, at |-> Len(log)]
      /\ \A k \in DOMAIN saves' : k \in DOMAIN saves \/ k = Len(saves')
  <2> DEFINE new == [token |-> n, dispatch |-> dispatch, at |-> Len(log)]
  <2>1. saves \in Seq([token : Nat, dispatch : BOOLEAN, at : Nat]) /\ new \in [token : Nat, dispatch : BOOLEAN, at : Nat]
    BY DEF TypeOK
  <2>2. saves' = Append(saves, new)
    BY DEF SaveCheckpoint
  <2> HIDE DEF new
  <2>3. /\ Len(saves) \in Nat /\ DOMAIN saves = 1..Len(saves)
        /\ Len(saves') = Len(saves) + 1 /\ DOMAIN saves' = 1..Len(saves')
        /\ \A k \in DOMAIN saves : saves'[k] = saves[k]
        /\ saves'[Len(saves')] = new
        /\ \A k \in DOMAIN saves' : k \in DOMAIN saves \/ k = Len(saves')
    BY <2>1, <2>2, SMTT(60)
  <2> QED
    BY <2>3 DEF new
<1>4. /\ saves'[Len(saves')].token = n /\ saves'[Len(saves')].dispatch = dispatch
      /\ saves'[Len(saves')].at = Len(log)
  BY <1>3
<1>5. /\ Len(grants) \in Nat /\ Len(log) \in Nat /\ DOMAIN log = 1..Len(log)
  BY DEF TypeOK
<1>6. WritersKnown'
  BY <1>1, <1>2, <1>3, <1>4, <1>5 DEF LeaseInv, WritersKnown, FromWorker
<1>7. WorkersOnly'
  BY <1>2 DEF LeaseInv, WorkersOnly, FromWorker
<1>8. FencedHolders'
  <2>1. ASSUME NEW k \in DOMAIN saves', NEW m \in DOMAIN saves', k < m
        PROVE saves'[k].token <= saves'[m].token
    <3>1. k \in DOMAIN saves
      BY <1>3, <2>1
    <3>2. CASE m \in DOMAIN saves
      BY <1>3, <2>1, <3>1, <3>2 DEF LeaseInv, FencedHolders
    <3>3. CASE m = Len(saves')
      BY <1>1, <1>3, <1>4, <3>1, <3>3 DEF LeaseInv, WritersKnown
    <3> QED
      BY <1>3, <3>2, <3>3
  <2>2. ASSUME NEW i \in DOMAIN log', NEW k \in DOMAIN saves', FromWorker(i)'
        PROVE IF i <= saves'[k].at THEN log'[i].token <= saves'[k].token
                                   ELSE saves'[k].token <= log'[i].token
    <3>1. FromWorker(i) /\ i \in DOMAIN log /\ log'[i] = log[i]
      BY <1>2, <2>2 DEF FromWorker
    <3>2. CASE k \in DOMAIN saves
      BY <1>3, <3>1, <3>2 DEF LeaseInv, FencedHolders
    <3>3. CASE k = Len(saves')
      BY <1>1, <1>4, <1>5, <3>1, <3>3 DEF LeaseInv, WritersKnown
    <3> QED
      BY <1>3, <3>2, <3>3
  <2>3. \A i, j \in DOMAIN log' :
          i < j /\ FromWorker(i)' /\ FromWorker(j)' => log'[i].token <= log'[j].token
    BY <1>2 DEF LeaseInv, FencedHolders, FromWorker
  <2> QED
    BY <2>1, <2>2, <2>3 DEF FencedHolders, FromWorker
<1>9. CheckpointedNotAbandoned'
  <2>1. \A i \in DOMAIN log : log[i].by # "reconcile"
    BY <1>1 DEF LeaseInv, WorkersOnly, FromWorker
  <2> QED
    BY <1>2, <2>1 DEF CheckpointedNotAbandoned
<1>10. NoDispatchAfterCancel'
  <2>1. \A i \in DOMAIN log : log[i].kind \notin Outcomes
    BY <1>1 DEF EndInv, EndsOnce, Active, Outcomes
  <2>2. dispatch => \A i \in DOMAIN log : log[i].kind # "cancel_requested"
    BY DEF SaveCheckpoint, MayDispatch, EndInv, CancelRecorded
  <2> QED
    BY <1>2, <1>3, <1>4, <2>1, <2>2 DEF LeaseInv, NoDispatchAfterCancel
<1> QED
  BY <1>6, <1>7, <1>8, <1>9, <1>10

(* The application's events change nothing between the holders, and a       *)
(* checkpoint saved before them stays before them.                          *)
LEMMA WriteLease ==
  ASSUME TypeOK, LeaseInv, NEW kind, NEW by, Writes(kind, by)
  PROVE  /\ WritersKnown' /\ WorkersOnly'
         /\ FencedHolders' /\ CheckpointedNotAbandoned' /\ NoDispatchAfterCancel'
<1>1. /\ Len(log') = Len(log) + 1
      /\ DOMAIN log = 1..Len(log) /\ DOMAIN log' = 1..Len(log')
      /\ \A i \in DOMAIN log : log'[i] = log[i]
      /\ log'[Len(log')] = Entry(kind, by, 0, 0)
      /\ \A i \in DOMAIN log' : i \in DOMAIN log \/ i = Len(log')
  BY AppEventRows DEF Writes
<1>2. Len(log) \in Nat /\ saves' = saves /\ grants' = grants
  BY DEF TypeOK, Writes
<1>3. Entry(kind, by, 0, 0).kind = kind /\ Entry(kind, by, 0, 0).by = by
  BY DEF Entry
<1>4. by # "worker"
  BY DEF Writes, AppEvent
<1>5. \A i \in DOMAIN log' : FromWorker(i)' => i \in DOMAIN log /\ FromWorker(i)
  BY <1>1, <1>3, <1>4 DEF FromWorker
<1>6. \A k \in DOMAIN saves : saves[k].at \in Nat /\ saves[k].at <= Len(log)
  BY RowTypes DEF LeaseInv, WritersKnown
<1>7. WritersKnown'
  <2>1. \A i \in DOMAIN log' : FromWorker(i)' => log'[i].token <= Len(grants)
    BY <1>1, <1>5 DEF LeaseInv, WritersKnown
  <2>2. \A k \in DOMAIN saves : saves[k].token <= Len(grants) /\ saves[k].at <= Len(log')
    BY <1>1, <1>2, <1>6 DEF LeaseInv, WritersKnown
  <2> QED
    BY <1>2, <2>1, <2>2 DEF WritersKnown
<1>8. WorkersOnly'
  <2> SUFFICES ASSUME state' \in Active \/ token' # None
               PROVE \A i \in DOMAIN log' :
                       \/ log'[i].kind = "cancel_requested" /\ log'[i].by = "user"
                       \/ FromWorker(i)'
    BY DEF WorkersOnly
  <2>1. kind = "cancel_requested" /\ by = "user" /\ state \in Active
    BY DEF Writes
  <2> QED
    BY <1>1, <1>3, <2>1 DEF LeaseInv, WorkersOnly, FromWorker
<1>9. FencedHolders'
  <2>1. \A i, j \in DOMAIN log' :
          i < j /\ FromWorker(i)' /\ FromWorker(j)' => log'[i].token <= log'[j].token
    BY <1>1, <1>5 DEF LeaseInv, FencedHolders
  <2>2. \A i \in DOMAIN log', k \in DOMAIN saves :
          FromWorker(i)' => IF i <= saves[k].at THEN log'[i].token <= saves[k].token
                                                ELSE saves[k].token <= log'[i].token
    BY <1>1, <1>5 DEF LeaseInv, FencedHolders
  <2> QED
    BY <1>2, <2>1, <2>2 DEF LeaseInv, FencedHolders
<1>10. CheckpointedNotAbandoned'
  BY <1>1, <1>2, <1>3 DEF LeaseInv, CheckpointedNotAbandoned, Writes
<1>11. NoDispatchAfterCancel'
  <2>1. \A k \in DOMAIN saves : saves[k].at < Len(log')
    BY <1>1, <1>2, <1>6
  <2> QED
    BY <1>1, <1>2, <2>1 DEF LeaseInv, NoDispatchAfterCancel
<1> QED
  BY <1>7, <1>8, <1>9, <1>10, <1>11

(* A batch comes from the newest grant, after everything written so far.    *)
LEMMA AppendLease ==
  ASSUME TypeOK, LeaseInv, NEW n \in 1..Len(grants), NEW first \in 1..MaxWorkerEvents,
         NEW batch \in Batches, NEW t \in Nows, AppendEvents(n, first, batch, t)
  PROVE  /\ WritersKnown' /\ WorkersOnly'
         /\ FencedHolders' /\ CheckpointedNotAbandoned' /\ NoDispatchAfterCancel'
<1>1. /\ Len(log') = Len(log) + Len(batch)
      /\ DOMAIN log = 1..Len(log) /\ DOMAIN log' = 1..Len(log')
      /\ \A i \in DOMAIN log : log'[i] = log[i]
      /\ \A i \in DOMAIN log' : i \in DOMAIN log \/ \E j \in 1..Len(batch) : i = Len(log) + j
  BY BatchRows
<1>2. \A j \in 1..Len(batch) : /\ log'[Len(log) + j].by = "worker"
                               /\ log'[Len(log) + j].token = n
  <2>1. \A j \in 1..Len(batch) :
          log'[Len(log) + j] = Entry(batch[j], "worker", workerCursor + j, n)
    BY BatchRows
  <2>2. \A kind, c : /\ Entry(kind, "worker", c, n).by = "worker"
                     /\ Entry(kind, "worker", c, n).token = n
    BY DEF Entry
  <2> QED
    BY <2>1, <2>2
<1>3. /\ Len(log) \in Nat /\ Len(batch) \in Nat \ {0} /\ Len(grants) \in Nat
  BY BatchType DEF TypeOK
<1>4. /\ saves' = saves /\ grants' = grants /\ token' = token
      /\ n = Len(grants) /\ token # None /\ state \in Active
  BY DEF AppendEvents, HoldsLease, Admits, LeaseInv, LeaseSync, None
<1>5. \A i \in DOMAIN log' : \/ i \in DOMAIN log
                             \/ i > Len(log) /\ log'[i].by = "worker" /\ log'[i].token = n
  BY <1>1, <1>2, <1>3
<1>6. \A k \in DOMAIN saves : saves[k].at \in Nat /\ saves[k].at <= Len(log)
  BY RowTypes DEF LeaseInv, WritersKnown
<1>7. WritersKnown'
  <2>1. \A i \in DOMAIN log' : FromWorker(i)' => log'[i].token <= Len(grants)
    BY <1>1, <1>3, <1>4, <1>5 DEF LeaseInv, WritersKnown, FromWorker
  <2>2. \A k \in DOMAIN saves : saves[k].token <= Len(grants) /\ saves[k].at <= Len(log')
    BY <1>1, <1>3, <1>6 DEF LeaseInv, WritersKnown
  <2> QED
    BY <1>4, <2>1, <2>2 DEF WritersKnown
<1>8. WorkersOnly'
  BY <1>1, <1>4, <1>5 DEF LeaseInv, WorkersOnly, FromWorker
<1>9. FencedHolders'
  <2>1. ASSUME NEW i \in DOMAIN log', NEW j \in DOMAIN log',
               i < j, FromWorker(i)', FromWorker(j)'
        PROVE log'[i].token <= log'[j].token
    <3>1. CASE j \in DOMAIN log
      <4>1. i \in DOMAIN log
        BY <1>1, <1>3, <2>1, <3>1
      <4> QED
        BY <1>1, <2>1, <3>1, <4>1 DEF LeaseInv, FencedHolders, FromWorker
    <3>2. CASE j \notin DOMAIN log
      <4>1. log'[j].token = n
        BY <1>5, <3>2
      <4>2. log'[i].token <= Len(grants)
        BY <1>4, <1>7, <2>1 DEF WritersKnown
      <4> QED
        BY <1>4, <4>1, <4>2
    <3> QED
      BY <3>1, <3>2
  <2>2. ASSUME NEW i \in DOMAIN log', NEW k \in DOMAIN saves, FromWorker(i)'
        PROVE IF i <= saves[k].at THEN log'[i].token <= saves[k].token
                                  ELSE saves[k].token <= log'[i].token
    <3>1. CASE i \in DOMAIN log
      BY <1>1, <2>2, <3>1 DEF LeaseInv, FencedHolders, FromWorker
    <3>2. CASE i \notin DOMAIN log
      <4>1. i > Len(log) /\ log'[i].token = n /\ i \in Nat
        BY <1>1, <1>5, <3>2
      <4>2. ~(i <= saves[k].at)
        BY <1>3, <1>6, <4>1
      <4>3. saves[k].token <= n
        BY <1>4 DEF LeaseInv, WritersKnown
      <4> QED
        BY <4>1, <4>2, <4>3
    <3> QED
      BY <3>1, <3>2
  <2> QED
    BY <1>4, <2>1, <2>2 DEF LeaseInv, FencedHolders
<1>10. CheckpointedNotAbandoned'
  BY <1>1, <1>4, <1>5 DEF LeaseInv, CheckpointedNotAbandoned
<1>11. NoDispatchAfterCancel'
  <2>1. ASSUME NEW i \in DOMAIN log', NEW k \in DOMAIN saves, i \notin DOMAIN log
        PROVE saves[k].at < i
    <3>1. i > Len(log) /\ i \in Nat
      BY <1>1, <1>5, <2>1
    <3> QED
      BY <1>3, <1>6, <3>1
  <2> QED
    BY <1>1, <1>4, <2>1 DEF LeaseInv, NoDispatchAfterCancel
<1> QED
  BY <1>7, <1>8, <1>9, <1>10, <1>11

LEMMA NextLease == TypeOK /\ TypeOK' /\ EndInv /\ LeaseInv /\ [Next]_vars => LeaseInv'
<1> SUFFICES ASSUME TypeOK, TypeOK', EndInv, LeaseInv, [Next]_vars PROVE LeaseInv'
  OBVIOUS
<1>1. LeaseSync'
  BY NextLeaseSync DEF LeaseInv
<1>2. CASE Silent
  BY <1>1, <1>2, SilentLease DEF LeaseInv
<1>3. ASSUME NEW n \in 1..Len(grants), NEW v \in 0..MaxSaves, NEW dispatch \in BOOLEAN,
             SaveCheckpoint(n, v, dispatch)
      PROVE LeaseInv'
  BY <1>1, <1>3, SaveLease DEF LeaseInv
<1>4. ASSUME NEW n \in 1..Len(grants), NEW first \in 1..MaxWorkerEvents,
             NEW batch \in Batches, NEW t \in Nows, AppendEvents(n, first, batch, t)
      PROVE LeaseInv'
  BY <1>1, <1>4, AppendLease DEF LeaseInv
<1>5. ASSUME NEW kind, NEW by, Writes(kind, by) PROVE LeaseInv'
  BY <1>1, <1>5, WriteLease DEF LeaseInv
<1> QED
  BY <1>2, <1>3, <1>4, <1>5, LeaseSteps

(* All of LeaseInv holds in every reachable state.                          *)
THEOREM LeaseInvariant == Spec => []LeaseInv
BY InitTypeOK, NextTypeOK, InitEnd, NextEnd, InitLease, NextLease, PTL DEF Spec

(* Holders write in the order of their grants, in the journal and in the    *)
(* checkpoint: an earlier one never writes after a later one has.           *)
THEOREM HoldersAreFenced == Spec => []FencedHolders
<1>1. LeaseInv => FencedHolders
  BY DEF LeaseInv
<1> QED
  BY <1>1, LeaseInvariant, PTL

(* A repeated batch is always found: nobody but workers and the requester   *)
(* of the cancellation has written while a grant can be presented.          *)
THEOREM RepeatsAreRecognised == Spec => []ReplayWindow
<1>1. LeaseInv => ReplayWindow
  BY DEF LeaseInv, WorkersOnly, ReplayWindow
<1> QED
  BY <1>1, LeaseInvariant, PTL

(* A run with a checkpoint is never closed by the reader side.              *)
THEOREM CheckpointsAreRecovered == Spec => []CheckpointedNotAbandoned
<1>1. LeaseInv => CheckpointedNotAbandoned
  BY DEF LeaseInv
<1> QED
  BY <1>1, LeaseInvariant, PTL

(* Nothing is dispatched after the cancellation was requested, and nothing  *)
(* saved after the end.                                                     *)
THEOREM CancellationStopsDispatch == Spec => []NoDispatchAfterCancel
<1>1. LeaseInv => NoDispatchAfterCancel
  BY DEF LeaseInv
<1> QED
  BY <1>1, LeaseInvariant, PTL

------------------------------------------------------------------------------
LEMMA LiveLeaseStep ==
  ASSUME TypeOK, [Next]_vars, Unexpired(clock), token' # token
  PROVE  token' = None /\ (log' = log \/ log'[Len(log')].by = "finalize")
<1> USE RunAssumption
<1>1. clock \in Nat /\ expiry \in Nat /\ expiry > clock /\ expiry # None
  BY DEF TypeOK, Unexpired
<1>2. CASE Tick \/ UNCHANGED vars
  BY <1>2 DEF Tick, vars, lease
<1>3. ASSUME NEW w \in Workers, NEW t \in Nows, Claim(w, t) PROVE FALSE
  BY <1>1, <1>3 DEF Claim, Claimable, Nows
<1>4. ASSUME NEW n \in 1..Len(grants), NEW t \in Nows, Renew(n, t) PROVE FALSE
  BY <1>4 DEF Renew
<1>5. ASSUME NEW n \in 1..Len(grants), Release(n) PROVE token' = None /\ log' = log
  BY <1>5 DEF Release, journal
<1>6. ASSUME NEW n \in 1..Len(grants), NEW first \in 1..MaxWorkerEvents,
             NEW batch \in Batches, NEW t \in Nows, AppendEvents(n, first, batch, t)
      PROVE FALSE
  BY <1>6 DEF AppendEvents
<1>7. CASE RequestCancellation
  BY <1>7 DEF RequestCancellation, lease
<1>8. CASE FailQueued
  BY <1>8 DEF FailQueued
<1>9. CASE FinalizeCancellation
  <2>1. token' = None /\ AppEvent("cancelled", "finalize")
    BY <1>9 DEF FinalizeCancellation, CloseRun, ClearLease, AppEvent, Outcomes
  <2>2. log'[Len(log')] = Entry("cancelled", "finalize", 0, 0)
    BY <2>1, AppEventRows
  <2> QED
    BY <2>1, <2>2 DEF Entry
<1>10. ASSUME NEW t \in Nows, Reconcile(t) PROVE FALSE
  BY <1>1, <1>10 DEF Reconcile, Nows
<1>11. ASSUME NEW n \in 1..Len(grants), NEW v \in 0..MaxSaves, NEW dispatch \in BOOLEAN,
              SaveCheckpoint(n, v, dispatch)
       PROVE FALSE
  BY <1>11 DEF SaveCheckpoint, lease
<1> QED
  BY <1>2, <1>3, <1>4, <1>5, <1>6, <1>7, <1>8, <1>9, <1>10, <1>11 DEF Next

(* A lease that has not run out is given up by its holder, by the run's end *)
(* or to finish a cancellation; no claim and no reader takes it away.       *)
THEOREM LiveLeasesAreKept == Spec => LiveLeaseKept
<1>1. TypeOK /\ [Next]_vars =>
        [Unexpired(clock) /\ token' # token =>
           /\ token' = None
           /\ log' = log \/ log'[Len(log')].by = "finalize"]_vars
  BY LiveLeaseStep
<1> QED
  BY <1>1, TypeCorrect, PTL DEF Spec, LiveLeaseKept
==============================================================================
