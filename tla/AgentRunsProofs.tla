--------------------------- MODULE AgentRunsProofs ---------------------------
(***************************************************************************)
(* Proofs about AgentRuns for every number of workers, every batch limit,  *)
(* every lease length, grace and staleness of "now", and every bound.      *)
(***************************************************************************)
EXTENDS AgentRuns, SequenceTheorems, TLAPS

(* What a batch that an append accepts looks like.                          *)
LEMMA BatchType ==
  ASSUME NEW batch \in Batches
  PROVE  /\ batch \in Seq(WorkerKinds)
         /\ Len(batch) \in Nat \ {0}
         /\ Len(batch) <= BatchLimit
         /\ DOMAIN batch = 1..Len(batch)
         /\ batch[Len(batch)] \in WorkerKinds
<1>1. PICK n \in 1..BatchLimit : batch \in [1..n -> Kinds]
  BY DEF Batches
<1>2. n \in Nat \ {0} /\ n <= BatchLimit
  BY RunAssumption
<1>3. batch \in Seq(WorkerKinds) /\ Len(batch) = n /\ DOMAIN batch = 1..n
  BY <1>1, <1>2, RunAssumption
<1> QED
  BY <1>2, <1>3

(* The journal rows one accepted batch adds.                                *)
Added(batch, first, n) ==
  [i \in 1..Len(batch) |-> Entry(batch[i], "worker", first + i - 1, n)]

LEMMA AddedType ==
  ASSUME NEW batch \in Batches, NEW first \in Nat \ {0}, NEW n \in Nat
  PROVE  /\ Added(batch, first, n) \in Seq(Entries)
         /\ Len(Added(batch, first, n)) = Len(batch)
<1>1. batch \in Seq(WorkerKinds) /\ Len(batch) \in Nat
  BY BatchType
<1>2. \A i \in 1..Len(batch) : Entry(batch[i], "worker", first + i - 1, n) \in Entries
  BY <1>1 DEF Entry, Entries
<1> QED
  BY <1>1, <1>2 DEF Added

LEMMA InitTypeOK == Init => TypeOK
<1> SUFFICES ASSUME Init PROVE TypeOK
  OBVIOUS
<1>1. grants \in Seq(Workers) /\ token \in 0..Len(grants)
  BY DEF Init, None
<1>2. log \in Seq(Entries) /\ saves \in Seq([token : Nat, dispatch : BOOLEAN, at : Nat])
  BY DEF Init
<1>3. clock \in Nat \ {0} /\ expiry \in Nat /\ workerCursor \in Nat /\ answer \in Nat
  BY DEF Init, None
<1>4. state \in States /\ cancelRequested \in BOOLEAN
  BY DEF Init, States, Active
<1>5. message \in [partial : BOOLEAN, shows : Nat]
  BY DEF Init
<1> QED
  BY <1>1, <1>2, <1>3, <1>4, <1>5 DEF TypeOK

LEMMA NextTypeOK == TypeOK /\ [Next]_vars => TypeOK'
<1> SUFFICES ASSUME TypeOK, [Next]_vars PROVE TypeOK'
  OBVIOUS
<1> USE RunAssumption DEF TypeOK, lease, journal
<1>1. CASE Tick
  BY <1>1 DEF Tick
<1>2. ASSUME NEW w \in Workers, NEW t \in Nows, Claim(w, t) PROVE TypeOK'
  BY <1>2 DEF Claim, StateOnClaim, States, Active, Nows
<1>3. ASSUME NEW n \in 1..Len(grants), NEW t \in Nows, Renew(n, t) PROVE TypeOK'
  BY <1>3 DEF Renew, Nows
<1>4. ASSUME NEW n \in 1..Len(grants), Release(n) PROVE TypeOK'
  BY <1>4 DEF Release, StateOnRelease, States, Active, None
<1>5. ASSUME NEW n \in 1..Len(grants), NEW first \in 1..MaxWorkerEvents,
             NEW batch \in Batches, NEW t \in Nows, AppendEvents(n, first, batch, t)
      PROVE TypeOK'
  <2>1. /\ Len(batch) \in Nat \ {0} /\ batch[Len(batch)] \in WorkerKinds
        /\ Added(batch, first, n) \in Seq(Entries)
    BY BatchType, AddedType
  <2>2. log' \in Seq(Entries)
    BY <1>5, <2>1, SMTT(60) DEF AppendEvents, Added
  <2>3. state' \in States /\ expiry' \in Nat
    BY <1>5, <2>1 DEF AppendEvents, NextState, NextExpiry, States, Active, None, Nows
  <2>4. workerCursor' \in Nat
    BY <1>5, <2>1, SMTT(60) DEF AppendEvents
  <2>5. answer' \in Nat
    BY <1>5, <2>1 DEF AppendEvents
  <2>6. message' \in [partial : BOOLEAN, shows : Nat]
    BY <1>5, <2>5 DEF AppendEvents
  <2> QED
    BY <1>5, <2>2, <2>3, <2>4, <2>5, <2>6 DEF AppendEvents
<1>6. CASE RequestCancellation
  BY <1>6 DEF RequestCancellation, Entry, Entries, States, Active
<1>7. CASE FailQueued
  BY <1>7 DEF FailQueued, CloseRun, Entry, Entries, States, Outcomes, WorkerKinds
<1>8. CASE FinalizeCancellation
  BY <1>8 DEF FinalizeCancellation, CloseRun, ClearLease, Entry, Entries, States,
              Outcomes, WorkerKinds, None
<1>9. ASSUME NEW t \in Nows, Reconcile(t) PROVE TypeOK'
  BY <1>9 DEF Reconcile, CloseRun, ClearLease, Entry, Entries, States, Outcomes,
              WorkerKinds, None
<1>10. ASSUME NEW n \in 1..Len(grants), NEW v \in 0..MaxSaves, NEW dispatch \in BOOLEAN,
              SaveCheckpoint(n, v, dispatch)
       PROVE TypeOK'
  BY <1>10 DEF SaveCheckpoint
<1>11. CASE UNCHANGED vars
  BY <1>11 DEF vars
<1> QED
  BY <1>1, <1>2, <1>3, <1>4, <1>5, <1>6, <1>7, <1>8, <1>9, <1>10, <1>11 DEF Next

(* Every variable keeps its type: every operation writes a legal row.       *)
THEOREM TypeCorrect == Spec => []TypeOK
BY InitTypeOK, NextTypeOK, PTL DEF Spec

------------------------------------------------------------------------------
(* How a step changes the journal.                                          *)

(* One event written by the application itself.                             *)
AppEvent(kind, by) ==
  /\ by \in {"user", "start", "finalize", "reconcile"}
  /\ kind \in Outcomes \cup {"cancel_requested"}
  /\ log' = Append(log, Entry(kind, by, 0, 0))
  /\ workerCursor' = workerCursor

LEMMA JournalSteps ==
  ASSUME TypeOK, [Next]_vars
  PROVE  \/ UNCHANGED <<log, workerCursor>>
         \/ \E n \in 1..Len(grants), first \in 1..MaxWorkerEvents,
               batch \in Batches, t \in Nows : AppendEvents(n, first, batch, t)
         \/ RequestCancellation /\ AppEvent("cancel_requested", "user")
         \/ FailQueued /\ AppEvent("failed", "start")
         \/ FinalizeCancellation /\ AppEvent("cancelled", "finalize")
         \/ \E t \in Nows : /\ Reconcile(t)
                           /\ AppEvent(IF cancelRequested THEN "cancelled" ELSE "failed",
                                       "reconcile")
<1>1. CASE Tick \/ UNCHANGED vars
  BY <1>1 DEF Tick, vars, journal
<1>2. ASSUME NEW w \in Workers, NEW t \in Nows, Claim(w, t) PROVE UNCHANGED <<log, workerCursor>>
  BY <1>2 DEF Claim, journal
<1>3. ASSUME NEW n \in 1..Len(grants), NEW t \in Nows, Renew(n, t)
      PROVE UNCHANGED <<log, workerCursor>>
  BY <1>3 DEF Renew, journal
<1>4. ASSUME NEW n \in 1..Len(grants), Release(n) PROVE UNCHANGED <<log, workerCursor>>
  BY <1>4 DEF Release, journal
<1>5. ASSUME NEW n \in 1..Len(grants), NEW v \in 0..MaxSaves, NEW dispatch \in BOOLEAN,
             SaveCheckpoint(n, v, dispatch)
      PROVE UNCHANGED <<log, workerCursor>>
  BY <1>5 DEF SaveCheckpoint, journal
<1>6. CASE RequestCancellation
  BY <1>6 DEF RequestCancellation, AppEvent
<1>7. CASE FailQueued
  BY <1>7 DEF FailQueued, CloseRun, AppEvent, Outcomes
<1>8. CASE FinalizeCancellation
  BY <1>8 DEF FinalizeCancellation, CloseRun, AppEvent, Outcomes
<1>9. ASSUME NEW t \in Nows, Reconcile(t)
      PROVE AppEvent(IF cancelRequested THEN "cancelled" ELSE "failed", "reconcile")
  BY <1>9 DEF Reconcile, CloseRun, AppEvent, Outcomes
<1> QED
  BY <1>1, <1>2, <1>3, <1>4, <1>5, <1>6, <1>7, <1>8, <1>9 DEF Next

(* The rows of the journal after an event of the application...             *)
LEMMA AppEventRows ==
  ASSUME TypeOK, NEW kind, NEW by, AppEvent(kind, by)
  PROVE  /\ Len(log') = Len(log) + 1
         /\ DOMAIN log = 1..Len(log) /\ DOMAIN log' = 1..Len(log')
         /\ \A i \in DOMAIN log : log'[i] = log[i]
         /\ log'[Len(log')] = Entry(kind, by, 0, 0)
         /\ \A i \in DOMAIN log' : i \in DOMAIN log \/ i = Len(log')
<1>1. log \in Seq(Entries) /\ Entry(kind, by, 0, 0) \in Entries
  BY DEF TypeOK, AppEvent, Entry, Entries, Outcomes, WorkerKinds
<1> QED
  BY <1>1 DEF AppEvent

(* ... and after a batch.                                                   *)
LEMMA BatchRows ==
  ASSUME TypeOK, NEW n \in 1..Len(grants), NEW first \in 1..MaxWorkerEvents,
         NEW batch \in Batches, NEW t \in Nows, AppendEvents(n, first, batch, t)
  PROVE  /\ Len(log') = Len(log) + Len(batch)
         /\ DOMAIN log = 1..Len(log) /\ DOMAIN log' = 1..Len(log')
         /\ \A i \in DOMAIN log : log'[i] = log[i]
         /\ \A i \in 1..Len(batch) :
              log'[Len(log) + i] = Entry(batch[i], "worker", workerCursor + i, n)
         /\ \A i \in DOMAIN log' : \/ i \in DOMAIN log
                                   \/ \E j \in 1..Len(batch) : i = Len(log) + j
<1> USE RunAssumption
<1>1. /\ log \in Seq(Entries) /\ workerCursor \in Nat
      /\ Added(batch, first, n) \in Seq(Entries)
      /\ Len(Added(batch, first, n)) = Len(batch) /\ Len(batch) \in Nat
  BY AddedType, BatchType DEF TypeOK
<1>2. log' = log \o Added(batch, first, n) /\ first = workerCursor + 1
  BY DEF AppendEvents, Added, Continues
<1>3. \A i \in 1..Len(batch) :
        Added(batch, first, n)[i] = Entry(batch[i], "worker", workerCursor + i, n)
  BY <1>1, <1>2 DEF Added
<1> DEFINE new == Added(batch, first, n)
<1> HIDE DEF new
<1>4. /\ log' \in Seq(Entries) /\ Len(log') = Len(log) + Len(batch)
      /\ \A i \in 1..Len(log) : log'[i] = log[i]
      /\ \A i \in 1..Len(batch) : log'[Len(log) + i] = new[i]
  <2>1. log \in Seq(Entries) /\ new \in Seq(Entries) /\ Len(new) = Len(batch)
    BY <1>1 DEF new
  <2>2. log' = log \o new
    BY <1>2 DEF new
  <2>3. /\ log \o new \in Seq(Entries) /\ Len(log \o new) = Len(log) + Len(new)
        /\ \A i \in 1..Len(log) : (log \o new)[i] = log[i]
        /\ \A i \in 1..Len(new) : (log \o new)[Len(log) + i] = new[i]
    BY <2>1, SMTT(60)
  <2> QED
    BY <2>1, <2>2, <2>3
<1>5. \A i \in 1..(Len(log) + Len(batch)) :
        i \in 1..Len(log) \/ \E j \in 1..Len(batch) : i = Len(log) + j
  <2> TAKE i \in 1..(Len(log) + Len(batch))
  <2>1. CASE i > Len(log)
    <3>1. i - Len(log) \in 1..Len(batch) /\ i = Len(log) + (i - Len(log))
      BY <1>1, <2>1
    <3> QED
      BY <3>1
  <2>2. CASE i <= Len(log)
    BY <1>1, <2>2
  <2> QED
    BY <1>1, <2>1, <2>2
<1>6. DOMAIN log = 1..Len(log) /\ DOMAIN log' = 1..Len(log')
  BY <1>1, <1>4
<1> QED
  BY <1>3, <1>4, <1>5, <1>6 DEF new

------------------------------------------------------------------------------
LEMMA InitJournal == Init => JournalExactlyOnce
BY DEF Init, JournalExactlyOnce, FromWorker

LEMMA NextJournal == TypeOK /\ JournalExactlyOnce /\ [Next]_vars => JournalExactlyOnce'
<1> SUFFICES ASSUME TypeOK, JournalExactlyOnce, [Next]_vars PROVE JournalExactlyOnce'
  OBVIOUS
<1> USE DEF JournalExactlyOnce, FromWorker
<1>1. CASE UNCHANGED <<log, workerCursor>>
  BY <1>1
<1>2. ASSUME NEW n \in 1..Len(grants), NEW first \in 1..MaxWorkerEvents,
             NEW batch \in Batches, NEW t \in Nows, AppendEvents(n, first, batch, t)
      PROVE JournalExactlyOnce'
  <2>1. /\ workerCursor \in Nat /\ Len(batch) \in Nat \ {0} /\ Len(log) \in Nat
        /\ workerCursor' = workerCursor + Len(batch)
    BY <1>2, BatchType, RunAssumption DEF TypeOK, AppendEvents, Continues
  <2>2. /\ Len(log') = Len(log) + Len(batch)
        /\ DOMAIN log = 1..Len(log) /\ DOMAIN log' = 1..Len(log')
        /\ \A i \in DOMAIN log : log'[i] = log[i]
        /\ \A i \in DOMAIN log' : i \in DOMAIN log \/ \E j \in 1..Len(batch) : i = Len(log) + j
    BY <1>2, BatchRows
  <2>3. \A i \in 1..Len(batch) : /\ log'[Len(log) + i].by = "worker"
                                 /\ log'[Len(log) + i].wc = workerCursor + i
    <3>1. \A i \in 1..Len(batch) :
            log'[Len(log) + i] = Entry(batch[i], "worker", workerCursor + i, n)
      BY <1>2, BatchRows
    <3>2. \A kind, c : /\ Entry(kind, "worker", c, n).by = "worker"
                      /\ Entry(kind, "worker", c, n).wc = c
      BY DEF Entry
    <3> HIDE DEF JournalExactlyOnce, FromWorker
    <3> QED
      BY <3>1, <3>2
  <2>4. ASSUME NEW c \in 1..workerCursor'
        PROVE \E i \in DOMAIN log' : log'[i].by = "worker" /\ log'[i].wc = c
    <3>1. CASE c \in 1..workerCursor
      <4>1. PICK i \in DOMAIN log : log[i].by = "worker" /\ log[i].wc = c
        BY <3>1
      <4>2. i \in DOMAIN log' /\ log'[i] = log[i]
        BY <2>1, <2>2
      <4> QED
        BY <4>1, <4>2
    <3>2. CASE c \notin 1..workerCursor
      <4>1. c - workerCursor \in 1..Len(batch)
        BY <2>1, <3>2
      <4>2. Len(log) + (c - workerCursor) \in DOMAIN log'
        BY <2>1, <2>2, <4>1
      <4>3. workerCursor + (c - workerCursor) = c
        BY <2>1
      <4> QED
        BY <2>3, <4>1, <4>2, <4>3
    <3> QED
      BY <3>1, <3>2
  <2>5. ASSUME NEW i \in DOMAIN log', log'[i].by = "worker"
        PROVE /\ log'[i].wc \in 1..workerCursor'
              /\ i \in DOMAIN log <=> log'[i].wc <= workerCursor
    <3>1. CASE i \in DOMAIN log
      <4>1. log[i].wc \in 1..workerCursor /\ log'[i] = log[i]
        BY <2>2, <2>5, <3>1
      <4> QED
        BY <2>1, <3>1, <4>1
    <3>2. CASE i \notin DOMAIN log
      <4>1. PICK j \in 1..Len(batch) : i = Len(log) + j
        BY <2>2, <3>2
      <4>2. log'[i].wc = workerCursor + j
        BY <2>3, <4>1
      <4> QED
        BY <2>1, <3>2, <4>2
    <3> QED
      BY <3>1, <3>2
  <2>6. ASSUME NEW i \in DOMAIN log', NEW j \in DOMAIN log', i < j,
               log'[i].by = "worker", log'[j].by = "worker"
        PROVE log'[i].wc < log'[j].wc
    <3>1. CASE j \in DOMAIN log
      <4>1. i \in DOMAIN log
        BY <2>1, <2>2, <2>6, <3>1
      <4>2. log'[i] = log[i] /\ log'[j] = log[j]
        BY <2>2, <3>1, <4>1
      <4> QED
        BY <2>6, <3>1, <4>1, <4>2
    <3>2. CASE i \in DOMAIN log /\ j \notin DOMAIN log
      <4>1. log'[i].wc <= workerCursor /\ ~(log'[j].wc <= workerCursor)
        BY <2>5, <2>6, <3>2
      <4>2. log'[i].wc \in 1..workerCursor' /\ log'[j].wc \in 1..workerCursor'
        BY <2>5, <2>6
      <4> QED
        BY <2>1, <4>1, <4>2
    <3>3. CASE i \notin DOMAIN log /\ j \notin DOMAIN log
      <4>1. PICK k \in 1..Len(batch) : i = Len(log) + k
        BY <2>2, <3>3
      <4>2. PICK m \in 1..Len(batch) : j = Len(log) + m
        BY <2>2, <3>3
      <4>3. log'[i].wc = workerCursor + k /\ log'[j].wc = workerCursor + m
        BY <2>3, <4>1, <4>2
      <4> QED
        BY <2>1, <2>6, <4>1, <4>2, <4>3
    <3>4. CASE i \notin DOMAIN log /\ j \in DOMAIN log
      BY <2>1, <2>2, <2>6, <3>4
    <3> QED
      BY <3>1, <3>2, <3>3, <3>4
  <2> QED
    BY <2>4, <2>5, <2>6
<1>3. ASSUME NEW kind, NEW by, AppEvent(kind, by) PROVE JournalExactlyOnce'
  <2>1. by # "worker" /\ workerCursor' = workerCursor
    BY <1>3 DEF AppEvent
  <2>2. /\ Len(log') = Len(log) + 1
        /\ DOMAIN log = 1..Len(log) /\ DOMAIN log' = 1..Len(log')
        /\ \A i \in DOMAIN log : log'[i] = log[i]
        /\ log'[Len(log')] = Entry(kind, by, 0, 0)
        /\ \A i \in DOMAIN log' : i \in DOMAIN log \/ i = Len(log')
    BY <1>3, AppEventRows
  <2>3. Len(log) \in Nat /\ \A i \in DOMAIN log' : log'[i].by = "worker" => i \in DOMAIN log
    BY <2>1, <2>2 DEF TypeOK, Entry
  <2>4. \A i \in DOMAIN log : i \in DOMAIN log' /\ log'[i] = log[i]
    BY <2>2, <2>3
  <2> QED
    BY <2>1, <2>3, <2>4
<1> QED
  BY <1>1, <1>2, <1>3, JournalSteps

(* Every worker event is in the journal exactly once, in cursor order.      *)
THEOREM JournalIsExactlyOnce == Spec => []JournalExactlyOnce
BY InitTypeOK, NextTypeOK, InitJournal, NextJournal, PTL DEF Spec
------------------------------------------------------------------------------
(* How a run ends: once, as requested if a cancellation was requested, and  *)
(* with the message showing it.                                             *)

(* A journal that holds a cancellation request belongs to a row that says   *)
(* so; without it CancellationWins is not inductive, because the journal    *)
(* and cancel_requested_at could disagree.                                  *)
CancelRecorded == \A i \in DOMAIN log : log[i].kind = "cancel_requested" => cancelRequested

EndInv == EndsOnce /\ CancellationWins /\ CancelRecorded /\ MessageShowsOutcome

(* A step that writes no event: it leaves an ended run and what readers see *)
(* alone, and a run that is being cancelled stays so.                       *)
Quiet ==
  /\ UNCHANGED <<log, answer, message, cancelRequested>>
  /\ \/ state' = state
     \/ /\ state \in Active /\ state' \in Active
        /\ cancelRequested => state' = "cancel_requested"

(* The application ends the run.                                            *)
Closes(outcome, by) ==
  /\ state \in Active
  /\ outcome \in {"failed", "cancelled"} /\ by \in {"start", "finalize", "reconcile"}
  /\ cancelRequested => outcome = "cancelled"
  /\ CloseRun(outcome, by)

LEMMA EndSteps ==
  ASSUME TypeOK, CancellationWins, [Next]_vars
  PROVE  \/ Quiet
         \/ \E n \in 1..Len(grants), first \in 1..MaxWorkerEvents,
               batch \in Batches, t \in Nows : AppendEvents(n, first, batch, t)
         \/ RequestCancellation
         \/ \E outcome, by : Closes(outcome, by)
<1>1. CASE Tick \/ UNCHANGED vars
  BY <1>1 DEF Tick, vars, journal, Quiet
<1>2. ASSUME NEW w \in Workers, NEW t \in Nows, Claim(w, t) PROVE Quiet
  BY <1>2 DEF Claim, StateOnClaim, journal, Quiet, Active
<1>3. ASSUME NEW n \in 1..Len(grants), NEW t \in Nows, Renew(n, t) PROVE Quiet
  BY <1>3 DEF Renew, journal, Quiet
<1>4. ASSUME NEW n \in 1..Len(grants), Release(n) PROVE Quiet
  BY <1>4 DEF Release, StateOnRelease, journal, Quiet, Active
<1>5. ASSUME NEW n \in 1..Len(grants), NEW v \in 0..MaxSaves, NEW dispatch \in BOOLEAN,
             SaveCheckpoint(n, v, dispatch)
      PROVE Quiet
  BY <1>5 DEF SaveCheckpoint, journal, Quiet
<1>6. CASE FailQueued
  <2>1. ~cancelRequested
    BY <1>6 DEF FailQueued, CancellationWins
  <2> QED
    BY <1>6, <2>1 DEF FailQueued, Closes, Active
<1>7. CASE FinalizeCancellation
  BY <1>7 DEF FinalizeCancellation, Closes, Active
<1>8. ASSUME NEW t \in Nows, Reconcile(t)
      PROVE Closes(IF cancelRequested THEN "cancelled" ELSE "failed", "reconcile")
  BY <1>8 DEF Reconcile, Closes
<1> QED
  BY <1>1, <1>2, <1>3, <1>4, <1>5, <1>6, <1>7, <1>8 DEF Next

LEMMA InitEnd == Init => EndInv
BY DEF Init, EndInv, EndsOnce, CancellationWins, CancelRecorded, MessageShowsOutcome, Outcomes

LEMMA QuietEnd ==
  ASSUME TypeOK, EndInv, Quiet
  PROVE  EndInv'
<1>1. EndsOnce'
  <2>1. state' # state => state \notin Outcomes /\ state' \notin Outcomes
    BY DEF Quiet, Active, Outcomes
  <2> QED
    BY <2>1 DEF Quiet, EndInv, EndsOnce
<1>2. CancellationWins'
  BY DEF Quiet, EndInv, CancellationWins
<1>3. CancelRecorded'
  BY DEF Quiet, EndInv, CancelRecorded
<1>4. MessageShowsOutcome'
  BY DEF Quiet, EndInv, MessageShowsOutcome, Active, Outcomes
<1> QED
  BY <1>1, <1>2, <1>3, <1>4 DEF EndInv

(* One event is added, by a run that was open.                              *)
LEMMA AppEventEnd ==
  ASSUME TypeOK, EndInv, NEW kind, NEW by, AppEvent(kind, by), state \in Active,
         kind \in Outcomes => state' = kind,
         kind \notin Outcomes => state' = "cancel_requested" /\ ~cancelRequested /\ cancelRequested',
         kind \in Outcomes => cancelRequested' = cancelRequested,
         cancelRequested => kind = "cancelled"
  PROVE  EndsOnce' /\ CancellationWins' /\ CancelRecorded'
<1>1. /\ Len(log') = Len(log) + 1 /\ Len(log) \in Nat
      /\ DOMAIN log = 1..Len(log) /\ DOMAIN log' = 1..Len(log')
      /\ \A i \in DOMAIN log : log'[i] = log[i]
      /\ log'[Len(log')].kind = kind
      /\ \A i \in DOMAIN log' : i \in DOMAIN log \/ i = Len(log')
  <2>1. /\ Len(log') = Len(log) + 1
        /\ DOMAIN log = 1..Len(log) /\ DOMAIN log' = 1..Len(log')
        /\ \A i \in DOMAIN log : log'[i] = log[i]
        /\ log'[Len(log')] = Entry(kind, by, 0, 0)
        /\ \A i \in DOMAIN log' : i \in DOMAIN log \/ i = Len(log')
    BY AppEventRows
  <2>2. Len(log) \in Nat
    BY DEF TypeOK
  <2>3. Entry(kind, by, 0, 0).kind = kind
    BY DEF Entry
  <2> QED
    BY <2>1, <2>2, <2>3
<1>2. kind \in Outcomes \cup {"cancel_requested"}
  BY DEF AppEvent
<1>3. \A i \in DOMAIN log : log[i].kind \notin Outcomes
  BY DEF EndInv, EndsOnce, Active, Outcomes
<1>4. EndsOnce'
  <2>1. \A i \in DOMAIN log' : log'[i].kind \in Outcomes => i = Len(log') /\ state' = log'[i].kind
    BY <1>1, <1>3
  <2>2. state' \in Outcomes => log' # <<>> /\ log'[Len(log')].kind = state'
    <3>1. state' \in Outcomes => kind \in Outcomes
      BY DEF Outcomes
    <3>2. log' # <<>>
      BY <1>1
    <3> QED
      BY <1>1, <3>1, <3>2
  <2> QED
    BY <2>1, <2>2 DEF EndsOnce
<1>5. CancelRecorded'
  BY <1>1, <1>2 DEF CancelRecorded, EndInv, Outcomes
<1>6. CancellationWins'
  <2>1. cancelRequested' => state' \in {"cancel_requested", "cancelled"}
    BY <1>2
  <2>2. ASSUME NEW i \in DOMAIN log', NEW j \in DOMAIN log', i < j,
               log'[i].kind = "cancel_requested"
        PROVE log'[j].kind = "cancelled"
    <3>1. i \in DOMAIN log /\ log[i].kind = "cancel_requested"
      BY <1>1, <2>2
    <3>2. CASE j \in DOMAIN log
      BY <1>1, <2>2, <3>1, <3>2 DEF EndInv, CancellationWins
    <3>3. CASE j = Len(log')
      BY <1>1, <3>1, <3>3 DEF EndInv, CancelRecorded
    <3> QED
      BY <1>1, <3>2, <3>3
  <2> QED
    BY <2>1, <2>2 DEF CancellationWins
<1> QED
  BY <1>4, <1>5, <1>6

LEMMA AppendEnd ==
  ASSUME TypeOK, EndInv, NEW n \in 1..Len(grants), NEW first \in 1..MaxWorkerEvents,
         NEW batch \in Batches, NEW t \in Nows, AppendEvents(n, first, batch, t)
  PROVE  EndInv'
<1>1. /\ Len(log') = Len(log) + Len(batch) /\ Len(log) \in Nat
      /\ DOMAIN log = 1..Len(log) /\ DOMAIN log' = 1..Len(log')
      /\ \A i \in DOMAIN log : log'[i] = log[i]
      /\ \A i \in DOMAIN log' : i \in DOMAIN log \/ \E j \in 1..Len(batch) : i = Len(log) + j
  BY BatchRows DEF TypeOK
<1>2. \A i \in 1..Len(batch) : log'[Len(log) + i].kind = batch[i]
  <2>1. \A i \in 1..Len(batch) :
          log'[Len(log) + i] = Entry(batch[i], "worker", workerCursor + i, n)
    BY BatchRows
  <2>2. \A kind, c : Entry(kind, "worker", c, n).kind = kind
    BY DEF Entry
  <2> QED
    BY <2>1, <2>2
<1>3. /\ Len(batch) \in Nat \ {0} /\ DOMAIN batch = 1..Len(batch)
      /\ batch[Len(batch)] \in WorkerKinds /\ \A i \in 1..Len(batch) : batch[i] \in WorkerKinds
  BY BatchType
<1>4. /\ state \in Active /\ cancelRequested' = cancelRequested
      /\ \A i \in 1..(Len(batch) - 1) : batch[i] \notin Outcomes
      /\ cancelRequested => \A i \in 1..Len(batch) : batch[i] = "cancelled"
      /\ state' = NextState(batch[Len(batch)])
  <2>1. cancelRequested => state = "cancel_requested"
    BY DEF AppendEvents, Admits, EndInv, CancellationWins, Active, Outcomes
  <2> QED
    BY <1>3, <2>1 DEF AppendEvents, Admits
<1>5. \A i \in DOMAIN log : log[i].kind \notin Outcomes
  BY <1>4 DEF EndInv, EndsOnce, Active, Outcomes
<1>6. log'[Len(log')].kind = batch[Len(batch)] /\ log' # <<>>
  BY <1>1, <1>2, <1>3
<1>7. EndsOnce'
  <2>1. ASSUME NEW i \in DOMAIN log', log'[i].kind \in Outcomes
        PROVE i = Len(log') /\ state' = log'[i].kind
    <3>1. PICK j \in 1..Len(batch) : i = Len(log) + j
      BY <1>1, <1>5, <2>1
    <3>2. batch[j] \in Outcomes
      BY <1>2, <2>1, <3>1
    <3>3. j = Len(batch)
      <4>1. j \notin 1..(Len(batch) - 1)
        BY <1>4, <3>2
      <4>2. Len(batch) \in Nat \ {0} /\ j \in Nat /\ 1 <= j /\ j <= Len(batch)
        BY <1>3, <3>1
      <4> QED
        BY <4>1, <4>2
    <3> QED
      BY <1>1, <1>2, <1>4, <3>1, <3>2, <3>3 DEF NextState
  <2>2. state' \in Outcomes => log'[Len(log')].kind = state'
    BY <1>4, <1>6 DEF NextState, Outcomes
  <2> QED
    BY <1>6, <2>1, <2>2 DEF EndsOnce
<1>8. CancelRecorded'
  <2>1. \A i \in 1..Len(batch) : batch[i] # "cancel_requested"
    BY <1>3 DEF WorkerKinds, Outcomes
  <2> QED
    BY <1>1, <1>2, <1>4, <2>1, SMTT(60) DEF EndInv, CancelRecorded
<1>9. CancellationWins'
  <2>1. cancelRequested' => state' = "cancelled"
    BY <1>3, <1>4 DEF NextState, Outcomes
  <2>2. ASSUME NEW i \in DOMAIN log', NEW j \in DOMAIN log', i < j,
               log'[i].kind = "cancel_requested"
        PROVE log'[j].kind = "cancelled"
    <3>1. \A k \in 1..Len(batch) : batch[k] # "cancel_requested"
      BY <1>3 DEF WorkerKinds, Outcomes
    <3>2. i \in DOMAIN log /\ log[i].kind = "cancel_requested"
      BY <1>1, <1>2, <2>2, <3>1
    <3>3. cancelRequested
      BY <3>2 DEF EndInv, CancelRecorded
    <3>4. CASE j \in DOMAIN log
      BY <1>1, <2>2, <3>2, <3>4 DEF EndInv, CancellationWins
    <3>5. CASE \E k \in 1..Len(batch) : j = Len(log) + k
      BY <1>2, <1>4, <3>3, <3>5
    <3> QED
      BY <1>1, <3>4, <3>5
  <2> QED
    BY <2>1, <2>2 DEF CancellationWins
<1>10. MessageShowsOutcome'
  <2>1. state' \in Outcomes <=> batch[Len(batch)] \in Outcomes
    BY <1>4 DEF NextState, Outcomes
  <2>2. state' = "complete" <=> batch[Len(batch)] = "complete"
    BY <1>4 DEF NextState, Outcomes
  <2>3. state # "complete" /\ message.partial
    BY <1>4 DEF EndInv, MessageShowsOutcome, Active, Outcomes
  <2>4. CASE PersistsMessage(batch)
    BY <2>2, <2>4 DEF AppendEvents, MessageShowsOutcome
  <2>5. CASE ~PersistsMessage(batch)
    <3>1. batch[Len(batch)] \notin Outcomes
      BY <1>3, <2>5 DEF PersistsMessage
    <3>2. message' = message
      BY <2>5 DEF AppendEvents
    <3>3. state' \notin Outcomes /\ state' # "complete"
      BY <2>1, <3>1 DEF Outcomes
    <3> QED
      BY <2>3, <3>2, <3>3 DEF MessageShowsOutcome
  <2> QED
    BY <2>4, <2>5
<1> QED
  BY <1>7, <1>8, <1>9, <1>10 DEF EndInv

LEMMA NextEnd == TypeOK /\ EndInv /\ [Next]_vars => EndInv'
<1> SUFFICES ASSUME TypeOK, EndInv, [Next]_vars PROVE EndInv'
  OBVIOUS
<1>1. CASE Quiet
  BY <1>1, QuietEnd
<1>2. ASSUME NEW n \in 1..Len(grants), NEW first \in 1..MaxWorkerEvents,
             NEW batch \in Batches, NEW t \in Nows, AppendEvents(n, first, batch, t)
      PROVE EndInv'
  BY <1>2, AppendEnd
<1>3. CASE RequestCancellation
  <2>1. ~cancelRequested
    BY <1>3 DEF RequestCancellation, EndInv, CancellationWins, Active, Outcomes
  <2>2. AppEvent("cancel_requested", "user") /\ state \in Active
    BY <1>3 DEF RequestCancellation, AppEvent
  <2>3. EndsOnce' /\ CancellationWins' /\ CancelRecorded'
    <3>1. state' = "cancel_requested" /\ cancelRequested' /\ "cancel_requested" \notin Outcomes
      BY <1>3 DEF RequestCancellation, Outcomes
    <3> QED
      BY <2>1, <2>2, <3>1, AppEventEnd
  <2>4. MessageShowsOutcome'
    BY <1>3 DEF RequestCancellation, EndInv, MessageShowsOutcome, Active, Outcomes
  <2> QED
    BY <2>3, <2>4 DEF EndInv
<1>4. ASSUME NEW outcome, NEW by, Closes(outcome, by) PROVE EndInv'
  <2>1. AppEvent(outcome, by) /\ state \in Active /\ outcome \in Outcomes
    BY <1>4 DEF Closes, CloseRun, AppEvent, Outcomes
  <2>2. EndsOnce' /\ CancellationWins' /\ CancelRecorded'
    <3>1. /\ state' = outcome /\ cancelRequested' = cancelRequested
          /\ cancelRequested => outcome = "cancelled"
      BY <1>4 DEF Closes, CloseRun
    <3> QED
      BY <2>1, <3>1, AppEventEnd
  <2>3. MessageShowsOutcome'
    BY <1>4 DEF Closes, CloseRun, MessageShowsOutcome
  <2> QED
    BY <2>2, <2>3 DEF EndInv
<1> QED
  BY <1>1, <1>2, <1>3, <1>4, EndSteps DEF EndInv

(* All of EndInv holds in every reachable state.                            *)
THEOREM EndInvariant == Spec => []EndInv
BY InitTypeOK, NextTypeOK, InitEnd, NextEnd, PTL DEF Spec

(* A run ends once, its last event says how, and nothing follows it.        *)
THEOREM RunEndsOnce == Spec => []EndsOnce
<1>1. EndInv => EndsOnce
  BY DEF EndInv
<1> QED
  BY <1>1, EndInvariant, PTL

(* A cancellation requested before the end is how the run ends.             *)
THEOREM CancellationAlwaysWins == Spec => []CancellationWins
<1>1. EndInv => CancellationWins
  BY DEF EndInv
<1> QED
  BY <1>1, EndInvariant, PTL

(* When the run has ended the message shows the whole answer, and only a    *)
(* complete run leaves a complete message.                                  *)
THEOREM MessageAgrees == Spec => []MessageShowsOutcome
<1>1. EndInv => MessageShowsOutcome
  BY DEF EndInv
<1> QED
  BY <1>1, EndInvariant, PTL

-----------------------------------------------------------------------------
(***************************************************************************)
(* AgentRuns implements RunContract, for every value of the constants: the *)
(* initial row maps to an initial state of the contract and every step to  *)
(* a step of it or to a stutter.                                           *)
(***************************************************************************)

(* A journal as the contract has it.                                        *)
KindsOf(rows) == [i \in DOMAIN rows |-> rows[i].kind]
Shown == KindsOf(log)
ShownOutcome == IF state \in Outcomes THEN state ELSE "open"
ShownKinds == WorkerKinds \cup {"cancel_requested"}

LEMMA KindsOfType ==
  ASSUME NEW rows \in Seq(Entries)
  PROVE  /\ KindsOf(rows) \in Seq(ShownKinds) /\ Len(KindsOf(rows)) = Len(rows)
         /\ \A i \in 1..Len(rows) : KindsOf(rows)[i] = rows[i].kind
<1>1. Len(rows) \in Nat /\ DOMAIN rows = 1..Len(rows)
  OBVIOUS
<1>2. \A i \in 1..Len(rows) : rows[i].kind \in ShownKinds
  <2>1. \A i \in 1..Len(rows) : rows[i] \in Entries
    OBVIOUS
  <2> QED
    BY <2>1 DEF Entries, ShownKinds
<1>3. KindsOf(rows) = [i \in 1..Len(rows) |-> rows[i].kind]
  BY <1>1 DEF KindsOf
<1> QED
  BY <1>1, <1>2, <1>3

LEMMA ShownType ==
  ASSUME TypeOK, TypeOK'
  PROVE  /\ Shown \in Seq(ShownKinds) /\ Len(Shown) = Len(log)
         /\ \A i \in 1..Len(log) : Shown[i] = log[i].kind
         /\ Shown' \in Seq(ShownKinds) /\ Len(Shown') = Len(log')
         /\ \A i \in 1..Len(log') : Shown'[i] = log'[i].kind
<1>1. log \in Seq(Entries) /\ log' \in Seq(Entries)
  BY DEF TypeOK
<1>2. Shown = KindsOf(log) /\ Shown' = KindsOf(log')
  BY DEF Shown, KindsOf
<1> QED
  BY <1>1, <1>2, KindsOfType

(* A batch, and one event of the application, become visible at the end.    *)
LEMMA BatchShown ==
  ASSUME TypeOK, TypeOK', NEW n \in 1..Len(grants), NEW first \in 1..MaxWorkerEvents,
         NEW batch \in Batches, NEW t \in Nows, AppendEvents(n, first, batch, t)
  PROVE  Shown' = Shown \o batch
<1>1. /\ Shown \in Seq(ShownKinds) /\ Len(Shown) = Len(log)
      /\ \A i \in 1..Len(log) : Shown[i] = log[i].kind
  BY ShownType
<1>2. /\ Shown' \in Seq(ShownKinds) /\ Len(Shown') = Len(log')
      /\ \A i \in 1..Len(log') : Shown'[i] = log'[i].kind
  BY ShownType
<1>3. /\ Len(log') = Len(log) + Len(batch)
      /\ DOMAIN log = 1..Len(log) /\ DOMAIN log' = 1..Len(log')
      /\ \A i \in DOMAIN log : log'[i] = log[i]
      /\ \A i \in DOMAIN log' : i \in DOMAIN log \/ \E j \in 1..Len(batch) : i = Len(log) + j
  BY BatchRows
<1>4. \A j \in 1..Len(batch) : log'[Len(log) + j].kind = batch[j]
  <2>1. \A j \in 1..Len(batch) :
          log'[Len(log) + j] = Entry(batch[j], "worker", workerCursor + j, n)
    BY BatchRows
  <2>2. \A kind, c : Entry(kind, "worker", c, n).kind = kind
    BY DEF Entry
  <2> QED
    BY <2>1, <2>2
<1>5. batch \in Seq(ShownKinds) /\ Len(batch) \in Nat \ {0} /\ Len(log) \in Nat
  <2>1. batch \in Seq(WorkerKinds) /\ Len(batch) \in Nat \ {0}
    BY BatchType
  <2>2. WorkerKinds \subseteq ShownKinds
    BY DEF ShownKinds
  <2>3. batch \in Seq(ShownKinds)
    BY <2>1, <2>2
  <2>4. Len(log) \in Nat
    BY DEF TypeOK
  <2> QED
    BY <2>1, <2>3, <2>4
<1>6. /\ Shown \o batch \in Seq(ShownKinds)
      /\ Len(Shown \o batch) = Len(log) + Len(batch)
      /\ \A i \in 1..Len(log) : (Shown \o batch)[i] = Shown[i]
      /\ \A j \in 1..Len(batch) : (Shown \o batch)[Len(log) + j] = batch[j]
  BY <1>1, <1>5, SMTT(60)
<1>7. \A i \in 1..Len(Shown') : Shown'[i] = (Shown \o batch)[i]
  <2> TAKE i \in 1..Len(Shown')
  <2>1. CASE i \in 1..Len(log)
    BY <1>1, <1>2, <1>3, <1>6, <2>1
  <2>2. CASE \E j \in 1..Len(batch) : i = Len(log) + j
    BY <1>2, <1>4, <1>6, <2>2
  <2> QED
    BY <1>2, <1>3, <2>1, <2>2
<1> QED
  BY <1>2, <1>3, <1>6, <1>7, SeqEqual

LEMMA EventShown ==
  ASSUME TypeOK, TypeOK', NEW kind, NEW by, AppEvent(kind, by)
  PROVE  Shown' = Append(Shown, kind)
<1>1. /\ Shown \in Seq(ShownKinds) /\ Len(Shown) = Len(log)
      /\ \A i \in 1..Len(log) : Shown[i] = log[i].kind
  BY ShownType
<1>2. /\ Shown' \in Seq(ShownKinds) /\ Len(Shown') = Len(log')
      /\ \A i \in 1..Len(log') : Shown'[i] = log'[i].kind
  BY ShownType
<1>3. /\ Len(log') = Len(log) + 1 /\ Len(log) \in Nat
      /\ DOMAIN log = 1..Len(log) /\ DOMAIN log' = 1..Len(log')
      /\ \A i \in DOMAIN log : log'[i] = log[i]
      /\ log'[Len(log')] = Entry(kind, by, 0, 0)
  BY AppEventRows, SMTT(60) DEF TypeOK
<1>4. Entry(kind, by, 0, 0).kind = kind /\ kind \in ShownKinds
  BY DEF Entry, AppEvent, ShownKinds, WorkerKinds
<1>5. /\ Append(Shown, kind) \in Seq(ShownKinds)
      /\ Len(Append(Shown, kind)) = Len(log) + 1
      /\ \A i \in 1..Len(log) : Append(Shown, kind)[i] = Shown[i]
      /\ Append(Shown, kind)[Len(log) + 1] = kind
  BY <1>1, <1>4
<1>6. \A i \in 1..Len(Shown') : Shown'[i] = Append(Shown, kind)[i]
  <2> TAKE i \in 1..Len(Shown')
  <2>1. CASE i \in 1..Len(log)
    BY <1>1, <1>2, <1>3, <1>5, <2>1
  <2>2. CASE i = Len(log) + 1
    <3>1. Shown'[i] = log'[Len(log')].kind /\ i = Len(log')
      BY <1>2, <1>3, <2>2
    <3>2. Shown'[i] = kind
      BY <1>3, <1>4, <3>1
    <3> QED
      BY <1>5, <2>2, <3>2
  <2>3. i \in 1..Len(log) \/ i = Len(log) + 1
    BY <1>2, <1>3
  <2> QED
    BY <2>1, <2>2, <2>3
<1> QED
  BY <1>2, <1>3, <1>5, <1>6, SeqEqual

------------------------------------------------------------------------------
LEMMA ContractInit == Init => Contract!Init
BY DEF Init, Contract!Init, Outcomes

LEMMA ContractNext ==
  ASSUME TypeOK, TypeOK', EndInv, [Next]_vars
  PROVE  [Contract!Next]_(Contract!vars)
<1>1. ASSUME Quiet PROVE UNCHANGED Contract!vars
  <2>1. ShownOutcome' = ShownOutcome
    BY <1>1 DEF Quiet, ShownOutcome, Active, Outcomes
  <2>2. Shown' = Shown /\ cancelRequested' = cancelRequested
    BY <1>1 DEF Quiet, Shown, KindsOf
  <2> QED
    BY <2>1, <2>2 DEF Contract!vars, ShownOutcome, Shown, KindsOf
<1>2. ASSUME NEW n \in 1..Len(grants), NEW first \in 1..MaxWorkerEvents,
             NEW batch \in Batches, NEW t \in Nows, AppendEvents(n, first, batch, t)
      PROVE Contract!Next
  <2>1. PICK m \in 1..BatchLimit : batch \in [1..m -> Kinds]
    BY DEF Batches
  <2>2. /\ Len(batch) \in Nat \ {0} /\ DOMAIN batch = 1..Len(batch)
        /\ batch[Len(batch)] \in Kinds /\ \A i \in 1..Len(batch) : batch[i] \in Kinds
    <3>1. Len(batch) \in Nat \ {0} /\ DOMAIN batch = 1..Len(batch)
      BY BatchType
    <3> QED
      BY <2>1, <3>1
  <2>3. batch \in UNION {[1..k -> (Kinds \ Outcomes) \cup Outcomes] : k \in 1..BatchLimit}
    <3>1. batch \in [1..m -> (Kinds \ Outcomes) \cup Outcomes]
      BY <2>1
    <3> QED
      BY <3>1
  <2>4. state \in Active /\ cancelRequested' = cancelRequested
    BY <1>2 DEF AppendEvents, Admits
  <2>5. \A i \in 1..(Len(batch) - 1) : batch[i] \notin Outcomes
    BY <1>2 DEF AppendEvents, Admits
  <2>6. cancelRequested => batch = <<"cancelled">>
    <3> SUFFICES ASSUME cancelRequested PROVE batch = <<"cancelled">>
      OBVIOUS
    <3>1. state = "cancel_requested"
      BY <2>4 DEF EndInv, CancellationWins, Active, Outcomes
    <3>2. \A i \in 1..Len(batch) : batch[i] = "cancelled"
      BY <1>2, <2>2, <3>1 DEF AppendEvents, Admits
    <3>3. Len(batch) = 1
      <4>1. 1 \notin 1..(Len(batch) - 1)
        BY <2>2, <2>5, <3>2 DEF Outcomes
      <4> QED
        BY <2>2, <4>1
    <3>4. batch \in Seq(WorkerKinds)
      BY BatchType
    <3> QED
      BY <3>2, <3>3, <3>4
  <2>7. Shown' = Shown \o batch
    BY <1>2, BatchShown
  <2>8. /\ ShownOutcome = "open"
        /\ \/ batch[Len(batch)] \in Kinds \ Outcomes /\ ShownOutcome' = ShownOutcome
           \/ batch[Len(batch)] \in Outcomes /\ ShownOutcome' = batch[Len(batch)]
    <3>1. state' = NextState(batch[Len(batch)])
      BY <1>2 DEF AppendEvents
    <3>2. ShownOutcome = "open"
      BY <2>4 DEF ShownOutcome, Active, Outcomes
    <3>3. CASE batch[Len(batch)] \in Outcomes
      BY <3>1, <3>2, <3>3 DEF NextState, ShownOutcome
    <3>4. CASE batch[Len(batch)] \notin Outcomes
      BY <2>2, <3>1, <3>2, <3>4 DEF NextState, ShownOutcome, Outcomes
    <3> QED
      BY <3>2, <3>3, <3>4
  <2>9. Contract!Publish(batch)
    <3>1. \A i \in 1..(Len(batch) - 1) : batch[i] \in Kinds \ Outcomes
      BY <2>2, <2>5
    <3>2. UNCHANGED cancelRequested
      BY <2>4
    <3> QED
      BY <2>6, <2>7, <2>8, <3>1, <3>2 DEF Contract!Publish, ShownOutcome, Shown, KindsOf
  <2> QED
    BY <2>3, <2>9 DEF Contract!Next
<1>3. ASSUME RequestCancellation PROVE Contract!Next
  <2>1. ~cancelRequested /\ cancelRequested'
    BY <1>3 DEF RequestCancellation, EndInv, CancellationWins, Active, Outcomes
  <2>2. Shown' = Append(Shown, "cancel_requested")
    <3>1. AppEvent("cancel_requested", "user")
      BY <1>3 DEF RequestCancellation, AppEvent
    <3> QED
      BY <3>1, EventShown
  <2>3. ShownOutcome = "open" /\ ShownOutcome' = "open"
    BY <1>3 DEF RequestCancellation, ShownOutcome, Active, Outcomes
  <2>4. Contract!RequestStop
    BY <2>1, <2>2, <2>3 DEF Contract!RequestStop, ShownOutcome, Shown, KindsOf
  <2> QED
    BY <2>4 DEF Contract!Next
<1>4. ASSUME NEW outcome, NEW by, Closes(outcome, by) PROVE Contract!Next
  <2> DEFINE events == <<outcome>>
  <2>1. outcome \in Outcomes /\ (cancelRequested => outcome = "cancelled")
    BY <1>4 DEF Closes, Outcomes
  <2>2. /\ Len(events) = 1 /\ events[Len(events)] = outcome
        /\ events \in [1..1 -> (Kinds \ Outcomes) \cup Outcomes]
    BY <2>1
  <2>3. Shown' = Shown \o events
    <3>1. Shown' = Append(Shown, outcome)
      <4>1. AppEvent(outcome, by)
        BY <1>4 DEF Closes, CloseRun, AppEvent, Outcomes
      <4> QED
        BY <4>1, EventShown
    <3>2. Shown \in Seq(ShownKinds) /\ outcome \in ShownKinds
      BY <2>1, ShownType DEF ShownKinds, WorkerKinds
    <3>3. Append(Shown, outcome) = Shown \o <<outcome>>
      BY <3>2, AppendIsConcat
    <3> QED
      BY <3>1, <3>3
  <2>4. /\ ShownOutcome = "open" /\ ShownOutcome' = outcome
        /\ cancelRequested' = cancelRequested
    BY <1>4, <2>1 DEF Closes, CloseRun, ShownOutcome, Active, Outcomes
  <2>5. Contract!Publish(events)
    <3>1. \A i \in 1..(Len(events) - 1) : events[i] \in Kinds \ Outcomes
      BY <2>2
    <3>2. cancelRequested => events = <<"cancelled">>
      BY <2>1
    <3>3. events[Len(events)] \in Outcomes /\ ShownOutcome' = events[Len(events)]
      BY <2>1, <2>2, <2>4
    <3>4. ShownOutcome = "open" /\ UNCHANGED cancelRequested
      BY <2>4
    <3> HIDE DEF events
    <3> QED
      BY <2>3, <3>1, <3>2, <3>3, <3>4 DEF Contract!Publish, ShownOutcome, Shown, KindsOf
  <2>6. events \in UNION {[1..k -> (Kinds \ Outcomes) \cup Outcomes] : k \in 1..BatchLimit}
    <3>1. 1 \in 1..BatchLimit
      BY RunAssumption
    <3> HIDE DEF events
    <3> QED
      BY <2>2, <3>1
  <2> QED
    BY <2>5, <2>6 DEF Contract!Next
<1> QED
  BY <1>1, <1>2, <1>3, <1>4, EndSteps DEF EndInv

(* The run keeps its contract with the readers of its journal, whatever     *)
(* leases, recoveries and checkpoints do: appendAgentRunEvents and the four *)
(* operations by which the application itself writes an event.              *)
THEOREM RunKeepsContract == Spec => KeepsContract
<1>1. Init => Contract!Init
  BY ContractInit
<1>2. TypeOK /\ TypeOK' /\ EndInv /\ [Next]_vars => [Contract!Next]_(Contract!vars)
  BY ContractNext
<1> QED
  BY <1>1, <1>2, TypeCorrect, EndInvariant, PTL DEF Spec, KeepsContract, Contract!Spec
==============================================================================
