-------------------------- MODULE PortableRunProofs --------------------------
(***************************************************************************)
(* What the research loop and its computer keep, for any number of workers,*)
(* leases, calls, searches, publication attempts and requests.             *)
(***************************************************************************)
EXTENDS PortableRun, FiniteSetTheorems, SequenceTheorems, TLAPS

(* The values of the variables.                                             *)
Verdicts == {"ok", "failed"}
StateRows ==
  [phase : {"none", "running", "finishing"} \cup Over, intent : Kinds,
   calls : Seq(Tools), receipts : Seq(Verdicts), turns : Nat, steps : Nat, used : Nat, searches : Nat,
   attempts : Nat, wrap : BOOLEAN, filed : BOOLEAN, fallback : BOOLEAN, answer : BOOLEAN,
   fast : {"no", "started", "deliverable"}, cap : Nat]
Removals == 0..MaxCalls
ProcRows == [at : Locations, state : StateRows, got : Results, removed : Removals]
Outcomes == [state : {"open", "failed", "complete", "cancelled"}, by : {"nobody", "worker", "newscraft"}]

(* Where a worker is in the loop, and where it works on a tool under an     *)
(* intent that is not repeated.                                             *)
Thinking == {"ask", "reply"}
Wrapping == {"wrapAsk", "wrapReply", "fileAsk", "fileReply"}
Computing == InComputer \cup {"commit", "discard"}
InTool == {"tool", "search"} \cup Computing
InLoop == {"recovered", "work", "upload", "done"} \cup Thinking \cup Wrapping \cup InTool
Failing == {"fail", "saveFailed"}
Finishing == {"finish", "saveFinished"}
Following == InLoop \cup Failing \cup Finishing

Using(p) == p.at \in InTool /\ p.state.intent = "tool"
Busy(p) == p.at \in Thinking \cup Wrapping \/ Using(p)

(* A state of the run as the code leaves it.                                *)
Sound(s) ==
  /\ s \in StateRows
  /\ Len(s.receipts) <= Len(s.calls) /\ Len(s.calls) <= MaxCalls
  /\ s.turns <= s.steps /\ (s.intent \in {"model", "wrapUp"} => s.turns < s.steps)
  /\ s.steps <= s.used /\ s.used <= Budget
  /\ s.searches <= MaxSearches /\ s.attempts <= MaxAttempts
  /\ s.intent \in {"tool", "publication"} => Pending(s) /\ (s.intent = "publication" <=> Tool(s) = "publish")
  /\ s.intent \in {"model", "wrapUp"} => ~Pending(s)
  /\ s.answer => s.intent = "none"
  /\ s.phase \in {"finishing", "finished"} => s.answer
  /\ s.phase = "running" => ~s.answer
  /\ s.phase = "none" => s = NoState

(* What the state of a worker is where the worker is.                       *)
Fits(p) ==
  /\ p \in ProcRows /\ Sound(p.state)
  /\ p.at \in Thinking => p.state.intent = "model"
  /\ p.at \in Wrapping => p.state.intent = "wrapUp"
  /\ p.at = "work" => p.state.intent \in {"none", "wrapUp", "publication"}
  /\ p.at = "tool" => p.state.intent \in {"tool", "publication"}
  /\ p.at = "search" => p.state.intent = "tool" /\ Tool(p.state) = "search"
  /\ p.at = "upload" => p.state.intent = "publication"
  /\ p.at \in Computing \cup {"recovered"} => p.state.intent = "tool" /\ Tool(p.state) = "computer"
  /\ p.at = "done" => Pending(p.state) /\ p.state.intent \in {"none", "tool", "publication"}
  /\ p.at \in {"ran", "commit", "done"} => p.got \in Verdicts
  /\ p.at = "discard" => p.got = "failed"
  /\ p.at \in InLoop => p.state.phase = "running"
  /\ p.at \in Failing => p.state.phase \notin {"none", "finished"}
  /\ p.at \in Finishing => p.state.phase \in {"finishing", "finished"}

(* A worker that has the lease works on the saved state.                    *)
Alike(s, p) == p.state = s \/ (p.at = "done" /\ p.state = [s EXCEPT !.fallback = TRUE])
MayTell(at, s) ==
  /\ at \in {"failed", "tellFailed"} => s.phase \in {"failed", "cancelled"}
  /\ at = "tellComplete" => s.phase = "finished"
  /\ at = "tellCancelled" => s.phase \in Over
Aside(w) == \A v \in Workers \ {w} : ~Busy(proc[v])
Fresh(w) ==
  lease = w =>
    /\ proc[w].at \in Following => Alike(saved, proc[w])
    /\ MayTell(proc[w].at, saved)
    /\ proc[w].at \in {"done", "recovered"} => Aside(w)

(* The saved state remembers what any worker is at.                         *)
Held(s, p) ==
  /\ p.at \in Thinking => s.intent = "model" /\ s.turns = p.state.turns
  /\ p.at \in Wrapping => s.answer \/ s.intent = "wrapUp"
  /\ Using(p) => s.intent = "tool" /\ s.calls = p.state.calls /\ Current(s) = Current(p.state)
Unique == \A v, w \in Workers : Busy(proc[v]) /\ Busy(proc[w]) => v = w

LoopInv ==
  /\ Sound(saved)
  /\ lease \in Workers \cup {Nobody} /\ leases \in Nat /\ leases <= MaxLeases /\ stopping \in BOOLEAN
  /\ outcome \in Outcomes /\ (outcome.by = "worker" => outcome.state # "open")
  /\ proc \in [Workers -> ProcRows]
  /\ \A w \in Workers : Fits(proc[w]) /\ Fresh(w) /\ Held(saved, proc[w])
  /\ Unique

(* What was sent is recorded in the saved state.                            *)
Reached(s, c) == c < Current(s) \/ (c = Current(s) /\ s.intent = "tool")
Recorded(s, r) ==
  LET k == r[2] IN
  /\ r[1] = "model" =>
       \/ k < s.turns
       \/ k = s.turns /\ (s.intent = "model" \/ s.answer)
  /\ r[1] = "file" => k <= s.steps
  /\ r[1] = "wrapUp" => s.answer \/ s.intent = "wrapUp"
  /\ r[1] = "search" => Reached(s, k)
Unsent(counts, steps, p) ==
  LET s == p.state IN
  /\ p.at = "ask" => counts[<<"model", s.turns>>] = 0
  /\ p.at \in {"wrapAsk", "fileAsk", "fileReply"} => counts[<<"wrapUp", 0>>] = 0
  /\ p.at = "fileAsk" => s.steps # 0 /\ counts[<<"file", s.steps>>] = 0 /\ s.steps <= steps
  /\ p.at \in {"tool", "search"} /\ Tool(s) = "search" => counts[<<"search", Current(s)>>] = 0

Due(p) ==
  LET s == p.state IN
  IF p.at = "ask" THEN <<"model", s.turns>>
  ELSE IF p.at = "wrapAsk" THEN <<"wrapUp", 0>>
  ELSE IF p.at = "fileAsk" THEN <<"file", s.steps>>
  ELSE <<"search", Current(s)>>
Owing == Asking \cup {"search"}
Reserved == {r \in Paid : sent[r] # 0 \/ \E w \in Workers : proc[w].at \in Owing /\ Due(proc[w]) = r}

SentInv ==
  /\ sent \in [Requests -> Nat]
  /\ \A r \in Requests : r[1] # "publish" => sent[r] <= 1
  /\ \A r \in Requests : sent[r] # 0 => Recorded(saved, r)
  /\ \A w \in Workers : Unsent(sent, saved.steps, proc[w])
  /\ Cardinality(Reserved) <= saved.used

Uploaders(c) == {w \in Workers : proc[w].at = "upload" /\ Current(proc[w].state) = c}
Allowed(c) ==
  IF c < Current(saved) THEN MaxAttempts ELSE IF c = Current(saved) THEN saved.attempts ELSE 0
UploadInv ==
  \A c \in Calls : /\ IsFiniteSet(Uploaders(c))
                   /\ sent[<<"publish", c>>] + Cardinality(Uploaders(c)) <= Allowed(c)

RowFits(c) ==
  /\ row[c].phase = "none" => container[c] = "none" /\ sent[<<"program", c>>] = 0
  /\ row[c].phase # "none" => Reached(saved, c)
  /\ row[c].phase = "running" => container[c] \in {"there", "gone"}
  /\ row[c].phase \in {"done", "cancelled"} => container[c] = "gone"
  /\ row[c].phase = "done" => row[c].result \in Verdicts
RowsInv == ComputerTypeOK /\ \A c \in Calls : RowFits(c)

(* What the computer is like where a worker is.                             *)
Stands(rows, places, counts, p) ==
  LET c == Current(p.state) IN
  /\ p.removed # 0 => places[p.removed] = "gone"
  /\ Using(p) => rows[c].phase # "done"
  /\ p.at \in Computing => rows[c].phase # "none"
  /\ p.at = "create" => rows[c].phase = "creating" /\ places[c] = "none"
  /\ p.at \in {"start", "program", "ran", "commit"} => rows[c].phase \in {"running", "cancelled"}
  /\ p.at = "commit" => places[c] = "gone"
  /\ p.at = "recovered" => rows[c].phase = "done"
  /\ p.at \in {"create", "creating", "start"} => counts[<<"program", c>>] = 0
StandInv == \A w \in Workers : Stands(row, container, sent, proc[w])

(* Cleanup that was confirmed stays so.                                     *)
Settled == {"saveFinished", "tellComplete", "tellFailed", "saveCancelled", "tellCancelled"}
TidyInv ==
  /\ strayed \subseteq Calls
  /\ \A w \in Workers : lease = w /\ proc[w].at \in Settled => Mine \subseteq strayed
  /\ outcome.by = "worker" => Mine \subseteq strayed
EndInv ==
  outcome.by = "worker" =>
    /\ outcome.state = "complete" => saved.phase = "finished"
    /\ outcome.state = "failed" => saved.phase \in {"failed", "cancelled"}
    /\ outcome.state = "cancelled" => saved.phase \in Over
HostInv == RowsInv /\ StandInv /\ TidyInv /\ EndInv

(* The files hold what succeeded, and so the receipts say.                  *)
Wrote(rows, c) == rows[c].phase = "done" /\ rows[c].result = "ok"
ReceiptsFit(rows, s) ==
  \A i \in 1..Len(s.receipts) : s.calls[i] = "computer" => (s.receipts[i] = "ok" <=> Wrote(rows, i))
DoneFits(rows, p) ==
  p.at = "done" /\ Tool(p.state) = "computer" => (p.got = "ok" <=> Wrote(rows, Current(p.state)))
FilesInv ==
  /\ \A c \in Calls : (\E k \in DOMAIN files : files[k] = c) <=> Wrote(row, c)
  /\ ReceiptsFit(row, saved)
  /\ \A w \in Workers : lease = w => DoneFits(row, proc[w])

RunInv == LoopInv /\ SentInv /\ UploadInv /\ HostInv /\ FilesInv

------------------------------------------------------------------------------
(* What a worker may have removed.                                          *)
LEMMA RemovalsAre == Calls \subseteq Removals /\ \A r \in Removals : r = 0 \/ r \in Calls
BY CallsAssumption DEF Calls, Removals

(* The states the code saves are sound.                                     *)

LEMMA NoStateSound == NoState \in StateRows /\ Sound(NoState) /\ Away \in ProcRows
<1>1. 0 \in Removals /\ MaxCalls \in Nat /\ Budget \in Nat /\ MaxSearches \in Nat /\ MaxAttempts \in Nat
  BY CallsAssumption, RunAssumption DEF Removals
<1>2. NoState \in StateRows
  BY RunAssumption DEF NoState, StateRows, Kinds, Over
<1>3. Sound(NoState)
  BY <1>1, <1>2 DEF NoState, Sound, Pending, Current
<1> QED
  BY <1>1, <1>2, <1>3 DEF Away, ProcRows, Locations, Results

LEMMA Sorts ==
  ASSUME NEW s, Sound(s)
  PROVE  /\ s \in StateRows /\ Len(s.receipts) \in Nat /\ Len(s.calls) \in Nat
         /\ s.used \in Nat /\ s.steps \in Nat /\ s.searches \in Nat /\ s.attempts \in Nat /\ s.turns \in Nat
         /\ Current(s) = Len(s.receipts) + 1 /\ Current(s) \in Nat \ {0}
         /\ s.intent \in Kinds
         /\ Pending(s) <=> Current(s) <= Len(s.calls)
         /\ Pending(s) => Current(s) \in Calls /\ Tool(s) \in Tools
BY CallsAssumption DEF Sound, StateRows, Current, Pending, Tool, Calls

(* A change of the counters and marks alone.                                *)
SameCalls(s, t) == t.calls = s.calls /\ t.receipts = s.receipts /\ t.turns = s.turns
LEMMA SameCallsSame ==
  ASSUME NEW s, NEW t, SameCalls(s, t)
  PROVE  Current(t) = Current(s) /\ (Pending(t) <=> Pending(s)) /\ Tool(t) = Tool(s)
BY DEF SameCalls, Current, Pending, Tool

(* Nothing that was counted or decided is taken back.                       *)
Grown(s, t) ==
  /\ t.used >= s.used /\ t.steps >= s.steps /\ t.turns >= s.turns /\ (s.wrap => t.wrap) /\ (s.answer => t.answer)
  /\ t.attempts >= s.attempts \/ Current(t) = Current(s) + 1

LEMMA BegunSound == Sound(Begun) /\ Begun.intent = "none" /\ Begun.phase = "running"
                    /\ SameCalls(NoState, Begun) /\ Grown(NoState, Begun) /\ Begun.used = 0 /\ NoState.intent = "none"
<1>1. Begun \in StateRows
  BY NoStateSound DEF Begun, StateRows
<1>2. Begun = [NoState EXCEPT !.phase = "running"]
  BY DEF Begun
<1>3. MaxCalls \in Nat /\ Budget \in Nat /\ MaxSearches \in Nat /\ MaxAttempts \in Nat
  BY CallsAssumption, RunAssumption
<1> QED
  BY <1>1, <1>2, <1>3 DEF NoState, Sound, Pending, Current, SameCalls, Grown

LEMMA ReserveRow ==
  ASSUME NEW s \in StateRows
  PROVE  /\ Reserve(s) \in StateRows /\ Reserve(s).used = s.used + 1 /\ SameCalls(s, Reserve(s))
         /\ Reserve(s).steps = s.steps /\ Reserve(s).searches = s.searches /\ Reserve(s).attempts = s.attempts
         /\ Reserve(s).answer = s.answer /\ Reserve(s).phase = s.phase /\ Reserve(s).wrap = s.wrap
         /\ Reserve(s).intent = s.intent /\ Reserve(s).filed = s.filed
<1> DEFINE x == s.used + 1
<1>1. x \in Nat
  BY DEF StateRows
<1>2. Reserve(s) = [s EXCEPT !.used = x]
  BY DEF Reserve
<1>3. x = s.used + 1
  OBVIOUS
<1> HIDE DEF x
<1>4. Reserve(s) \in StateRows
  BY <1>1, <1>2 DEF StateRows
<1> QED
  BY <1>1, <1>2, <1>3, <1>4 DEF StateRows, SameCalls

LEMMA IntendSound ==
  ASSUME NEW s, Sound(s), Affordable(s), ~Pending(s), s.phase = "running"
  PROVE  /\ Sound(Intend(s)) /\ SameCalls(s, Intend(s)) /\ Grown(s, Intend(s))
         /\ Intend(s).intent = "model" /\ Intend(s).phase = "running"
         /\ Intend(s).used = s.used + 1 /\ Intend(s).steps = s.steps + 1
<1> DEFINE t == Intend(s) u == Reserve(s)
<1>1. s \in StateRows /\ s.used < Budget /\ Budget \in Nat
  BY RunAssumption DEF Sound, Affordable
<1>2. /\ t \in StateRows /\ t.intent = "model" /\ t.steps = s.steps + 1 /\ t.used = s.used + 1
      /\ t.calls = s.calls /\ t.receipts = s.receipts /\ t.turns = s.turns /\ t.searches = s.searches /\ t.attempts = s.attempts
      /\ t.answer = s.answer /\ t.phase = s.phase /\ t.wrap = s.wrap
  <2> DEFINE x == s.steps + 1
  <2>0. x \in Nat /\ x = s.steps + 1
    BY <1>1 DEF StateRows
  <2>2. /\ u \in StateRows /\ u.used = s.used + 1 /\ u.calls = s.calls /\ u.receipts = s.receipts /\ u.turns = s.turns
        /\ u.steps = s.steps /\ u.searches = s.searches /\ u.attempts = s.attempts
        /\ u.answer = s.answer /\ u.phase = s.phase /\ u.wrap = s.wrap
    BY <1>1, ReserveRow DEF SameCalls
  <2>1. t = [u EXCEPT !.intent = "model", !.steps = x]
    BY <2>2 DEF Intend
  <2> HIDE DEF u, t, x
  <2> QED
    BY <2>0, <2>1, <2>2 DEF StateRows, Kinds
<1> HIDE DEF t
<1>3. SameCalls(s, t)
  BY <1>2 DEF SameCalls
<1>4. ~Pending(t)
  BY <1>3, SameCallsSame
<1>5. Sound(t)
  BY <1>1, <1>2, <1>4 DEF Sound, StateRows
<1> QED
  BY <1>1, <1>2, <1>3, <1>5 DEF t, Sound, Grown, StateRows

LEMMA IntendFileSound ==
  ASSUME NEW s, Sound(s), Affordable(s), ~Pending(s), s.phase = "running"
  PROVE  /\ Sound(IntendFile(s)) /\ SameCalls(s, IntendFile(s)) /\ Grown(s, IntendFile(s))
         /\ IntendFile(s).intent = "wrapUp" /\ IntendFile(s).phase = "running"
         /\ IntendFile(s).used = s.used + 1 /\ IntendFile(s).steps = s.steps + 1
         /\ IntendFile(s).attempts = s.attempts /\ IntendFile(s).filed = s.filed
<1> DEFINE t == IntendFile(s) u == Reserve(s)
<1>1. s \in StateRows /\ s.used < Budget /\ Budget \in Nat
  BY RunAssumption DEF Sound, Affordable
<1>2. /\ t \in StateRows /\ t.intent = "wrapUp" /\ t.steps = s.steps + 1 /\ t.used = s.used + 1
      /\ t.calls = s.calls /\ t.receipts = s.receipts /\ t.turns = s.turns /\ t.searches = s.searches /\ t.attempts = s.attempts
      /\ t.answer = s.answer /\ t.phase = s.phase /\ t.wrap = s.wrap /\ t.filed = s.filed
  <2> DEFINE x == s.steps + 1
  <2>0. x \in Nat /\ x = s.steps + 1
    BY <1>1 DEF StateRows
  <2>2. /\ u \in StateRows /\ u.used = s.used + 1 /\ u.calls = s.calls /\ u.receipts = s.receipts /\ u.turns = s.turns
        /\ u.steps = s.steps /\ u.searches = s.searches /\ u.attempts = s.attempts
        /\ u.answer = s.answer /\ u.phase = s.phase /\ u.wrap = s.wrap /\ u.filed = s.filed
    BY <1>1, ReserveRow DEF SameCalls
  <2>1. t = [u EXCEPT !.intent = "wrapUp", !.steps = x]
    BY <2>2 DEF IntendFile
  <2> HIDE DEF u, t, x
  <2> QED
    BY <2>0, <2>1, <2>2 DEF StateRows, Kinds
<1> HIDE DEF t
<1>3. SameCalls(s, t)
  BY <1>2 DEF SameCalls
<1>4. ~Pending(t)
  BY <1>3, SameCallsSame
<1>5. Sound(t)
  BY <1>1, <1>2, <1>4 DEF Sound, StateRows
<1> QED
  BY <1>1, <1>2, <1>3, <1>5 DEF t, Sound, Grown, StateRows

(* A mark is set, no counter changes.                                       *)
Marked(s, t) ==
  \/ \E cap \in Nat : t = [s EXCEPT !.cap = cap]
  \/ \E wrap \in {s.wrap, TRUE} : t = [s EXCEPT !.wrap = wrap]
  \/ \E filed \in {s.filed, TRUE} : t = [s EXCEPT !.filed = filed]
LEMMA MarkedSound ==
  ASSUME NEW s, Sound(s), s.phase = "running", NEW t, Marked(s, t)
  PROVE  /\ Sound(t) /\ SameCalls(s, t) /\ Grown(s, t) /\ t.intent = s.intent /\ t.phase = "running"
         /\ t.used = s.used /\ t.steps = s.steps /\ t.answer = s.answer /\ t.attempts = s.attempts
<1>0. s \in StateRows
  BY DEF Sound
<1>1. /\ t \in StateRows /\ t.intent = s.intent /\ t.steps = s.steps /\ t.used = s.used
      /\ t.calls = s.calls /\ t.receipts = s.receipts /\ t.turns = s.turns /\ t.searches = s.searches
      /\ t.attempts = s.attempts /\ t.answer = s.answer /\ t.phase = s.phase /\ (s.wrap => t.wrap)
  <2>3. CASE \E cap \in Nat : t = [s EXCEPT !.cap = cap]
    BY <1>0, <2>3 DEF StateRows
  <2>1. CASE \E wrap \in {s.wrap, TRUE} : t = [s EXCEPT !.wrap = wrap]
    BY <1>0, <2>1 DEF StateRows
  <2>2. CASE \E filed \in {s.filed, TRUE} : t = [s EXCEPT !.filed = filed]
    BY <1>0, <2>2 DEF StateRows
  <2> QED
    BY <2>1, <2>2, <2>3 DEF Marked
<1>2. SameCalls(s, t)
  BY <1>1 DEF SameCalls
<1>3. Current(t) = Current(s) /\ (Pending(t) <=> Pending(s)) /\ Tool(t) = Tool(s)
  BY <1>2, SameCallsSame
<1>4. Sound(t)
  BY <1>1, <1>3 DEF Sound
<1>5. /\ s.used \in Nat /\ s.steps \in Nat /\ s.attempts \in Nat /\ s.turns \in Nat
  BY <1>0 DEF StateRows
<1>6. Grown(s, t)
  BY <1>1, <1>5 DEF Grown
<1> QED
  BY <1>1, <1>2, <1>4, <1>6

LEMMA GrownTwice ==
  ASSUME NEW s, NEW u, NEW t, Sound(s), Sound(u), Sound(t), Grown(s, u), SameCalls(u, t), Grown(u, t)
  PROVE  Grown(s, t)
<1>1. Current(t) = Current(u) /\ Current(u) \in Nat
  BY SameCallsSame, Sorts
<1>2. /\ s.used \in Nat /\ s.steps \in Nat /\ s.attempts \in Nat /\ s.turns \in Nat
      /\ u.used \in Nat /\ u.steps \in Nat /\ u.attempts \in Nat /\ u.turns \in Nat
      /\ t.used \in Nat /\ t.steps \in Nat /\ t.attempts \in Nat /\ t.turns \in Nat
  BY DEF Sound, StateRows
<1> QED
  BY <1>1, <1>2 DEF Grown

LEMMA IntendWrapUpSound ==
  ASSUME NEW s, Sound(s), Affordable(s), ~Pending(s), s.phase = "running"
  PROVE  /\ Sound(IntendWrapUp(s)) /\ SameCalls(s, IntendWrapUp(s)) /\ Grown(s, IntendWrapUp(s))
         /\ IntendWrapUp(s).intent = "wrapUp" /\ IntendWrapUp(s).phase = "running"
         /\ IntendWrapUp(s).used = s.used + 1 /\ IntendWrapUp(s).steps = s.steps + 1
         /\ IntendWrapUp(s).attempts = s.attempts
<1> DEFINE u == IntendFile(s) t == [u EXCEPT !.wrap = TRUE]
<1>1. /\ Sound(u) /\ SameCalls(s, u) /\ Grown(s, u) /\ u.intent = "wrapUp" /\ u.phase = "running"
      /\ u.used = s.used + 1 /\ u.steps = s.steps + 1 /\ u.attempts = s.attempts
  BY IntendFileSound
<1>2. IntendWrapUp(s) = t
  BY DEF IntendWrapUp
<1>3. Marked(u, t)
  BY DEF Marked
<1> HIDE DEF u, t
<1>4. /\ Sound(t) /\ SameCalls(u, t) /\ Grown(u, t) /\ t.intent = u.intent /\ t.phase = "running"
      /\ t.used = u.used /\ t.steps = u.steps /\ t.attempts = u.attempts
  BY <1>1, <1>3, MarkedSound
<1> QED
  BY <1>1, <1>2, <1>4, GrownTwice DEF SameCalls

LEMMA FileAskSound ==
  ASSUME NEW s, Sound(s), Affordable(s), ~Pending(s), s.phase = "running"
  PROVE  LET t == [IntendWrapUp(s) EXCEPT !.filed = TRUE] IN
         /\ Sound(t) /\ SameCalls(s, t) /\ Grown(s, t) /\ t.intent = "wrapUp" /\ t.phase = "running"
         /\ t.used = s.used + 1 /\ t.steps = s.steps + 1
<1> DEFINE u == IntendWrapUp(s) t == [u EXCEPT !.filed = TRUE]
<1>1. /\ Sound(u) /\ SameCalls(s, u) /\ Grown(s, u) /\ u.intent = "wrapUp" /\ u.phase = "running"
      /\ u.used = s.used + 1 /\ u.steps = s.steps + 1
  BY IntendWrapUpSound
<1>2. Marked(u, t)
  BY DEF Marked
<1> HIDE DEF u, t
<1>3. /\ Sound(t) /\ SameCalls(u, t) /\ Grown(u, t) /\ t.intent = u.intent /\ t.phase = "running"
      /\ t.used = u.used /\ t.steps = u.steps /\ t.attempts = u.attempts
  BY <1>1, <1>2, MarkedSound
<1>4. Grown(s, t) /\ SameCalls(s, t)
  BY <1>1, <1>3, GrownTwice DEF SameCalls
<1> QED
  BY <1>1, <1>3, <1>4 DEF t, u

(* A file is asked for straight from a reply.                               *)
LEMMA FiledSound ==
  ASSUME NEW s, Sound(s), Affordable(s), ~Pending(s), s.phase = "running", NEW filed \in {s.filed, TRUE}
  PROVE  LET t == [IntendFile(s) EXCEPT !.filed = filed] IN
         /\ Sound(t) /\ SameCalls(s, t) /\ Grown(s, t) /\ t.intent = "wrapUp" /\ t.phase = "running"
         /\ t.used = s.used + 1 /\ t.steps = s.steps + 1
<1> DEFINE u == IntendFile(s) t == [u EXCEPT !.filed = filed]
<1>1. /\ Sound(u) /\ SameCalls(s, u) /\ Grown(s, u) /\ u.intent = "wrapUp" /\ u.phase = "running"
      /\ u.used = s.used + 1 /\ u.steps = s.steps + 1 /\ u.filed = s.filed
  BY IntendFileSound
<1>2. Marked(u, t)
  BY <1>1 DEF Marked
<1> HIDE DEF u, t
<1>3. /\ Sound(t) /\ SameCalls(u, t) /\ Grown(u, t) /\ t.intent = u.intent /\ t.phase = "running"
      /\ t.used = u.used /\ t.steps = u.steps /\ t.attempts = u.attempts
  BY <1>1, <1>2, MarkedSound
<1>4. Grown(s, t) /\ SameCalls(s, t)
  BY <1>1, <1>3, GrownTwice DEF SameCalls
<1> QED
  BY <1>1, <1>3, <1>4 DEF t, u

LEMMA AnsweredSound ==
  ASSUME NEW s, Sound(s)
  PROVE  /\ Sound(Answered(s)) /\ SameCalls(s, Answered(s)) /\ Grown(s, Answered(s))
         /\ Answered(s).intent = "none" /\ Answered(s).answer /\ Answered(s).used = s.used
         /\ Answered(s).phase = "finishing"
<1> DEFINE t == Answered(s)
<1>1. /\ t \in StateRows /\ t.intent = "none" /\ t.steps = s.steps /\ t.used = s.used
      /\ t.calls = s.calls /\ t.receipts = s.receipts /\ t.turns = s.turns /\ t.searches = s.searches /\ t.attempts = s.attempts
      /\ t.answer = TRUE /\ t.phase = "finishing" /\ t.wrap = s.wrap
  BY DEF Answered, Sound, StateRows, Kinds
<1> HIDE DEF t
<1>2. SameCalls(s, t)
  BY <1>1 DEF SameCalls
<1>3. Current(t) = Current(s)
  BY <1>2, SameCallsSame
<1>4. Sound(t)
  BY <1>1 DEF Sound
<1>5. s \in StateRows
  BY DEF Sound
<1>6. Grown(s, t)
  BY <1>1, <1>3, <1>5 DEF Grown, StateRows
<1> QED
  BY <1>1, <1>2, <1>4, <1>6 DEF t

(* The reply has come.                                                      *)
LEMMA HeardSound ==
  ASSUME NEW s, Sound(s), s.phase = "running", s.turns < s.steps
  PROVE  LET t == Heard(s) IN
         /\ Sound(t) /\ Grown(s, t) /\ t.intent = "none" /\ t.phase = "running" /\ t.used = s.used
         /\ t.turns = s.turns + 1 /\ t.calls = s.calls /\ t.receipts = s.receipts /\ t.steps = s.steps
         /\ t.wrap = s.wrap /\ t.filed = s.filed /\ t.attempts = s.attempts
<1> DEFINE x == s.turns + 1 t == Heard(s)
<1>0. s \in StateRows /\ x \in Nat /\ x = s.turns + 1
  BY DEF Sound, StateRows
<1>1. t = [s EXCEPT !.intent = "none", !.turns = x]
  BY DEF Heard
<1> HIDE DEF t, x
<1>2. /\ t \in StateRows /\ t.intent = "none" /\ t.steps = s.steps /\ t.used = s.used
      /\ t.calls = s.calls /\ t.receipts = s.receipts /\ t.turns = x /\ t.searches = s.searches /\ t.attempts = s.attempts
      /\ t.answer = s.answer /\ t.phase = s.phase /\ t.wrap = s.wrap /\ t.filed = s.filed
  BY <1>0, <1>1 DEF StateRows, Kinds
<1>3. Current(t) = Current(s)
  BY <1>2 DEF Current
<1>4. /\ s.used \in Nat /\ s.steps \in Nat /\ s.attempts \in Nat /\ s.turns \in Nat /\ x <= s.steps
  BY <1>0 DEF StateRows
<1>5. Sound(t)
  BY <1>0, <1>2, <1>4 DEF Sound
<1>6. Grown(s, t)
  BY <1>0, <1>2, <1>3, <1>4 DEF Grown
<1> QED
  BY <1>0, <1>2, <1>5, <1>6 DEF t

LEMMA SilentSound ==
  ASSUME NEW s, Sound(s), s.phase = "running"
  PROVE  LET t == [s EXCEPT !.intent = "none"] IN
         /\ Sound(t) /\ SameCalls(s, t) /\ Grown(s, t) /\ t.intent = "none" /\ t.phase = "running" /\ t.used = s.used /\ t.wrap = s.wrap
         /\ t.steps = s.steps
<1> DEFINE t == [s EXCEPT !.intent = "none"]
<1>0. s \in StateRows
  BY DEF Sound
<1>1. /\ t \in StateRows /\ t.intent = "none" /\ t.steps = s.steps /\ t.used = s.used
      /\ t.calls = s.calls /\ t.receipts = s.receipts /\ t.turns = s.turns /\ t.searches = s.searches /\ t.attempts = s.attempts
      /\ t.answer = s.answer /\ t.phase = s.phase /\ t.wrap = s.wrap
  BY <1>0 DEF StateRows, Kinds
<1> HIDE DEF t
<1>2. SameCalls(s, t)
  BY <1>1 DEF SameCalls
<1>3. Current(t) = Current(s)
  BY <1>2, SameCallsSame
<1>4. Sound(t)
  BY <1>1 DEF Sound
<1>5. /\ s.used \in Nat /\ s.steps \in Nat /\ s.attempts \in Nat /\ s.turns \in Nat /\ (s.wrap => t.wrap) /\ (s.answer => t.answer)
  BY <1>0, <1>1, Zenon DEF StateRows
<1>6. Grown(s, t)
  BY <1>1, <1>5 DEF Grown
<1> QED
  BY <1>1, <1>2, <1>4, <1>6 DEF t

LEMMA NamedSound ==
  ASSUME NEW s, Sound(s), ~Pending(s), s.phase = "running", s.turns < s.steps,
         NEW tools \in Seq(Tools), Len(s.calls) + Len(tools) <= MaxCalls
  PROVE  LET t == Named(s, tools) IN
         /\ Sound(t) /\ Grown(s, t) /\ t.intent = "none" /\ t.phase = "running" /\ t.used = s.used
         /\ t.receipts = s.receipts /\ Len(t.calls) = Len(s.calls) + Len(tools) /\ t.turns = s.turns + 1
         /\ \A i \in 1..Len(s.calls) : t.calls[i] = s.calls[i]
<1> DEFINE u == Heard(s) t == Named(s, tools) calls == s.calls \o tools
<1>0. s \in StateRows
  BY DEF Sound
<1>1. /\ calls \in Seq(Tools) /\ Len(calls) = Len(s.calls) + Len(tools) /\ Len(s.calls) \in Nat /\ Len(tools) \in Nat
      /\ \A i \in 1..Len(s.calls) : calls[i] = s.calls[i]
  BY <1>0 DEF StateRows
<1>2. /\ Sound(u) /\ Grown(s, u) /\ u.intent = "none" /\ u.phase = "running" /\ u.used = s.used
      /\ u.turns = s.turns + 1 /\ u.calls = s.calls /\ u.receipts = s.receipts
  BY HeardSound
<1>3. t = [u EXCEPT !.calls = calls]
  BY <1>2 DEF Named
<1> HIDE DEF u, t, calls
<1>4. /\ t \in StateRows /\ t.intent = u.intent /\ t.steps = u.steps /\ t.used = u.used
      /\ t.calls = calls /\ t.receipts = u.receipts /\ t.turns = u.turns /\ t.searches = u.searches /\ t.attempts = u.attempts
      /\ t.answer = u.answer /\ t.phase = u.phase /\ t.wrap = u.wrap
  BY <1>1, <1>2, <1>3 DEF Sound, StateRows
<1>5. /\ Len(s.receipts) \in Nat /\ Len(s.receipts) <= Len(s.calls) /\ MaxCalls \in Nat
      /\ Len(t.calls) = Len(s.calls) + Len(tools) /\ Len(t.receipts) = Len(s.receipts)
  BY <1>0, <1>1, <1>2, <1>4, CallsAssumption DEF Sound, StateRows
<1>6. Sound(t)
  BY <1>1, <1>2, <1>4, <1>5 DEF Sound
<1>7. Grown(s, t)
  BY <1>2, <1>4 DEF Grown, Current
<1> QED
  BY <1>1, <1>2, <1>4, <1>6, <1>7 DEF t

LEMMA IntendToolSound ==
  ASSUME NEW s, Sound(s), Pending(s), s.phase = "running"
  PROVE  LET t == IntendTool(s) IN
         /\ Sound(t) /\ SameCalls(s, t) /\ Grown(s, t) /\ t.phase = "running" /\ t.used = s.used
         /\ t.intent = IF Tool(s) = "publish" THEN "publication" ELSE "tool"
<1> DEFINE t == IntendTool(s)
<1>0. s \in StateRows
  BY DEF Sound
<1>1. /\ t \in StateRows /\ t.intent = (IF Tool(s) = "publish" THEN "publication" ELSE "tool")
      /\ t.steps = s.steps /\ t.used = s.used
      /\ t.calls = s.calls /\ t.receipts = s.receipts /\ t.turns = s.turns /\ t.searches = s.searches /\ t.attempts = s.attempts
      /\ t.answer = s.answer /\ t.phase = s.phase /\ t.wrap = s.wrap
  BY <1>0 DEF StateRows, Kinds, IntendTool
<1> HIDE DEF t
<1>2. SameCalls(s, t)
  BY <1>1 DEF SameCalls
<1>3. Current(t) = Current(s) /\ Pending(t) /\ Tool(t) = Tool(s)
  BY <1>2, SameCallsSame
<1>4. Sound(t)
  BY <1>1, <1>3 DEF Sound
<1>6. Grown(s, t)
  BY <1>0, <1>1, <1>3 DEF Grown, StateRows
<1> QED
  BY <1>1, <1>2, <1>4, <1>6 DEF t

LEMMA ReceiptSound ==
  ASSUME NEW s, Sound(s), Pending(s), s.phase = "running", NEW result \in Verdicts
  PROVE  LET t == Receipt(s, result) IN
         /\ Sound(t) /\ Grown(s, t) /\ t.phase = "running" /\ t.used = s.used /\ t.intent = "none"
         /\ t.calls = s.calls /\ Current(t) = Current(s) + 1
         /\ Len(t.receipts) = Current(s) /\ t.receipts[Current(s)] = result
         /\ \A i \in 1..Len(s.receipts) : t.receipts[i] = s.receipts[i]
<1> DEFINE t == Receipt(s, result) receipts == Append(s.receipts, result)
<1>0. s \in StateRows
  BY DEF Sound
<1>1. /\ receipts \in Seq(Verdicts) /\ Len(receipts) = Len(s.receipts) + 1 /\ Len(s.receipts) \in Nat
      /\ receipts[Len(s.receipts) + 1] = result
      /\ \A i \in 1..Len(s.receipts) : receipts[i] = s.receipts[i]
  BY <1>0 DEF StateRows
<1>2. t = [s EXCEPT !.intent = "none", !.attempts = 0, !.receipts = receipts]
  BY DEF Receipt
<1> HIDE DEF t, receipts
<1>3. /\ t \in StateRows /\ t.intent = "none" /\ t.steps = s.steps /\ t.used = s.used
      /\ t.calls = s.calls /\ t.receipts = receipts /\ t.turns = s.turns /\ t.searches = s.searches /\ t.attempts = 0
      /\ t.answer = s.answer /\ t.phase = s.phase /\ t.wrap = s.wrap
  BY <1>0, <1>1, <1>2 DEF StateRows, Kinds
<1>4. MaxAttempts \in Nat /\ Len(receipts) <= Len(t.calls)
  BY RunAssumption, <1>0, <1>1, <1>3 DEF Pending, Current, StateRows
<1>5. Sound(t)
  BY <1>1, <1>3, <1>4 DEF Sound
<1>6. Current(t) = Current(s) + 1
  BY <1>1, <1>3 DEF Current
<1>7. Grown(s, t)
  BY <1>0, <1>3, <1>6 DEF Grown, StateRows
<1> QED
  BY <1>1, <1>3, <1>5, <1>6, <1>7 DEF t, Current

LEMMA SearchSound ==
  ASSUME NEW s, Sound(s), Affordable(s), s.searches < MaxSearches, s.phase = "running"
  PROVE  LET t == [Reserve(s) EXCEPT !.searches = @ + 1] IN
         /\ Sound(t) /\ SameCalls(s, t) /\ Grown(s, t) /\ t.phase = "running" /\ t.intent = s.intent
         /\ t.used = s.used + 1
<1> DEFINE u == Reserve(s) x == s.searches + 1 t == [u EXCEPT !.searches = @ + 1]
<1>0. s \in StateRows /\ x \in Nat /\ x = s.searches + 1 /\ MaxSearches \in Nat /\ s.used < Budget /\ Budget \in Nat
  BY RunAssumption DEF Sound, StateRows, Affordable
<1>1. /\ u \in StateRows /\ u.used = s.used + 1 /\ u.calls = s.calls /\ u.receipts = s.receipts /\ u.turns = s.turns
      /\ u.steps = s.steps /\ u.searches = s.searches /\ u.attempts = s.attempts
      /\ u.answer = s.answer /\ u.phase = s.phase /\ u.wrap = s.wrap /\ u.intent = s.intent
  BY <1>0, ReserveRow DEF SameCalls
<1>2. t = [u EXCEPT !.searches = x]
  BY <1>1
<1> HIDE DEF t, u, x
<1>3. /\ t \in StateRows /\ t.intent = s.intent /\ t.steps = s.steps /\ t.used = s.used + 1
      /\ t.calls = s.calls /\ t.receipts = s.receipts /\ t.turns = s.turns /\ t.searches = x /\ t.attempts = s.attempts
      /\ t.answer = s.answer /\ t.phase = s.phase /\ t.wrap = s.wrap
  BY <1>0, <1>1, <1>2 DEF StateRows
<1>4. SameCalls(s, t)
  BY <1>3 DEF SameCalls
<1>5. Current(t) = Current(s) /\ (Pending(t) <=> Pending(s)) /\ Tool(t) = Tool(s)
  BY <1>4, SameCallsSame
<1>6. Sound(t)
  BY <1>0, <1>3, <1>5 DEF Sound, StateRows
<1>7. Grown(s, t)
  BY <1>0, <1>3, <1>5 DEF Grown, StateRows
<1> QED
  BY <1>3, <1>4, <1>6, <1>7 DEF t, u, x

LEMMA AttemptSound ==
  ASSUME NEW s, Sound(s), s.attempts < MaxAttempts, s.phase = "running"
  PROVE  LET t == Attempt(s) IN
         /\ Sound(t) /\ SameCalls(s, t) /\ Grown(s, t) /\ t.phase = "running" /\ t.intent = s.intent
         /\ t.used = s.used /\ t.attempts = s.attempts + 1
<1> DEFINE x == s.attempts + 1 t == Attempt(s)
<1>0. s \in StateRows /\ x \in Nat /\ x = s.attempts + 1 /\ MaxAttempts \in Nat
  BY RunAssumption DEF Sound, StateRows
<1>2. t = [s EXCEPT !.attempts = x]
  BY DEF Attempt
<1> HIDE DEF t, x
<1>3. /\ t \in StateRows /\ t.intent = s.intent /\ t.steps = s.steps /\ t.used = s.used
      /\ t.calls = s.calls /\ t.receipts = s.receipts /\ t.turns = s.turns /\ t.searches = s.searches /\ t.attempts = x
      /\ t.answer = s.answer /\ t.phase = s.phase /\ t.wrap = s.wrap
  BY <1>0, <1>2 DEF StateRows
<1>4. SameCalls(s, t)
  BY <1>3 DEF SameCalls
<1>5. Current(t) = Current(s) /\ (Pending(t) <=> Pending(s)) /\ Tool(t) = Tool(s)
  BY <1>4, SameCallsSame
<1>6. Sound(t)
  BY <1>0, <1>3, <1>5 DEF Sound, StateRows
<1>7. Grown(s, t)
  BY <1>0, <1>3, <1>5 DEF Grown, StateRows
<1> QED
  BY <1>0, <1>3, <1>4, <1>6, <1>7 DEF t

(* The run is over, or the document has become the answer.                  *)
LEMMA EndedSound ==
  ASSUME NEW s, Sound(s), NEW phase \in Over, phase = "finished" => s.answer
  PROVE  LET t == [s EXCEPT !.phase = phase] IN
         /\ Sound(t) /\ SameCalls(s, t) /\ Grown(s, t) /\ t.phase = phase /\ t.intent = s.intent
         /\ t.used = s.used /\ t.answer = s.answer
<1> DEFINE t == [s EXCEPT !.phase = phase]
<1>0. s \in StateRows
  BY DEF Sound
<1>1. /\ t \in StateRows /\ t.intent = s.intent /\ t.steps = s.steps /\ t.used = s.used
      /\ t.calls = s.calls /\ t.receipts = s.receipts /\ t.turns = s.turns /\ t.searches = s.searches /\ t.attempts = s.attempts
      /\ t.answer = s.answer /\ t.phase = phase /\ t.wrap = s.wrap
  BY <1>0 DEF StateRows
<1> HIDE DEF t
<1>2. SameCalls(s, t)
  BY <1>1 DEF SameCalls
<1>3. Current(t) = Current(s) /\ (Pending(t) <=> Pending(s)) /\ Tool(t) = Tool(s)
  BY <1>2, SameCallsSame
<1>4. Sound(t)
  BY <1>1, <1>3 DEF Sound, Over
<1>6. Grown(s, t)
  BY <1>0, <1>1, <1>3 DEF Grown, StateRows
<1> QED
  BY <1>1, <1>2, <1>4, <1>6 DEF t

LEMMA FallbackSound ==
  ASSUME NEW s, Sound(s), s.phase = "running"
  PROVE  LET t == [s EXCEPT !.fallback = TRUE] IN
         /\ Sound(t) /\ SameCalls(s, t) /\ Grown(s, t) /\ t.phase = "running" /\ t.intent = s.intent
         /\ t.used = s.used /\ t.answer = s.answer /\ t.steps = s.steps /\ t.wrap = s.wrap /\ t.attempts = s.attempts
<1> DEFINE t == [s EXCEPT !.fallback = TRUE]
<1>0. s \in StateRows
  BY DEF Sound
<1>1. /\ t \in StateRows /\ t.intent = s.intent /\ t.steps = s.steps /\ t.used = s.used
      /\ t.calls = s.calls /\ t.receipts = s.receipts /\ t.turns = s.turns /\ t.searches = s.searches /\ t.attempts = s.attempts
      /\ t.answer = s.answer /\ t.phase = s.phase /\ t.wrap = s.wrap
  BY <1>0 DEF StateRows
<1> HIDE DEF t
<1>2. SameCalls(s, t)
  BY <1>1 DEF SameCalls
<1>3. Current(t) = Current(s) /\ (Pending(t) <=> Pending(s)) /\ Tool(t) = Tool(s)
  BY <1>2, SameCallsSame
<1>4. Sound(t)
  BY <1>1, <1>3 DEF Sound
<1>6. Grown(s, t)
  BY <1>0, <1>1, <1>3 DEF Grown, StateRows
<1> QED
  BY <1>1, <1>2, <1>4, <1>6 DEF t
------------------------------------------------------------------------------
(* The research before the loop.                                            *)

LEMMA ResearchedSound ==
  ASSUME NEW s, Sound(s), s.phase = "running", s.intent = "none", NEW mark \in {"started", "deliverable"},
         NEW n \in Nat, NEW k \in Nat, s.used + n <= Budget, s.searches + k <= MaxSearches
  PROVE  LET t == Researched(s, mark, n, k) IN
         /\ Sound(t) /\ SameCalls(s, t) /\ Grown(s, t) /\ t.intent = s.intent /\ t.phase = "running"
         /\ t.steps = s.steps + n
<1> DEFINE t == Researched(s, mark, n, k) x == s.steps + n y == s.used + n z == s.searches + k
<1>0. /\ s \in StateRows /\ x \in Nat /\ x = s.steps + n /\ y \in Nat /\ y = s.used + n /\ z \in Nat
      /\ Budget \in Nat /\ MaxSearches \in Nat /\ y <= Budget /\ z <= MaxSearches
  BY RunAssumption DEF Sound, StateRows
<1>1. t = [s EXCEPT !.fast = mark, !.steps = x, !.used = y, !.searches = z]
  BY DEF Researched
<1> HIDE DEF t, x, y, z
<1>2. /\ t \in StateRows /\ t.intent = s.intent /\ t.steps = x /\ t.used = y
      /\ t.calls = s.calls /\ t.receipts = s.receipts /\ t.turns = s.turns /\ t.searches = z
      /\ t.attempts = s.attempts /\ t.answer = s.answer /\ t.phase = s.phase /\ t.wrap = s.wrap
  BY <1>0, <1>1 DEF StateRows
<1>3. SameCalls(s, t)
  BY <1>2 DEF SameCalls
<1>4. Current(t) = Current(s)
  BY <1>3, SameCallsSame
<1>5. s.used \in Nat /\ s.steps \in Nat /\ s.attempts \in Nat /\ s.turns \in Nat
  BY <1>0 DEF StateRows
<1>6. Sound(t)
  BY <1>0, <1>2, <1>5 DEF Sound
<1>7. Grown(s, t)
  BY <1>0, <1>2, <1>4, <1>5 DEF Grown
<1> QED
  BY <1>0, <1>2, <1>3, <1>6, <1>7 DEF t

LEMMA ResearchesSound ==
  ASSUME NEW s, Sound(s), s.phase = "running", NEW mark \in {"started", "deliverable"}, NEW requests,
         NEW t \in Researches(s, mark, requests)
  PROVE  /\ NewTurn(s) /\ s.intent = "none"
         /\ Sound(t) /\ SameCalls(s, t) /\ Grown(s, t) /\ t.intent = s.intent /\ t.phase = "running"
<1>1. PICK n \in Nat, k \in Nat : /\ t = Researched(s, mark, n, k)
                                  /\ NewTurn(s) /\ t.used <= Budget /\ t.searches <= MaxSearches
  BY RunAssumption DEF Researches
<1>2. s \in StateRows /\ s.intent = "none"
  BY <1>1 DEF Sound, NewTurn
<1>3. t.used = s.used + n /\ t.searches = s.searches + k
  BY <1>1, <1>2 DEF Researched, StateRows
<1> QED
  BY <1>1, <1>2, <1>3, ResearchedSound

LEMMA EnteredSound ==
  ASSUME NEW s, Sound(s), s.phase = "running", NEW t \in Entered(s)
  PROVE  /\ t = s \/ (NewTurn(s) /\ s.intent = "none")
         /\ Sound(t) /\ SameCalls(s, t) /\ Grown(s, t) /\ t.intent = s.intent /\ t.phase = "running"
<1>1. CASE t = s
  <2>1. s.used \in Nat /\ s.steps \in Nat /\ s.attempts \in Nat /\ s.turns \in Nat
    BY DEF Sound, StateRows
  <2> QED
    BY <1>1, <2>1 DEF SameCalls, Grown
<1>2. CASE t \in Researches(s, "started", 3)
  BY <1>2, ResearchesSound
<1> QED
  BY <1>1, <1>2 DEF Entered

LEMMA ShortenedSound ==
  ASSUME NEW s, Sound(s), s.phase = "running", NEW u \in Researches(s, "deliverable", 2)
  PROVE  LET t == Shortened(u) IN
         Sound(t) /\ SameCalls(s, t) /\ Grown(s, t) /\ t.intent = "none" /\ s.intent = "none" /\ t.phase = "running"
<1> DEFINE t == Shortened(u)
<1>1. Sound(u) /\ SameCalls(s, u) /\ Grown(s, u) /\ u.intent = "none" /\ s.intent = "none" /\ u.phase = "running"
  BY ResearchesSound
<1>2. u.steps \in Nat /\ LoopSteps \in Nat /\ MaxSteps \in Nat
  BY <1>1, RunAssumption DEF Sound, StateRows
<1>3. Marked(u, t)
  BY <1>2 DEF Marked, Shortened
<1> HIDE DEF t
<1>4. Sound(t) /\ SameCalls(u, t) /\ Grown(u, t) /\ t.intent = u.intent /\ t.phase = "running"
  BY <1>1, <1>3, MarkedSound
<1>5. Grown(s, t) /\ SameCalls(s, t)
  BY <1>1, <1>4, GrownTwice DEF SameCalls
<1> QED
  BY <1>1, <1>4, <1>5 DEF t

(* The answer at once, or the end without one.                              *)
AnsweredEarly(u) == [u EXCEPT !.answer = TRUE, !.phase = "finished"]
LEMMA AnsweredEarlySound ==
  ASSUME NEW s, Sound(s), s.phase = "running", NEW u \in Researches(s, "started", 4)
  PROVE  LET t == AnsweredEarly(u) IN
         /\ Sound(t) /\ SameCalls(s, t) /\ Grown(s, t) /\ t.intent = "none" /\ s.intent = "none" /\ t.phase = "finished"
<1> DEFINE t == AnsweredEarly(u)
<1>1. Sound(u) /\ SameCalls(s, u) /\ Grown(s, u) /\ u.intent = "none" /\ s.intent = "none" /\ u.phase = "running"
  BY ResearchesSound
<1>2. /\ t \in StateRows /\ t.intent = "none" /\ t.steps = u.steps /\ t.used = u.used
      /\ t.calls = u.calls /\ t.receipts = u.receipts /\ t.turns = u.turns /\ t.searches = u.searches
      /\ t.attempts = u.attempts /\ t.answer = TRUE /\ t.phase = "finished" /\ t.wrap = u.wrap
  BY <1>1 DEF AnsweredEarly, Sound, StateRows, Over
<1> HIDE DEF t
<1>3. Sound(t) /\ SameCalls(u, t)
  BY <1>1, <1>2 DEF Sound, SameCalls
<1>4. Current(t) = Current(u)
  BY <1>3, SameCallsSame
<1>5. u.used \in Nat /\ u.steps \in Nat /\ u.attempts \in Nat /\ u.turns \in Nat
  BY <1>1 DEF Sound, StateRows
<1>6. Grown(u, t)
  BY <1>2, <1>4, <1>5 DEF Grown
<1>7. Grown(s, t) /\ SameCalls(s, t)
  BY <1>1, <1>3, <1>6, GrownTwice DEF SameCalls
<1> QED
  BY <1>1, <1>2, <1>3, <1>7 DEF t

LEMMA FailedEarlySound ==
  ASSUME NEW s, Sound(s), s.phase = "running", NEW u \in Researches(s, "started", 3)
  PROVE  LET t == [u EXCEPT !.phase = "failed"] IN
         /\ Sound(t) /\ SameCalls(s, t) /\ Grown(s, t) /\ t.intent = "none" /\ s.intent = "none" /\ t.phase = "failed"
<1> DEFINE t == [u EXCEPT !.phase = "failed"]
<1>1. Sound(u) /\ SameCalls(s, u) /\ Grown(s, u) /\ u.intent = "none" /\ s.intent = "none"
  BY ResearchesSound
<1>2. Sound(t) /\ SameCalls(u, t) /\ Grown(u, t) /\ t.phase = "failed" /\ t.intent = u.intent
  BY <1>1, EndedSound DEF Over
<1> HIDE DEF t
<1>3. Grown(s, t) /\ SameCalls(s, t)
  BY <1>1, <1>2, GrownTwice DEF SameCalls
<1> QED
  BY <1>1, <1>2, <1>3 DEF t

(* The first request or the answer, from a state nothing has saved before.  *)
LEMMA EnteredIntends ==
  ASSUME NEW s, Sound(s), ~Pending(s), s.phase = "running", NEW u \in Entered(s), Affordable(u)
  PROVE  /\ Sound(Intend(u)) /\ SameCalls(s, Intend(u)) /\ Grown(s, Intend(u))
         /\ Intend(u).intent = "model" /\ Intend(u).phase = "running" /\ Intend(u).used > s.used
         /\ Sound(IntendWrapUp(u)) /\ SameCalls(s, IntendWrapUp(u)) /\ Grown(s, IntendWrapUp(u))
         /\ IntendWrapUp(u).intent = "wrapUp" /\ IntendWrapUp(u).phase = "running" /\ IntendWrapUp(u).used > s.used
<1>1. Sound(u) /\ SameCalls(s, u) /\ Grown(s, u) /\ u.intent = s.intent /\ u.phase = "running"
  BY EnteredSound
<1>2. ~Pending(u)
  BY <1>1, SameCallsSame
<1>3. s.used \in Nat /\ u.used \in Nat /\ u.used >= s.used
  BY <1>1 DEF Sound, StateRows, Grown
<1>4. /\ Sound(Intend(u)) /\ SameCalls(u, Intend(u)) /\ Grown(u, Intend(u))
      /\ Intend(u).intent = "model" /\ Intend(u).phase = "running" /\ Intend(u).used = u.used + 1
  BY <1>1, <1>2, IntendSound
<1>5. /\ Sound(IntendWrapUp(u)) /\ SameCalls(u, IntendWrapUp(u)) /\ Grown(u, IntendWrapUp(u))
      /\ IntendWrapUp(u).intent = "wrapUp" /\ IntendWrapUp(u).phase = "running" /\ IntendWrapUp(u).used = u.used + 1
  BY <1>1, <1>2, IntendWrapUpSound
<1>6. SameCalls(s, Intend(u)) /\ Grown(s, Intend(u)) /\ SameCalls(s, IntendWrapUp(u)) /\ Grown(s, IntendWrapUp(u))
  BY <1>1, <1>4, <1>5, GrownTwice DEF SameCalls
<1> QED
  BY <1>3, <1>4, <1>5, <1>6

LEMMA EnteredAnswers ==
  ASSUME NEW s, Sound(s), s.phase = "running", NEW u \in Entered(s)
  PROVE  /\ Sound(Answered(u)) /\ SameCalls(s, Answered(u)) /\ Grown(s, Answered(u))
         /\ Answered(u).intent = "none" /\ Answered(u).answer /\ Answered(u).phase = "finishing"
<1>1. Sound(u) /\ SameCalls(s, u) /\ Grown(s, u)
  BY EnteredSound
<1>2. /\ Sound(Answered(u)) /\ SameCalls(u, Answered(u)) /\ Grown(u, Answered(u))
      /\ Answered(u).intent = "none" /\ Answered(u).answer /\ Answered(u).phase = "finishing"
  BY <1>1, AnsweredSound
<1> QED
  BY <1>1, <1>2, GrownTwice DEF SameCalls

(* The receipt of a call that was refused for good.                         *)
ForGood(s) == {WrapReceipt(s)} \cup
              (IF s.searches < MaxSearches THEN {[WrapReceipt(s) EXCEPT !.searches = @ + 1]} ELSE {})
LEMMA ForGoodSound ==
  ASSUME NEW s, Sound(s), Pending(s), s.phase = "running", NEW t \in ForGood(s)
  PROVE  /\ Sound(t) /\ Grown(s, t) /\ t.phase = "running" /\ t.used = s.used /\ t.intent = "none"
         /\ t.calls = s.calls /\ Current(t) = Current(s) + 1
         /\ Len(t.receipts) = Current(s) /\ t.receipts[Current(s)] = "failed"
         /\ \A i \in 1..Len(s.receipts) : t.receipts[i] = s.receipts[i]
<1> DEFINE r == Receipt(s, "failed") u == WrapReceipt(s)
<1>0. "failed" \in Verdicts
  BY DEF Verdicts
<1>1. /\ Sound(r) /\ Grown(s, r) /\ r.phase = "running" /\ r.used = s.used /\ r.intent = "none"
      /\ r.calls = s.calls /\ Current(r) = Current(s) + 1
      /\ Len(r.receipts) = Current(s) /\ r.receipts[Current(s)] = "failed"
      /\ \A i \in 1..Len(s.receipts) : r.receipts[i] = s.receipts[i]
  BY <1>0, ReceiptSound
<1>s. s.searches \in Nat /\ r.searches = s.searches
  BY DEF Sound, StateRows, Receipt
<1>2. Marked(r, u)
  BY DEF Marked, WrapReceipt
<1> HIDE DEF r, u
<1>3. Sound(u) /\ SameCalls(r, u) /\ Grown(r, u) /\ u.intent = "none" /\ u.phase = "running" /\ u.used = r.used
  BY <1>1, <1>2, MarkedSound
<1>4. Grown(s, u) /\ Current(u) = Current(r)
  BY <1>1, <1>3, GrownTwice, SameCallsSame
<1>5. CASE t = u
  BY <1>1, <1>3, <1>4, <1>5 DEF SameCalls
<1>6. CASE s.searches < MaxSearches /\ t = [u EXCEPT !.searches = @ + 1]
  <2> DEFINE x == u.searches + 1
  <2>1. u.searches = s.searches
    BY <1>1, <1>s DEF u, r, WrapReceipt, Sound, StateRows
  <2>2. x \in Nat /\ x <= MaxSearches /\ u \in StateRows /\ MaxSearches \in Nat
    BY <1>3, <1>6, <1>s, <2>1, RunAssumption DEF Sound
  <2>3. t = [u EXCEPT !.searches = x]
    BY <1>6
  <2> HIDE DEF x
  <2>4. /\ t \in StateRows /\ t.intent = u.intent /\ t.steps = u.steps /\ t.used = u.used
        /\ t.calls = u.calls /\ t.receipts = u.receipts /\ t.turns = u.turns /\ t.searches = x
        /\ t.attempts = u.attempts /\ t.answer = u.answer /\ t.phase = u.phase /\ t.wrap = u.wrap
    BY <2>2, <2>3 DEF StateRows
  <2>5. Sound(t) /\ SameCalls(u, t)
    BY <1>3, <2>2, <2>4 DEF Sound, SameCalls
  <2>6. Current(t) = Current(u)
    BY <2>5, SameCallsSame
  <2>7. Grown(u, t)
    BY <2>2, <2>4, <2>6 DEF Grown, StateRows
  <2> QED
    BY <1>1, <1>3, <1>4, <2>4, <2>5, <2>6, <2>7, GrownTwice DEF SameCalls
<1> QED
  BY <1>5, <1>6 DEF ForGood, u


------------------------------------------------------------------------------
(* A step of one worker, as far as the loop goes.                           *)

Gone(at) == [Away EXCEPT !.at = at]

LEMMA GoneFits ==
  ASSUME NEW at \in Locations \ Following
  PROVE  /\ Fits(Gone(at)) /\ ~Busy(Gone(at)) /\ Gone(at).at = at /\ Gone(at).removed = 0
         /\ Gone(at).at \notin Following /\ Gone(at).state = NoState
<1>1. Away \in ProcRows /\ Sound(NoState)
  BY NoStateSound
<1>2. /\ Gone(at) \in ProcRows /\ Gone(at).at = at /\ Gone(at).state = NoState /\ Gone(at).removed = 0
  BY <1>1 DEF Gone, Away, ProcRows
<1>3. at \notin Following
  OBVIOUS
<1> QED
  BY <1>1, <1>2, <1>3 DEF Fits, Busy, Using, Following, InLoop, InTool, Computing, Failing, Finishing, Thinking, Wrapping, InComputer

(* What the worker is at after its step is in order, and the others may go  *)
(* on as they were.                                                         *)
LEMMA OneGoes ==
  ASSUME LoopInv, NEW w \in Workers, NEW q, proc' = [proc EXCEPT ![w] = q],
         Fits(q), Held(saved', q), Sound(saved'),
         lease' \in Workers \cup {Nobody}, leases' \in Nat, leases' <= MaxLeases, stopping' \in BOOLEAN,
         outcome' \in Outcomes, outcome'.by = "worker" => outcome'.state # "open",
         Busy(q) => Aside(w),
         lease' = w => /\ q.at \in Following => Alike(saved', q)
                       /\ MayTell(q.at, saved')
                       /\ q.at \in {"done", "recovered"} => Aside(w),
         \A v \in Workers \ {w} :
           /\ Held(saved', proc[v])
           /\ lease' = v => /\ lease = v /\ saved' = saved
                            /\ proc[v].at \in {"done", "recovered"} => ~Busy(q)
  PROVE  LoopInv'
<1>1. proc \in [Workers -> ProcRows] /\ q \in ProcRows
  BY DEF LoopInv, Fits
<1>2. proc'[w] = q /\ proc' \in [Workers -> ProcRows] /\ \A v \in Workers \ {w} : proc'[v] = proc[v]
  BY <1>1
<1>3. ASSUME NEW v \in Workers PROVE Fits(proc'[v]) /\ Held(saved', proc'[v])
  BY <1>2 DEF LoopInv
<1>4. Unique'
  <2> SUFFICES ASSUME NEW v \in Workers, NEW u \in Workers, Busy(proc'[v]), Busy(proc'[u]) PROVE v = u
    BY DEF Unique
  <2> QED
    BY <1>2 DEF LoopInv, Unique, Aside
<1>5. ASSUME NEW v \in Workers PROVE Fresh(v)'
  <2>1. CASE v = w
    <3>1. q.at \in {"done", "recovered"} /\ lease' = w => Aside(w)'
      BY <1>2 DEF Aside
    <3> QED
      BY <2>1, <1>2, <3>1 DEF Fresh
  <2>2. CASE v # w /\ lease' = v
    <3>1. Fresh(v) /\ lease = v /\ saved' = saved /\ proc'[v] = proc[v]
      BY <2>2, <1>2 DEF LoopInv
    <3>2. proc[v].at \in {"done", "recovered"} => Aside(v)'
      BY <3>1, <1>2, <2>2 DEF Fresh, Aside
    <3> QED
      BY <3>1, <3>2 DEF Fresh
  <2> QED
    BY <2>1, <2>2 DEF Fresh
<1> QED
  BY <1>2, <1>3, <1>4, <1>5 DEF LoopInv

(* The worker leaves what it was at.                                        *)
LEMMA Quits ==
  ASSUME LoopInv, NEW w \in Workers, NEW at \in Locations \ Following, proc' = [proc EXCEPT ![w] = Gone(at)],
         saved' = saved, lease' = lease, leases' = leases, stopping' \in BOOLEAN,
         outcome' \in Outcomes, outcome'.by = "worker" => outcome'.state # "open",
         lease = w => MayTell(at, saved)
  PROVE  LoopInv'
<1> DEFINE q == Gone(at)
<1>1. Fits(q) /\ ~Busy(q) /\ q.at = at /\ q.at \notin Following
  BY GoneFits
<1>2. Held(saved', q)
  BY <1>1 DEF Held, Busy
<1>3. \A v \in Workers : Held(saved', proc[v])
  BY DEF LoopInv
<1>4. q.at \notin {"done", "recovered"}
  BY <1>1 DEF Following, InLoop
<1> HIDE DEF q
<1> QED
  BY <1>1, <1>2, <1>3, <1>4, OneGoes DEF LoopInv, q

(* The worker goes on with the state it has.                                *)
Onward(p, q) ==
  /\ q.state = p.state \/ (q.at = "done" /\ q.state = [p.state EXCEPT !.fallback = TRUE])
  /\ q.at \in Following => p.at \in Following \ {"done"}
  /\ q.at \in Thinking => p.at \in Thinking
  /\ q.at \in Wrapping => p.at \in Wrapping
  /\ Using(q) => Using(p) /\ q.state = p.state
  /\ q.at # "recovered"
LEMMA Moves ==
  ASSUME LoopInv, NEW w \in Workers, NEW q, proc' = [proc EXCEPT ![w] = q], Fits(q),
         saved' = saved, lease' = lease, leases' = leases, stopping' = stopping, outcome' = outcome,
         Onward(proc[w], q),
         lease = w => MayTell(q.at, saved),
         q.at = "done" => lease # w \/ Aside(w)
  PROVE  LoopInv'
<1> DEFINE p == proc[w]
<1>1. Fits(p) /\ Fresh(w) /\ Held(saved, p)
  BY DEF LoopInv
<1>2. Held(saved', q)
  <2>1. q.at \in Thinking \cup Wrapping => q.state = p.state
    BY DEF Onward, Thinking, Wrapping
  <2> QED
    BY <1>1, <2>1 DEF Held, Onward
<1>3. Busy(q) => Busy(p)
  BY DEF Busy, Onward
<1>4. Busy(p) => Aside(w)
  BY DEF LoopInv, Unique, Aside
<1>5. lease' = w => /\ q.at \in Following => Alike(saved', q)
                    /\ MayTell(q.at, saved')
                    /\ q.at \in {"done", "recovered"} => Aside(w)
  BY <1>1 DEF Fresh, Onward, Alike
<1>6. \A v \in Workers \ {w} :
           /\ Held(saved', proc[v])
           /\ lease' = v => /\ lease = v /\ saved' = saved
                            /\ proc[v].at \in {"done", "recovered"} => ~Busy(q)
  BY <1>3 DEF LoopInv, Fresh, Aside
<1> HIDE DEF p
<1> QED
  BY <1>2, <1>3, <1>4, <1>5, <1>6, OneGoes DEF LoopInv

(* The three outcomes of a save.                                            *)
Kept(w, s, at) == [proc[w] EXCEPT !.state = s, !.at = at, !.got = "none"]
LEMMA SaveSteps ==
  ASSUME NEW w \in Workers, NEW s, NEW dispatch, NEW next, Save(w, s, dispatch, next)
  PROVE  /\ lease' = lease /\ leases' = leases /\ stopping' = stopping /\ outcome' = outcome
         /\ \/ /\ Holds(w) /\ saved' = s
               /\ \/ proc' = [proc EXCEPT ![w] = Kept(w, s, next)]
                  \/ proc' = [proc EXCEPT ![w] = Gone("resign")]
            \/ /\ saved' = saved
               /\ \E at \in {"resign", "interrupted"} : proc' = [proc EXCEPT ![w] = Gone(at)]
BY DEF Save, Accepts, Abandon, Kept, Gone

(* What a save of the lease's holder must respect: what the other workers   *)
(* are at stays recorded.                                                   *)
Spares(s, t) ==
  \/ t.intent = s.intent /\ SameCalls(s, t) /\ (s.answer => t.answer)
  \/ s.intent = "wrapUp" /\ t.answer
Saves(w, s, next) ==
  /\ Sound(s) /\ Fits(Kept(w, s, next))
  /\ MayTell(next, s) /\ next # "done"
  /\ Spares(saved, s) \/ Aside(w)
  /\ next = "recovered" \/ Busy(Kept(w, s, next)) => Aside(w)
LEMMA SaveKeeps ==
  ASSUME LoopInv, NEW w \in Workers, NEW s, NEW dispatch, NEW next, Save(w, s, dispatch, next),
         Holds(w) => Saves(w, s, next)
  PROVE  LoopInv'
<1>1. /\ "resign" \in Locations \ Following /\ "interrupted" \in Locations \ Following
      /\ \A t : MayTell("resign", t) /\ MayTell("interrupted", t)
  BY DEF Locations, Cleaning, Following, InLoop, InTool, Computing, InComputer, Thinking, Wrapping, Failing,
         Finishing, MayTell
<1>2. CASE saved' = saved /\ \E at \in {"resign", "interrupted"} : proc' = [proc EXCEPT ![w] = Gone(at)]
  <2>1. PICK at \in {"resign", "interrupted"} : proc' = [proc EXCEPT ![w] = Gone(at)]
    BY <1>2
  <2> QED
    BY <1>1, <1>2, <2>1, SaveSteps, Quits DEF LoopInv
<1>3. CASE Holds(w) /\ saved' = s
  <2>1. /\ Saves(w, s, next) /\ lease = w /\ lease' = lease /\ leases' = leases
        /\ stopping' = stopping /\ outcome' = outcome /\ Sound(saved')
    BY <1>3, SaveSteps DEF Holds, Saves
  <2>2. ASSUME NEW v \in Workers \ {w} PROVE Held(saved', proc[v])
    <3>1. Held(saved, proc[v]) /\ Fits(proc[v]) /\ Sound(saved)
      BY DEF LoopInv
    <3>2. CASE Aside(w)
      BY <3>2 DEF Aside, Held, Busy
    <3>3. CASE Spares(saved, s)
      <4>1. CASE saved.intent = "wrapUp" /\ s.answer
        BY <1>3, <3>1, <4>1 DEF Held
      <4>2. CASE s.intent = saved.intent /\ SameCalls(saved, s) /\ (saved.answer => s.answer)
        BY <1>3, <3>1, <4>2, SameCallsSame DEF Held, SameCalls
      <4> QED
        BY <3>3, <4>1, <4>2 DEF Spares
    <3> QED
      BY <2>1, <3>2, <3>3 DEF Saves
  <2>3. \A v \in Workers \ {w} :
           /\ Held(saved', proc[v])
           /\ lease' = v => /\ lease = v /\ saved' = saved
                            /\ proc[v].at \in {"done", "recovered"} => FALSE
    BY <2>1, <2>2
  <2>4. CASE proc' = [proc EXCEPT ![w] = Kept(w, s, next)]
    <3> DEFINE q == Kept(w, s, next)
    <3>1. proc[w] \in ProcRows
      BY DEF LoopInv
    <3>2. q.state = s /\ q.at = next
      BY <3>1 DEF Kept, ProcRows
    <3>3. Fits(q) /\ (Busy(q) => Aside(w))
      BY <2>1 DEF Saves
    <3>4. Held(saved', q)
      BY <1>3, <3>2, <3>3 DEF Held, Fits, Using
    <3>5. /\ q.at \in Following => Alike(saved', q)
          /\ MayTell(q.at, saved')
          /\ q.at \in {"done", "recovered"} => Aside(w)
      BY <1>3, <2>1, <3>2 DEF Alike, Saves
    <3> HIDE DEF q
    <3> QED
      BY <2>1, <2>3, <2>4, <3>3, <3>4, <3>5, OneGoes DEF LoopInv, q
  <2>5. CASE proc' = [proc EXCEPT ![w] = Gone("resign")]
    <3> DEFINE q == Gone("resign")
    <3>1. Fits(q) /\ ~Busy(q) /\ q.at = "resign" /\ q.at \notin Following
      BY <1>1, GoneFits
    <3>2. Held(saved', q)
      BY <3>1 DEF Held, Busy
    <3>3. MayTell(q.at, saved')
      BY <1>1, <3>1
    <3> HIDE DEF q
    <3> QED
      BY <2>1, <2>3, <2>5, <3>1, <3>2, <3>3, OneGoes DEF LoopInv, q
  <2> QED
    BY <1>1, <1>3, <2>4, <2>5, SaveSteps, <1>2
<1> QED
  BY <1>2, <1>3, SaveSteps

------------------------------------------------------------------------------
(* The loop's steps without a save.                                         *)

LEMMA BusyAside ==
  ASSUME LoopInv, NEW w \in Workers, Busy(proc[w])
  PROVE  Aside(w)
BY DEF LoopInv, Unique, Aside

LEMMA FreeAside ==
  ASSUME LoopInv, NEW w \in Workers, saved.intent \in {"none", "publication"}, ~saved.answer
  PROVE  Aside(w)
BY DEF LoopInv, Held, Aside, Busy

LEMMA HolderState ==
  ASSUME LoopInv, NEW w \in Workers, lease = w, proc[w].at \in Following, proc[w].at # "done"
  PROVE  proc[w].state = saved
BY DEF LoopInv, Fresh, Alike

Put(p, at, got, removed) == [p EXCEPT !.at = at, !.got = got, !.removed = removed]
LEMMA PutRow ==
  ASSUME NEW p \in ProcRows, NEW at \in Locations, NEW got \in Results, NEW removed \in Removals
  PROVE  LET q == Put(p, at, got, removed) IN
         q \in ProcRows /\ q.at = at /\ q.got = got /\ q.removed = removed /\ q.state = p.state
BY DEF Put, ProcRows

LEMMA PutSteps ==
  ASSUME LoopInv, NEW w \in Workers
  PROVE  /\ proc[w] \in ProcRows /\ proc[w].got \in Results /\ proc[w].removed \in Removals /\ 0 \in Removals
         /\ \A at : Go(w, at) => proc' = [proc EXCEPT ![w] = Put(proc[w], at, proc[w].got, proc[w].removed)]
         /\ \A at : Turn(w, at) => proc' = [proc EXCEPT ![w] = Put(proc[w], at, proc[w].got, 0)]
         /\ \A at, got : Gets(w, got, at) => proc' = [proc EXCEPT ![w] = Put(proc[w], at, got, 0)]
         /\ \A at : Abandon(w, at) => proc' = [proc EXCEPT ![w] = Gone(at)]
<1> DEFINE p == proc[w]
<1>1. p \in ProcRows /\ proc \in [Workers -> ProcRows]
  BY DEF LoopInv
<1>2. p.got \in Results /\ p.removed \in Removals /\ 0 \in Removals
  BY <1>1, CallsAssumption DEF ProcRows, Removals
<1>3. ASSUME NEW at, Go(w, at) PROVE proc' = [proc EXCEPT ![w] = Put(p, at, p.got, p.removed)]
  <2>1. Put(p, at, p.got, p.removed) = [p EXCEPT !.at = at]
    BY <1>1 DEF Put, ProcRows
  <2> QED
    BY <1>1, <1>3, <2>1 DEF Go
<1>4. ASSUME NEW at, Turn(w, at) PROVE proc' = [proc EXCEPT ![w] = Put(p, at, p.got, 0)]
  <2>1. Put(p, at, p.got, 0) = [p EXCEPT !.at = at, !.removed = 0]
    BY <1>1 DEF Put, ProcRows
  <2> QED
    BY <1>1, <1>4, <2>1 DEF Turn
<1>5. ASSUME NEW at, NEW got, Gets(w, got, at) PROVE proc' = [proc EXCEPT ![w] = Put(p, at, got, 0)]
  <2>1. Put(p, at, got, 0) = [p EXCEPT !.got = got, !.at = at, !.removed = 0]
    BY <1>1 DEF Put, ProcRows
  <2> QED
    BY <1>1, <1>5, <2>1 DEF Gets
<1>6. ASSUME NEW at, Abandon(w, at) PROVE proc' = [proc EXCEPT ![w] = Gone(at)]
  BY <1>6 DEF Abandon, Gone
<1> QED
  BY <1>1, <1>2, <1>3, <1>4, <1>5, <1>6

(* The worker goes on, stays where it is, or has the result of a call.      *)
Passes(from, to) ==
  \/ from \in {"work", "ask", "reply", "tool", "search"} \cup InComputer /\ to = "fail"
  \/ <<from, to>> \in {<<"ask", "reply">>, <<"wrapAsk", "wrapReply">>, <<"fileAsk", "fileReply">>,
                       <<"create", "creating">>, <<"creating", "start">>, <<"start", "program">>,
                       <<"program", "ran">>, <<"start", "discard">>, <<"program", "discard">>,
                       <<"ran", "discard">>, <<"ran", "commit">>, <<"creating", "discard">>, <<"commit", "discard">>,
                       <<"fail", "saveFailed">>, <<"finish", "saveFinished">>}
  \/ from = to /\ from \in Cleaning
  \/ from \notin Following /\ to \notin Following

LEMMA PassPlaces ==
  ASSUME NEW from, NEW to, Passes(from, to) \/ (from = "tool" /\ to = "create")
  PROVE  /\ to \in Following => from \in Following \ {"done", "recovered"}
         /\ to \in Thinking => from \in Thinking
         /\ to \in Wrapping => from \in Wrapping
         /\ to \notin {"work", "tool", "search", "upload", "done", "recovered"}
         /\ to \in Computing => from \in Computing \/ (from = "tool" /\ to = "create")
         /\ to \in InTool => to \in Computing
         /\ to \in InLoop => from \in InLoop
         /\ to \in Failing => from \in InLoop \cup Failing
         /\ to \in Finishing => from \in Finishing
<1>1. CASE from \in {"work", "ask", "reply", "tool", "search"} \cup InComputer /\ to = "fail"
  BY <1>1 DEF Following, InLoop, InTool, Computing, InComputer, Thinking, Wrapping, Failing, Finishing
<1>2. CASE from = to /\ from \in Cleaning
  BY <1>2 DEF Following, InLoop, InTool, Computing, InComputer, Thinking, Wrapping, Failing, Finishing, Cleaning
<1>3. CASE from \notin Following /\ to \notin Following
  BY <1>3 DEF Following, InLoop, InTool
<1>4. CASE from = "tool" /\ to = "create"
  BY <1>4 DEF Following, InLoop, InTool, Computing, InComputer, Thinking, Wrapping, Failing, Finishing
<1>5. CASE <<from, to>> \in {<<"ask", "reply">>, <<"wrapAsk", "wrapReply">>, <<"fileAsk", "fileReply">>}
  BY <1>5 DEF Following, InLoop, InTool, Computing, InComputer, Thinking, Wrapping, Failing, Finishing
<1>6. CASE <<from, to>> \in {<<"create", "creating">>, <<"creating", "start">>, <<"start", "program">>,
                       <<"program", "ran">>, <<"start", "discard">>, <<"program", "discard">>,
                       <<"ran", "discard">>, <<"ran", "commit">>, <<"creating", "discard">>, <<"commit", "discard">>}
  BY <1>6 DEF Following, InLoop, InTool, Computing, InComputer, Thinking, Wrapping, Failing, Finishing
<1>7. CASE <<from, to>> \in {<<"fail", "saveFailed">>, <<"finish", "saveFinished">>}
  BY <1>7 DEF Following, InLoop, InTool, Computing, InComputer, Thinking, Wrapping, Failing, Finishing
<1> QED
  BY <1>1, <1>2, <1>3, <1>4, <1>5, <1>6, <1>7 DEF Passes

LEMMA PassKeeps ==
  ASSUME LoopInv, NEW w \in Workers, NEW at \in Locations, NEW got \in Results, NEW removed \in Removals,
         proc' = [proc EXCEPT ![w] = Put(proc[w], at, got, removed)],
         saved' = saved, lease' = lease, leases' = leases, stopping' = stopping, outcome' = outcome,
         Passes(proc[w].at, at) \/ (proc[w].at = "tool" /\ at = "create"),
         at = "create" => Tool(proc[w].state) = "computer",
         at \in {"ran", "commit"} => got \in Verdicts,
         at = "discard" => got = "failed",
         at \in {"failed", "tellFailed", "tellComplete"} => proc[w].at = at,
         (at = "tellCancelled" /\ lease = w) => saved.phase \in Over
  PROVE  LoopInv'
<1> DEFINE p == proc[w] q == Put(p, at, got, removed)
<1>1. Fits(p) /\ Fresh(w) /\ p \in ProcRows /\ Sound(p.state)
  BY DEF LoopInv, Fits
<1>2. q \in ProcRows /\ q.at = at /\ q.got = got /\ q.state = p.state
  BY <1>1, PutRow
<1>3. /\ at \in Following => p.at \in Following \ {"done", "recovered"}
      /\ at \in Thinking => p.at \in Thinking
      /\ at \in Wrapping => p.at \in Wrapping
      /\ at \notin {"work", "tool", "search", "upload", "done", "recovered"}
      /\ at \in Computing => p.at \in Computing \/ (p.at = "tool" /\ at = "create")
      /\ at \in InTool => at \in Computing
      /\ at \in InLoop => p.at \in InLoop
      /\ at \in Failing => p.at \in InLoop \cup Failing
      /\ at \in Finishing => p.at \in Finishing
  <2> HIDE DEF p, q
  <2>1. Passes(p.at, at) \/ (p.at = "tool" /\ at = "create")
    BY DEF p
  <2> QED
    BY <2>1, PassPlaces
<1>a. /\ at = "create" => Tool(p.state) = "computer"
      /\ at \in {"failed", "tellFailed", "tellComplete"} => p.at = at
  OBVIOUS
<1> HIDE DEF p, q
<1>4. at \in Computing => p.at \in InTool /\ p.state.intent = "tool" /\ Tool(p.state) = "computer"
  <2>1. CASE p.at \in Computing
    BY <1>1, <2>1 DEF Fits, InTool
  <2>2. CASE p.at = "tool" /\ at = "create"
    <3>1. p.state.intent \in {"tool", "publication"} /\ Tool(p.state) = "computer"
      BY <1>1, <1>a, <2>2 DEF Fits
    <3> QED
      BY <1>1, <2>2, <3>1 DEF Sound, InTool
  <2> QED
    BY <1>3, <2>1, <2>2
<1>5. Fits(q)
  <2>1. at \in Failing => p.state.phase \notin {"none", "finished"}
    <3>1. p.at \in InLoop => p.state.phase = "running"
      BY <1>1 DEF Fits
    <3>2. p.at \in Failing => p.state.phase \notin {"none", "finished"}
      BY <1>1 DEF Fits
    <3> QED
      BY <1>3, <3>1, <3>2
  <2>2. /\ at \in Thinking => p.state.intent = "model"
        /\ at \in Wrapping => p.state.intent = "wrapUp"
        /\ at \in InLoop => p.state.phase = "running"
        /\ at \in Finishing => p.state.phase \in {"finishing", "finished"}
    BY <1>1, <1>3 DEF Fits
  <2> QED
    BY <1>1, <1>2, <1>3, <1>4, <2>1, <2>2 DEF Fits
<1>6. Onward(p, q)
  <2>1. Using(q) => Using(p)
    BY <1>2, <1>3, <1>4 DEF Using
  <2>2. q.at \in Following => p.at \in Following \ {"done"}
    BY <1>2, <1>3
  <2> QED
    BY <1>2, <1>3, <2>1, <2>2 DEF Onward
<1>7. lease = w => MayTell(q.at, saved)
  BY <1>1, <1>2, <1>a DEF MayTell, Fresh, p
<1> QED
  BY <1>2, <1>3, <1>5, <1>6, <1>7, Moves DEF p, q

------------------------------------------------------------------------------
(* What the state must be for the places a save leads to.                   *)
Suits(s, at) ==
  /\ at \in {"work", "ask", "wrapAsk", "fileAsk", "tool", "search", "upload", "recovered", "fail", "finish",
             "failed", "tellComplete", "tellCancelled"}
  /\ at \in {"work", "ask", "wrapAsk", "fileAsk", "tool", "search", "upload", "recovered"} => s.phase = "running"
  /\ at = "work" => s.intent \in {"none", "wrapUp", "publication"}
  /\ at = "ask" => s.intent = "model"
  /\ at \in {"wrapAsk", "fileAsk"} => s.intent = "wrapUp"
  /\ at = "tool" => s.intent \in {"tool", "publication"}
  /\ at = "search" => s.intent = "tool" /\ Tool(s) = "search"
  /\ at = "upload" => s.intent = "publication"
  /\ at = "recovered" => s.intent = "tool" /\ Tool(s) = "computer"
  /\ at = "fail" => s.phase \notin {"none", "finished"}
  /\ at = "finish" => s.phase \in {"finishing", "finished"}
  /\ at = "failed" => s.phase \in {"failed", "cancelled"}
  /\ at = "tellComplete" => s.phase = "finished"
  /\ at = "tellCancelled" => s.phase \in Over

LEMMA KeptRow ==
  ASSUME NEW w, proc[w] \in ProcRows, NEW s \in StateRows, NEW at \in Locations
  PROVE  LET q == Kept(w, s, at) IN
         q \in ProcRows /\ q.state = s /\ q.at = at /\ q.got = "none" /\ q.removed = proc[w].removed
BY DEF Kept, ProcRows, Results

LEMMA SuitsSaves ==
  ASSUME LoopInv, NEW w \in Workers, NEW s, Sound(s), NEW at, Suits(s, at),
         Spares(saved, s) \/ Aside(w),
         at \in {"ask", "wrapAsk", "fileAsk", "tool", "search", "recovered"} => Aside(w)
  PROVE  Saves(w, s, at)
<1> DEFINE q == Kept(w, s, at)
<1>1. /\ at \in Locations /\ at # "done"
      /\ at \in Thinking => at = "ask"
      /\ at \in Wrapping => at \in {"wrapAsk", "fileAsk"}
      /\ at \in InTool => at \in {"tool", "search"}
      /\ at \notin Computing /\ at \notin {"ran", "commit", "discard"}
      /\ at \in InLoop => at \in {"work", "ask", "wrapAsk", "fileAsk", "tool", "search", "upload", "recovered"}
      /\ at \in Failing => at = "fail"
      /\ at \in Finishing => at = "finish"
  BY DEF Suits, Locations, Thinking, Wrapping, InTool, Computing, InLoop, InComputer, Failing, Finishing,
         Asking, Answering, Cleaning, Ending
<1>2. proc[w] \in ProcRows /\ s \in StateRows
  BY DEF LoopInv, Sound
<1>3. q \in ProcRows /\ q.state = s /\ q.at = at
  BY <1>1, <1>2, KeptRow
<1> HIDE DEF q
<1>4. Fits(q)
  BY <1>1, <1>3 DEF Fits, Suits
<1>5. MayTell(at, s)
  BY DEF MayTell, Suits
<1>6. Busy(q) => Aside(w)
  BY <1>1, <1>3 DEF Busy, Using
<1> QED
  BY <1>1, <1>4, <1>5, <1>6 DEF Saves, q

(* A worker that holds the lease and is to save what it goes on from.       *)
LEMMA HolderFits ==
  ASSUME LoopInv, NEW w \in Workers, Holds(w), proc[w].at \in InLoop, proc[w].at # "done"
  PROVE  /\ State(w) = saved /\ Sound(saved) /\ saved.phase = "running" /\ ~saved.answer
         /\ proc[w].at \in Thinking \cup Wrapping => Aside(w)
         /\ saved.intent \in {"none", "publication"} => Aside(w)
         /\ proc[w].at = "work" => saved.intent \in {"none", "wrapUp", "publication"}
<1>1. State(w) = saved
  BY HolderState DEF Holds, State, Following
<1>2. Sound(saved) /\ Fits(proc[w])
  BY DEF LoopInv
<1>3. saved.phase = "running" /\ ~saved.answer
  BY <1>1, <1>2 DEF Fits, Sound, State
<1> QED
  BY <1>1, <1>2, <1>3, BusyAside, FreeAside DEF Busy, Fits, State

LEMMA ConcludeKeeps ==
  ASSUME LoopInv, NEW w \in Workers, Conclude(w), proc[w].at \in {"work"} \cup Thinking \cup Wrapping
  PROVE  LoopInv'
<1>1. ASSUME Holds(w) PROVE Saves(w, Answered(State(w)), "finish")
  <2>1. proc[w].at \in InLoop /\ proc[w].at # "done"
    BY DEF InLoop, Thinking, Wrapping
  <2>2. /\ State(w) = saved /\ Sound(saved)
        /\ proc[w].at \in Thinking \cup Wrapping => Aside(w)
        /\ saved.intent \in {"none", "publication"} => Aside(w)
        /\ proc[w].at = "work" => saved.intent \in {"none", "wrapUp", "publication"}
    BY <1>1, <2>1, HolderFits
  <2>3. Sound(Answered(saved)) /\ Answered(saved).answer /\ Answered(saved).phase = "finishing"
    BY <2>2, AnsweredSound
  <2>4. Spares(saved, Answered(saved)) \/ Aside(w)
    BY <2>2, <2>3 DEF Spares
  <2>5. Suits(Answered(saved), "finish")
    BY <2>3 DEF Suits
  <2> QED
    BY <2>2, <2>3, <2>4, <2>5, SuitsSaves
<1> QED
  BY <1>1, SaveKeeps DEF Conclude

------------------------------------------------------------------------------
(* The loop invariant across each action that saves.                        *)

LEMMA LoadLoop ==
  ASSUME LoopInv, HostInv, NEW w \in Workers, Load(w)
  PROVE  LoopInv'
<1> DEFINE s == IF saved.phase = "none" THEN Begun ELSE saved
           next == IF s.phase \in {"failed", "cancelled"} THEN "fail"
                   ELSE IF s.answer THEN "finish"
                   ELSE IF Recovered(s) THEN "recovered"
                   ELSE IF Uncertain(s) THEN "fail"
                   ELSE "work"
<1>1. Save(w, s, FALSE, next)
  BY DEF Load
<1>2. Sound(saved) /\ Sound(s) /\ s.phase # "none"
  BY BegunSound DEF LoopInv
<1>3. Spares(saved, s)
  <2>1. CASE saved.phase = "none"
    BY <1>2, <2>1, BegunSound DEF Spares, Sound, Grown
  <2>2. CASE saved.phase # "none"
    BY <2>2 DEF Spares, SameCalls
  <2> QED
    BY <2>1, <2>2
<1>4. Recovered(s) => s = saved
  BY BegunSound DEF Recovered
<1> HIDE DEF s
<1>5. Suits(s, next)
  <2>1. s.phase \in {"running", "finishing"} \cup Over /\ s.intent \in Kinds
    BY <1>2 DEF Sound, StateRows
  <2>2. ~s.answer /\ s.phase \notin {"failed", "cancelled"} => s.phase = "running"
    BY <1>2, <2>1 DEF Sound, Over
  <2>3. s.phase \in {"failed", "cancelled"} => s.phase \notin {"none", "finished"}
    OBVIOUS
  <2>4. s.answer /\ s.phase \notin {"failed", "cancelled"} => s.phase \in {"finishing", "finished"}
    BY <1>2, <2>1 DEF Sound, Over
  <2> QED
    BY <2>1, <2>2, <2>3, <2>4 DEF Suits, Uncertain, Recovered, Kinds
<1>6. next = "recovered" => Aside(w)
  <2> SUFFICES ASSUME Recovered(s), NEW v \in Workers, Busy(proc[v]) PROVE FALSE
    BY DEF Aside
  <2>1. s = saved /\ saved.intent = "tool" /\ row[Current(saved)].phase = "done" /\ ~saved.answer
    BY <1>2, <1>4 DEF Recovered, Sound
  <2>2. Held(saved, proc[v]) /\ Stands(row, container, sent, proc[v])
    BY DEF LoopInv, HostInv, StandInv
  <2> QED
    BY <2>1, <2>2 DEF Held, Stands, Busy
<1>7. next \notin {"ask", "wrapAsk", "fileAsk", "tool", "search"}
  OBVIOUS
<1> HIDE DEF next
<1>8. Saves(w, s, next)
  BY <1>2, <1>3, <1>5, <1>6, <1>7, SuitsSaves
<1> QED
  BY <1>1, <1>8, SaveKeeps

LEMMA AskModelLoop ==
  ASSUME LoopInv, NEW w \in Workers, AskModel(w)
  PROVE  LoopInv'
<1>1. PICK s \in Entered(State(w)) : ~Exhausted(s) /\ Save(w, Intend(s), TRUE, "ask")
  BY DEF AskModel
<1>2. ASSUME Holds(w) PROVE Saves(w, Intend(s), "ask")
  <2>1. proc[w].at = "work" /\ proc[w].at \in InLoop
    BY DEF AskModel, Idle, Working, InLoop
  <2>2. /\ State(w) = saved /\ Sound(saved) /\ saved.phase = "running"
        /\ saved.intent \in {"none", "publication"} => Aside(w)
        /\ saved.intent \in {"none", "wrapUp", "publication"}
    BY <1>2, <2>1, HolderFits
  <2>3. ~Pending(saved) /\ saved.intent # "wrapUp" /\ Affordable(s)
    BY <1>1, <2>2 DEF AskModel, Idle, Interrupted, Exhausted
  <2>4. Sound(Intend(s)) /\ Intend(s).intent = "model" /\ Intend(s).phase = "running"
    BY <2>2, <2>3, EnteredIntends
  <2>5. Suits(Intend(s), "ask")
    BY <2>4 DEF Suits
  <2> QED
    BY <2>2, <2>3, <2>4, <2>5, SuitsSaves
<1> QED
  BY <1>1, <1>2, SaveKeeps

LEMMA AskForFileLoop ==
  ASSUME LoopInv, NEW w \in Workers, AskForFile(w)
  PROVE  LoopInv'
<1> DEFINE t == [IntendWrapUp(State(w)) EXCEPT !.filed = TRUE]
<1>1. ASSUME Holds(w) PROVE Saves(w, t, "fileAsk")
  <2>1. proc[w].at = "work" /\ proc[w].at \in InLoop
    BY DEF AskForFile, Idle, Working, InLoop
  <2>2. /\ State(w) = saved /\ Sound(saved) /\ saved.phase = "running"
        /\ saved.intent \in {"none", "publication"} => Aside(w)
        /\ saved.intent \in {"none", "wrapUp", "publication"}
    BY <1>1, <2>1, HolderFits
  <2>3. ~Pending(saved) /\ saved.intent # "wrapUp" /\ Affordable(saved)
    BY <2>2 DEF AskForFile, Idle, Interrupted
  <2>4. Sound(t) /\ t.intent = "wrapUp" /\ t.phase = "running"
    BY <2>2, <2>3, FileAskSound
  <2> HIDE DEF t
  <2>5. Suits(t, "fileAsk")
    BY <2>4 DEF Suits
  <2> QED
    BY <2>2, <2>3, <2>4, <2>5, SuitsSaves
<1> HIDE DEF t
<1>2. Save(w, t, TRUE, "fileAsk")
  BY DEF AskForFile, t
<1> QED
  BY <1>1, <1>2, SaveKeeps

LEMMA AskToWrapUpLoop ==
  ASSUME LoopInv, NEW w \in Workers, AskToWrapUp(w)
  PROVE  LoopInv'
<1>1. PICK s \in Entered(State(w)) : Affordable(s) /\ Save(w, IntendWrapUp(s), TRUE, "wrapAsk")
  BY DEF AskToWrapUp
<1>2. ASSUME Holds(w) PROVE Saves(w, IntendWrapUp(s), "wrapAsk")
  <2>1. proc[w].at = "work" /\ proc[w].at \in InLoop
    BY DEF AskToWrapUp, Idle, Working, InLoop
  <2>2. /\ State(w) = saved /\ Sound(saved) /\ saved.phase = "running"
        /\ saved.intent \in {"none", "publication"} => Aside(w)
        /\ saved.intent \in {"none", "wrapUp", "publication"}
    BY <1>2, <2>1, HolderFits
  <2>3. ~Pending(saved) /\ saved.intent # "wrapUp"
    BY <2>2 DEF AskToWrapUp, Idle, Interrupted
  <2>4. /\ Sound(IntendWrapUp(s)) /\ IntendWrapUp(s).intent = "wrapUp"
        /\ IntendWrapUp(s).phase = "running"
    BY <1>1, <2>2, <2>3, EnteredIntends
  <2>5. Suits(IntendWrapUp(s), "wrapAsk")
    BY <2>4 DEF Suits
  <2> QED
    BY <2>2, <2>3, <2>4, <2>5, SuitsSaves
<1> QED
  BY <1>1, <1>2, SaveKeeps

LEMMA AnswerUnaskedLoop ==
  ASSUME LoopInv, NEW w \in Workers, AnswerUnasked(w)
  PROVE  LoopInv'
<1>1. PICK s \in Entered(State(w)) : Save(w, Answered(s), FALSE, "finish")
  BY DEF AnswerUnasked
<1>2. ASSUME Holds(w) PROVE Saves(w, Answered(s), "finish")
  <2>1. proc[w].at = "work" /\ proc[w].at \in InLoop
    BY DEF AnswerUnasked, Working, InLoop
  <2>2. /\ State(w) = saved /\ Sound(saved) /\ saved.phase = "running"
        /\ saved.intent \in {"none", "publication"} => Aside(w)
        /\ saved.intent \in {"none", "wrapUp", "publication"}
    BY <1>2, <2>1, HolderFits
  <2>3. Sound(Answered(s)) /\ Answered(s).answer /\ Answered(s).phase = "finishing"
    BY <2>2, EnteredAnswers
  <2>4. Spares(saved, Answered(s)) \/ Aside(w)
    BY <2>2, <2>3 DEF Spares
  <2>5. Suits(Answered(s), "finish")
    BY <2>3 DEF Suits
  <2> QED
    BY <2>3, <2>4, <2>5, SuitsSaves
<1> QED
  BY <1>1, <1>2, SaveKeeps

(* What is saved before the loop.                                           *)
LEMMA EarlyKeeps ==
  ASSUME LoopInv, NEW w \in Workers, Working(w), NEW s, NEW next, Save(w, s, FALSE, next),
         State(w) = saved /\ Sound(saved) /\ saved.phase = "running" =>
           Sound(s) /\ Suits(s, next) /\ saved.intent = "none",
         next \in {"work", "failed", "tellComplete"}
  PROVE  LoopInv'
<1>1. ASSUME Holds(w) PROVE Saves(w, s, next)
  <2>1. proc[w].at = "work" /\ proc[w].at \in InLoop
    BY DEF Working, InLoop
  <2>2. /\ State(w) = saved /\ Sound(saved) /\ saved.phase = "running"
        /\ saved.intent \in {"none", "publication"} => Aside(w)
    BY <1>1, <2>1, HolderFits
  <2> QED
    BY <2>2, SuitsSaves
<1> QED
  BY <1>1, SaveKeeps

LEMMA AnswerEarlyLoop ==
  ASSUME LoopInv, NEW w \in Workers, AnswerEarly(w)
  PROVE  LoopInv'
<1>1. PICK u \in Researches(State(w), "started", 4) : Save(w, AnsweredEarly(u), FALSE, "tellComplete")
  BY DEF AnswerEarly, AnsweredEarly
<1>2. ASSUME State(w) = saved, Sound(saved), saved.phase = "running"
      PROVE  Sound(AnsweredEarly(u)) /\ Suits(AnsweredEarly(u), "tellComplete") /\ saved.intent = "none"
  <2> DEFINE t == AnsweredEarly(u)
  <2>1. Sound(t) /\ saved.intent = "none" /\ t.phase = "finished"
    BY <1>2, AnsweredEarlySound
  <2> HIDE DEF t
  <2>2. Suits(t, "tellComplete")
    BY <2>1 DEF Suits
  <2> QED
    BY <2>1, <2>2 DEF t
<1> QED
  BY <1>1, <1>2, EarlyKeeps DEF AnswerEarly

LEMMA FailEarlyLoop ==
  ASSUME LoopInv, NEW w \in Workers, FailEarly(w)
  PROVE  LoopInv'
<1>1. PICK u \in Researches(State(w), "started", 3) : Save(w, [u EXCEPT !.phase = "failed"], FALSE, "failed")
  BY DEF FailEarly
<1> DEFINE t == [u EXCEPT !.phase = "failed"]
<1>2. ASSUME State(w) = saved, Sound(saved), saved.phase = "running"
      PROVE  Sound(t) /\ Suits(t, "failed") /\ saved.intent = "none"
  <2>1. Sound(t) /\ saved.intent = "none" /\ t.phase = "failed"
    BY <1>2, FailedEarlySound
  <2> HIDE DEF t
  <2>2. Suits(t, "failed")
    BY <2>1 DEF Suits
  <2> QED
    BY <2>1, <2>2
<1>3. Save(w, t, FALSE, "failed") /\ Working(w)
  BY <1>1 DEF FailEarly
<1> HIDE DEF t
<1> QED
  BY <1>2, <1>3, EarlyKeeps

LEMMA ResearchFileLoop ==
  ASSUME LoopInv, NEW w \in Workers, ResearchFile(w)
  PROVE  LoopInv'
<1>1. PICK u \in Researches(State(w), "deliverable", 2) : Save(w, Shortened(u), FALSE, "work")
  BY DEF ResearchFile
<1>2. ASSUME State(w) = saved, Sound(saved), saved.phase = "running"
      PROVE  Sound(Shortened(u)) /\ Suits(Shortened(u), "work") /\ saved.intent = "none"
  <2> DEFINE t == Shortened(u)
  <2>1. Sound(t) /\ saved.intent = "none" /\ t.phase = "running" /\ t.intent = "none"
    BY <1>2, ShortenedSound
  <2> HIDE DEF t
  <2>2. Suits(t, "work")
    BY <2>1 DEF Suits
  <2> QED
    BY <2>1, <2>2 DEF t
<1> QED
  BY <1>1, <1>2, EarlyKeeps DEF ResearchFile

LEMMA WrapUpReplyLoop ==
  ASSUME LoopInv, NEW w \in Workers, WrapUpReply(w)
  PROVE  LoopInv'
BY ConcludeKeeps DEF WrapUpReply, Wrapping

(* What a reply comes to, by the state it is heard in.                      *)
Heeded(w) ==
  LET s == Heard(State(w)) IN
  \/ \E tools \in Replies :
       Len(State(w).calls) + Len(tools) <= MaxCalls /\ Save(w, Named(State(w), tools), FALSE, "work")
  \/ \E t : Marked(s, t) /\ Save(w, t, FALSE, "work")
  \/ \E filed \in {s.filed, TRUE} :
       Affordable(s) /\ Save(w, [IntendFile(s) EXCEPT !.filed = filed], TRUE, "fileAsk")
LEMMA ReplyHeeded ==
  ASSUME NEW w, Reply(w), State(w) \in StateRows
  PROVE  Conclude(w) \/ Heeded(w)
<1>1. Heard(State(w)).calls = State(w).calls
  BY DEF Heard, StateRows
<1> QED
  BY <1>1 DEF Reply, Heeded, Marked

LEMMA ReplyLoop ==
  ASSUME LoopInv, NEW w \in Workers, Reply(w)
  PROVE  LoopInv'
<1> DEFINE s == Heard(State(w))
<1>1. proc[w].at = "reply" /\ proc[w].at \in Thinking /\ proc[w].at \in InLoop
  BY DEF Reply, Thinking, InLoop
<1>2. ASSUME Holds(w)
      PROVE  /\ State(w) = saved /\ Sound(saved) /\ saved.phase = "running" /\ Aside(w) /\ ~Pending(saved)
             /\ saved.turns < saved.steps
  <2>1. State(w) = saved /\ Sound(saved) /\ saved.phase = "running" /\ Aside(w)
    BY <1>1, <1>2, HolderFits
  <2>2. Fits(proc[w])
    BY DEF LoopInv
  <2> QED
    BY <1>1, <2>1, <2>2 DEF Fits, Sound, State
<1>3. ASSUME Holds(w) PROVE Sound(s) /\ s.intent = "none" /\ s.phase = "running" /\ ~Pending(s)
  <2>1. /\ Sound(s) /\ s.intent = "none" /\ s.phase = "running"
        /\ s.calls = saved.calls /\ s.receipts = saved.receipts
    BY <1>2, <1>3, HeardSound
  <2> QED
    BY <1>2, <1>3, <2>1 DEF Pending, Current
<1>4. State(w) \in StateRows
  BY DEF LoopInv, Fits, ProcRows, State
<1>5. CASE Conclude(w)
  BY <1>1, <1>5, ConcludeKeeps
<1>6. ASSUME NEW tools \in Replies, Len(State(w).calls) + Len(tools) <= MaxCalls,
             Save(w, Named(State(w), tools), FALSE, "work")
      PROVE  LoopInv'
  <2>1. ASSUME Holds(w) PROVE Saves(w, Named(State(w), tools), "work")
    <3>1. tools \in Seq(Tools)
      BY RunAssumption
    <3>2. LET t == Named(saved, tools) IN Sound(t) /\ t.intent = "none" /\ t.phase = "running"
      BY <1>2, <1>6, <2>1, <3>1, NamedSound
    <3>3. Suits(Named(saved, tools), "work")
      BY <3>2 DEF Suits
    <3> QED
      BY <1>2, <2>1, <3>2, <3>3, SuitsSaves
  <2> QED
    BY <1>6, <2>1, SaveKeeps
<1> HIDE DEF s
<1>7. ASSUME NEW t, Marked(s, t), Save(w, t, FALSE, "work")
      PROVE  LoopInv'
  <2>1. ASSUME Holds(w) PROVE Saves(w, t, "work")
    <3>1. Sound(t) /\ t.intent = "none" /\ t.phase = "running"
      BY <1>3, <1>7, <2>1, MarkedSound
    <3>2. Suits(t, "work")
      BY <3>1 DEF Suits
    <3> QED
      BY <1>2, <2>1, <3>1, <3>2, SuitsSaves
  <2> QED
    BY <1>7, <2>1, SaveKeeps
<1>8. ASSUME NEW filed \in {s.filed, TRUE}, Affordable(s),
             Save(w, [IntendFile(s) EXCEPT !.filed = filed], TRUE, "fileAsk")
      PROVE  LoopInv'
  <2> DEFINE t == [IntendFile(s) EXCEPT !.filed = filed]
  <2>1. ASSUME Holds(w) PROVE Saves(w, t, "fileAsk")
    <3>1. Sound(t) /\ t.intent = "wrapUp" /\ t.phase = "running"
      BY <1>3, <1>8, <2>1, FiledSound
    <3> HIDE DEF t
    <3>2. Suits(t, "fileAsk")
      BY <3>1 DEF Suits
    <3> QED
      BY <1>2, <2>1, <3>1, <3>2, SuitsSaves
  <2>2. Save(w, t, TRUE, "fileAsk")
    BY <1>8
  <2> HIDE DEF t
  <2> QED
    BY <2>1, <2>2, SaveKeeps
<1> QED
  BY <1>4, <1>5, <1>6, <1>7, <1>8, ReplyHeeded DEF Heeded, s

LEMMA FileReplyLoop ==
  ASSUME LoopInv, NEW w \in Workers, FileReply(w)
  PROVE  LoopInv'
<1> DEFINE s == [State(w) EXCEPT !.intent = "none"]
<1>1. proc[w].at = "fileReply" /\ proc[w].at \in Wrapping /\ proc[w].at \in InLoop
  BY DEF FileReply, Wrapping, InLoop
<1>2. ASSUME Holds(w)
      PROVE  Sound(s) /\ s.phase = "running" /\ s.intent = "none" /\ Aside(w) /\ ~Pending(s) /\ s.turns < s.steps
  <2>1. State(w) = saved /\ Sound(saved) /\ saved.phase = "running" /\ Aside(w)
    BY <1>1, <1>2, HolderFits
  <2>2. Fits(proc[w])
    BY DEF LoopInv
  <2>3. ~Pending(saved) /\ saved.turns < saved.steps
    BY <1>1, <2>1, <2>2 DEF Fits, Sound, State
  <2>4. Sound(s) /\ SameCalls(saved, s) /\ s.steps = saved.steps /\ s.phase = "running" /\ s.intent = "none"
    BY <2>1, SilentSound
  <2> HIDE DEF s
  <2> QED
    BY <2>1, <2>3, <2>4, SameCallsSame DEF SameCalls
<1>3. \/ \E t : Marked(s, t) /\ Save(w, t, FALSE, "work")
      \/ Len(s.calls) < MaxCalls /\ Save(w, Named(s, <<"publish">>), FALSE, "work")
      \/ Affordable(s) /\ Save(w, IntendFile(s), TRUE, "fileAsk")
  BY DEF FileReply, Marked
<1> HIDE DEF s
<1>4. ASSUME NEW t, Marked(s, t), Save(w, t, FALSE, "work")
      PROVE  LoopInv'
  <2>1. ASSUME Holds(w) PROVE Saves(w, t, "work")
    <3>1. Sound(t) /\ t.intent = "none" /\ t.phase = "running"
      BY <1>2, <1>4, <2>1, MarkedSound
    <3>2. Suits(t, "work")
      BY <3>1 DEF Suits
    <3> QED
      BY <1>2, <2>1, <3>1, <3>2, SuitsSaves
  <2> QED
    BY <1>4, <2>1, SaveKeeps
<1>5. CASE Len(s.calls) < MaxCalls /\ Save(w, Named(s, <<"publish">>), FALSE, "work")
  <2> DEFINE t == Named(s, <<"publish">>)
  <2>1. ASSUME Holds(w) PROVE Saves(w, t, "work")
    <3>1. <<"publish">> \in Seq(Tools) /\ Len(<<"publish">>) = 1
      BY DEF Tools
    <3>2. Len(s.calls) + 1 <= MaxCalls
      BY <1>2, <1>5, <2>1, Sorts, CallsAssumption
    <3>3. Sound(t) /\ t.intent = "none" /\ t.phase = "running"
      BY <1>2, <2>1, <3>1, <3>2, NamedSound
    <3> HIDE DEF t
    <3>4. Suits(t, "work")
      BY <3>3 DEF Suits
    <3> QED
      BY <1>2, <2>1, <3>3, <3>4, SuitsSaves
  <2>2. Save(w, t, FALSE, "work")
    BY <1>5
  <2> HIDE DEF t
  <2> QED
    BY <2>1, <2>2, SaveKeeps
<1>6. CASE Affordable(s) /\ Save(w, IntendFile(s), TRUE, "fileAsk")
  <2>1. ASSUME Holds(w) PROVE Saves(w, IntendFile(s), "fileAsk")
    <3>1. /\ Sound(IntendFile(s)) /\ IntendFile(s).intent = "wrapUp"
          /\ IntendFile(s).phase = "running"
      BY <1>2, <1>6, <2>1, IntendFileSound
    <3>2. Suits(IntendFile(s), "fileAsk")
      BY <3>1 DEF Suits
    <3> QED
      BY <1>2, <2>1, <3>1, <3>2, SuitsSaves
  <2> QED
    BY <1>6, <2>1, SaveKeeps
<1> QED
  BY <1>3, <1>4, <1>5, <1>6

(* The run is to fail.                                                      *)
LEMMA FailKeeps ==
  ASSUME LoopInv, NEW w \in Workers, Go(w, "fail") \/ Turn(w, "fail"), Local,
         proc[w].at \in {"work", "ask", "reply", "tool", "search"} \cup InComputer
  PROVE  LoopInv'
<1>1. PICK removed \in Removals : proc' = [proc EXCEPT ![w] = Put(proc[w], "fail", proc[w].got, removed)]
  BY PutSteps
<1>2. "fail" \in Locations /\ Passes(proc[w].at, "fail") /\ proc[w].got \in Results
  BY PutSteps DEF Locations, Cleaning, Passes
<1> QED
  BY <1>1, <1>2, PassKeeps DEF Local

LEMMA TooLateLoop ==
  ASSUME LoopInv, NEW w \in Workers, TooLate(w)
  PROVE  LoopInv'
<1>1. CASE proc[w].at = "ask" /\ Go(w, "fail") /\ Local
  BY <1>1, FailKeeps
<1>2. CASE proc[w].at = "wrapAsk" /\ Conclude(w)
  BY <1>2, ConcludeKeeps DEF Wrapping
<1>3. CASE proc[w].at = "fileAsk" /\ Save(w, [State(w) EXCEPT !.intent = "none"], FALSE, "work")
  <2> DEFINE s == [State(w) EXCEPT !.intent = "none"]
  <2>1. ASSUME Holds(w) PROVE Saves(w, s, "work")
    <3>1. proc[w].at \in Wrapping /\ proc[w].at \in InLoop /\ proc[w].at # "done"
      BY <1>3 DEF Wrapping, InLoop
    <3>2. State(w) = saved /\ Sound(saved) /\ saved.phase = "running" /\ Aside(w)
      BY <3>1, <2>1, HolderFits
    <3>3. Sound(s) /\ s.phase = "running" /\ s.intent = "none"
      BY <3>2, SilentSound
    <3> HIDE DEF s
    <3>4. Suits(s, "work")
      BY <3>3 DEF Suits
    <3> QED
      BY <3>2, <3>3, <3>4, SuitsSaves
  <2>2. Save(w, s, FALSE, "work")
    BY <1>3
  <2> HIDE DEF s
  <2> QED
    BY <2>1, <2>2, SaveKeeps
<1> QED
  BY <1>1, <1>2, <1>3 DEF TooLate

LEMMA StartToolLoop ==
  ASSUME LoopInv, NEW w \in Workers, StartTool(w)
  PROVE  LoopInv'
<1>1. ASSUME Holds(w) PROVE Saves(w, IntendTool(State(w)), "tool")
  <2>1. proc[w].at = "work" /\ proc[w].at \in InLoop
    BY DEF StartTool, Working, InLoop
  <2>2. /\ State(w) = saved /\ Sound(saved) /\ saved.phase = "running"
        /\ saved.intent \in {"none", "publication"} => Aside(w)
        /\ saved.intent \in {"none", "wrapUp", "publication"}
    BY <1>1, <2>1, HolderFits
  <2>3. Pending(saved) /\ saved.intent # "wrapUp"
    BY <2>2 DEF StartTool, Sound
  <2>4. LET t == IntendTool(saved) IN Sound(t) /\ t.intent \in {"tool", "publication"} /\ t.phase = "running"
    BY <2>2, <2>3, IntendToolSound
  <2>5. Suits(IntendTool(saved), "tool")
    BY <2>4 DEF Suits
  <2> QED
    BY <2>2, <2>3, <2>4, <2>5, SuitsSaves
<1> QED
  BY <1>1, SaveKeeps DEF StartTool

LEMMA FinishToolLoop ==
  ASSUME LoopInv, NEW w \in Workers, FinishTool(w)
  PROVE  LoopInv'
<1> DEFINE p == proc[w] t == Receipt(p.state, p.got)
<1>1. ASSUME Holds(w) PROVE Saves(w, t, "work")
  <2>1. p.at = "done" /\ p.at \in InLoop
    BY DEF FinishTool, InLoop
  <2>2. Fits(p) /\ Fresh(w)
    BY DEF LoopInv
  <2>3. Sound(p.state) /\ Pending(p.state) /\ p.got \in Verdicts /\ p.state.phase = "running" /\ Aside(w)
    BY <1>1, <2>1, <2>2 DEF Fits, Fresh, Holds
  <2> HIDE DEF p
  <2>4. Sound(t) /\ t.phase = "running" /\ t.intent = "none"
    BY <2>3, ReceiptSound
  <2> HIDE DEF t
  <2>5. Suits(t, "work")
    BY <2>4 DEF Suits
  <2> QED
    BY <2>3, <2>4, <2>5, SuitsSaves
<1>2. Save(w, t, FALSE, "work")
  BY DEF FinishTool, State
<1> HIDE DEF t
<1> QED
  BY <1>1, <1>2, SaveKeeps

(* The holder of the lease at a tool.                                       *)
LEMMA ToolFits ==
  ASSUME LoopInv, NEW w \in Workers, proc[w].at \in {"tool", "search", "upload"} \cup Computing
  PROVE  /\ Fits(proc[w]) /\ Sound(State(w)) /\ Pending(State(w)) /\ State(w).phase = "running"
         /\ State(w).intent \in {"tool", "publication"}
         /\ State(w).intent = "publication" <=> Tool(State(w)) = "publish"
         /\ Tool(State(w)) # "publish" => Busy(proc[w])
         /\ lease = w => State(w) = saved /\ Aside(w)
<1>1. Fits(proc[w])
  BY DEF LoopInv
<1>2. proc[w].at \in InLoop /\ proc[w].at # "done" /\ (proc[w].at # "upload" => proc[w].at \in InTool)
  BY DEF InLoop, InTool, Computing, InComputer
<1>3. State(w).intent \in {"tool", "publication"} /\ State(w).phase = "running" /\ Sound(State(w))
  BY <1>1, <1>2 DEF Fits, State
<1>4. Pending(State(w)) /\ (State(w).intent = "publication" <=> Tool(State(w)) = "publish")
  BY <1>3 DEF Sound
<1>5. Tool(State(w)) # "publish" => Busy(proc[w])
  BY <1>1, <1>2, <1>3, <1>4 DEF Busy, Using, Fits, State
<1>6. ASSUME lease = w PROVE State(w) = saved /\ Aside(w)
  <2>1. State(w) = saved
    BY <1>2, <1>6, HolderState DEF State, Following
  <2>2. ~State(w).answer
    BY <1>3 DEF Sound
  <2> QED
    BY <1>3, <1>4, <1>5, <2>1, <2>2, BusyAside, FreeAside
<1> QED
  BY <1>1, <1>3, <1>4, <1>5, <1>6

LEMMA RefuseForGoodSaves ==
  ASSUME NEW w, RefuseForGood(w)
  PROVE  \E t \in ForGood(State(w)) : Save(w, t, FALSE, "work")
BY DEF RefuseForGood, ForGood

LEMMA RefuseForGoodLoop ==
  ASSUME LoopInv, NEW w \in Workers, RefuseForGood(w)
  PROVE  LoopInv'
<1>1. PICK t \in ForGood(State(w)) : Save(w, t, FALSE, "work")
  BY RefuseForGoodSaves
<1>2. ASSUME Holds(w) PROVE Saves(w, t, "work")
  <2>1. Sound(State(w)) /\ State(w).phase = "running" /\ Pending(State(w)) /\ Aside(w)
    BY <1>2, ToolFits DEF RefuseForGood, Holds
  <2>2. Sound(t) /\ t.phase = "running" /\ t.intent = "none"
    BY <1>1, <2>1, ForGoodSound
  <2>3. Suits(t, "work")
    BY <2>2 DEF Suits
  <2> QED
    BY <2>1, <2>2, <2>3, SuitsSaves
<1> QED
  BY <1>1, <1>2, SaveKeeps

LEMMA ReserveSearchLoop ==
  ASSUME LoopInv, NEW w \in Workers, ReserveSearch(w)
  PROVE  LoopInv'
<1> DEFINE t == [Reserve(State(w)) EXCEPT !.searches = @ + 1]
<1>1. ASSUME Holds(w) PROVE Saves(w, t, "search")
  <2>1. /\ Sound(State(w)) /\ State(w).phase = "running" /\ State(w).intent = "tool" /\ Aside(w)
        /\ Affordable(State(w)) /\ State(w).searches < MaxSearches /\ Tool(State(w)) = "search"
    BY <1>1, ToolFits DEF ReserveSearch, Holds
  <2>2. Sound(t) /\ SameCalls(State(w), t) /\ t.phase = "running" /\ t.intent = "tool"
    BY <2>1, SearchSound
  <2> HIDE DEF t
  <2>3. Suits(t, "search")
    BY <2>1, <2>2, SameCallsSame DEF Suits
  <2> QED
    BY <2>1, <2>2, <2>3, SuitsSaves
<1>2. Save(w, t, TRUE, "search")
  BY DEF ReserveSearch
<1> HIDE DEF t
<1> QED
  BY <1>1, <1>2, SaveKeeps

LEMMA AttemptPublicationLoop ==
  ASSUME LoopInv, NEW w \in Workers, AttemptPublication(w)
  PROVE  LoopInv'
<1>1. ASSUME Holds(w) PROVE Saves(w, Attempt(State(w)), "upload")
  <2>1. /\ Sound(State(w)) /\ State(w).phase = "running" /\ State(w).intent = "publication" /\ Aside(w)
        /\ State(w).attempts < MaxAttempts
    BY <1>1, ToolFits DEF AttemptPublication, Holds
  <2>2. LET t == Attempt(State(w)) IN Sound(t) /\ t.phase = "running" /\ t.intent = "publication"
    BY <2>1, AttemptSound
  <2>3. Suits(Attempt(State(w)), "upload")
    BY <2>2 DEF Suits
  <2> QED
    BY <2>1, <2>2, <2>3, SuitsSaves
<1> QED
  BY <1>1, SaveKeeps DEF AttemptPublication

(* The loop goes on with the result of the tool at hand.                    *)
LEMMA DoneKeeps ==
  ASSUME LoopInv, NEW w \in Workers, NEW q, proc' = [proc EXCEPT ![w] = q],
         q \in ProcRows, q.at = "done", q.got \in Verdicts,
         q.state = proc[w].state \/ q.state = [proc[w].state EXCEPT !.fallback = TRUE],
         Local,
         \/ proc[w].at = "work" /\ Pending(proc[w].state) /\ proc[w].state.intent = "none"
         \/ proc[w].at \in {"tool", "search", "upload", "recovered"} \cup Computing
  PROVE  LoopInv'
<1> DEFINE p == proc[w]
<1>1. Fits(p) /\ Fresh(w) /\ Sound(p.state)
  BY DEF LoopInv, Fits
<1>2. p.at \in InLoop /\ p.at \in Following /\ p.at # "done"
  BY DEF Following, InLoop, InTool, Computing, InComputer
<1>3. p.state.phase = "running" /\ Pending(p.state) /\ p.state.intent \in {"none", "tool", "publication"}
  BY <1>1, <1>2 DEF Fits, Sound
<1>4. /\ Sound(q.state) /\ Pending(q.state) /\ q.state.intent = p.state.intent
      /\ q.state.phase = "running"
  <2>1. CASE q.state = p.state
    BY <1>1, <1>3, <2>1
  <2>2. CASE q.state = [p.state EXCEPT !.fallback = TRUE]
    <3> DEFINE t == [p.state EXCEPT !.fallback = TRUE]
    <3>1. Sound(t) /\ SameCalls(p.state, t) /\ t.phase = "running" /\ t.intent = p.state.intent
      BY <1>1, <1>3, FallbackSound
    <3>2. q.state = t
      BY <2>2
    <3> HIDE DEF t, p
    <3> QED
      BY <1>3, <3>1, <3>2, SameCallsSame
  <2> QED
    BY <2>1, <2>2
<1>5. Fits(q)
  BY <1>3, <1>4 DEF Fits, Thinking, Wrapping, Computing, InComputer, Failing, Finishing
<1>6. Onward(p, q)
  BY <1>2 DEF Onward, Using, InTool, Computing, InComputer, Thinking, Wrapping
<1>7. lease = w => Aside(w)
  <2>1. CASE p.at = "work" /\ p.state.intent = "none"
    <3>1. lease = w => p.state = saved /\ ~p.state.answer
      BY <1>1, <1>2, <1>3, HolderState DEF Sound
    <3> QED
      BY <2>1, <3>1, FreeAside
  <2>2. CASE p.at = "recovered"
    BY <1>1, <2>2 DEF Fresh
  <2>3. CASE p.at \in {"tool", "search", "upload"} \cup Computing
    BY <2>3, ToolFits
  <2> QED
    BY <2>1, <2>2, <2>3
<1>8. MayTell(q.at, saved)
  BY DEF MayTell
<1> HIDE DEF p
<1> QED
  BY <1>5, <1>6, <1>7, <1>8, Moves DEF p, Local

LEMMA GetsDone ==
  ASSUME LoopInv, NEW w \in Workers, NEW result \in Verdicts, Gets(w, result, "done"), Local,
         \/ proc[w].at = "work" /\ Pending(proc[w].state) /\ proc[w].state.intent = "none"
         \/ proc[w].at \in {"tool", "search", "upload", "recovered"} \cup Computing
  PROVE  LoopInv'
<1> DEFINE q == Put(proc[w], "done", result, 0)
<1>1. proc' = [proc EXCEPT ![w] = q] /\ proc[w] \in ProcRows /\ 0 \in Removals
  BY PutSteps
<1>2. "done" \in Locations /\ result \in Results
  BY DEF Verdicts, Results, Locations
<1>3. q \in ProcRows /\ q.at = "done" /\ q.got = result /\ q.state = proc[w].state
  BY <1>1, <1>2, PutRow
<1> HIDE DEF q
<1> QED
  BY <1>1, <1>3, DoneKeeps

(* The worker abandons the run.                                             *)
LEMMA AbandonKeeps ==
  ASSUME LoopInv, NEW w \in Workers, NEW at \in Locations \ Following, Abandon(w, at), Local,
         lease = w => MayTell(at, saved)
  PROVE  LoopInv'
BY Quits, PutSteps DEF LoopInv, Local

LEMMA Leaving ==
  /\ {"resign", "interrupted", "out", "cancelRun", "saveCancelled", "failed", "tellFailed"} \subseteq Locations \ Following
  /\ \A s : \A at \in {"resign", "interrupted", "out", "cancelRun", "saveCancelled"} : MayTell(at, s)
BY DEF Locations, Cleaning, Following, InLoop, InTool, Computing, InComputer, Thinking, Wrapping, Failing,
       Finishing, MayTell, Ending

LEMMA UploadLoop ==
  ASSUME LoopInv, NEW w \in Workers, Upload(w)
  PROVE  LoopInv'
<1>0. proc[w].at = "upload"
  BY DEF Upload
<1>1. ASSUME NEW result \in {"ok", "failed"}, Gets(w, result, "done"), Local
      PROVE  LoopInv'
  BY <1>0, <1>1, GetsDone DEF Verdicts
<1>2. ASSUME NEW next \in {"tool", "upload"}, NEW dispatch, Save(w, State(w), dispatch, next)
      PROVE  LoopInv'
  <2>1. ASSUME Holds(w) PROVE Saves(w, State(w), next)
    <3>1. Sound(State(w)) /\ State(w).phase = "running" /\ Aside(w) /\ Fits(proc[w])
      BY <1>0, <2>1, ToolFits DEF Holds
    <3>2. State(w).intent = "publication"
      BY <1>0, <3>1 DEF Fits, State
    <3>3. Suits(State(w), next)
      BY <3>1, <3>2 DEF Suits
    <3> QED
      BY <3>1, <3>3, SuitsSaves
  <2> QED
    BY <1>2, <2>1, SaveKeeps
<1>3. CASE Abandon(w, "resign") /\ Local
  BY <1>3, Leaving, AbandonKeeps
<1> QED
  BY <1>1, <1>2, <1>3 DEF Upload

LEMMA GiveUpFileLoop ==
  ASSUME LoopInv, NEW w \in Workers, GiveUpFile(w)
  PROVE  LoopInv'
<1> DEFINE s == [proc[w].state EXCEPT !.fallback = TRUE]
           q == [proc[w] EXCEPT !.state = s, !.got = "failed", !.at = "done"]
<1>1. proc[w].at = "tool" /\ Local /\ proc[w] \in ProcRows
  BY DEF GiveUpFile, LoopInv
<1>2. Sound(State(w)) /\ State(w).phase = "running" /\ State(w) = proc[w].state
  BY <1>1, ToolFits DEF State
<1>3. s \in StateRows
  BY <1>2, FallbackSound DEF Sound
<1>4. proc' = [proc EXCEPT ![w] = q]
  BY <1>1 DEF GiveUpFile, ProcRows
<1>5. q \in ProcRows /\ q.at = "done" /\ q.got = "failed" /\ q.state = s
  BY <1>1, <1>3 DEF ProcRows, Locations, Results
<1>6. q.state = [proc[w].state EXCEPT !.fallback = TRUE] /\ "failed" \in Verdicts
  BY <1>5 DEF Verdicts
<1> HIDE DEF q
<1> QED
  BY <1>1, <1>4, <1>5, <1>6, DoneKeeps

LEMMA SaveFailedLoop ==
  ASSUME LoopInv, NEW w \in Workers, SaveFailed(w)
  PROVE  LoopInv'
<1> DEFINE t == [State(w) EXCEPT !.phase = "failed"]
<1>1. proc[w].at = "saveFailed" /\ proc[w].at \in Following /\ proc[w].at # "done" /\ proc[w].at \in Failing
  BY DEF SaveFailed, Following, Failing
<1>2. Fits(proc[w]) /\ Sound(State(w)) /\ State(w).phase \notin {"none", "finished"}
  BY <1>1 DEF LoopInv, Fits, State
<1>3. lease = w => State(w) = saved
  BY <1>1, HolderState DEF State
<1>4. CASE State(w).phase \in Over /\ Abandon(w, "failed") /\ Local
  <2>1. lease = w => MayTell("failed", saved)
    BY <1>2, <1>3, <1>4 DEF MayTell, Over
  <2> QED
    BY <1>4, <2>1, Leaving, AbandonKeeps
<1>5. CASE Save(w, t, FALSE, "failed")
  <2>1. ASSUME Holds(w) PROVE Saves(w, t, "failed")
    <3>1. /\ Sound(t) /\ SameCalls(State(w), t) /\ t.phase = "failed" /\ t.intent = State(w).intent
          /\ t.answer = State(w).answer
      BY <1>2, EndedSound DEF Over
    <3> HIDE DEF t
    <3>2. Spares(saved, t)
      BY <1>3, <2>1, <3>1 DEF Spares, Holds
    <3>3. Suits(t, "failed")
      BY <3>1 DEF Suits
    <3> QED
      BY <3>1, <3>2, <3>3, SuitsSaves
  <2> HIDE DEF t
  <2> QED
    BY <1>5, <2>1, SaveKeeps
<1> HIDE DEF t
<1> QED
  BY <1>4, <1>5 DEF SaveFailed, t

LEMMA SaveFinishedLoop ==
  ASSUME LoopInv, NEW w \in Workers, SaveFinished(w)
  PROVE  LoopInv'
<1> DEFINE t == [State(w) EXCEPT !.phase = "finished"]
<1>1. proc[w].at = "saveFinished" /\ proc[w].at \in Following /\ proc[w].at # "done" /\ proc[w].at \in Finishing
  BY DEF SaveFinished, Following, Finishing
<1>2. Fits(proc[w]) /\ Sound(State(w)) /\ State(w).answer
  <2>1. Fits(proc[w]) /\ Sound(State(w)) /\ State(w).phase \in {"finishing", "finished"}
    BY <1>1 DEF LoopInv, Fits, State
  <2> QED
    BY <2>1 DEF Sound
<1>3. lease = w => State(w) = saved
  BY <1>1, HolderState DEF State
<1>5. Save(w, t, FALSE, "tellComplete")
  BY DEF SaveFinished
<1>6. ASSUME Holds(w) PROVE Saves(w, t, "tellComplete")
  <2>1. /\ Sound(t) /\ SameCalls(State(w), t) /\ t.phase = "finished" /\ t.intent = State(w).intent
        /\ t.answer = State(w).answer
    BY <1>2, EndedSound DEF Over
  <2> HIDE DEF t
  <2>2. Spares(saved, t)
    BY <1>3, <1>6, <2>1 DEF Spares, Holds
  <2>3. Suits(t, "tellComplete")
    BY <2>1 DEF Suits
  <2> QED
    BY <2>1, <2>2, <2>3, SuitsSaves
<1> HIDE DEF t
<1> QED
  BY <1>5, <1>6, SaveKeeps

LEMMA SaveCancelledLoop ==
  ASSUME LoopInv, NEW w \in Workers, SaveCancelled(w)
  PROVE  LoopInv'
<1> DEFINE t == [saved EXCEPT !.phase = "cancelled"]
<1>1. proc[w].at = "saveCancelled" /\ proc[w].at \notin Following
  BY Leaving DEF SaveCancelled
<1>2. Sound(saved)
  BY DEF LoopInv
<1>4. CASE saved.phase \in Over /\ Go(w, "tellCancelled") /\ Local
  <2>1. proc' = [proc EXCEPT ![w] = Put(proc[w], "tellCancelled", proc[w].got, proc[w].removed)]
    BY <1>4, PutSteps
  <2>2. "tellCancelled" \in Locations \ Following
    BY DEF Locations, Ending, Following, InLoop, InTool, Computing, InComputer, Thinking, Wrapping, Failing, Finishing
  <2>3. Passes(proc[w].at, "tellCancelled")
    BY <1>1, <2>2 DEF Passes
  <2> QED
    BY <1>4, <2>1, <2>2, <2>3, PutSteps, PassKeeps DEF Local
<1>5. CASE Save(w, t, FALSE, "tellCancelled")
  <2>1. ASSUME Holds(w) PROVE Saves(w, t, "tellCancelled")
    <3>1. /\ Sound(t) /\ SameCalls(saved, t) /\ t.phase = "cancelled" /\ t.intent = saved.intent
          /\ t.answer = saved.answer
      BY <1>2, EndedSound DEF Over
    <3> HIDE DEF t
    <3>2. Spares(saved, t)
      BY <3>1 DEF Spares
    <3>3. Suits(t, "tellCancelled")
      BY <3>1 DEF Suits, Over
    <3> QED
      BY <3>1, <3>2, <3>3, SuitsSaves
  <2> HIDE DEF t
  <2> QED
    BY <1>5, <2>1, SaveKeeps
<1> HIDE DEF t
<1> QED
  BY <1>4, <1>5 DEF SaveCancelled, t

------------------------------------------------------------------------------
(* The loop invariant across the actions without a save.                    *)

LEMMA CannotAffordLoop ==
  ASSUME LoopInv, NEW w \in Workers, CannotAfford(w)
  PROVE  LoopInv'
BY FailKeeps DEF CannotAfford, Idle, Working

(* The worker goes on to the next place of a request or a computer call.    *)
LEMMA GoKeeps ==
  ASSUME LoopInv, NEW w \in Workers, NEW at, Go(w, at) \/ Turn(w, at), Local,
         <<proc[w].at, at>> \in {<<"ask", "reply">>, <<"wrapAsk", "wrapReply">>, <<"fileAsk", "fileReply">>,
                                 <<"create", "creating">>, <<"creating", "start">>, <<"start", "program">>,
                                 <<"ran", "commit">>, <<"fail", "saveFailed">>, <<"finish", "saveFinished">>}
  PROVE  LoopInv'
<1>1. PICK removed \in Removals : proc' = [proc EXCEPT ![w] = Put(proc[w], at, proc[w].got, removed)]
  BY PutSteps
<1>2. at \in Locations /\ Passes(proc[w].at, at) /\ proc[w].got \in Results
  BY PutSteps DEF Locations, Asking, Answering, Cleaning, Ending, InComputer, Passes
<1>3. at = "commit" => proc[w].got \in Verdicts
  BY DEF LoopInv, Fits
<1>4. at \notin {"create", "ran", "discard", "failed", "tellFailed", "tellComplete", "tellCancelled"}
  OBVIOUS
<1> QED
  BY <1>1, <1>2, <1>3, <1>4, PassKeeps DEF Local

LEMMA AskLoop ==
  ASSUME LoopInv, NEW w \in Workers, Ask(w)
  PROVE  LoopInv'
<1>1. \/ proc[w].at = "ask" /\ Go(w, "reply")
      \/ proc[w].at = "wrapAsk" /\ Go(w, "wrapReply")
      \/ proc[w].at = "fileAsk" /\ Go(w, "fileReply")
  BY DEF Ask, Asking
<1> QED
  BY <1>1, GoKeeps DEF Ask

LEMMA ReplyFailsLoop ==
  ASSUME LoopInv, NEW w \in Workers, ReplyFails(w)
  PROVE  LoopInv'
BY FailKeeps DEF ReplyFails

LEMMA ToolFailsLoop ==
  ASSUME LoopInv, NEW w \in Workers, ToolFails(w)
  PROVE  LoopInv'
BY FailKeeps DEF ToolFails

LEMMA ComputerTimesOutLoop ==
  ASSUME LoopInv, NEW w \in Workers, ComputerTimesOut(w)
  PROVE  LoopInv'
BY FailKeeps DEF ComputerTimesOut

LEMMA RefuseLoop ==
  ASSUME LoopInv, NEW w \in Workers, Refuse(w)
  PROVE  LoopInv'
<1>1. "failed" \in Verdicts
  BY DEF Verdicts
<1> QED
  BY <1>1, GetsDone DEF Refuse, Working, State

(* The result a finished operation keeps.                                   *)
LEMMA Receipted ==
  ASSUME LoopInv, HostInv, NEW w \in Workers, proc[w].at = "recovered"
  PROVE  /\ Call(w) \in Calls /\ Call(w) = Current(State(w)) /\ row[Call(w)].phase = "done"
         /\ row[Call(w)].result \in Verdicts
<1>1. Fits(proc[w]) /\ Sound(State(w)) /\ State(w).intent = "tool"
  BY DEF LoopInv, Fits, Computing, State
<1>2. Call(w) \in Calls
  BY <1>1, Sorts DEF Sound, Call
<1> QED
  BY <1>2 DEF HostInv, RowsInv, RowFits, StandInv, Stands, Call, State

LEMMA UseReceiptLoop ==
  ASSUME LoopInv, HostInv, NEW w \in Workers, UseReceipt(w)
  PROVE  LoopInv'
BY Receipted, GetsDone DEF UseReceipt, Call

LEMMA SearchLoop ==
  ASSUME LoopInv, NEW w \in Workers, Search(w)
  PROVE  LoopInv'
<1>1. CASE Gets(w, "ok", "done")
  BY <1>1, GetsDone DEF Search, Verdicts
<1>2. CASE Go(w, "fail")
  BY <1>2, FailKeeps DEF Search
<1> QED
  BY <1>1, <1>2 DEF Search

LEMMA AdmitCallLoop ==
  ASSUME LoopInv, NEW w \in Workers, AdmitCall(w)
  PROVE  LoopInv'
<1>1. proc[w].at = "tool" /\ Tool(proc[w].state) = "computer" /\ Local
  BY DEF AdmitCall, State
<1>2. CASE Go(w, "create")
  <2>1. proc' = [proc EXCEPT ![w] = Put(proc[w], "create", proc[w].got, proc[w].removed)]
    BY <1>2, PutSteps
  <2>2. "create" \in Locations
    BY DEF Locations, InComputer
  <2> QED
    BY <1>1, <2>1, <2>2, PutSteps, PassKeeps DEF Local
<1>3. CASE Abandon(w, "resign")
  BY <1>1, <1>3, Leaving, AbandonKeeps
<1> QED
  BY <1>2, <1>3 DEF AdmitCall

LEMMA CreateLoop ==
  ASSUME LoopInv, NEW w \in Workers, Create(w)
  PROVE  LoopInv'
BY GoKeeps DEF Create

(* The program has ended, or something was wrong with the container.        *)
LEMMA GetsKeeps ==
  ASSUME LoopInv, NEW w \in Workers, NEW result \in Verdicts, NEW at, Gets(w, result, at), Local,
         <<proc[w].at, at>> \in {<<"program", "ran">>, <<"start", "discard">>, <<"program", "discard">>, <<"ran", "discard">>,
                                 <<"creating", "discard">>, <<"commit", "discard">>},
         at = "discard" => result = "failed"
  PROVE  LoopInv'
<1>1. proc' = [proc EXCEPT ![w] = Put(proc[w], at, result, 0)] /\ 0 \in Removals
  BY PutSteps
<1>2. at \in Locations /\ Passes(proc[w].at, at) /\ result \in Results
  BY DEF Locations, Cleaning, InComputer, Passes, Results, Verdicts
<1>4. at \notin {"create", "failed", "tellFailed", "tellComplete", "tellCancelled"}
  OBVIOUS
<1> QED
  BY <1>1, <1>2, <1>4, PassKeeps DEF Local

LEMMA CreateAnswerLoop ==
  ASSUME LoopInv, NEW w \in Workers, CreateAnswer(w)
  PROVE  LoopInv'
<1>1. CASE Go(w, "start")
  BY <1>1, GoKeeps DEF CreateAnswer
<1>2. CASE Abandon(w, "resign")
  BY <1>2, Leaving, AbandonKeeps DEF CreateAnswer
<1>3. CASE Gets(w, "failed", "discard")
  BY <1>3, GetsKeeps DEF CreateAnswer, Verdicts
<1> QED
  BY <1>1, <1>2, <1>3 DEF CreateAnswer

LEMMA RunProgramLoop ==
  ASSUME LoopInv, NEW w \in Workers, RunProgram(w)
  PROVE  LoopInv'
BY GoKeeps DEF RunProgram

LEMMA ProgramEndsLoop ==
  ASSUME LoopInv, NEW w \in Workers, ProgramEnds(w)
  PROVE  LoopInv'
<1>1. PICK result \in {"ok", "failed"} : Gets(w, result, "ran")
  BY DEF ProgramEnds
<1> QED
  BY <1>1, GetsKeeps DEF ProgramEnds, Verdicts

LEMMA ExecutorFailsLoop ==
  ASSUME LoopInv, NEW w \in Workers, ExecutorFails(w)
  PROVE  LoopInv'
<1>1. "failed" \in Verdicts
  BY DEF Verdicts
<1> QED
  BY <1>1, GetsKeeps DEF ExecutorFails

LEMMA RemoveContainerLoop ==
  ASSUME LoopInv, NEW w \in Workers, RemoveContainer(w)
  PROVE  LoopInv'
BY GoKeeps DEF RemoveContainer

(* The same result in another place.                                        *)
LEMMA TurnDone ==
  ASSUME LoopInv, NEW w \in Workers, Go(w, "done") \/ Turn(w, "done"), Local, proc[w].at \in {"commit", "discard"}
  PROVE  LoopInv'
<1>1. PICK removed \in Removals : proc' = [proc EXCEPT ![w] = Put(proc[w], "done", proc[w].got, removed)]
  BY PutSteps
<1> DEFINE q == Put(proc[w], "done", proc[w].got, removed)
<1>2. "done" \in Locations /\ proc[w].got \in Results /\ proc[w] \in ProcRows
  BY PutSteps DEF Locations
<1>3. proc[w].got \in Verdicts
  BY DEF LoopInv, Fits, Verdicts
<1>4. q \in ProcRows /\ q.at = "done" /\ q.got = proc[w].got /\ q.state = proc[w].state
  BY <1>2, PutRow
<1>5. proc[w].at \in Computing
  BY DEF Computing
<1> HIDE DEF q
<1> QED
  BY <1>1, <1>3, <1>4, <1>5, DoneKeeps DEF q

LEMMA CommitLoop ==
  ASSUME LoopInv, NEW w \in Workers, Commit(w)
  PROVE  LoopInv'
<1>1. CASE Go(w, "done")
  BY <1>1, TurnDone DEF Commit
<1>2. CASE Abandon(w, "resign")
  BY <1>2, Leaving, AbandonKeeps DEF Commit
<1>3. CASE Gets(w, "failed", "discard")
  BY <1>3, GetsKeeps DEF Commit, Verdicts
<1> QED
  BY <1>1, <1>2, <1>3 DEF Commit

LEMMA RemoveLeftoverLoop ==
  ASSUME LoopInv, NEW w \in Workers, RemoveLeftover(w)
  PROVE  LoopInv'
<1> DEFINE p == proc[w]
<1>1. PICK c \in Mine : proc' = [proc EXCEPT ![w].removed = c]
  BY DEF RemoveLeftover
<1>2. p \in ProcRows /\ c \in Calls /\ c \in Removals /\ p.at \in Locations /\ p.got \in Results
  BY RemovalsAre DEF LoopInv, ProcRows, Mine
<1>3. Put(p, p.at, p.got, c) = [p EXCEPT !.removed = c]
  BY <1>2 DEF Put, ProcRows
<1>4. proc' = [proc EXCEPT ![w] = Put(p, p.at, p.got, c)]
  BY <1>1, <1>2, <1>3
<1>5. p.at \in Cleaning /\ Local
  BY DEF RemoveLeftover
<1>6. /\ Passes(p.at, p.at) /\ p.at \notin {"ran", "commit", "create", "tellCancelled"}
  BY <1>5 DEF Passes, Cleaning
<1>7. p.at = "discard" => p.got = "failed"
  BY DEF LoopInv, Fits
<1> HIDE DEF p
<1> QED
  BY <1>2, <1>4, <1>5, <1>6, <1>7, PassKeeps DEF Local, p

LEMMA ConfirmLoop ==
  ASSUME LoopInv, NEW w \in Workers, Confirm(w)
  PROVE  LoopInv'
<1>1. proc[w].at \in Cleaning /\ Local
  BY DEF Confirm
<1>2. CASE proc[w].at = "discard" /\ Turn(w, "done")
  BY <1>1, <1>2, TurnDone
<1>3. CASE proc[w].at = "fail" /\ Turn(w, "saveFailed")
  BY <1>1, <1>3, GoKeeps
<1>4. CASE proc[w].at = "finish" /\ Turn(w, "saveFinished")
  BY <1>1, <1>4, GoKeeps
<1>5. CASE proc[w].at = "failed" /\ Abandon(w, "tellFailed")
  <2>1. lease = w => MayTell("tellFailed", saved)
    BY <1>5 DEF LoopInv, Fresh, MayTell
  <2> QED
    BY <1>1, <1>5, <2>1, Leaving, AbandonKeeps
<1>6. CASE \E at \in {"cancelRun", "saveCancelled", "out"} : Abandon(w, at)
  BY <1>1, <1>6, Leaving, AbandonKeeps
<1> QED
  BY <1>1, <1>2, <1>3, <1>4, <1>5, <1>6 DEF Confirm, Cleaning, After

LEMMA CannotConfirmLoop ==
  ASSUME LoopInv, NEW w \in Workers, CannotConfirm(w)
  PROVE  LoopInv'
<1>1. Abandon(w, "resign") \/ Abandon(w, "out")
  BY DEF CannotConfirm, Leave
<1> QED
  BY <1>1, Leaving, AbandonKeeps DEF CannotConfirm

LEMMA InterruptLoop ==
  ASSUME LoopInv, NEW w \in Workers, Interrupt(w)
  PROVE  LoopInv'
<1>1. Abandon(w, "resign") \/ Abandon(w, "interrupted")
  BY DEF Interrupt
<1> QED
  BY <1>1, Leaving, AbandonKeeps DEF Interrupt

LEMMA CrashLoop ==
  ASSUME LoopInv, NEW w \in Workers, Crash(w)
  PROVE  LoopInv'
BY Leaving, AbandonKeeps DEF Crash, Leave

LEMMA TellLoop ==
  ASSUME LoopInv, NEW w \in Workers, Tell(w)
  PROVE  LoopInv'
<1>1. PICK at \in {"cancelRun", "out"} : Abandon(w, at)
  BY DEF Tell, Leave
<1>2. /\ saved' = saved /\ lease' = lease /\ leases' = leases /\ stopping' = stopping
      /\ outcome' = outcome \/ (\E end \in {"failed", "complete", "cancelled"} : outcome' = [state |-> end, by |-> "worker"])
  BY DEF Tell, Ends
<1>3. outcome' \in Outcomes /\ (outcome'.by = "worker" => outcome'.state # "open") /\ stopping' \in BOOLEAN
  BY <1>2 DEF LoopInv, Outcomes
<1>4. proc' = [proc EXCEPT ![w] = Gone(at)] /\ at \in Locations \ Following /\ MayTell(at, saved)
  BY <1>1, PutSteps, Leaving
<1> QED
  BY <1>2, <1>3, <1>4, Quits

LEMMA TakeLoop ==
  ASSUME LoopInv, NEW w \in Workers, Take(w)
  PROVE  LoopInv'
<1>1. PICK at \in {"cancelRun", "load"} : Go(w, at)
  BY DEF Take
<1> DEFINE p == proc[w] q == Put(p, at, p.got, p.removed)
<1>2. proc' = [proc EXCEPT ![w] = q] /\ p \in ProcRows /\ p.got \in Results /\ p.removed \in Removals
  BY <1>1, PutSteps
<1>3. at \in Locations \ Following
  BY DEF Locations, Cleaning, Following, InLoop, InTool, Computing, InComputer, Thinking, Wrapping, Failing, Finishing
<1>4. q \in ProcRows /\ q.at = at /\ q.got = p.got /\ q.state = p.state
  BY <1>2, <1>3, PutRow
<1>5. Sound(p.state)
  BY DEF LoopInv, Fits
<1> HIDE DEF q, p
<1>6. Fits(q) /\ ~Busy(q) /\ q.at \notin Following /\ q.at \notin {"done", "recovered"} /\ MayTell(q.at, saved)
  BY <1>3, <1>4, <1>5 DEF Fits, Busy, Using, Following, InLoop, InTool, Computing, Failing, Finishing, Thinking, Wrapping, InComputer, MayTell
<1>7. Held(saved, q)
  BY <1>6 DEF Held, Busy
<1>8. /\ saved' = saved /\ lease' = w /\ leases' \in Nat /\ leases' <= MaxLeases /\ stopping' = stopping /\ outcome' = outcome
  BY RunAssumption DEF Take, LoopInv
<1> QED
  BY <1>2, <1>6, <1>7, <1>8, OneGoes DEF LoopInv

(* The loop itself stands still.                                            *)
LEMMA StillLoop ==
  ASSUME LoopInv, UNCHANGED <<saved, lease, leases, proc>>, stopping' \in BOOLEAN, outcome' \in Outcomes,
         outcome'.by = "worker" => outcome'.state # "open"
  PROVE  LoopInv'
BY DEF LoopInv, Fresh, Aside, Unique

LEMMA LoopNext ==
  ASSUME LoopInv, HostInv, [Next]_vars
  PROVE  LoopInv'
<1>1. ASSUME NEW w \in Workers, WorkerStep(w) PROVE LoopInv'
  BY <1>1, TakeLoop, LoadLoop, AnswerEarlyLoop, FailEarlyLoop, ResearchFileLoop, AskModelLoop, CannotAffordLoop, AskForFileLoop, AskToWrapUpLoop,
     AnswerUnaskedLoop, AskLoop, TooLateLoop, ReplyLoop, ReplyFailsLoop, WrapUpReplyLoop, FileReplyLoop,
     StartToolLoop, RefuseLoop, UseReceiptLoop, FinishToolLoop, RefuseForGoodLoop, ReserveSearchLoop, SearchLoop,
     AttemptPublicationLoop, UploadLoop, GiveUpFileLoop, ToolFailsLoop, AdmitCallLoop, CreateLoop,
     CreateAnswerLoop, RunProgramLoop, ProgramEndsLoop, ExecutorFailsLoop, RemoveContainerLoop, CommitLoop,
     RemoveLeftoverLoop, ConfirmLoop, CannotConfirmLoop, SaveFailedLoop, SaveFinishedLoop,
     SaveCancelledLoop, TellLoop, InterruptLoop, ComputerTimesOutLoop, CrashLoop DEF WorkerStep
<1>2. CASE RequestCancellation
  BY <1>2, StillLoop DEF RequestCancellation, LoopInv
<1>3. CASE FinalizeCancellation
  <2>1. outcome' \in Outcomes /\ outcome'.by # "worker"
    BY <1>3 DEF FinalizeCancellation, Outcomes
  <2> QED
    BY <1>3, <2>1, StillLoop DEF FinalizeCancellation, LoopInv
<1>4. CASE Daemon
  BY <1>4, StillLoop DEF Daemon, LoopInv, run
<1>5. CASE UNCHANGED vars
  BY <1>5, StillLoop DEF LoopInv, run, vars
<1> QED
  BY <1>1, <1>2, <1>3, <1>4, <1>5 DEF Next

------------------------------------------------------------------------------
(* What every save keeps of what was saved before.                          *)
Remembers(s, t) ==
  /\ Sound(t) /\ Grown(s, t)
  /\ Len(t.calls) >= Len(s.calls) /\ Len(t.receipts) >= Len(s.receipts)
  /\ \A i \in 1..Len(s.calls) : t.calls[i] = s.calls[i]
  /\ s.intent = "model" => t.intent = "model" \/ t.answer \/ t.turns > s.turns
  /\ s.intent = "tool" => t.intent = "tool" \/ Len(t.receipts) > Len(s.receipts)
Closes(s, t) == s.intent = "wrapUp" => t.intent = "wrapUp" \/ t.answer \/ sent[<<"wrapUp", 0>>] = 0
Adds(w, t) ==
  \/ t.receipts = saved.receipts
  \/ proc[w].at = "done" /\ t.receipts = Append(saved.receipts, proc[w].got) /\ t.calls = saved.calls
  \/ proc[w].at = "tool" /\ t.receipts = Append(saved.receipts, "failed") /\ t.calls = saved.calls
Extends(w, t, next) ==
  /\ Remembers(saved, t) /\ Closes(saved, t) /\ Adds(w, t)
  /\ next \notin Computing /\ next # "done"
  /\ Unsent(sent, t.steps, Kept(w, t, next))
  /\ next \in Owing => t.used > saved.used
  /\ next \in InTool /\ t.intent = "tool" => row[Current(t)].phase # "done"
  /\ next = "recovered" => row[Current(t)].phase = "done"
  /\ next \in Settled => proc[w].at \in Settled \/ Mine = {}
Writes(w) ==
  \E t, dispatch, next : /\ Save(w, t, dispatch, next)
                         /\ Holds(w) => Extends(w, t, next)
                         /\ Holds(w) /\ next = "upload" => t.attempts > saved.attempts
LEMMA WritesSo ==
  ASSUME NEW w, NEW t, NEW dispatch, NEW next, Save(w, t, dispatch, next), Holds(w) => Extends(w, t, next),
         Holds(w) /\ next = "upload" => t.attempts > saved.attempts
  PROVE  Writes(w)
BY Zenon DEF Writes


(* A step that neither saves nor goes to a place before a request.          *)
Before == {"ask", "wrapAsk", "fileAsk", "fileReply", "tool", "search", "upload"}
Plain(w) ==
  /\ saved' = saved
  /\ \E q : proc' = [proc EXCEPT ![w] = q] /\ q.at \notin Before

LEMMA RememberSame ==
  ASSUME NEW s, Sound(s), NEW t, Sound(t), SameCalls(s, t), Grown(s, t),
         s.intent = "model" => t.intent = "model" \/ t.answer,
         s.intent = "tool" => t.intent = "tool"
  PROVE  Remembers(s, t)
<1>1. Len(s.calls) \in Nat /\ Len(s.receipts) \in Nat
  BY Sorts
<1> QED
  BY <1>1 DEF Remembers, SameCalls

(* A change of the marks or a request on top of what is remembered.         *)
LEMMA RemembersMore ==
  ASSUME NEW s, Sound(s), NEW u, Remembers(s, u), NEW t, Sound(t), SameCalls(u, t), Grown(u, t),
         s.intent = "model" => u.intent # "model", s.intent # "tool"
  PROVE  Remembers(s, t)
<1>1. Sound(u) /\ Grown(s, u)
  BY DEF Remembers
<1>2. Grown(s, t)
  BY <1>1, GrownTwice
<1>3. s.turns \in Nat /\ u.turns \in Nat /\ t.turns = u.turns
  BY <1>1, Sorts DEF SameCalls
<1>4. s.intent = "model" => t.answer \/ t.turns > s.turns
  BY <1>3 DEF Remembers, Grown
<1> QED
  BY <1>2, <1>4 DEF Remembers, SameCalls

Resting == {"work", "fail", "finish", "failed", "tellComplete", "tellCancelled", "recovered"}
LEMMA ExtendRest ==
  ASSUME LoopInv, NEW w \in Workers, NEW t, Remembers(saved, t), Closes(saved, t), Adds(w, t), NEW next \in Resting,
         next = "recovered" => row[Current(t)].phase = "done",
         next \in Settled => proc[w].at \in Settled \/ Mine = {}
  PROVE  Extends(w, t, next)
<1>1. proc[w] \in ProcRows /\ t \in StateRows /\ next \in Locations
  BY DEF LoopInv, Remembers, Sound, Resting, Locations, Cleaning, Ending
<1>2. Kept(w, t, next).at = next
  BY <1>1, KeptRow
<1>3. next \notin Owing /\ next \notin InTool /\ next \notin Computing /\ next # "done" /\ next \notin {"fileReply"}
  BY DEF Resting, Owing, Asking, InTool, Computing, InComputer
<1>4. Unsent(sent, t.steps, Kept(w, t, next))
  BY <1>2, <1>3 DEF Unsent, Owing, Asking, InTool
<1> QED
  BY <1>3, <1>4 DEF Extends

LEMMA ExtendAsk ==
  ASSUME LoopInv, NEW w \in Workers, NEW t, Remembers(saved, t), Closes(saved, t), Adds(w, t),
         NEW next \in Asking, t.used > saved.used,
         next = "ask" => sent[<<"model", t.turns>>] = 0,
         next \in {"wrapAsk", "fileAsk"} => sent[<<"wrapUp", 0>>] = 0,
         next = "fileAsk" => t.steps # 0 /\ sent[<<"file", t.steps>>] = 0
  PROVE  Extends(w, t, next)
<1>1. proc[w] \in ProcRows /\ t \in StateRows /\ next \in Locations /\ t.steps \in Nat
  BY DEF LoopInv, Remembers, Sound, Locations, StateRows
<1>2. Kept(w, t, next).at = next /\ Kept(w, t, next).state = t
  BY <1>1, KeptRow
<1>3. /\ next \notin InTool /\ next \notin Computing /\ next # "done" /\ next # "recovered"
      /\ next \notin {"fileReply", "tool", "search"} /\ next \notin Settled
  BY DEF Asking, InTool, Computing, InComputer, Settled
<1>4. Unsent(sent, t.steps, Kept(w, t, next))
  BY <1>1, <1>2, <1>3 DEF Unsent
<1> QED
  BY <1>3, <1>4 DEF Extends

(* What the requests already sent say of the saved state.                   *)
LEMMA Freshness ==
  ASSUME LoopInv, SentInv, ~saved.answer
  PROVE  /\ saved.intent # "model" => sent[<<"model", saved.turns>>] = 0
         /\ saved.intent # "wrapUp" => sent[<<"wrapUp", 0>>] = 0
         /\ saved.steps < Budget => sent[<<"file", saved.steps + 1>>] = 0
         /\ Pending(saved) /\ saved.intent # "tool" => sent[<<"search", Current(saved)>>] = 0
<1>1. Sound(saved) /\ Budget \in Nat /\ MaxCalls \in Nat
  BY RunAssumption, CallsAssumption DEF LoopInv
<1>2. /\ saved.turns \in 0..Budget /\ saved.steps \in Nat /\ Current(saved) \in Nat
      /\ Pending(saved) => Current(saved) \in Calls
  BY <1>1, Sorts DEF Sound
<1>3. ASSUME saved.intent # "model" PROVE sent[<<"model", saved.turns>>] = 0
  <2>1. <<"model", saved.turns>> \in Requests
    BY <1>2 DEF Requests
  <2>2. ~Recorded(saved, <<"model", saved.turns>>)
    BY <1>2, <1>3 DEF Recorded
  <2> QED
    BY <2>1, <2>2 DEF SentInv
<1>4. ASSUME saved.intent # "wrapUp" PROVE sent[<<"wrapUp", 0>>] = 0
  <2>1. <<"wrapUp", 0>> \in Requests
    BY DEF Requests
  <2>2. ~Recorded(saved, <<"wrapUp", 0>>)
    BY <1>4 DEF Recorded
  <2> QED
    BY <2>1, <2>2 DEF SentInv
<1>5. ASSUME saved.steps < Budget PROVE sent[<<"file", saved.steps + 1>>] = 0
  <2>1. <<"file", saved.steps + 1>> \in Requests
    BY <1>1, <1>2, <1>5 DEF Requests
  <2>2. ~Recorded(saved, <<"file", saved.steps + 1>>)
    BY <1>2 DEF Recorded
  <2> QED
    BY <2>1, <2>2 DEF SentInv
<1>6. ASSUME Pending(saved), saved.intent # "tool" PROVE sent[<<"search", Current(saved)>>] = 0
  <2>1. <<"search", Current(saved)>> \in Requests
    BY <1>2, <1>6 DEF Requests
  <2>2. ~Recorded(saved, <<"search", Current(saved)>>)
    BY <1>2, <1>6 DEF Recorded, Reached
  <2> QED
    BY <2>1, <2>2 DEF SentInv
<1> QED
  BY <1>3, <1>4, <1>5, <1>6

LEMMA LoadWrites ==
  ASSUME LoopInv, NEW w \in Workers, Load(w)
  PROVE  Writes(w)
<1> DEFINE s == IF saved.phase = "none" THEN Begun ELSE saved
           next == IF s.phase \in {"failed", "cancelled"} THEN "fail"
                   ELSE IF s.answer THEN "finish"
                   ELSE IF Recovered(s) THEN "recovered"
                   ELSE IF Uncertain(s) THEN "fail"
                   ELSE "work"
<1>1. Save(w, s, FALSE, next)
  BY DEF Load
<1>2. Sound(saved) /\ Sound(s) /\ saved \in StateRows
  BY BegunSound DEF LoopInv, Sound
<1>3. SameCalls(saved, s) /\ Grown(saved, s) /\ s.intent = saved.intent
  <2>1. CASE saved.phase = "none"
    BY <1>2, <2>1, BegunSound DEF Sound
  <2>2. CASE saved.phase # "none"
    BY <1>2, <2>2 DEF SameCalls, Grown, StateRows
  <2> QED
    BY <2>1, <2>2
<1> HIDE DEF s
<1>4. /\ next \in Resting /\ next \notin Settled
      /\ next = "recovered" => row[Current(s)].phase = "done"
  BY DEF Resting, Settled, Recovered
<1> HIDE DEF next
<1>5. Remembers(saved, s) /\ Closes(saved, s) /\ Adds(w, s)
  BY <1>2, <1>3, RememberSame DEF Closes, Adds, SameCalls
<1>6. Extends(w, s, next) /\ next # "upload"
  BY <1>4, <1>5, ExtendRest DEF Resting
<1> QED
  BY <1>1, <1>6, WritesSo

LEMMA AskModelWrites ==
  ASSUME LoopInv, SentInv, NEW w \in Workers, AskModel(w)
  PROVE  Writes(w)
<1>0. PICK s \in Entered(State(w)) : ~Exhausted(s) /\ Save(w, Intend(s), TRUE, "ask")
  BY DEF AskModel
<1> DEFINE t == Intend(s)
<1>1. ASSUME Holds(w) PROVE Extends(w, t, "ask")
  <2>1. proc[w].at = "work" /\ proc[w].at \in InLoop
    BY DEF AskModel, Idle, Working, InLoop
  <2>2. /\ State(w) = saved /\ Sound(saved) /\ saved.phase = "running" /\ ~saved.answer
        /\ saved.intent \in {"none", "wrapUp", "publication"}
    BY <1>1, <2>1, HolderFits
  <2>3. ~Pending(saved) /\ saved.intent # "wrapUp" /\ Affordable(s)
    BY <1>0, <2>2 DEF AskModel, Idle, Interrupted, Exhausted
  <2>4. Sound(t) /\ SameCalls(saved, t) /\ Grown(saved, t) /\ t.used > saved.used
    BY <1>0, <2>2, <2>3, EnteredIntends
  <2> HIDE DEF t
  <2>5. Remembers(saved, t) /\ Closes(saved, t) /\ Adds(w, t)
    BY <2>2, <2>3, <2>4, RememberSame DEF Closes, Adds, SameCalls
  <2>6. sent[<<"model", t.turns>>] = 0
    BY <2>2, <2>3, <2>4, Freshness DEF SameCalls
  <2> QED
    BY <2>4, <2>5, <2>6, ExtendAsk DEF Asking
<1>2. Save(w, t, TRUE, "ask")
  BY <1>0
<1> HIDE DEF t
<1> QED
  BY <1>1, <1>2, WritesSo

LEMMA AskForFileWrites ==
  ASSUME LoopInv, SentInv, NEW w \in Workers, AskForFile(w)
  PROVE  Writes(w)
<1> DEFINE t == [IntendWrapUp(State(w)) EXCEPT !.filed = TRUE]
<1>1. ASSUME Holds(w) PROVE Extends(w, t, "fileAsk")
  <2>1. proc[w].at = "work" /\ proc[w].at \in InLoop
    BY DEF AskForFile, Idle, Working, InLoop
  <2>2. /\ State(w) = saved /\ Sound(saved) /\ saved.phase = "running" /\ ~saved.answer
        /\ saved.intent \in {"none", "wrapUp", "publication"}
    BY <1>1, <2>1, HolderFits
  <2>3. ~Pending(saved) /\ saved.intent # "wrapUp" /\ Affordable(saved)
    BY <2>2 DEF AskForFile, Idle, Interrupted
  <2>4. /\ Sound(t) /\ SameCalls(saved, t) /\ Grown(saved, t) /\ t.used = saved.used + 1
        /\ t.steps = saved.steps + 1
    BY <2>2, <2>3, FileAskSound
  <2> HIDE DEF t
  <2>5. Remembers(saved, t) /\ Closes(saved, t) /\ Adds(w, t)
    BY <2>2, <2>3, <2>4, RememberSame DEF Closes, Adds, SameCalls
  <2>6. saved.steps < Budget /\ saved.steps \in Nat /\ saved.used \in Nat
    BY <2>2, <2>3, Sorts, RunAssumption DEF Sound, Affordable
  <2>7. t.used > saved.used /\ t.steps # 0 /\ sent[<<"file", t.steps>>] = 0 /\ sent[<<"wrapUp", 0>>] = 0
    BY <2>2, <2>3, <2>4, <2>6, Freshness
  <2> QED
    BY <2>5, <2>7, ExtendAsk DEF Asking
<1>2. Save(w, t, TRUE, "fileAsk")
  BY DEF AskForFile
<1> HIDE DEF t
<1> QED
  BY <1>1, <1>2, WritesSo

LEMMA AskToWrapUpWrites ==
  ASSUME LoopInv, SentInv, NEW w \in Workers, AskToWrapUp(w)
  PROVE  Writes(w)
<1>0. PICK s \in Entered(State(w)) : Affordable(s) /\ Save(w, IntendWrapUp(s), TRUE, "wrapAsk")
  BY DEF AskToWrapUp
<1> DEFINE t == IntendWrapUp(s)
<1>1. ASSUME Holds(w) PROVE Extends(w, t, "wrapAsk")
  <2>1. proc[w].at = "work" /\ proc[w].at \in InLoop
    BY DEF AskToWrapUp, Idle, Working, InLoop
  <2>2. /\ State(w) = saved /\ Sound(saved) /\ saved.phase = "running" /\ ~saved.answer
        /\ saved.intent \in {"none", "wrapUp", "publication"}
    BY <1>1, <2>1, HolderFits
  <2>3. ~Pending(saved) /\ saved.intent # "wrapUp"
    BY <2>2 DEF AskToWrapUp, Idle, Interrupted
  <2>4. Sound(t) /\ SameCalls(saved, t) /\ Grown(saved, t) /\ t.used > saved.used
    BY <1>0, <2>2, <2>3, EnteredIntends
  <2> HIDE DEF t
  <2>5. Remembers(saved, t) /\ Closes(saved, t) /\ Adds(w, t)
    BY <2>2, <2>3, <2>4, RememberSame DEF Closes, Adds, SameCalls
  <2>7. sent[<<"wrapUp", 0>>] = 0
    BY <2>2, <2>3, Freshness
  <2> QED
    BY <2>4, <2>5, <2>7, ExtendAsk DEF Asking
<1>2. Save(w, t, TRUE, "wrapAsk")
  BY <1>0
<1> HIDE DEF t
<1> QED
  BY <1>1, <1>2, WritesSo

LEMMA ConcludeWrites ==
  ASSUME LoopInv, NEW w \in Workers, Conclude(w), proc[w].at \in {"work"} \cup Thinking \cup Wrapping
  PROVE  Writes(w)
<1> DEFINE t == Answered(State(w))
<1>1. ASSUME Holds(w) PROVE Extends(w, t, "finish")
  <2>1. proc[w].at \in InLoop /\ proc[w].at # "done"
    BY DEF InLoop, Thinking, Wrapping
  <2>2. State(w) = saved /\ Sound(saved) /\ Fits(proc[w])
    BY <1>1, <2>1, HolderFits DEF LoopInv
  <2>3. saved.intent # "tool"
    BY <2>2 DEF Fits, State
  <2>4. Sound(t) /\ SameCalls(saved, t) /\ Grown(saved, t) /\ t.answer
    BY <2>2, AnsweredSound
  <2> HIDE DEF t
  <2>5. Remembers(saved, t) /\ Closes(saved, t) /\ Adds(w, t)
    BY <2>2, <2>3, <2>4, RememberSame DEF Closes, Adds, SameCalls
  <2> QED
    BY <2>5, ExtendRest DEF Resting, Settled
<1>2. Save(w, t, FALSE, "finish")
  BY DEF Conclude
<1> HIDE DEF t
<1> QED
  BY <1>1, <1>2, WritesSo

(* What is saved before the loop.                                           *)
LEMMA EarlyWrites ==
  ASSUME LoopInv, NEW w \in Workers, Working(w), NEW t, NEW next \in {"work", "failed", "tellComplete", "finish"},
         Save(w, t, FALSE, next), next = "tellComplete" => Mine = {},
         ASSUME State(w) = saved, Sound(saved), saved.phase = "running"
         PROVE  /\ Sound(t) /\ SameCalls(saved, t) /\ Grown(saved, t)
                /\ (saved.intent = "none") \/ t.answer
  PROVE  Writes(w)
<1>1. ASSUME Holds(w) PROVE Extends(w, t, next)
  <2>1. proc[w].at = "work" /\ proc[w].at \in InLoop
    BY DEF Working, InLoop
  <2>2. /\ State(w) = saved /\ Sound(saved) /\ saved.phase = "running"
        /\ saved.intent \in {"none", "wrapUp", "publication"}
    BY <1>1, <2>1, HolderFits
  <2>3. Remembers(saved, t) /\ Closes(saved, t) /\ Adds(w, t)
    BY <2>2, RememberSame DEF Closes, Adds, SameCalls
  <2>4. next \in Resting /\ next # "recovered" /\ (next \in Settled => next = "tellComplete")
    BY DEF Resting, Settled
  <2> QED
    BY <2>3, <2>4, ExtendRest
<1> QED
  BY <1>1, WritesSo

LEMMA AnswerEarlyWrites ==
  ASSUME LoopInv, NEW w \in Workers, AnswerEarly(w)
  PROVE  Writes(w)
<1>1. PICK u \in Researches(State(w), "started", 4) : Save(w, AnsweredEarly(u), FALSE, "tellComplete")
  BY DEF AnswerEarly, AnsweredEarly
<1> DEFINE t == AnsweredEarly(u)
<1>2. ASSUME State(w) = saved, Sound(saved), saved.phase = "running"
      PROVE  Sound(t) /\ SameCalls(saved, t) /\ Grown(saved, t) /\ saved.intent = "none"
  BY <1>2, AnsweredEarlySound
<1>3. Save(w, t, FALSE, "tellComplete") /\ Working(w) /\ Mine = {}
  BY <1>1 DEF AnswerEarly
<1> HIDE DEF t
<1> QED
  BY <1>2, <1>3, EarlyWrites

LEMMA FailEarlyWrites ==
  ASSUME LoopInv, NEW w \in Workers, FailEarly(w)
  PROVE  Writes(w)
<1>1. PICK u \in Researches(State(w), "started", 3) : Save(w, [u EXCEPT !.phase = "failed"], FALSE, "failed")
  BY DEF FailEarly
<1> DEFINE t == [u EXCEPT !.phase = "failed"]
<1>2. ASSUME State(w) = saved, Sound(saved), saved.phase = "running"
      PROVE  Sound(t) /\ SameCalls(saved, t) /\ Grown(saved, t) /\ saved.intent = "none"
  BY <1>2, FailedEarlySound
<1>3. Save(w, t, FALSE, "failed") /\ Working(w)
  BY <1>1 DEF FailEarly
<1> HIDE DEF t
<1> QED
  BY <1>2, <1>3, EarlyWrites

LEMMA ResearchFileWrites ==
  ASSUME LoopInv, NEW w \in Workers, ResearchFile(w)
  PROVE  Writes(w)
<1>1. PICK u \in Researches(State(w), "deliverable", 2) : Save(w, Shortened(u), FALSE, "work")
  BY DEF ResearchFile
<1> DEFINE t == Shortened(u)
<1>2. ASSUME State(w) = saved, Sound(saved), saved.phase = "running"
      PROVE  Sound(t) /\ SameCalls(saved, t) /\ Grown(saved, t) /\ saved.intent = "none"
  BY <1>2, ShortenedSound
<1>3. Save(w, t, FALSE, "work") /\ Working(w)
  BY <1>1 DEF ResearchFile
<1> HIDE DEF t
<1> QED
  BY <1>2, <1>3, EarlyWrites

LEMMA AnswerUnaskedWrites ==
  ASSUME LoopInv, NEW w \in Workers, AnswerUnasked(w)
  PROVE  Writes(w)
<1>1. PICK u \in Entered(State(w)) : Save(w, Answered(u), FALSE, "finish")
  BY DEF AnswerUnasked
<1> DEFINE t == Answered(u)
<1>2. ASSUME State(w) = saved, Sound(saved), saved.phase = "running"
      PROVE  Sound(t) /\ SameCalls(saved, t) /\ Grown(saved, t) /\ t.answer
  BY <1>2, EnteredAnswers
<1>3. Save(w, t, FALSE, "finish") /\ Working(w)
  BY <1>1 DEF AnswerUnasked
<1> HIDE DEF t
<1> QED
  BY <1>2, <1>3, EarlyWrites

LEMMA ForGoodAppends ==
  ASSUME NEW s \in StateRows, NEW t \in ForGood(s)
  PROVE  t.receipts = Append(s.receipts, "failed")
BY DEF ForGood, WrapReceipt, Receipt, StateRows

LEMMA RefuseForGoodWrites ==
  ASSUME LoopInv, NEW w \in Workers, RefuseForGood(w)
  PROVE  Writes(w)
<1>1. PICK t \in ForGood(State(w)) : Save(w, t, FALSE, "work")
  BY RefuseForGoodSaves
<1>2. ASSUME Holds(w) PROVE Extends(w, t, "work")
  <2>1. /\ proc[w].at = "tool" /\ Sound(saved) /\ saved.phase = "running" /\ Pending(saved) /\ State(w) = saved
        /\ saved.intent \in {"tool", "publication"}
    BY <1>2, ToolFits DEF RefuseForGood, Holds
  <2>2. /\ Sound(t) /\ Grown(saved, t) /\ t.calls = saved.calls /\ Len(t.receipts) = Current(saved)
        /\ Current(saved) = Len(saved.receipts) + 1 /\ Len(saved.receipts) \in Nat
        /\ t.receipts = Append(saved.receipts, "failed")
    BY <1>1, <2>1, ForGoodSound, ForGoodAppends, Sorts
  <2>3. Remembers(saved, t) /\ Closes(saved, t) /\ Adds(w, t)
    BY <2>1, <2>2, Sorts DEF Remembers, Closes, Adds
  <2> QED
    BY <2>3, ExtendRest DEF Resting, Settled
<1> QED
  BY <1>1, <1>2, WritesSo

LEMMA ReplyWrites ==
  ASSUME LoopInv, SentInv, NEW w \in Workers, Reply(w)
  PROVE  Writes(w)
<1> DEFINE s == Heard(State(w))
<1>1. proc[w].at = "reply" /\ proc[w].at \in Thinking /\ proc[w].at \in InLoop
  BY DEF Reply, Thinking, InLoop
<1>2. ASSUME Holds(w)
      PROVE  /\ State(w) = saved /\ Sound(saved) /\ saved.phase = "running" /\ ~Pending(saved)
             /\ saved.intent = "model" /\ saved.turns < saved.steps /\ ~saved.answer
             /\ Len(saved.calls) \in Nat /\ Len(saved.receipts) \in Nat /\ saved.turns \in Nat
  <2>1. State(w) = saved /\ Sound(saved) /\ saved.phase = "running" /\ ~saved.answer
    BY <1>1, <1>2, HolderFits
  <2>2. Fits(proc[w])
    BY DEF LoopInv
  <2> QED
    BY <1>1, <2>1, <2>2, Sorts DEF Fits, Sound, State
<1>3. ASSUME Holds(w)
      PROVE  /\ Remembers(saved, s) /\ Sound(s) /\ s.intent = "none" /\ s.phase = "running"
             /\ s.receipts = saved.receipts /\ s.used = saved.used /\ s.steps = saved.steps /\ ~Pending(s)
  <2>1. /\ Sound(s) /\ Grown(saved, s) /\ s.intent = "none" /\ s.phase = "running" /\ s.used = saved.used
        /\ s.turns = saved.turns + 1 /\ s.calls = saved.calls /\ s.receipts = saved.receipts
        /\ s.steps = saved.steps
    BY <1>2, <1>3, HeardSound
  <2> HIDE DEF s
  <2>2. Remembers(saved, s)
    BY <1>2, <1>3, <2>1 DEF Remembers
  <2> QED
    BY <1>2, <1>3, <2>1, <2>2 DEF Pending, Current
<1>4. State(w) \in StateRows
  BY DEF LoopInv, Fits, ProcRows, State
<1>5. CASE Conclude(w)
  BY <1>1, <1>5, ConcludeWrites
<1>6. ASSUME NEW tools \in Replies, Len(State(w).calls) + Len(tools) <= MaxCalls,
             Save(w, Named(State(w), tools), FALSE, "work")
      PROVE  Writes(w)
  <2> DEFINE t == Named(State(w), tools)
  <2>1. ASSUME Holds(w) PROVE Extends(w, t, "work")
    <3>1. tools \in Seq(Tools) /\ Len(tools) \in Nat
      BY RunAssumption
    <3>2. /\ Sound(t) /\ Grown(saved, t) /\ t.receipts = saved.receipts
          /\ Len(t.calls) = Len(saved.calls) + Len(tools) /\ t.turns = saved.turns + 1
          /\ \A i \in 1..Len(saved.calls) : t.calls[i] = saved.calls[i]
      BY <1>2, <1>6, <2>1, <3>1, NamedSound
    <3> HIDE DEF t
    <3>3. Remembers(saved, t) /\ Closes(saved, t) /\ Adds(w, t)
      BY <1>2, <2>1, <3>1, <3>2 DEF Remembers, Closes, Adds
    <3> QED
      BY <3>3, ExtendRest DEF Resting, Settled
  <2> HIDE DEF t
  <2> QED
    BY <1>6, <2>1, WritesSo DEF t
<1> HIDE DEF s
<1>7. ASSUME NEW t, Marked(s, t), Save(w, t, FALSE, "work")
      PROVE  Writes(w)
  <2>1. ASSUME Holds(w) PROVE Extends(w, t, "work")
    <3>1. Sound(t) /\ SameCalls(s, t) /\ Grown(s, t)
      BY <1>3, <1>7, <2>1, MarkedSound
    <3>2. Remembers(saved, t)
      BY <1>2, <1>3, <2>1, <3>1, RemembersMore
    <3>3. Closes(saved, t) /\ Adds(w, t)
      BY <1>2, <1>3, <2>1, <3>1 DEF Closes, Adds, SameCalls
    <3> QED
      BY <3>2, <3>3, ExtendRest DEF Resting, Settled
  <2> QED
    BY <1>7, <2>1, WritesSo
<1>8. ASSUME NEW filed \in {s.filed, TRUE}, Affordable(s),
             Save(w, [IntendFile(s) EXCEPT !.filed = filed], TRUE, "fileAsk")
      PROVE  Writes(w)
  <2> DEFINE t == [IntendFile(s) EXCEPT !.filed = filed]
  <2>1. ASSUME Holds(w) PROVE Extends(w, t, "fileAsk")
    <3>1. /\ Sound(t) /\ SameCalls(s, t) /\ Grown(s, t) /\ t.intent = "wrapUp"
          /\ t.used = s.used + 1 /\ t.steps = s.steps + 1
      BY <1>3, <1>8, <2>1, FiledSound
    <3> HIDE DEF t
    <3>2. saved.steps < Budget /\ saved.steps \in Nat /\ saved.used \in Nat
      <4>1. saved.steps \in Nat /\ saved.used \in Nat /\ Budget \in Nat
        BY <1>2, <2>1, Sorts, RunAssumption
      <4>2. saved.steps <= saved.used /\ saved.used < Budget
        BY <1>2, <1>3, <1>8, <2>1 DEF Sound, Affordable
      <4> QED
        BY <4>1, <4>2
    <3>3. /\ t.used > saved.used /\ t.steps # 0
          /\ sent[<<"file", t.steps>>] = 0 /\ sent[<<"wrapUp", 0>>] = 0
      BY <1>2, <1>3, <2>1, <3>1, <3>2, Freshness
    <3>4. Remembers(saved, t)
      BY <1>2, <1>3, <2>1, <3>1, RemembersMore
    <3>5. Closes(saved, t) /\ Adds(w, t)
      BY <1>2, <1>3, <2>1, <3>1 DEF Closes, Adds, SameCalls
    <3> QED
      BY <3>3, <3>4, <3>5, ExtendAsk DEF Asking
  <2>2. Save(w, t, TRUE, "fileAsk")
    BY <1>8
  <2> HIDE DEF t
  <2> QED
    BY <2>1, <2>2, WritesSo
<1> QED
  BY <1>4, <1>5, <1>6, <1>7, <1>8, ReplyHeeded DEF Heeded, s

(* The one that asks for a file may close without another request.          *)
LEMMA Silent ==
  ASSUME LoopInv, SentInv, NEW w \in Workers, Holds(w), proc[w].at \in {"fileAsk", "fileReply"}
  PROVE  LET t == [State(w) EXCEPT !.intent = "none"] IN
         /\ Remembers(saved, t) /\ Closes(saved, t) /\ Adds(w, t) /\ SameCalls(saved, t) /\ ~Pending(t)
         /\ Sound(saved) /\ saved.phase = "running" /\ ~saved.answer /\ t.phase = "running"
         /\ t.used = saved.used /\ t.steps = saved.steps /\ sent[<<"wrapUp", 0>>] = 0 /\ Sound(t)
<1> DEFINE t == [State(w) EXCEPT !.intent = "none"]
<1>1. proc[w].at \in InLoop /\ proc[w].at # "done" /\ proc[w].at \in Wrapping
  BY DEF InLoop, Wrapping
<1>2. State(w) = saved /\ Sound(saved) /\ saved.phase = "running" /\ ~saved.answer
  BY <1>1, HolderFits
<1>3. Fits(proc[w]) /\ saved \in StateRows
  BY <1>2 DEF LoopInv, Sound
<1>4. saved.intent = "wrapUp" /\ ~Pending(saved)
  BY <1>1, <1>2, <1>3 DEF Fits, Sound, State
<1>5. Sound(t) /\ SameCalls(saved, t) /\ Grown(saved, t) /\ t.used = saved.used /\ t.phase = "running"
  BY <1>2, SilentSound
<1>6. t.steps = saved.steps
  BY <1>2, <1>3 DEF StateRows
<1>7. sent[<<"wrapUp", 0>>] = 0
  BY DEF SentInv, Unsent
<1> HIDE DEF t
<1>8. Remembers(saved, t) /\ Closes(saved, t) /\ Adds(w, t) /\ ~Pending(t)
  BY <1>2, <1>4, <1>5, <1>7, RememberSame, SameCallsSame DEF Closes, Adds, SameCalls
<1> QED
  BY <1>2, <1>5, <1>6, <1>7, <1>8 DEF t

LEMMA FileReplyWrites ==
  ASSUME LoopInv, SentInv, NEW w \in Workers, FileReply(w)
  PROVE  Writes(w)
<1> DEFINE s == [State(w) EXCEPT !.intent = "none"]
<1>1. proc[w].at = "fileReply"
  BY DEF FileReply
<1>2. ASSUME Holds(w)
      PROVE  /\ Remembers(saved, s) /\ Closes(saved, s) /\ Adds(w, s) /\ SameCalls(saved, s) /\ ~Pending(s)
             /\ Sound(saved) /\ saved.phase = "running" /\ ~saved.answer /\ s.phase = "running"
             /\ s.used = saved.used /\ s.steps = saved.steps /\ sent[<<"wrapUp", 0>>] = 0 /\ Sound(s)
  BY <1>1, <1>2, Silent
<1>3. \/ \E t : Marked(s, t) /\ Save(w, t, FALSE, "work")
      \/ Len(s.calls) < MaxCalls /\ Save(w, Named(s, <<"publish">>), FALSE, "work")
      \/ Affordable(s) /\ Save(w, IntendFile(s), TRUE, "fileAsk")
  BY DEF FileReply, Marked
<1>4. ASSUME Holds(w) PROVE saved.intent = "wrapUp" /\ saved.turns < saved.steps
  <2>1. Fits(proc[w]) /\ State(w) = saved /\ Sound(saved)
    BY <1>1, <1>4, HolderFits DEF LoopInv, InLoop, Wrapping
  <2> QED
    BY <1>1, <2>1 DEF Fits, State, Wrapping, Sound
<1> HIDE DEF s
<1>5. ASSUME Holds(w), NEW t, Remembers(saved, t), t.receipts = s.receipts
      PROVE  Remembers(saved, t) /\ Closes(saved, t) /\ Adds(w, t)
  BY <1>2, <1>5 DEF Closes, Adds, SameCalls
<1>6. ASSUME NEW t, Marked(s, t), Save(w, t, FALSE, "work")
      PROVE  Writes(w)
  <2>1. ASSUME Holds(w) PROVE Extends(w, t, "work")
    <3>1. Sound(t) /\ SameCalls(s, t) /\ Grown(s, t)
      BY <1>2, <1>6, <2>1, MarkedSound
    <3>2. Remembers(saved, t)
      BY <1>2, <1>4, <2>1, <3>1, RemembersMore
    <3>3. Remembers(saved, t) /\ Closes(saved, t) /\ Adds(w, t)
      BY <1>5, <2>1, <3>1, <3>2 DEF SameCalls
    <3> QED
      BY <3>3, ExtendRest DEF Resting, Settled
  <2> QED
    BY <1>6, <2>1, WritesSo
<1>7. CASE Len(s.calls) < MaxCalls /\ Save(w, Named(s, <<"publish">>), FALSE, "work")
  <2> DEFINE t == Named(s, <<"publish">>)
  <2>1. ASSUME Holds(w) PROVE Extends(w, t, "work")
    <3>1. <<"publish">> \in Seq(Tools) /\ Len(<<"publish">>) = 1
      BY DEF Tools
    <3>2. Len(s.calls) + 1 <= MaxCalls /\ Len(s.calls) \in Nat /\ Len(s.receipts) \in Nat
      BY <1>2, <1>7, <2>1, Sorts, CallsAssumption
    <3>3. s.turns < s.steps
      BY <1>2, <1>4, <2>1 DEF SameCalls
    <3>4. /\ Sound(t) /\ Grown(s, t) /\ t.receipts = s.receipts /\ Len(t.calls) = Len(s.calls) + 1
          /\ \A i \in 1..Len(s.calls) : t.calls[i] = s.calls[i]
      BY <1>2, <2>1, <3>1, <3>2, <3>3, NamedSound
    <3> HIDE DEF t
    <3>5. Grown(saved, t)
      <4>1. Current(s) = Current(saved) /\ Current(t) = Current(s) /\ Current(s) \in Nat
        BY <1>2, <2>1, <3>4, SameCallsSame, Sorts DEF Current
      <4>2. Grown(saved, s)
        BY <1>2, <2>1 DEF Remembers
      <4>3. /\ s.used \in Nat /\ s.steps \in Nat /\ s.attempts \in Nat /\ s.turns \in Nat
            /\ t.used \in Nat /\ t.steps \in Nat /\ t.attempts \in Nat /\ t.turns \in Nat
            /\ saved.used \in Nat /\ saved.steps \in Nat /\ saved.attempts \in Nat /\ saved.turns \in Nat
        BY <1>2, <2>1, <3>4, Sorts
      <4>4. (saved.wrap => t.wrap) /\ (saved.answer => t.answer)
        BY <3>4, <4>2, Zenon DEF Grown
      <4>5. /\ t.used >= s.used /\ t.steps >= s.steps /\ t.turns >= s.turns
            /\ t.attempts >= s.attempts \/ Current(t) = Current(s) + 1
        BY <3>4, Zenon DEF Grown
      <4>6. /\ s.used >= saved.used /\ s.steps >= saved.steps /\ s.turns >= saved.turns
            /\ s.attempts >= saved.attempts \/ Current(s) = Current(saved) + 1
        BY <4>2, Zenon DEF Grown
      <4>7. /\ t.used >= saved.used /\ t.steps >= saved.steps /\ t.turns >= saved.turns
            /\ t.attempts >= saved.attempts
        BY <4>1, <4>3, <4>5, <4>6
      <4> QED
        BY <4>4, <4>7, Zenon DEF Grown
    <3>6. Remembers(saved, t)
      BY <1>2, <1>4, <2>1, <3>2, <3>4, <3>5 DEF Remembers, SameCalls
    <3>7. Remembers(saved, t) /\ Closes(saved, t) /\ Adds(w, t)
      BY <1>5, <2>1, <3>4, <3>6
    <3> QED
      BY <3>7, ExtendRest DEF Resting, Settled
  <2> HIDE DEF t
  <2> QED
    BY <1>7, <2>1, WritesSo DEF t
<1>8. CASE Affordable(s) /\ Save(w, IntendFile(s), TRUE, "fileAsk")
  <2> DEFINE t == IntendFile(s)
  <2>1. ASSUME Holds(w) PROVE Extends(w, t, "fileAsk")
    <3>1. /\ Sound(t) /\ SameCalls(s, t) /\ Grown(s, t) /\ t.used = s.used + 1 /\ t.steps = s.steps + 1
          /\ t.intent = "wrapUp"
      BY <1>2, <1>8, <2>1, IntendFileSound
    <3> HIDE DEF t
    <3>2. saved.steps < Budget /\ saved.steps \in Nat /\ saved.used \in Nat
      BY <1>2, <1>8, <2>1, Sorts, RunAssumption DEF Sound, Affordable
    <3>3. /\ t.used > saved.used /\ t.steps # 0
          /\ sent[<<"file", t.steps>>] = 0 /\ sent[<<"wrapUp", 0>>] = 0
      BY <1>2, <2>1, <3>1, <3>2, Freshness
    <3>4. Remembers(saved, t)
      BY <1>2, <1>4, <2>1, <3>1, RemembersMore
    <3>5. Remembers(saved, t) /\ Closes(saved, t) /\ Adds(w, t)
      BY <1>5, <2>1, <3>1, <3>4 DEF SameCalls
    <3> QED
      BY <3>3, <3>5, ExtendAsk DEF Asking
  <2> HIDE DEF t
  <2> QED
    BY <1>8, <2>1, WritesSo DEF t
<1> QED
  BY <1>3, <1>6, <1>7, <1>8

LEMMA TooLateWrites ==
  ASSUME LoopInv, SentInv, NEW w \in Workers, TooLate(w)
  PROVE  Writes(w) \/ (Go(w, "fail") /\ saved' = saved)
<1>1. CASE proc[w].at = "ask" /\ Go(w, "fail") /\ Local
  BY <1>1 DEF Local
<1>2. CASE proc[w].at = "wrapAsk" /\ Conclude(w)
  BY <1>2, ConcludeWrites DEF Wrapping
<1>3. CASE proc[w].at = "fileAsk" /\ Save(w, [State(w) EXCEPT !.intent = "none"], FALSE, "work")
  <2> DEFINE s == [State(w) EXCEPT !.intent = "none"]
  <2>1. ASSUME Holds(w) PROVE Extends(w, s, "work")
    <3>1. Remembers(saved, s) /\ Closes(saved, s) /\ Adds(w, s)
      BY <1>3, <2>1, Silent
    <3> QED
      BY <3>1, ExtendRest DEF Resting, Settled
  <2>2. Save(w, s, FALSE, "work")
    BY <1>3
  <2> HIDE DEF s
  <2> QED
    BY <2>1, <2>2, WritesSo
<1> QED
  BY <1>1, <1>2, <1>3 DEF TooLate

LEMMA StartToolWrites ==
  ASSUME LoopInv, SentInv, HostInv, NEW w \in Workers, StartTool(w)
  PROVE  Writes(w)
<1> DEFINE t == IntendTool(State(w))
<1>1. ASSUME Holds(w) PROVE Extends(w, t, "tool")
  <2>1. proc[w].at = "work" /\ proc[w].at \in InLoop /\ proc[w] \in ProcRows
    BY DEF StartTool, Working, InLoop, LoopInv
  <2>2. /\ State(w) = saved /\ Sound(saved) /\ saved.phase = "running" /\ ~saved.answer
        /\ saved.intent \in {"none", "wrapUp", "publication"}
    BY <1>1, <2>1, HolderFits
  <2>3. Pending(saved) /\ saved.intent # "wrapUp" /\ Current(saved) \in Calls
    BY <2>2, Sorts DEF StartTool, Sound
  <2>4. Sound(t) /\ SameCalls(saved, t) /\ Grown(saved, t)
    BY <2>2, <2>3, IntendToolSound
  <2> HIDE DEF t
  <2>5. Remembers(saved, t) /\ Closes(saved, t) /\ Adds(w, t)
    BY <2>2, <2>3, <2>4, RememberSame DEF Closes, Adds, SameCalls
  <2>6. Current(t) = Current(saved) /\ Current(saved) \in Nat
    BY <2>2, <2>4, SameCallsSame, Sorts
  <2>7. sent[<<"search", Current(t)>>] = 0
    BY <2>2, <2>3, <2>6, Freshness
  <2>8. row[Current(t)].phase # "done"
    <3>1. ~Reached(saved, Current(saved))
      BY <2>2, <2>6 DEF Reached
    <3>2. row[Current(saved)].phase = "none"
      BY <2>3, <3>1 DEF HostInv, RowsInv, RowFits
    <3> QED
      BY <2>6, <3>2
  <2>9. Kept(w, t, "tool").at = "tool" /\ Kept(w, t, "tool").state = t
    BY <2>1, <2>4, KeptRow DEF Sound, Locations
  <2>10. Unsent(sent, t.steps, Kept(w, t, "tool"))
    BY <2>7, <2>9 DEF Unsent
  <2>11. "tool" \notin Computing /\ "tool" \notin Owing /\ "tool" \notin Settled
    BY DEF Computing, InComputer, Owing, Asking, Settled
  <2> QED
    BY <2>5, <2>8, <2>10, <2>11 DEF Extends
<1>2. Save(w, t, TRUE, "tool")
  BY DEF StartTool
<1> HIDE DEF t
<1> QED
  BY <1>1, <1>2, WritesSo

LEMMA FinishToolWrites ==
  ASSUME LoopInv, NEW w \in Workers, FinishTool(w)
  PROVE  Writes(w)
<1> DEFINE p == proc[w] t == Receipt(p.state, p.got)
<1>1. ASSUME Holds(w) PROVE Extends(w, t, "work")
  <2>1. p.at = "done" /\ p.at \in InLoop /\ p.at \in Following
    BY DEF FinishTool, InLoop, Following
  <2>2. Fits(p) /\ Fresh(w) /\ Sound(saved)
    BY DEF LoopInv
  <2>3. Sound(p.state) /\ Pending(p.state) /\ p.got \in Verdicts /\ p.state.phase = "running" /\ Alike(saved, p)
    BY <1>1, <2>1, <2>2 DEF Fits, Fresh, Holds
  <2>4. saved \in StateRows
    BY <2>2 DEF Sound
  <2>5. /\ SameCalls(saved, p.state) /\ p.state.used = saved.used /\ p.state.steps = saved.steps
        /\ p.state.wrap = saved.wrap /\ p.state.answer = saved.answer /\ p.state.attempts = saved.attempts
        /\ p.state.intent = saved.intent
    <3>1. CASE p.state = saved
      BY <3>1 DEF SameCalls
    <3>2. CASE p.state = [saved EXCEPT !.fallback = TRUE]
      BY <2>4, <3>2 DEF SameCalls, StateRows
    <3> QED
      BY <2>3, <3>1, <3>2 DEF Alike
  <2>6. p.state.intent \in {"none", "tool", "publication"} /\ p.at = "done"
    BY <2>1, <2>2 DEF Fits
  <2> HIDE DEF p
  <2>7. /\ Sound(t) /\ Grown(p.state, t) /\ t.calls = p.state.calls
        /\ t.receipts = Append(p.state.receipts, p.got) /\ Len(t.receipts) = Current(p.state)
        /\ Current(p.state) = Len(p.state.receipts) + 1 /\ Current(t) = Current(p.state) + 1
    <3>1. /\ Sound(t) /\ Grown(p.state, t) /\ t.calls = p.state.calls /\ Len(t.receipts) = Current(p.state)
          /\ Current(t) = Current(p.state) + 1
      BY <2>3, ReceiptSound
    <3>2. t.receipts = Append(p.state.receipts, p.got)
      BY <2>3 DEF Receipt, Sound, StateRows
    <3> QED
      BY <3>1, <3>2 DEF Current
  <2> HIDE DEF t
  <2>8. Grown(saved, t)
    <3>1. Current(p.state) = Current(saved)
      BY <2>5, SameCallsSame
    <3>2. (saved.wrap => t.wrap) /\ (saved.answer => t.answer)
      BY <2>5, <2>7, Zenon DEF Grown
    <3>3. p.state.turns = saved.turns
      BY <2>5 DEF SameCalls
    <3> QED
      BY <2>5, <2>7, <3>1, <3>2, <3>3 DEF Grown
  <2>9. Remembers(saved, t) /\ Closes(saved, t)
    BY <2>2, <2>5, <2>6, <2>7, <2>8, Sorts DEF Remembers, Closes, SameCalls
  <2>10. Adds(w, t)
    BY <2>1, <2>5, <2>7 DEF Adds, SameCalls, p
  <2> QED
    BY <2>9, <2>10, ExtendRest DEF Resting, Settled
<1>2. Save(w, t, FALSE, "work")
  BY DEF FinishTool, State
<1> HIDE DEF t
<1> QED
  BY <1>1, <1>2, WritesSo

LEMMA ReserveSearchWrites ==
  ASSUME LoopInv, SentInv, HostInv, NEW w \in Workers, ReserveSearch(w)
  PROVE  Writes(w)
<1> DEFINE t == [Reserve(State(w)) EXCEPT !.searches = @ + 1]
<1>1. ASSUME Holds(w) PROVE Extends(w, t, "search")
  <2>1. /\ State(w) = saved /\ Sound(saved) /\ saved.phase = "running" /\ saved.intent = "tool"
        /\ Affordable(saved) /\ saved.searches < MaxSearches /\ Tool(saved) = "search"
        /\ proc[w].at = "tool" /\ proc[w] \in ProcRows
    BY <1>1, ToolFits DEF ReserveSearch, Holds, LoopInv
  <2>2. Sound(t) /\ SameCalls(saved, t) /\ Grown(saved, t) /\ t.intent = "tool" /\ t.used = saved.used + 1
    BY <2>1, SearchSound
  <2> HIDE DEF t
  <2>3. Remembers(saved, t) /\ Closes(saved, t) /\ Adds(w, t)
    BY <2>1, <2>2, RememberSame DEF Closes, Adds, SameCalls
  <2>4. Current(t) = Current(saved) /\ t.used > saved.used
    BY <2>1, <2>2, SameCallsSame, Sorts
  <2>5. sent[<<"search", Current(t)>>] = 0
    <3>1. Unsent(sent, saved.steps, proc[w])
      BY DEF SentInv
    <3> QED
      BY <2>1, <2>4, <3>1 DEF Unsent, State
  <2>6. row[Current(t)].phase # "done"
    <3>1. Stands(row, container, sent, proc[w]) /\ Using(proc[w])
      BY <2>1 DEF HostInv, StandInv, Using, InTool, State
    <3> QED
      BY <2>1, <2>4, <3>1 DEF Stands, State
  <2>7. Kept(w, t, "search").at = "search" /\ Kept(w, t, "search").state = t
    BY <2>1, <2>2, KeptRow DEF Sound, Locations
  <2>8. Unsent(sent, t.steps, Kept(w, t, "search"))
    BY <2>5, <2>7 DEF Unsent
  <2>9. "search" \notin Computing /\ "search" \notin Settled
    BY DEF Computing, InComputer, Settled
  <2> QED
    BY <2>3, <2>4, <2>6, <2>8, <2>9 DEF Extends
<1>2. Save(w, t, TRUE, "search")
  BY DEF ReserveSearch
<1> HIDE DEF t
<1> QED
  BY <1>1, <1>2, WritesSo

LEMMA AttemptPublicationWrites ==
  ASSUME LoopInv, NEW w \in Workers, AttemptPublication(w)
  PROVE  Writes(w)
<1> DEFINE t == Attempt(State(w))
<1>1. ASSUME Holds(w) PROVE Extends(w, t, "upload") /\ t.attempts > saved.attempts
  <2>1. /\ State(w) = saved /\ Sound(saved) /\ saved.phase = "running" /\ saved.intent = "publication"
        /\ saved.attempts < MaxAttempts /\ proc[w] \in ProcRows
    BY <1>1, ToolFits DEF AttemptPublication, Holds, LoopInv
  <2>2. /\ Sound(t) /\ SameCalls(saved, t) /\ Grown(saved, t) /\ t.intent = "publication"
        /\ t.attempts = saved.attempts + 1
    BY <2>1, AttemptSound
  <2> HIDE DEF t
  <2>3. Remembers(saved, t) /\ Closes(saved, t) /\ Adds(w, t)
    BY <2>1, <2>2, RememberSame DEF Closes, Adds, SameCalls
  <2>4. t.attempts > saved.attempts
    BY <2>1, <2>2, Sorts
  <2>7. Kept(w, t, "upload").at = "upload"
    BY <2>1, <2>2, KeptRow DEF Sound, Locations
  <2>8. Unsent(sent, t.steps, Kept(w, t, "upload"))
    BY <2>7 DEF Unsent
  <2>9. "upload" \notin Computing /\ "upload" \notin Settled /\ "upload" \notin Owing /\ "upload" \notin InTool
    BY DEF Computing, InComputer, Settled, Owing, Asking, InTool
  <2> QED
    BY <2>3, <2>4, <2>8, <2>9 DEF Extends
<1>2. Save(w, t, TRUE, "upload")
  BY DEF AttemptPublication
<1> HIDE DEF t
<1> QED
  BY <1>1, <1>2, WritesSo

LEMMA PlainGone ==
  ASSUME NEW w \in Workers, NEW at \in Locations \ Following, Abandon(w, at), saved' = saved
  PROVE  Plain(w)
<1> DEFINE q == Gone(at)
<1>1. q.at = at /\ proc' = [proc EXCEPT ![w] = q]
  BY GoneFits DEF Abandon, Gone
<1>2. at \notin Before
  BY DEF Before, Following, InLoop, InTool, Thinking, Wrapping
<1> HIDE DEF q
<1> QED
  BY <1>1, <1>2 DEF Plain

LEMMA PlainPut ==
  ASSUME LoopInv, NEW w \in Workers, NEW at \in Locations \ Before, NEW got \in Results,
         Go(w, at) \/ Turn(w, at) \/ Gets(w, got, at), saved' = saved
  PROVE  Plain(w)
<1>1. PICK g \in Results, removed \in Removals : proc' = [proc EXCEPT ![w] = Put(proc[w], at, g, removed)]
  BY PutSteps
<1> DEFINE q == Put(proc[w], at, g, removed)
<1>2. q.at = at
  BY PutRow, PutSteps
<1> HIDE DEF q
<1> QED
  BY <1>1, <1>2 DEF Plain, q

(* The upload leaves the worker when the worker leaves that place.          *)
Uploads(w) ==
  /\ saved' = saved
  /\ \/ \E result \in Verdicts : Gets(w, result, "done")
     \/ \E at \in {"resign", "interrupted"} : Abandon(w, at)
LEMMA UploadsPlain ==
  ASSUME LoopInv, NEW w \in Workers, Uploads(w)
  PROVE  Plain(w)
<1>1. "done" \in Locations \ Before /\ Verdicts \subseteq Results
  BY DEF Locations, Before, Verdicts, Results
<1> QED
  BY <1>1, Leaving, PlainGone, PlainPut DEF Uploads

LEMMA UploadWrites ==
  ASSUME LoopInv, NEW w \in Workers, Upload(w)
  PROVE  /\ Send(<<"publish", Call(w)>>) \/ Alone
         /\ \/ Uploads(w)
            \/ Save(w, State(w), FALSE, "tool") /\ (Holds(w) => Extends(w, State(w), "tool"))
<1>0. proc[w].at = "upload"
  BY DEF Upload
<1>1. ASSUME NEW result \in {"ok", "failed"}, Gets(w, result, "done"), Local
      PROVE  Uploads(w)
  BY <1>1 DEF Local, Uploads, Verdicts
<1>2. ASSUME Save(w, State(w), FALSE, "tool")
      PROVE  Save(w, State(w), FALSE, "tool") /\ (Holds(w) => Extends(w, State(w), "tool"))
  <2>1. ASSUME Holds(w) PROVE Extends(w, State(w), "tool")
    <3>1. Sound(State(w)) /\ Fits(proc[w]) /\ State(w) = saved /\ proc[w] \in ProcRows
      BY <1>0, <2>1, ToolFits DEF Holds, LoopInv
    <3>2. saved.intent = "publication" /\ Tool(saved) = "publish"
      BY <1>0, <3>1, ToolFits DEF Fits, State
    <3>3. SameCalls(saved, saved) /\ Grown(saved, saved)
      BY <3>1, Sorts DEF SameCalls, Grown
    <3>4. Remembers(saved, saved) /\ Closes(saved, saved) /\ Adds(w, saved)
      BY <3>1, <3>2, <3>3, RememberSame DEF Closes, Adds
    <3>5. Kept(w, saved, "tool").at = "tool" /\ Kept(w, saved, "tool").state = saved
      BY <3>1, KeptRow DEF Sound, Locations
    <3>6. Unsent(sent, saved.steps, Kept(w, saved, "tool"))
      BY <3>2, <3>5 DEF Unsent
    <3>7. "tool" \notin Computing /\ "tool" \notin Owing /\ "tool" \notin Settled
      BY DEF Computing, InComputer, Owing, Asking, Settled
    <3> QED
      BY <3>1, <3>2, <3>4, <3>6, <3>7 DEF Extends
  <2> QED
    BY <1>2, <2>1
<1>3. ASSUME Abandon(w, "resign"), Local PROVE Uploads(w)
  BY <1>3 DEF Local, Uploads
<1>4. ASSUME ~Accepts(w, TRUE), Save(w, State(w), TRUE, "upload") PROVE Uploads(w)
  BY <1>4 DEF Save, Uploads
<1>5. Send(<<"publish", Call(w)>>) \/ Alone
  BY DEF Upload, Call
<1> QED
  BY <1>1, <1>2, <1>3, <1>4, <1>5 DEF Upload

LEMMA SaveFailedWrites ==
  ASSUME LoopInv, NEW w \in Workers, SaveFailed(w)
  PROVE  Writes(w) \/ (Abandon(w, "failed") /\ saved' = saved)
<1> DEFINE t == [State(w) EXCEPT !.phase = "failed"]
<1>1. proc[w].at = "saveFailed" /\ proc[w].at \in Following /\ proc[w].at # "done"
  BY DEF SaveFailed, Following, Failing
<1>2. Sound(State(w))
  BY <1>1 DEF LoopInv, Fits, State
<1>3. lease = w => State(w) = saved
  BY <1>1, HolderState DEF State
<1>4. CASE State(w).phase \in Over /\ Abandon(w, "failed") /\ Local
  BY <1>4 DEF Local
<1>5. CASE Save(w, t, FALSE, "failed")
  <2>1. ASSUME Holds(w) PROVE Extends(w, t, "failed")
    <3>1. Sound(t) /\ SameCalls(State(w), t) /\ Grown(State(w), t) /\ t.intent = State(w).intent
      BY <1>2, EndedSound DEF Over
    <3> HIDE DEF t
    <3>2. Remembers(saved, t) /\ Closes(saved, t) /\ Adds(w, t)
      BY <1>2, <1>3, <2>1, <3>1, RememberSame DEF Holds, Closes, Adds, SameCalls
    <3> QED
      BY <3>2, ExtendRest DEF Resting, Settled
  <2> HIDE DEF t
  <2> QED
    BY <1>5, <2>1, WritesSo
<1> HIDE DEF t
<1> QED
  BY <1>4, <1>5 DEF SaveFailed, t

LEMMA SaveFinishedWrites ==
  ASSUME LoopInv, NEW w \in Workers, SaveFinished(w)
  PROVE  Writes(w)
<1> DEFINE t == [State(w) EXCEPT !.phase = "finished"]
<1>1. proc[w].at = "saveFinished" /\ proc[w].at \in Following /\ proc[w].at # "done" /\ proc[w].at \in Finishing
  BY DEF SaveFinished, Following, Finishing
<1>2. Sound(State(w)) /\ State(w).answer
  <2>1. Sound(State(w)) /\ State(w).phase \in {"finishing", "finished"}
    BY <1>1 DEF LoopInv, Fits, State
  <2> QED
    BY <2>1 DEF Sound
<1>3. lease = w => State(w) = saved
  BY <1>1, HolderState DEF State
<1>5. Save(w, t, FALSE, "tellComplete")
  BY DEF SaveFinished
<1>6. ASSUME Holds(w) PROVE Extends(w, t, "tellComplete")
  <2>1. Sound(t) /\ SameCalls(State(w), t) /\ Grown(State(w), t) /\ t.intent = State(w).intent
    BY <1>2, EndedSound DEF Over
  <2> HIDE DEF t
  <2>2. Remembers(saved, t) /\ Closes(saved, t) /\ Adds(w, t)
    BY <1>2, <1>3, <1>6, <2>1, RememberSame DEF Holds, Closes, Adds, SameCalls
  <2> QED
    BY <1>1, <2>2, ExtendRest DEF Resting, Settled
<1> HIDE DEF t
<1> QED
  BY <1>5, <1>6, WritesSo

LEMMA SaveCancelledWrites ==
  ASSUME LoopInv, NEW w \in Workers, SaveCancelled(w)
  PROVE  Writes(w) \/ (Go(w, "tellCancelled") /\ proc[w].at = "saveCancelled" /\ saved' = saved)
<1> DEFINE t == [saved EXCEPT !.phase = "cancelled"]
<1>2. Sound(saved) /\ proc[w].at = "saveCancelled"
  BY DEF LoopInv, SaveCancelled
<1>4. CASE saved.phase \in Over /\ Go(w, "tellCancelled") /\ Local
  BY <1>2, <1>4 DEF Local
<1>5. CASE Save(w, t, FALSE, "tellCancelled")
  <2>1. ASSUME Holds(w) PROVE Extends(w, t, "tellCancelled")
    <3>1. Sound(t) /\ SameCalls(saved, t) /\ Grown(saved, t) /\ t.intent = saved.intent
      BY <1>2, EndedSound DEF Over
    <3> HIDE DEF t
    <3>2. Remembers(saved, t) /\ Closes(saved, t) /\ Adds(w, t)
      BY <1>2, <3>1, RememberSame DEF Closes, Adds, SameCalls
    <3> QED
      BY <1>2, <3>2, ExtendRest DEF Resting, Settled
  <2> HIDE DEF t
  <2> QED
    BY <1>5, <2>1, WritesSo
<1> HIDE DEF t
<1> QED
  BY <1>4, <1>5 DEF SaveCancelled, t

------------------------------------------------------------------------------
(* The steps that neither save nor get a worker to the place of a request.  *)
LEMMA Places2 ==
  /\ {"fail", "done", "reply", "wrapReply", "create", "creating", "start", "program", "ran", "discard", "commit",
      "saveFailed", "saveFinished", "load", "cancelRun"} \subseteq Locations \ Before
  /\ Cleaning \subseteq Locations \ Before
  /\ Verdicts \subseteq Results /\ {"ok", "failed"} \subseteq Results
BY DEF Locations, Before, Cleaning, Ending, Answering, InComputer, Verdicts, Results

LEMMA PlainGo ==
  ASSUME LoopInv, NEW w \in Workers, NEW at \in Locations \ Before, Go(w, at) \/ Turn(w, at), saved' = saved
  PROVE  Plain(w)
BY PlainPut, PutSteps DEF LoopInv

LEMMA PlainSteps ==
  ASSUME LoopInv, HostInv, NEW w \in Workers,
         \/ Take(w) \/ CannotAfford(w) \/ ReplyFails(w) \/ Refuse(w) \/ UseReceipt(w) \/ GiveUpFile(w) \/ ToolFails(w)
         \/ AdmitCall(w) \/ Create(w) \/ CreateAnswer(w) \/ ProgramEnds(w) \/ ExecutorFails(w)
         \/ RemoveContainer(w) \/ Commit(w) \/ RemoveLeftover(w) \/ Confirm(w) \/ CannotConfirm(w)
         \/ Tell(w) \/ Interrupt(w) \/ ComputerTimesOut(w) \/ Crash(w)
  PROVE  Plain(w) /\ sent' = sent
<1>1. CASE Take(w)
  BY <1>1, Places2, PlainGo DEF Take, Alone
<1>2. CASE CannotAfford(w)
  BY <1>2, Places2, PlainGo DEF CannotAfford, Local, Alone
<1>3. CASE ReplyFails(w)
  BY <1>3, Places2, PlainGo DEF ReplyFails, Local, Alone
<1>4. CASE Refuse(w)
  BY <1>4, Places2, PlainPut DEF Refuse, Local, Alone
<1>5. CASE UseReceipt(w)
  <2>1. row[Call(w)].result \in Results
    BY <1>5, Receipted, Places2 DEF UseReceipt
  <2> QED
    BY <1>5, <2>1, Places2, PlainPut DEF UseReceipt, Local, Alone, Call
<1>6. CASE GiveUpFile(w)
  <2> DEFINE s == [proc[w].state EXCEPT !.fallback = TRUE]
             q == [proc[w] EXCEPT !.state = s, !.got = "failed", !.at = "done"]
  <2>1. proc[w] \in ProcRows
    BY DEF LoopInv
  <2>2. proc' = [proc EXCEPT ![w] = q] /\ q.at = "done"
    BY <1>6, <2>1 DEF GiveUpFile, ProcRows
  <2> HIDE DEF q
  <2> QED
    <3>1. "done" \notin Before
      BY DEF Before
    <3>2. saved' = saved /\ sent' = sent
      BY <1>6 DEF GiveUpFile, Local, Alone
    <3> QED
      BY <2>2, <3>1, <3>2, Zenon DEF Plain
<1>7. CASE ToolFails(w)
  BY <1>7, Places2, PlainGo DEF ToolFails, Local, Alone
<1>8. CASE AdmitCall(w)
  <2>1. CASE Go(w, "create")
    BY <1>8, <2>1, Places2, PlainGo DEF AdmitCall, Local
  <2>2. CASE Abandon(w, "resign")
    BY <1>8, <2>2, Leaving, PlainGone DEF AdmitCall, Local
  <2> QED
    BY <1>8, <2>1, <2>2 DEF AdmitCall
<1>9. CASE Create(w)
  BY <1>9, Places2, PlainGo DEF Create, Local, Quiet
<1>10. CASE CreateAnswer(w)
  <2>1. CASE Go(w, "start")
    BY <1>10, <2>1, Places2, PlainGo DEF CreateAnswer, Local, Quiet
  <2>2. CASE Abandon(w, "resign")
    BY <1>10, <2>2, Leaving, PlainGone DEF CreateAnswer, Local, Quiet
  <2>3. CASE Gets(w, "failed", "discard")
    BY <1>10, <2>3, Places2, PlainPut DEF CreateAnswer, Local, Quiet
  <2> QED
    BY <1>10, <2>1, <2>2, <2>3 DEF CreateAnswer
<1>11. CASE ProgramEnds(w)
  <2>1. PICK result \in {"ok", "failed"} : Gets(w, result, "ran")
    BY <1>11 DEF ProgramEnds
  <2> QED
    BY <1>11, <2>1, Places2, PlainPut DEF ProgramEnds, Local, Alone
<1>12. CASE ExecutorFails(w)
  BY <1>12, Places2, PlainPut DEF ExecutorFails, Local, Alone
<1>13. CASE RemoveContainer(w)
  BY <1>13, Places2, PlainGo DEF RemoveContainer, Local, Quiet
<1>14. CASE Commit(w)
  <2>1. CASE Go(w, "done")
    BY <1>14, <2>1, Places2, PlainGo DEF Commit, Local, Quiet
  <2>2. CASE Abandon(w, "resign")
    BY <1>14, <2>2, Leaving, PlainGone DEF Commit, Local, Quiet
  <2>3. CASE Gets(w, "failed", "discard")
    BY <1>14, <2>3, Places2, PlainPut DEF Commit, Local, Quiet
  <2> QED
    BY <1>14, <2>1, <2>2, <2>3 DEF Commit
<1>15. CASE RemoveLeftover(w)
  <2>1. PICK c : proc' = [proc EXCEPT ![w].removed = c]
    BY <1>15 DEF RemoveLeftover
  <2>2. proc[w] \in ProcRows /\ proc[w].at \in Cleaning
    BY <1>15 DEF LoopInv, RemoveLeftover
  <2> DEFINE q == [proc[w] EXCEPT !.removed = c]
  <2>3. proc' = [proc EXCEPT ![w] = q] /\ q.at = proc[w].at
    BY <2>1, <2>2 DEF ProcRows
  <2> HIDE DEF q
  <2> QED
    BY <1>15, <2>2, <2>3, Places2 DEF Plain, RemoveLeftover, Local, Quiet
<1>16. CASE Confirm(w)
  <2>1. saved' = saved /\ sent' = sent /\ proc[w].at \in Cleaning
    BY <1>16 DEF Confirm, Local, Quiet
  <2>2. \/ \E at \in {"done", "saveFailed", "saveFinished"} : Turn(w, at)
        \/ \E at \in {"tellFailed", "cancelRun", "saveCancelled", "out"} : Abandon(w, at)
    BY <1>16, <2>1 DEF Confirm, Cleaning, After
  <2> QED
    BY <2>1, <2>2, Places2, Leaving, PlainGo, PlainGone
<1>17. CASE CannotConfirm(w)
  <2>1. Abandon(w, "resign") \/ Abandon(w, "out")
    BY <1>17 DEF CannotConfirm, Leave
  <2> QED
    BY <1>17, <2>1, Leaving, PlainGone DEF CannotConfirm, Local, Alone
<1>18. CASE Tell(w)
  <2>1. Abandon(w, "cancelRun") \/ Abandon(w, "out")
    BY <1>18 DEF Tell, Leave
  <2> QED
    BY <1>18, <2>1, Leaving, PlainGone DEF Tell, Alone
<1>19. CASE Interrupt(w)
  <2>1. Abandon(w, "interrupted") \/ Abandon(w, "resign")
    BY <1>19 DEF Interrupt
  <2> QED
    BY <1>19, <2>1, Leaving, PlainGone DEF Interrupt, Local, Alone
<1>20. CASE ComputerTimesOut(w)
  BY <1>20, Places2, PlainGo DEF ComputerTimesOut, Local, Alone
<1>21. CASE Crash(w)
  BY <1>21, Leaving, PlainGone DEF Crash, Leave, Local, Alone
<1> QED
  BY <1>1, <1>2, <1>3, <1>4, <1>5, <1>6, <1>7, <1>8, <1>9, <1>10, <1>11, <1>12, <1>13, <1>14, <1>15, <1>16,
     <1>17, <1>18, <1>19, <1>20, <1>21

------------------------------------------------------------------------------
(* The requests that were sent are recorded, once, and were reserved.       *)

LEMMA PaidFinite == IsFiniteSet(Paid)
<1>1. MaxCalls \in Nat /\ Budget \in Nat
  BY CallsAssumption, RunAssumption
<1> DEFINE A == {"model"} \X (0..Budget)
           B == {"file"} \X (1..Budget)
           C == {"search"} \X (1..MaxCalls)
           D == {<<"wrapUp", 0>>}
<1>0. /\ IsFiniteSet(0..Budget) /\ IsFiniteSet(1..MaxCalls) /\ IsFiniteSet(1..Budget)
      /\ IsFiniteSet({"model"}) /\ IsFiniteSet({"file"}) /\ IsFiniteSet({"search"})
  <2>1. 0 \in Int /\ 1 \in Int /\ MaxCalls \in Int /\ Budget \in Int
    BY <1>1
  <2>2. IsFiniteSet({"model"}) /\ IsFiniteSet({"file"}) /\ IsFiniteSet({"search"})
    BY FS_Singleton, Zenon
  <2>3. IsFiniteSet(0..Budget) /\ IsFiniteSet(1..MaxCalls) /\ IsFiniteSet(1..Budget)
    BY <2>1, FS_Interval, Zenon
  <2> QED
    BY <2>2, <2>3
<1>2. IsFiniteSet(A)
  BY <1>0, FS_Product, Zenon
<1>3. IsFiniteSet(B)
  BY <1>0, FS_Product, Zenon
<1>4. IsFiniteSet(C)
  BY <1>0, FS_Product, Zenon
<1>5. IsFiniteSet(D)
  BY FS_Singleton
<1>6. Paid \subseteq (A \cup B) \cup (C \cup D)
  BY DEF Paid, Requests, Calls
<1> HIDE DEF A, B, C, D
<1>7. IsFiniteSet((A \cup B) \cup (C \cup D))
  BY <1>2, <1>3, <1>4, <1>5, FS_Union
<1> QED
  BY <1>6, <1>7, FS_Subset

LEMMA RecordedStill ==
  ASSUME Sound(saved), NEW t, Remembers(saved, t), Closes(saved, t),
         NEW r \in Requests, sent[r] # 0, Recorded(saved, r)
  PROVE  Recorded(t, r)
<1>1. /\ Len(saved.calls) \in Nat /\ Len(saved.receipts) \in Nat /\ saved.steps \in Nat
      /\ Len(t.calls) \in Nat /\ Len(t.receipts) \in Nat /\ t.steps \in Nat
      /\ Current(saved) = Len(saved.receipts) + 1 /\ Current(t) = Len(t.receipts) + 1
  BY Sorts DEF Remembers
<1>2. (saved.wrap => t.wrap) /\ (saved.answer => t.answer) /\ t.steps >= saved.steps
      /\ t.turns >= saved.turns /\ t.turns \in Nat /\ saved.turns \in Nat
  BY Sorts DEF Remembers, Grown
<1>3. CASE r[1] = "model"
  <2>1. r[2] \in Nat
    BY <1>3, RunAssumption DEF Requests
  <2> QED
    BY <1>1, <1>2, <1>3, <2>1 DEF Recorded, Remembers
<1>4. CASE r[1] = "file"
  <2>1. r[2] \in Nat
    BY <1>4, RunAssumption DEF Requests
  <2> QED
    BY <1>1, <1>2, <1>4, <2>1 DEF Recorded
<1>5. CASE r[1] = "wrapUp"
  <2>1. r = <<"wrapUp", 0>>
    BY <1>5 DEF Requests
  <2>2. t.answer \/ t.intent = "wrapUp"
    BY <1>2, <1>5, <2>1 DEF Recorded, Closes
  <2> QED
    BY <1>5, <2>2 DEF Recorded
<1>6. CASE r[1] = "search"
  <2>1. r[2] \in Nat
    BY <1>6, CallsAssumption DEF Requests, Calls
  <2> QED
    BY <1>1, <1>6, <2>1 DEF Recorded, Reached, Remembers
<1> QED
  BY <1>3, <1>4, <1>5, <1>6 DEF Recorded

LEMMA ReachedStill ==
  ASSUME Sound(saved), NEW t, Remembers(saved, t), NEW c \in Calls, Reached(saved, c)
  PROVE  Reached(t, c)
<1>1. /\ Len(saved.receipts) \in Nat /\ Len(t.receipts) \in Nat /\ c \in Nat
      /\ Current(saved) = Len(saved.receipts) + 1 /\ Current(t) = Len(t.receipts) + 1
  BY Sorts, CallsAssumption DEF Remembers, Calls
<1> QED
  BY <1>1 DEF Reached, Remembers

(* Requests of a worker that are in the table.                              *)
LEMMA RequestOf ==
  ASSUME NEW p, Fits(p)
  PROVE  /\ <<"model", p.state.turns>> \in Requests /\ <<"wrapUp", 0>> \in Requests
         /\ p.state.steps # 0 => <<"file", p.state.steps>> \in Requests
         /\ p.at \in {"tool", "search"} => <<"search", Current(p.state)>> \in Requests
<1>1. Sound(p.state) /\ MaxCalls \in Nat /\ Budget \in Nat
  BY CallsAssumption, RunAssumption DEF Fits
<1>2. p.at \in {"tool", "search"} => Current(p.state) \in Calls
  BY <1>1, Sorts DEF Fits, Sound
<1>3. p.state.turns \in 0..Budget /\ (p.state.steps # 0 => p.state.steps \in 1..Budget)
  BY <1>1, Sorts DEF Sound
<1> QED
  BY <1>2, <1>3 DEF Requests

Free == {"publish", "program"}
SentKept ==
  /\ sent' \in [Requests -> Nat]
  /\ \A r \in Requests : /\ r[1] \notin Free => sent'[r] = sent[r]
                         /\ r[1] # "publish" => sent'[r] <= 1

LEMMA UnsentStill ==
  ASSUME NEW p, Fits(p), NEW steps \in Nat, saved.steps \in Nat, steps >= saved.steps,
         Unsent(sent, saved.steps, p), SentKept
  PROVE  Unsent(sent', steps, p)
<1>1. /\ <<"model", p.state.turns>> \in Requests /\ <<"wrapUp", 0>> \in Requests
      /\ p.state.steps # 0 => <<"file", p.state.steps>> \in Requests
      /\ p.at \in {"tool", "search"} => <<"search", Current(p.state)>> \in Requests
  BY RequestOf
<1>2. /\ sent'[<<"model", p.state.turns>>] = sent[<<"model", p.state.turns>>]
      /\ sent'[<<"wrapUp", 0>>] = sent[<<"wrapUp", 0>>]
      /\ p.state.steps # 0 => sent'[<<"file", p.state.steps>>] = sent[<<"file", p.state.steps>>]
      /\ p.at \in {"tool", "search"} => sent'[<<"search", Current(p.state)>>] = sent[<<"search", Current(p.state)>>]
  BY <1>1 DEF SentKept, Free
<1>3. p.state.steps \in Nat
  BY Sorts DEF Fits
<1> QED
  BY <1>2, <1>3 DEF Unsent

LEMMA SentStep ==
  ASSUME LoopInv, SentInv, NEW w \in Workers, NEW q, proc' = [proc EXCEPT ![w] = q], SentKept,
         saved' = saved \/ (Remembers(saved, saved') /\ Closes(saved, saved')),
         Fits(q), Unsent(sent, saved'.steps, q), q.at \in Owing => saved'.used > saved.used
  PROVE  SentInv'
<1>1. proc \in [Workers -> ProcRows] /\ Sound(saved) /\ \A v \in Workers : Fits(proc[v])
  BY DEF LoopInv
<1>2. /\ saved.steps \in Nat /\ saved.used \in Nat /\ saved'.steps \in Nat /\ saved'.used \in Nat
      /\ saved'.steps >= saved.steps /\ saved'.used >= saved.used
  BY <1>1, Sorts DEF Remembers, Grown
<1>3. proc'[w] = q /\ \A v \in Workers \ {w} : proc'[v] = proc[v]
  BY <1>1
<1>4. ASSUME NEW r \in Requests, sent'[r] # 0 PROVE Recorded(saved', r)
  <2>1. CASE r[1] \in Free
    BY <2>1 DEF Free, Recorded
  <2>2. CASE r[1] \notin Free
    <3>1. sent[r] # 0 /\ Recorded(saved, r)
      BY <1>4, <2>2 DEF SentKept, SentInv
    <3> QED
      BY <1>1, <3>1, RecordedStill
  <2> QED
    BY <2>1, <2>2
<1>5. Unsent(sent', saved'.steps, q)
  <2>1. /\ <<"model", q.state.turns>> \in Requests /\ <<"wrapUp", 0>> \in Requests
        /\ q.state.steps # 0 => <<"file", q.state.steps>> \in Requests
        /\ q.at \in {"tool", "search"} => <<"search", Current(q.state)>> \in Requests
    BY RequestOf
  <2>2. /\ sent'[<<"model", q.state.turns>>] = sent[<<"model", q.state.turns>>]
        /\ sent'[<<"wrapUp", 0>>] = sent[<<"wrapUp", 0>>]
        /\ q.state.steps # 0 => sent'[<<"file", q.state.steps>>] = sent[<<"file", q.state.steps>>]
        /\ q.at \in {"tool", "search"} => sent'[<<"search", Current(q.state)>>] = sent[<<"search", Current(q.state)>>]
    BY <2>1 DEF SentKept, Free
  <2> QED
    BY <2>2 DEF Unsent
<1>6. ASSUME NEW v \in Workers PROVE Unsent(sent', saved'.steps, proc'[v])
  <2>1. CASE v = w
    BY <1>3, <1>5, <2>1
  <2>2. CASE v # w
    BY <1>1, <1>2, <1>3, <2>2, UnsentStill DEF SentInv
  <2> QED
    BY <2>1, <2>2
<1>7. Cardinality(Reserved') <= saved'.used
  <2>1. IsFiniteSet(Reserved) /\ Cardinality(Reserved) \in Nat /\ Cardinality(Reserved) <= saved.used
    BY PaidFinite, FS_Subset, FS_CardinalityType DEF Reserved, SentInv
  <2>2. ASSUME NEW r \in Reserved' PROVE r \in Reserved \/ (q.at \in Owing /\ r = Due(q))
    <3>1. r \in Paid /\ (sent'[r] # 0 \/ \E v \in Workers : proc'[v].at \in Owing /\ Due(proc'[v]) = r)
      BY <2>2 DEF Reserved, Paid
    <3>2. CASE sent'[r] # 0
      BY <3>1, <3>2 DEF SentKept, Free, Paid, Reserved
    <3>3. CASE \E v \in Workers : proc'[v].at \in Owing /\ Due(proc'[v]) = r
      BY <1>3, <3>1, <3>3 DEF Reserved
    <3> QED
      BY <3>1, <3>2, <3>3
  <2>3. CASE q.at \notin Owing
    <3>1. Reserved' \subseteq Reserved
      BY <2>2, <2>3
    <3>2. IsFiniteSet(Reserved') /\ Cardinality(Reserved') <= Cardinality(Reserved) /\ Cardinality(Reserved') \in Nat
      BY <2>1, <3>1, FS_Subset, FS_CardinalityType
    <3> QED
      BY <1>2, <2>1, <3>2
  <2>4. CASE q.at \in Owing
    <3> DEFINE S == Reserved \cup {Due(q)}
    <3>1. Reserved' \subseteq S
      BY <2>2
    <3>2. IsFiniteSet(S) /\ Cardinality(S) <= Cardinality(Reserved) + 1 /\ Cardinality(S) \in Nat
      <4> DEFINE R == Reserved d == Due(q)
      <4> HIDE DEF R, d
      <4>1. IsFiniteSet(R) /\ Cardinality(R) \in Nat
        BY <2>1 DEF R
      <4>2. IsFiniteSet(R \cup {d}) /\ Cardinality(R \cup {d}) <= Cardinality(R) + 1 /\ Cardinality(R \cup {d}) \in Nat
        <5>1. IsFiniteSet(R \cup {d}) /\ Cardinality(R \cup {d}) = IF d \in R THEN Cardinality(R) ELSE Cardinality(R) + 1
          BY <4>1, FS_AddElement, Zenon
        <5> QED
          BY <4>1, <5>1
      <4> QED
        BY <4>2 DEF R, d
    <3>3. Cardinality(Reserved') <= Cardinality(S) /\ Cardinality(Reserved') \in Nat
      BY <3>1, <3>2, FS_Subset, FS_CardinalityType
    <3> QED
      BY <1>2, <2>1, <2>4, <3>2, <3>3
  <2> QED
    BY <2>3, <2>4
<1> QED
  BY <1>4, <1>6, <1>7 DEF SentInv, SentKept

LEMMA AtHand ==
  ASSUME LoopInv, LoopInv', NEW w \in Workers, NEW q, proc' = [proc EXCEPT ![w] = q]
  PROVE  Fits(q)
<1>1. proc'[w] = q
  BY DEF LoopInv
<1>2. Fits(proc'[w])
  BY DEF LoopInv
<1> QED
  BY <1>1, <1>2

LEMMA UnsentElsewhere ==
  ASSUME NEW p, p.at \notin Before, NEW counts, NEW steps
  PROVE  Unsent(counts, steps, p) /\ p.at \notin Owing
BY DEF Before, Unsent, Owing, Asking

LEMMA PlainSent ==
  ASSUME LoopInv, LoopInv', SentInv, NEW w \in Workers, Plain(w), SentKept
  PROVE  SentInv'
<1>1. PICK q : proc' = [proc EXCEPT ![w] = q] /\ q.at \notin Before
  BY DEF Plain
<1>2. Fits(q)
  BY <1>1, AtHand
<1>3. Unsent(sent, saved'.steps, q) /\ q.at \notin Owing
  BY <1>1, UnsentElsewhere
<1> QED
  BY <1>1, <1>2, <1>3, SentStep DEF Plain

LEMMA SaveSent ==
  ASSUME LoopInv, LoopInv', SentInv, NEW w \in Workers, NEW t, NEW dispatch, NEW next,
         Save(w, t, dispatch, next), Holds(w) => Extends(w, t, next), SentKept
  PROVE  SentInv'
<1>1. ASSUME NEW at \in {"resign", "interrupted"}, proc' = [proc EXCEPT ![w] = Gone(at)],
             saved' = saved \/ (saved' = t /\ Extends(w, t, next))
      PROVE  SentInv'
  <2> DEFINE q == Gone(at)
  <2>1. q.at = at /\ at \notin Before
    BY Leaving, GoneFits DEF Before
  <2>2. proc' = [proc EXCEPT ![w] = q] /\ Fits(q)
    BY <1>1, AtHand
  <2> HIDE DEF q
  <2>3. Unsent(sent, saved'.steps, q) /\ q.at \notin Owing
    BY <2>1, UnsentElsewhere
  <2>4. saved' = saved \/ (Remembers(saved, saved') /\ Closes(saved, saved'))
    BY <1>1 DEF Extends
  <2> QED
    BY <2>2, <2>3, <2>4, SentStep
<1>2. ASSUME proc' = [proc EXCEPT ![w] = Kept(w, t, next)], saved' = t, Extends(w, t, next)
      PROVE  SentInv'
  <2> DEFINE q == Kept(w, t, next)
  <2>1. proc' = [proc EXCEPT ![w] = q] /\ Fits(q)
    BY <1>2, AtHand
  <2>2. q.at = next
    BY DEF Kept, LoopInv, ProcRows
  <2>3. Unsent(sent, saved'.steps, q) /\ (next \in Owing => saved'.used > saved.used)
    BY <1>2 DEF Extends
  <2>4. Remembers(saved, saved') /\ Closes(saved, saved')
    BY <1>2 DEF Extends
  <2> HIDE DEF q
  <2> QED
    BY <2>1, <2>2, <2>3, <2>4, SentStep
<1> QED
  BY <1>1, <1>2, SaveSteps

LEMMA WritesSent ==
  ASSUME LoopInv, LoopInv', SentInv, NEW w \in Workers, Writes(w), SentKept
  PROVE  SentInv'
<1>1. PICK t, dispatch, next : Save(w, t, dispatch, next) /\ (Holds(w) => Extends(w, t, next))
  BY Zenon DEF Writes
<1> QED
  BY <1>1, SaveSent

LEMMA SentSame ==
  ASSUME SentInv, sent' = sent
  PROVE  SentKept
BY DEF SentInv, SentKept

LEMMA SentFree ==
  ASSUME SentInv, NEW r \in Requests, r[1] \in Free, r[1] = "program" => sent[r] = 0, Send(r)
  PROVE  SentKept
<1>1. sent' = [sent EXCEPT ![r] = sent[r] + 1] /\ sent \in [Requests -> Nat]
  BY DEF Send, SentInv
<1>2. sent' \in [Requests -> Nat]
  BY <1>1
<1>3. \A x \in Requests : sent'[x] = IF x = r THEN sent[r] + 1 ELSE sent[x]
  BY <1>1
<1> QED
  BY <1>2, <1>3 DEF SentKept, SentInv, Free

LEMMA UnsentIdle ==
  ASSUME NEW p, Fits(p), ~Busy(p), NEW counts, NEW steps
  PROVE  Unsent(counts, steps, p) /\ p.at \notin Owing
<1>1. p.at \notin {"ask", "wrapAsk", "fileAsk", "fileReply"}
  BY DEF Busy, Thinking, Wrapping
<1>2. ~(p.at \in {"tool", "search"} /\ Tool(p.state) = "search")
  BY DEF Busy, Using, InTool, Fits, Sound
<1>3. p.at # "search"
  BY <1>2 DEF Fits
<1> QED
  BY <1>1, <1>2, <1>3 DEF Unsent, Owing, Asking

(* A request leaves the worker it was due at.                               *)
LEMMA SendStep ==
  ASSUME LoopInv, SentInv, NEW w \in Workers, NEW q, proc' = [proc EXCEPT ![w] = q], saved' = saved,
         NEW r \in Requests, r = Due(proc[w]), proc[w].at \in Owing, sent[r] = 0, Send(r),
         Recorded(saved, r), Busy(proc[w]),
         q.at \notin Owing \cup {"tool"}, q.at = "fileReply" => r # <<"wrapUp", 0>> /\ sent[<<"wrapUp", 0>>] = 0
  PROVE  SentInv'
<1>1. proc \in [Workers -> ProcRows] /\ Sound(saved) /\ \A v \in Workers : Fits(proc[v])
  BY DEF LoopInv
<1>2. proc'[w] = q /\ \A v \in Workers \ {w} : proc'[v] = proc[v]
  BY <1>1
<1>3. sent' = [sent EXCEPT ![r] = sent[r] + 1] /\ sent \in [Requests -> Nat]
  BY DEF Send, SentInv
<1>4. sent' \in [Requests -> Nat] /\ \A x \in Requests : sent'[x] = IF x = r THEN 1 ELSE sent[x]
  BY <1>3
<1>5. \A x \in Requests : /\ x[1] # "publish" => sent'[x] <= 1
                          /\ sent'[x] # 0 => Recorded(saved, x)
  BY <1>4 DEF SentInv
<1>6. ASSUME NEW v \in Workers PROVE Unsent(sent', saved.steps, proc'[v])
  <2>1. CASE v = w
    <3>1. <<"wrapUp", 0>> \in Requests
      BY DEF Requests
    <3>2. q.at = "fileReply" => sent'[<<"wrapUp", 0>>] = 0
      BY <1>4, <3>1
    <3>3. q.at \notin {"ask", "wrapAsk", "fileAsk", "tool", "search"}
      BY DEF Owing, Asking
    <3>4. Unsent(sent', saved.steps, q)
      BY <3>2, <3>3 DEF Unsent
    <3> QED
      BY <1>2, <2>1, <3>4
  <2>2. CASE v # w
    <3>1. ~Busy(proc[v]) /\ Fits(proc[v])
      BY <1>1, <2>2 DEF LoopInv, Unique
    <3> QED
      BY <1>2, <2>2, <3>1, UnsentIdle
  <2> QED
    BY <2>1, <2>2
<1>7. Cardinality(Reserved') <= saved.used
  <2>1. IsFiniteSet(Reserved) /\ Cardinality(Reserved) \in Nat /\ Cardinality(Reserved) <= saved.used
    BY PaidFinite, FS_Subset, FS_CardinalityType DEF Reserved, SentInv
  <2>2. ASSUME NEW x \in Reserved' PROVE x \in Reserved
    <3>1. x \in Paid /\ (sent'[x] # 0 \/ \E v \in Workers : proc'[v].at \in Owing /\ Due(proc'[v]) = x)
      BY <2>2 DEF Reserved, Paid
    <3>2. CASE sent'[x] # 0
      BY <1>4, <3>1, <3>2 DEF Paid, Reserved
    <3>3. CASE \E v \in Workers : proc'[v].at \in Owing /\ Due(proc'[v]) = x
      BY <1>2, <3>1, <3>3 DEF Reserved
    <3> QED
      BY <3>1, <3>2, <3>3
  <2>3. Reserved' \subseteq Reserved
    BY <2>2
  <2>4. IsFiniteSet(Reserved') /\ Cardinality(Reserved') <= Cardinality(Reserved) /\ Cardinality(Reserved') \in Nat
    BY <2>1, <2>3, FS_Subset, FS_CardinalityType
  <2>5. saved.used \in Nat
    BY <1>1, Sorts
  <2> QED
    BY <2>1, <2>4, <2>5
<1> QED
  BY <1>4, <1>5, <1>6, <1>7 DEF SentInv

LEMMA AskSent ==
  ASSUME LoopInv, SentInv, NEW w \in Workers, Ask(w)
  PROVE  SentInv'
<1> DEFINE p == proc[w]
<1>1. Fits(p) /\ Held(saved, p) /\ Unsent(sent, saved.steps, p) /\ saved' = saved /\ p \in ProcRows /\ Sound(saved)
  BY DEF LoopInv, SentInv, Ask, Local
<1>2. /\ <<"model", p.state.turns>> \in Requests /\ <<"wrapUp", 0>> \in Requests
      /\ p.state.steps # 0 => <<"file", p.state.steps>> \in Requests
  BY <1>1, RequestOf
<1>3. p.at \in Asking => p.at \in Owing /\ Busy(p)
  BY DEF Asking, Owing, Busy, Thinking, Wrapping
<1>a. /\ "reply" \in Locations /\ "wrapReply" \in Locations /\ "fileReply" \in Locations
      /\ {"reply", "wrapReply", "fileReply"} \cap (Owing \cup {"tool"}) = {}
  BY DEF Locations, Answering, Owing, Asking
<1>b. ASSUME NEW at, Go(w, at) PROVE \E q : proc' = [proc EXCEPT ![w] = q] /\ q.at = at
  <2> DEFINE q == Put(proc[w], at, proc[w].got, proc[w].removed)
  <2>1. proc' = [proc EXCEPT ![w] = q] /\ proc[w] \in ProcRows
    BY <1>b, PutSteps
  <2>2. q.at = at
    BY <2>1 DEF Put, ProcRows
  <2> HIDE DEF q
  <2> QED
    BY <2>1, <2>2
<1>4. CASE p.at = "ask" /\ Send(<<"model", p.state.turns>>) /\ Go(w, "reply")
  <2>1. Recorded(saved, <<"model", p.state.turns>>)
    BY <1>1, <1>4 DEF Recorded, Held, Thinking
  <2>2. PICK q : proc' = [proc EXCEPT ![w] = q] /\ q.at = "reply"
    BY <1>4, <1>b
  <2>3. Due(p) = <<"model", p.state.turns>> /\ sent[Due(p)] = 0
    BY <1>1, <1>4 DEF Due, Unsent
  <2> HIDE DEF p
  <2> QED
    BY <1>1, <1>2, <1>3, <1>4, <1>a, <2>1, <2>2, <2>3, SendStep DEF p, Asking
<1>5. CASE p.at = "wrapAsk" /\ Send(<<"wrapUp", 0>>) /\ Go(w, "wrapReply")
  <2>1. Recorded(saved, <<"wrapUp", 0>>)
    BY <1>1, <1>5 DEF Recorded, Held, Wrapping
  <2>2. PICK q : proc' = [proc EXCEPT ![w] = q] /\ q.at = "wrapReply"
    BY <1>5, <1>b
  <2>3. Due(p) = <<"wrapUp", 0>> /\ sent[Due(p)] = 0
    BY <1>1, <1>5 DEF Due, Unsent
  <2> HIDE DEF p
  <2> QED
    BY <1>1, <1>2, <1>3, <1>5, <1>a, <2>1, <2>2, <2>3, SendStep DEF p, Asking
<1>6. CASE p.at = "fileAsk" /\ Send(<<"file", p.state.steps>>) /\ Go(w, "fileReply")
  <2>0. p.state.steps # 0 /\ p.state.steps <= saved.steps /\ sent[<<"wrapUp", 0>>] = 0
    BY <1>1, <1>6 DEF Unsent
  <2>1. Recorded(saved, <<"file", p.state.steps>>)
    BY <2>0 DEF Recorded
  <2>2. PICK q : proc' = [proc EXCEPT ![w] = q] /\ q.at = "fileReply"
    BY <1>6, <1>b
  <2>3. Due(p) = <<"file", p.state.steps>> /\ sent[Due(p)] = 0
    BY <1>1, <1>6 DEF Due, Unsent
  <2>4. <<"file", p.state.steps>> # <<"wrapUp", 0>>
    OBVIOUS
  <2> HIDE DEF p
  <2> QED
    BY <1>1, <1>2, <1>3, <1>6, <1>a, <2>0, <2>1, <2>2, <2>3, <2>4, SendStep DEF p, Asking
<1> QED
  BY <1>4, <1>5, <1>6 DEF Ask, Asking, State

LEMMA SearchSent ==
  ASSUME LoopInv, LoopInv', SentInv, NEW w \in Workers, Search(w)
  PROVE  SentInv'
<1> DEFINE p == proc[w] r == <<"search", Current(p.state)>>
<1>1. p.at = "search" /\ saved' = saved
  BY DEF Search, Local
<1>2. Fits(p) /\ Held(saved, p) /\ Unsent(sent, saved.steps, p) /\ Sound(saved)
  BY DEF LoopInv, SentInv
<1>3. r \in Requests
  BY <1>1, <1>2, RequestOf
<1>4. Using(p) /\ Busy(p) /\ Tool(p.state) = "search"
  BY <1>1, <1>2 DEF Busy, Using, InTool, Fits
<1>5. Due(p) = r /\ sent[r] = 0 /\ p.at \in Owing
  BY <1>1, <1>2, <1>4 DEF Due, Unsent, Owing
<1>6. Recorded(saved, r)
  BY <1>2, <1>4 DEF Recorded, Reached, Held
<1>7. CASE Alone /\ Go(w, "fail")
  <2>1. Plain(w)
    BY <1>1, <1>7, Places2, PlainGo
  <2> QED
    BY <1>7, <2>1, SentSame, PlainSent DEF Alone
<1>8. CASE Send(r)
  <2>1. PICK at \in {"done", "fail"} : Go(w, at) \/ \E got : Gets(w, got, at)
    BY DEF Search
  <2>2. \E got, removed : proc' = [proc EXCEPT ![w] = Put(proc[w], at, got, removed)]
    BY <2>1, PutSteps
  <2>3. PICK got, removed : proc' = [proc EXCEPT ![w] = Put(proc[w], at, got, removed)]
    BY <2>2
  <2> DEFINE q == Put(proc[w], at, got, removed)
  <2>4. q.at = at
    BY DEF Put, LoopInv, ProcRows
  <2>5. q.at \notin Owing \cup {"tool"} /\ q.at # "fileReply"
    BY <2>1, <2>4 DEF Owing, Asking
  <2> HIDE DEF q, r, p
  <2> QED
    BY <1>1, <1>3, <1>4, <1>5, <1>6, <1>8, <2>3, <2>5, SendStep DEF p, q
<1> QED
  BY <1>7, <1>8 DEF Search, State

LEMMA RunProgramSent ==
  ASSUME LoopInv, LoopInv', SentInv, HostInv, NEW w \in Workers, RunProgram(w)
  PROVE  SentInv'
<1> DEFINE r == <<"program", Call(w)>>
<1>1. proc[w].at = "start" /\ Stands(row, container, sent, proc[w]) /\ saved' = saved /\ Go(w, "program") /\ Send(r)
  BY DEF RunProgram, Local, HostInv, StandInv
<1>2. sent[r] = 0
  BY <1>1 DEF Stands, Call, State
<1>3. Call(w) \in Calls
  <2>1. Sound(State(w)) /\ Pending(State(w))
    BY <1>1, ToolFits DEF Computing, InComputer
  <2> QED
    BY <2>1, Sorts DEF Call
<1>4. r \in Requests /\ r[1] = "program" /\ r[1] \in Free
  BY <1>3 DEF Requests, Free
<1>5. SentKept
  BY <1>1, <1>2, <1>4, SentFree
<1>6. Plain(w)
  BY <1>1, Places2, PlainGo
<1> QED
  BY <1>5, <1>6, PlainSent

LEMMA UploadSent ==
  ASSUME LoopInv, LoopInv', SentInv, NEW w \in Workers, Upload(w)
  PROVE  SentInv'
<1> DEFINE r == <<"publish", Call(w)>>
<1>1. proc[w].at = "upload"
  BY DEF Upload
<1>2. Call(w) \in Calls
  <2>1. Sound(State(w)) /\ Pending(State(w))
    BY <1>1, ToolFits
  <2> QED
    BY <2>1, Sorts DEF Call
<1>3. r \in Requests /\ r[1] # "program" /\ r[1] \in Free
  BY <1>2 DEF Requests, Free
<1>4. SentKept
  BY <1>3, SentFree, SentSame, UploadWrites DEF Alone
<1> QED
  BY <1>4, UploadWrites, UploadsPlain, PlainSent, SaveSent

LEMMA SentStill ==
  ASSUME LoopInv, SentInv, UNCHANGED <<saved, proc, sent>>
  PROVE  SentInv'
BY DEF SentInv, Reserved, Paid

------------------------------------------------------------------------------
(* The uploads of a file, made and to be made.                              *)

LEMMA UploadCount ==
  ASSUME proc \in [Workers -> ProcRows], NEW w \in Workers, NEW q, proc' = [proc EXCEPT ![w] = q],
         NEW c \in Calls, IsFiniteSet(Uploaders(c))
  PROVE  LET old == Cardinality(Uploaders(c))
             now == Cardinality(Uploaders(c)') IN
         /\ IsFiniteSet(Uploaders(c)') /\ old \in Nat /\ now \in Nat
         /\ now <= old + 1
         /\ ~(q.at = "upload" /\ Current(q.state) = c) =>
              /\ now <= old
              /\ proc[w].at = "upload" /\ Current(proc[w].state) = c => now + 1 = old
<1> DEFINE U == Uploaders(c) V == Uploaders(c)' here == proc[w].at = "upload" /\ Current(proc[w].state) = c
           there == q.at = "upload" /\ Current(q.state) = c
<1>1. V = IF there THEN U \cup {w} ELSE U \ {w}
  BY DEF Uploaders
<1>2. w \in U <=> here
  BY DEF Uploaders
<1> HIDE DEF U, V, here, there
<1>3. IsFiniteSet(U) /\ Cardinality(U) \in Nat
  BY FS_CardinalityType DEF U
<1>4. /\ IsFiniteSet(U \cup {w})
      /\ Cardinality(U \cup {w}) = IF w \in U THEN Cardinality(U) ELSE Cardinality(U) + 1
  BY <1>3, FS_AddElement, Zenon
<1>5. /\ IsFiniteSet(U \ {w})
      /\ Cardinality(U \ {w}) = IF w \in U THEN Cardinality(U) - 1 ELSE Cardinality(U)
  BY <1>3, FS_RemoveElement, Zenon
<1>6. IsFiniteSet(V)
  BY <1>1, <1>4, <1>5
<1>7. Cardinality(V) \in Nat
  BY <1>6, FS_CardinalityType
<1>8. /\ IsFiniteSet(V) /\ Cardinality(U) \in Nat /\ Cardinality(V) \in Nat /\ Cardinality(V) <= Cardinality(U) + 1
      /\ ~there => Cardinality(V) <= Cardinality(U) /\ (here => Cardinality(V) + 1 = Cardinality(U))
  BY <1>1, <1>2, <1>3, <1>4, <1>5, <1>6, <1>7
<1> QED
  BY <1>8 DEF U, V, here, there

LEMMA AllowedGrows ==
  ASSUME Sound(saved), saved' = saved \/ Remembers(saved, saved'), NEW c \in Calls
  PROVE  /\ Allowed(c) \in Nat /\ Allowed(c)' \in Nat /\ Allowed(c)' >= Allowed(c)
         /\ Remembers(saved, saved') /\ saved'.attempts > saved.attempts /\ c = Current(saved') =>
              Allowed(c)' >= Allowed(c) + 1
<1>1. /\ Len(saved.receipts) \in Nat /\ saved.attempts \in Nat /\ saved.attempts <= MaxAttempts
      /\ Current(saved) = Len(saved.receipts) + 1
  BY Sorts DEF Sound
<1>2. MaxAttempts \in Nat /\ c \in Nat
  BY RunAssumption, CallsAssumption DEF Calls
<1>3. CASE saved' = saved
  BY <1>1, <1>2, <1>3 DEF Allowed
<1>4. CASE Remembers(saved, saved')
  <2> DEFINE t == saved'
  <2>1. Sound(t) /\ Len(t.receipts) >= Len(saved.receipts) /\ Grown(saved, t)
    BY <1>4 DEF Remembers
  <2>2. /\ Len(t.receipts) \in Nat /\ t.attempts \in Nat /\ t.attempts <= MaxAttempts
        /\ Current(t) = Len(t.receipts) + 1
    BY <2>1, Sorts DEF Sound
  <2>3. t.attempts >= saved.attempts \/ Current(t) = Current(saved) + 1
    BY <2>1 DEF Grown
  <2>4. /\ Allowed(c) = IF c < Current(saved) THEN MaxAttempts ELSE IF c = Current(saved) THEN saved.attempts ELSE 0
        /\ Allowed(c)' = IF c < Current(t) THEN MaxAttempts ELSE IF c = Current(t) THEN t.attempts ELSE 0
    BY DEF Allowed, Current
  <2> HIDE DEF t
  <2>5. /\ Allowed(c) \in Nat /\ Allowed(c)' \in Nat /\ Allowed(c)' >= Allowed(c)
        /\ t.attempts > saved.attempts /\ c = Current(t) => Allowed(c)' >= Allowed(c) + 1
    BY <1>1, <1>2, <2>1, <2>2, <2>3, <2>4
  <2> QED
    BY <2>5 DEF t
<1> QED
  BY <1>3, <1>4

LEMMA UploadStep ==
  ASSUME LoopInv, UploadInv, SentInv, NEW w \in Workers, NEW q, proc' = [proc EXCEPT ![w] = q],
         saved' = saved \/ Remembers(saved, saved'),
         q.at = "upload" => /\ q.state = saved' /\ saved'.attempts > saved.attempts
                            /\ Remembers(saved, saved'),
         \A c \in Calls : \/ sent'[<<"publish", c>>] = sent[<<"publish", c>>]
                          \/ /\ sent'[<<"publish", c>>] = sent[<<"publish", c>>] + 1
                             /\ proc[w].at = "upload" /\ Current(proc[w].state) = c /\ q.at # "upload"
  PROVE  UploadInv'
<1> SUFFICES ASSUME NEW c \in Calls
             PROVE  /\ IsFiniteSet(Uploaders(c)')
                    /\ sent'[<<"publish", c>>] + Cardinality(Uploaders(c)') <= Allowed(c)'
  BY DEF UploadInv
<1>1. IsFiniteSet(Uploaders(c)) /\ sent[<<"publish", c>>] + Cardinality(Uploaders(c)) <= Allowed(c)
  BY DEF UploadInv
<1>2. proc \in [Workers -> ProcRows] /\ Sound(saved) /\ sent[<<"publish", c>>] \in Nat
  BY DEF LoopInv, SentInv, Requests
<1>3. /\ IsFiniteSet(Uploaders(c)') /\ Cardinality(Uploaders(c)) \in Nat /\ Cardinality(Uploaders(c)') \in Nat
      /\ Cardinality(Uploaders(c)') <= Cardinality(Uploaders(c)) + 1
      /\ ~(q.at = "upload" /\ Current(q.state) = c) =>
              /\ Cardinality(Uploaders(c)') <= Cardinality(Uploaders(c))
              /\ proc[w].at = "upload" /\ Current(proc[w].state) = c =>
                   Cardinality(Uploaders(c)') + 1 = Cardinality(Uploaders(c))
  BY <1>1, <1>2, UploadCount
<1>4. /\ Allowed(c) \in Nat /\ Allowed(c)' \in Nat /\ Allowed(c)' >= Allowed(c)
      /\ Remembers(saved, saved') /\ saved'.attempts > saved.attempts /\ c = Current(saved') =>
           Allowed(c)' >= Allowed(c) + 1
  BY <1>2, AllowedGrows
<1>5. q.at = "upload" /\ Current(q.state) = c => Allowed(c)' >= Allowed(c) + 1
  BY <1>4
<1> DEFINE n == sent[<<"publish", c>>] m == sent'[<<"publish", c>>]
           old == Cardinality(Uploaders(c)) now == Cardinality(Uploaders(c)') A == Allowed(c) B == Allowed(c)'
           here == proc[w].at = "upload" /\ Current(proc[w].state) = c
           there == q.at = "upload" /\ Current(q.state) = c
<1>6. (m = n) \/ (m = n + 1 /\ here /\ ~there)
  OBVIOUS
<1>7. /\ n + old <= A /\ n \in Nat /\ old \in Nat /\ now \in Nat /\ A \in Nat /\ B \in Nat /\ B >= A
      /\ now <= old + 1 /\ (~there => now <= old /\ (here => now + 1 = old))
      /\ there => B >= A + 1
  BY <1>1, <1>2, <1>3, <1>4, <1>5
<1> HIDE DEF n, m, old, now, A, B, here, there
<1>8. m + now <= B
  BY <1>6, <1>7
<1> QED
  BY <1>3, <1>8 DEF m, now, B

LEMMA PlainUpload ==
  ASSUME LoopInv, UploadInv, SentInv, NEW w \in Workers, Plain(w),
         \A c \in Calls : \/ sent'[<<"publish", c>>] = sent[<<"publish", c>>]
                          \/ /\ sent'[<<"publish", c>>] = sent[<<"publish", c>>] + 1
                             /\ proc[w].at = "upload" /\ Current(proc[w].state) = c
  PROVE  UploadInv'
<1>1. PICK q : proc' = [proc EXCEPT ![w] = q] /\ q.at \notin Before
  BY DEF Plain
<1>2. q.at # "upload" /\ saved' = saved
  BY <1>1 DEF Before, Plain
<1> QED
  BY <1>1, <1>2, UploadStep

UploadsBefore(w, next) ==
  \A c \in Calls : \/ sent'[<<"publish", c>>] = sent[<<"publish", c>>]
                   \/ /\ sent'[<<"publish", c>>] = sent[<<"publish", c>>] + 1
                      /\ proc[w].at = "upload" /\ Current(proc[w].state) = c /\ next # "upload"
LEMMA SaveUpload ==
  ASSUME LoopInv, UploadInv, SentInv, NEW w \in Workers, NEW t, NEW dispatch, NEW next, Save(w, t, dispatch, next),
         Holds(w) => Extends(w, t, next), Holds(w) /\ next = "upload" => t.attempts > saved.attempts,
         UploadsBefore(w, next)
  PROVE  UploadInv'
<1>1. ASSUME NEW at \in {"resign", "interrupted"}, proc' = [proc EXCEPT ![w] = Gone(at)],
             saved' = saved \/ (saved' = t /\ Extends(w, t, next))
      PROVE  UploadInv'
  <2> DEFINE q == Gone(at)
  <2>1. q.at # "upload"
    BY Leaving, GoneFits
  <2>2. proc' = [proc EXCEPT ![w] = q]
    BY <1>1
  <2> HIDE DEF q
  <2>4. saved' = saved \/ Remembers(saved, saved')
    BY <1>1 DEF Extends
  <2> QED
    BY <2>1, <2>2, <2>4, UploadStep DEF UploadsBefore
<1>2. ASSUME proc' = [proc EXCEPT ![w] = Kept(w, t, next)], saved' = t, Extends(w, t, next), Holds(w)
      PROVE  UploadInv'
  <2> DEFINE q == Kept(w, t, next)
  <2>1. proc' = [proc EXCEPT ![w] = q]
    BY <1>2
  <2>2. q.at = next /\ q.state = saved'
    BY <1>2 DEF Kept, LoopInv, ProcRows
  <2>4. Remembers(saved, saved')
    BY <1>2 DEF Extends
  <2> HIDE DEF q
  <2> QED
    BY <1>2, <2>1, <2>2, <2>4, UploadStep DEF UploadsBefore
<1> QED
  BY <1>1, <1>2, SaveSteps

LEMMA UploadStill ==
  ASSUME UploadInv, UNCHANGED <<saved, proc, sent>>
  PROVE  UploadInv'
BY DEF UploadInv, Uploaders, Allowed

(* A step that sends another request.                                       *)
LEMMA OtherSend ==
  ASSUME SentInv, NEW r \in Requests, r[1] # "publish", Send(r)
  PROVE  \A c \in Calls : sent'[<<"publish", c>>] = sent[<<"publish", c>>]
BY DEF SentInv, Send, Requests

LEMMA AskMoves ==
  ASSUME LoopInv, SentInv, NEW w \in Workers, Ask(w)
  PROVE  /\ saved' = saved
         /\ \E at \in Answering : Go(w, at)
         /\ \E r \in Requests : r[1] \in {"model", "wrapUp", "file"} /\ Send(r)
<1>1. Fits(proc[w]) /\ saved' = saved /\ Unsent(sent, saved.steps, proc[w])
  BY DEF LoopInv, SentInv, Ask, Local
<1>2. \E at \in Answering : Go(w, at)
  BY DEF Ask, Answering, Asking
<1>3. proc[w].at = "fileAsk" => State(w).steps # 0
  BY <1>1 DEF Unsent, State
<1>4. /\ <<"model", State(w).turns>> \in Requests /\ <<"wrapUp", 0>> \in Requests
      /\ State(w).steps # 0 => <<"file", State(w).steps>> \in Requests
  BY <1>1, RequestOf DEF State
<1>5. \E r \in Requests : r[1] \in {"model", "wrapUp", "file"} /\ Send(r)
  <2>1. CASE Send(<<"model", State(w).turns>>)
    BY <1>4, <2>1
  <2>2. CASE Send(<<"wrapUp", 0>>)
    BY <1>4, <2>2
  <2>3. CASE proc[w].at = "fileAsk" /\ Send(<<"file", State(w).steps>>)
    BY <1>3, <1>4, <2>3
  <2> QED
    BY <2>1, <2>2, <2>3 DEF Ask, Asking
<1> QED
  BY <1>1, <1>2, <1>5

LEMMA SearchMoves ==
  ASSUME LoopInv, NEW w \in Workers, Search(w)
  PROVE  /\ Plain(w)
         /\ sent' = sent \/ \E r \in Requests : r[1] = "search" /\ Send(r)
<1>1. proc[w].at = "search" /\ saved' = saved
  BY DEF Search, Local
<1>2. <<"search", Call(w)>> \in Requests
  BY <1>1, RequestOf DEF LoopInv, Call, State
<1>3. Plain(w)
  BY <1>1, Places2, PlainGo, PlainPut DEF Search
<1> QED
  BY <1>2, <1>3 DEF Search, Alone, Call

LEMMA RunProgramMoves ==
  ASSUME LoopInv, NEW w \in Workers, RunProgram(w)
  PROVE  /\ Plain(w) /\ Call(w) \in Calls
         /\ <<"program", Call(w)>> \in Requests /\ Send(<<"program", Call(w)>>)
<1>1. proc[w].at = "start" /\ saved' = saved /\ Go(w, "program") /\ Send(<<"program", Call(w)>>)
  BY DEF RunProgram, Local
<1>2. Call(w) \in Calls
  <2>1. Sound(State(w)) /\ Pending(State(w))
    BY <1>1, ToolFits DEF Computing, InComputer
  <2> QED
    BY <2>1, Sorts DEF Call
<1>3. Plain(w)
  BY <1>1, Places2, PlainGo
<1> QED
  BY <1>1, <1>2, <1>3 DEF Requests

(* Every step of a worker is of one of these kinds.                         *)
LEMMA Kinds2 ==
  ASSUME LoopInv, SentInv, HostInv, NEW w \in Workers, WorkerStep(w)
  PROVE  \/ Writes(w) /\ Alone
         \/ Plain(w) /\ sent' = sent
         \/ Ask(w) \/ Search(w) \/ RunProgram(w) \/ Upload(w)
<1>1. CASE \/ Take(w) \/ CannotAfford(w) \/ ReplyFails(w) \/ Refuse(w) \/ UseReceipt(w) \/ GiveUpFile(w) \/ ToolFails(w)
           \/ AdmitCall(w) \/ Create(w) \/ CreateAnswer(w) \/ ProgramEnds(w) \/ ExecutorFails(w)
           \/ RemoveContainer(w) \/ Commit(w) \/ RemoveLeftover(w) \/ Confirm(w) \/ CannotConfirm(w)
           \/ Tell(w) \/ Interrupt(w) \/ ComputerTimesOut(w) \/ Crash(w)
  BY <1>1, PlainSteps
<1>2. CASE Load(w) \/ AskModel(w) \/ AskForFile(w) \/ AskToWrapUp(w) \/ Reply(w) \/ FileReply(w)
  <2>1. Writes(w)
    BY <1>2, LoadWrites, AskModelWrites, AskForFileWrites, AskToWrapUpWrites, ReplyWrites, FileReplyWrites
  <2>2. Alone
    BY <1>2 DEF Load, AskModel, AskForFile, AskToWrapUp, Reply, FileReply
  <2> QED
    BY <2>1, <2>2
<1>6. CASE AnswerEarly(w) \/ FailEarly(w) \/ ResearchFile(w) \/ AnswerUnasked(w)
  <2>1. Writes(w)
    BY <1>6, AnswerEarlyWrites, FailEarlyWrites, ResearchFileWrites, AnswerUnaskedWrites
  <2>2. Alone
    BY <1>6 DEF AnswerEarly, FailEarly, ResearchFile, AnswerUnasked
  <2> QED
    BY <2>1, <2>2
<1>3. CASE WrapUpReply(w)
  <2>1. Conclude(w) /\ proc[w].at \in {"work"} \cup Thinking \cup Wrapping /\ Alone
    BY <1>3 DEF WrapUpReply, Wrapping
  <2> QED
    BY <2>1, ConcludeWrites
<1>4. CASE TooLate(w) \/ SaveFailed(w) \/ SaveFinished(w) \/ SaveCancelled(w)
  <2>1. Writes(w) \/ Plain(w)
    <3>1. "tellCancelled" \in Locations \ Before
      BY DEF Locations, Ending, Before
    <3> QED
      BY <1>4, <3>1, TooLateWrites, SaveFailedWrites, SaveFinishedWrites, SaveCancelledWrites, Places2, Leaving,
         PlainGo, PlainGone
  <2>2. Alone /\ sent' = sent
    BY <1>4 DEF TooLate, SaveFailed, SaveFinished, SaveCancelled, Alone
  <2> QED
    BY <2>1, <2>2
<1>5. CASE StartTool(w) \/ FinishTool(w) \/ RefuseForGood(w) \/ ReserveSearch(w) \/ AttemptPublication(w)
  <2>1. Writes(w)
    BY <1>5, StartToolWrites, FinishToolWrites, RefuseForGoodWrites, ReserveSearchWrites, AttemptPublicationWrites
  <2>2. Alone
    BY <1>5 DEF StartTool, FinishTool, RefuseForGood, ReserveSearch, AttemptPublication
  <2> QED
    BY <2>1, <2>2
<1> QED
  BY <1>1, <1>2, <1>3, <1>4, <1>5, <1>6 DEF WorkerStep

LEMMA SentNext ==
  ASSUME LoopInv, LoopInv', SentInv, HostInv, [Next]_vars
  PROVE  SentInv'
<1>1. ASSUME NEW w \in Workers, WorkerStep(w) PROVE SentInv'
  <2>1. CASE (Writes(w) /\ Alone) \/ (Plain(w) /\ sent' = sent)
    BY <2>1, WritesSent, PlainSent, SentSame DEF Alone
  <2>2. CASE Ask(w) \/ Search(w) \/ RunProgram(w) \/ Upload(w)
    BY <2>2, AskSent, SearchSent, RunProgramSent, UploadSent
  <2> QED
    BY <1>1, <2>1, <2>2, Kinds2
<1>2. CASE RequestCancellation \/ FinalizeCancellation \/ Daemon \/ UNCHANGED vars
  <2>1. UNCHANGED <<saved, proc, sent>>
    BY <1>2 DEF RequestCancellation, FinalizeCancellation, Daemon, Alone, Quiet, run, vars
  <2> QED
    BY <2>1, SentStill
<1> QED
  BY <1>1, <1>2 DEF Next

LEMMA UploadNext ==
  ASSUME LoopInv, SentInv, HostInv, UploadInv, [Next]_vars
  PROVE  UploadInv'
<1>1. ASSUME NEW w \in Workers, WorkerStep(w) PROVE UploadInv'
  <2>1. CASE Writes(w) /\ Alone
    <3>1. PICK t, dispatch, next : /\ Save(w, t, dispatch, next) /\ (Holds(w) => Extends(w, t, next))
                                   /\ Holds(w) /\ next = "upload" => t.attempts > saved.attempts
      BY <2>1, Zenon DEF Writes
    <3> QED
      BY <2>1, <3>1, SaveUpload DEF Alone, UploadsBefore
  <2>2. CASE Plain(w) /\ sent' = sent
    BY <2>2, PlainUpload
  <2>3. CASE Ask(w)
    <3>1. PICK at \in Answering : Go(w, at)
      BY <2>3, AskMoves
    <3>2. proc' = [proc EXCEPT ![w] = Put(proc[w], at, proc[w].got, proc[w].removed)]
      BY <3>1, PutSteps
    <3> DEFINE q == Put(proc[w], at, proc[w].got, proc[w].removed)
    <3>3. q.at # "upload"
      BY DEF Put, LoopInv, ProcRows, Answering
    <3>4. \A c \in Calls : sent'[<<"publish", c>>] = sent[<<"publish", c>>]
      BY <2>3, AskMoves, OtherSend
    <3>5. saved' = saved
      BY <2>3, AskMoves
    <3> HIDE DEF q
    <3> QED
      BY <3>2, <3>3, <3>4, <3>5, UploadStep DEF q
  <2>4. CASE Search(w)
    BY <2>4, SearchMoves, OtherSend, PlainUpload
  <2>5. CASE RunProgram(w)
    <3>1. <<"program", Call(w)>>[1] # "publish"
      OBVIOUS
    <3>2. \A c \in Calls : sent'[<<"publish", c>>] = sent[<<"publish", c>>]
      BY <2>5, <3>1, RunProgramMoves, OtherSend
    <3> QED
      BY <2>5, <3>2, RunProgramMoves, PlainUpload
  <2>6. CASE Upload(w)
    <3>1. proc[w].at = "upload"
      BY <2>6 DEF Upload
    <3>2. \A c \in Calls : \/ sent'[<<"publish", c>>] = sent[<<"publish", c>>]
                           \/ /\ sent'[<<"publish", c>>] = sent[<<"publish", c>>] + 1
                              /\ proc[w].at = "upload" /\ Current(proc[w].state) = c
      <4>1. CASE Alone
        BY <4>1 DEF Alone
      <4>2. CASE Send(<<"publish", Call(w)>>)
        <5>1. sent \in [Requests -> Nat] /\ sent' = [sent EXCEPT ![<<"publish", Call(w)>>] = @ + 1]
          BY <4>2 DEF Send, SentInv
        <5>2. \A c \in Calls : <<"publish", c>> \in Requests
          BY DEF Requests
        <5>3. Call(w) = Current(proc[w].state)
          BY DEF Call, State
        <5> QED
          BY <3>1, <5>1, <5>2, <5>3
      <4> QED
        BY <2>6, <4>1, <4>2, UploadWrites
    <3>3. CASE Plain(w)
      BY <3>2, <3>3, PlainUpload
    <3>4. CASE Save(w, State(w), FALSE, "tool") /\ (Holds(w) => Extends(w, State(w), "tool"))
      <4> DEFINE next == "tool"
      <4>1. next # "upload"
        OBVIOUS
      <4>2. Save(w, State(w), FALSE, next) /\ (Holds(w) => Extends(w, State(w), next))
        BY <3>4
      <4> HIDE DEF next
      <4>3. UploadsBefore(w, next)
        BY <3>2, <4>1 DEF UploadsBefore
      <4>4. Holds(w) /\ next = "upload" => State(w).attempts > saved.attempts
        BY <4>1
      <4> QED
        BY <4>2, <4>3, <4>4, SaveUpload
    <3> QED
      BY <2>6, <3>3, <3>4, UploadWrites, UploadsPlain
  <2> QED
    BY <1>1, <2>1, <2>2, <2>3, <2>4, <2>5, <2>6, Kinds2
<1>2. CASE RequestCancellation \/ FinalizeCancellation \/ Daemon \/ UNCHANGED vars
  <2>1. UNCHANGED <<saved, proc, sent>>
    BY <1>2 DEF RequestCancellation, FinalizeCancellation, Daemon, Alone, Quiet, run, vars
  <2> QED
    BY <2>1, UploadStill
<1> QED
  BY <1>1, <1>2 DEF Next

------------------------------------------------------------------------------
(* The computer's rows and containers, and what each worker knows of them.  *)

(* What only moves on, and what a step of the holder of the tool alone may  *)
(* change.                                                                  *)
Settles ==
  /\ \A c \in Calls : container[c] = "gone" => container'[c] = "gone"
  /\ \A c \in Calls : row[c].phase = "done" => row'[c].phase = "done"
LeavesBe ==
  \A c \in Calls :
    /\ row'[c].phase = "done" => row[c].phase = "done"
    /\ row[c].phase # "none" => row'[c].phase # "none"
    /\ row[c].phase \in {"running", "cancelled"} => row'[c].phase \in {"running", "cancelled"}
    /\ sent'[<<"program", c>>] = sent[<<"program", c>>]
SparesCreate(p) ==
  p.at = "create" => LET c == Current(p.state) IN row'[c].phase = "creating" /\ container'[c] = "none"

LEMMA CallAtHand ==
  ASSUME NEW p, Fits(p), Using(p) \/ p.at \in Computing \cup {"recovered"}
  PROVE  Current(p.state) \in Calls /\ (p.at # "recovered" => Using(p))
<1>1. Sound(p.state) /\ p.state.intent = "tool"
  BY DEF Fits, Using
<1>2. Current(p.state) \in Calls
  BY <1>1, Sorts DEF Sound
<1> QED
  BY <1>1, <1>2 DEF Using, InTool

(* A worker the step does not concern.                                      *)
LEMMA StandsStill ==
  ASSUME NEW p, Fits(p), Stands(row, container, sent, p), Settles,
         Using(p) => LeavesBe /\ SparesCreate(p)
  PROVE  Stands(row', container', sent', p)
<1>1. p.removed = 0 \/ p.removed \in Calls
  BY RemovalsAre DEF Fits, ProcRows
<1>2. CASE Using(p)
  <2>1. Current(p.state) \in Calls /\ p.at # "recovered"
    BY <1>2, CallAtHand DEF Using, InTool, Computing, InComputer
  <2> QED
    BY <1>1, <1>2, <2>1 DEF Stands, Settles, LeavesBe, SparesCreate
<1>3. CASE ~Using(p)
  <2>1. p.at \notin Computing
    BY <1>3, CallAtHand DEF Computing, InComputer
  <2>2. p.at = "recovered" => Current(p.state) \in Calls
    BY CallAtHand
  <2> QED
    BY <1>1, <1>3, <2>1, <2>2 DEF Stands, Settles, Computing, InComputer
<1> QED
  BY <1>2, <1>3

(* One worker steps.                                                        *)
LEMMA StandStep ==
  ASSUME LoopInv, HostInv, NEW w \in Workers, NEW q, proc' = [proc EXCEPT ![w] = q], Settles,
         Stands(row', container', sent', q),
         \/ Using(proc[w])
         \/ LeavesBe /\ \A v \in Workers \ {w} : SparesCreate(proc[v])
  PROVE  StandInv'
<1>1. proc \in [Workers -> ProcRows] /\ \A v \in Workers : Fits(proc[v]) /\ Stands(row, container, sent, proc[v])
  BY DEF LoopInv, HostInv, StandInv
<1>2. ASSUME NEW v \in Workers, v # w PROVE Stands(row', container', sent', proc[v])
  <2>1. Using(proc[w]) => ~Using(proc[v])
    BY <1>2 DEF LoopInv, Unique, Busy
  <2>2. Using(proc[v]) => LeavesBe /\ SparesCreate(proc[v])
    BY <1>2, <2>1
  <2> DEFINE p == proc[v]
  <2>3. Fits(p) /\ Stands(row, container, sent, p) /\ (Using(p) => LeavesBe /\ SparesCreate(p))
    BY <1>1, <2>2
  <2> HIDE DEF p
  <2>4. Stands(row', container', sent', p)
    BY <2>3, StandsStill
  <2> QED
    BY <2>4 DEF p
<1>3. proc'[w] = q /\ \A v \in Workers \ {w} : proc'[v] = proc[v]
  BY <1>1
<1> QED
  BY <1>2, <1>3 DEF StandInv

(* A step that leaves the computer alone.                                   *)
Untouched == UNCHANGED computer /\ \A c \in Calls : sent'[<<"program", c>>] = sent[<<"program", c>>]
LEMMA UntouchedLeaves ==
  ASSUME LoopInv, HostInv, Untouched
  PROVE  Settles /\ LeavesBe /\ \A v \in Workers : SparesCreate(proc[v])
BY DEF Untouched, computer, Settles, LeavesBe, SparesCreate, HostInv, StandInv, Stands

LEMMA UntouchedRows ==
  ASSUME LoopInv, HostInv, Untouched, saved' = saved \/ Remembers(saved, saved')
  PROVE  RowsInv'
<1>1. Sound(saved)
  BY DEF LoopInv
<1>2. ASSUME NEW c \in Calls, Reached(saved, c) PROVE Reached(saved', c)
  <2>1. CASE saved' = saved
    BY <1>2, <2>1
  <2>2. CASE Remembers(saved, saved')
    BY <1>1, <1>2, <2>2, ReachedStill
  <2> QED
    BY <2>1, <2>2
<1>3. row' = row /\ container' = container /\ files' = files
  BY DEF Untouched, computer
<1>4. ComputerTypeOK'
  BY <1>3 DEF HostInv, RowsInv, ComputerTypeOK
<1>5. ASSUME NEW c \in Calls PROVE RowFits(c)'
  <2>1. RowFits(c) /\ sent'[<<"program", c>>] = sent[<<"program", c>>]
    BY <1>5 DEF HostInv, RowsInv, Untouched
  <2>2. Reached(saved', c) \/ ~Reached(saved, c)
    BY <1>2, <1>5
  <2> QED
    BY <1>3, <2>1, <2>2 DEF RowFits
<1> QED
  BY <1>4, <1>5 DEF RowsInv

(* The worker is at no call of the computer and has removed nothing more.   *)
Lightly(p, q) ==
  /\ q.removed = p.removed \/ q.removed = 0
  /\ Using(q) => Using(p) /\ q.state = p.state
  /\ q.at \notin Computing \cup {"recovered"}
LEMMA LightStep ==
  ASSUME LoopInv, HostInv, NEW w \in Workers, NEW q, proc' = [proc EXCEPT ![w] = q],
         Lightly(proc[w], q), Untouched, saved' = saved \/ Remembers(saved, saved')
  PROVE  RowsInv' /\ StandInv'
<1>1. RowsInv'
  BY UntouchedRows
<1>2. Settles /\ LeavesBe /\ \A v \in Workers : SparesCreate(proc[v])
  BY UntouchedLeaves
<1>3. Stands(row, container, sent, proc[w])
  BY DEF HostInv, StandInv
<1>4. row' = row /\ container' = container
  BY DEF Untouched, computer
<1>5. Stands(row', container', sent', q)
  BY <1>3, <1>4 DEF Stands, Lightly, Computing, InComputer
<1>6. StandInv'
  BY <1>2, <1>5, StandStep
<1> QED
  BY <1>1, <1>6

LEMMA LightGone ==
  ASSUME NEW w \in Workers, NEW at \in Locations \ Following
  PROVE  Lightly(proc[w], Gone(at))
<1>1. Gone(at).removed = 0 /\ Gone(at).at \notin Following /\ ~Busy(Gone(at))
  BY GoneFits
<1> QED
  BY <1>1 DEF Lightly, Busy, Following, InLoop, InTool

(* A save, and nothing else.                                                *)
LEMMA SaveRows ==
  ASSUME LoopInv, HostInv, NEW w \in Workers, NEW t, NEW dispatch, NEW next,
         Save(w, t, dispatch, next), Holds(w) => Extends(w, t, next), Untouched
  PROVE  RowsInv' /\ StandInv'
<1>1. ASSUME NEW at \in {"resign", "interrupted"}, proc' = [proc EXCEPT ![w] = Gone(at)],
             saved' = saved \/ (saved' = t /\ Extends(w, t, next))
      PROVE  RowsInv' /\ StandInv'
  <2>1. at \in Locations \ Following
    BY Leaving
  <2> DEFINE q == Gone(at)
  <2>2. Lightly(proc[w], q) /\ proc' = [proc EXCEPT ![w] = q]
    BY <1>1, <2>1, LightGone
  <2> HIDE DEF q
  <2>3. saved' = saved \/ Remembers(saved, saved')
    BY <1>1 DEF Extends
  <2> QED
    BY <2>2, <2>3, LightStep
<1>2. ASSUME proc' = [proc EXCEPT ![w] = Kept(w, t, next)], saved' = t, Extends(w, t, next)
      PROVE  RowsInv' /\ StandInv'
  <2> DEFINE q == Kept(w, t, next)
  <2>1. proc' = [proc EXCEPT ![w] = q]
    BY <1>2
  <2>2. q.at = next /\ q.state = t /\ q.removed = proc[w].removed
    BY <1>2 DEF Kept, LoopInv, ProcRows
  <2>4. Remembers(saved, saved')
    BY <1>2 DEF Extends
  <2>3. Stands(row', container', sent', q)
    <3>1. Stands(row, container, sent, proc[w]) /\ row' = row /\ container' = container
      BY DEF HostInv, StandInv, Untouched, computer
    <3>2. /\ q.at \notin Computing
          /\ Using(q) => row[Current(q.state)].phase # "done"
          /\ q.at = "recovered" => row[Current(q.state)].phase = "done"
      BY <1>2, <2>2 DEF Extends, Using
    <3> HIDE DEF q
    <3> QED
      BY <2>2, <3>1, <3>2 DEF Stands, Computing, InComputer
  <2> HIDE DEF q
  <2>5. RowsInv'
    BY <2>4, UntouchedRows
  <2>6. Settles /\ LeavesBe /\ \A v \in Workers : SparesCreate(proc[v])
    BY UntouchedLeaves
  <2> QED
    BY <2>1, <2>3, <2>5, <2>6, StandStep
<1> QED
  BY <1>1, <1>2, SaveSteps

(* The steps that have nothing to do with the computer.                     *)
Light(w) ==
  /\ saved' = saved /\ Untouched
  /\ \E q : /\ proc' = [proc EXCEPT ![w] = q] /\ Lightly(proc[w], q)
            /\ q.at \in Settled => proc[w].at \in Settled

LEMMA LightRows ==
  ASSUME LoopInv, HostInv, NEW w \in Workers, Light(w)
  PROVE  RowsInv' /\ StandInv'
<1>1. PICK q : proc' = [proc EXCEPT ![w] = q] /\ Lightly(proc[w], q)
  BY DEF Light
<1> QED
  BY <1>1, LightStep DEF Light

LEMMA SendUntouched ==
  ASSUME SentInv, NEW r \in Requests, r[1] # "program", Send(r)
  PROVE  Untouched
BY DEF SentInv, Send, Requests, Untouched

LEMMA AloneUntouched ==
  ASSUME Alone
  PROVE  Untouched
BY DEF Alone, Untouched

LEMMA LightPut ==
  ASSUME LoopInv, NEW w \in Workers, NEW at \in Locations \ (InTool \cup {"recovered"}), NEW got \in Results,
         Go(w, at) \/ Turn(w, at) \/ Gets(w, got, at), saved' = saved, Untouched,
         at \in Settled => proc[w].at \in Settled
  PROVE  Light(w)
<1>1. PICK g \in Results, removed \in {0, proc[w].removed} : proc' = [proc EXCEPT ![w] = Put(proc[w], at, g, removed)]
  BY PutSteps
<1> DEFINE q == Put(proc[w], at, g, removed)
<1>2. proc[w] \in ProcRows /\ removed \in Removals
  BY PutSteps
<1>3. q.at = at /\ q.removed = removed
  BY <1>2, PutRow
<1>4. proc' = [proc EXCEPT ![w] = q]
  BY <1>1
<1> HIDE DEF q
<1>5. Lightly(proc[w], q)
  BY <1>3 DEF Lightly, Using, InTool
<1> QED
  BY <1>3, <1>4, <1>5, Zenon DEF Light

LEMMA LightGo ==
  ASSUME LoopInv, NEW w \in Workers, NEW at \in Locations \ (InTool \cup {"recovered"}),
         Go(w, at) \/ Turn(w, at), saved' = saved, Untouched, at \in Settled => proc[w].at \in Settled
  PROVE  Light(w)
BY LightPut, PutSteps

LEMMA LightAbandon ==
  ASSUME NEW w \in Workers, NEW at \in Locations \ Following, Abandon(w, at), saved' = saved, Untouched,
         at \notin Settled
  PROVE  Light(w)
<1> DEFINE q == Gone(at)
<1>1. proc' = [proc EXCEPT ![w] = q]
  BY DEF Abandon, Gone
<1>2. Lightly(proc[w], q)
  BY LightGone
<1>3. q.at = at
  BY GoneFits
<1> HIDE DEF q
<1> QED
  BY <1>1, <1>2, <1>3, Zenon DEF Light

LEMMA Places3 ==
  /\ {"fail", "done", "reply", "wrapReply", "fileReply", "saveFailed", "load", "cancelRun"}
       \subseteq Locations \ (InTool \cup {"recovered"} \cup Settled)
  /\ "tellCancelled" \in Locations \ (InTool \cup {"recovered"})
  /\ {"resign", "interrupted", "out", "cancelRun", "failed"} \subseteq (Locations \ Following) \ Settled
BY Leaving DEF Locations, Cleaning, Ending, Answering, InTool, Computing, InComputer, Settled

LEMMA LightSteps ==
  ASSUME LoopInv, SentInv, HostInv, NEW w \in Workers,
         \/ Take(w) \/ CannotAfford(w) \/ ReplyFails(w) \/ Refuse(w) \/ UseReceipt(w) \/ GiveUpFile(w) \/ ToolFails(w)
         \/ CannotConfirm(w) \/ Tell(w) \/ Interrupt(w) \/ ComputerTimesOut(w) \/ Crash(w) \/ Ask(w) \/ Search(w)
  PROVE  Light(w)
<1>1. CASE Take(w)
  BY <1>1, Places3, LightGo, AloneUntouched DEF Take
<1>2. CASE CannotAfford(w)
  BY <1>2, Places3, LightGo, AloneUntouched DEF CannotAfford, Local
<1>3. CASE ReplyFails(w)
  BY <1>3, Places3, LightGo, AloneUntouched DEF ReplyFails, Local
<1>4. CASE Refuse(w)
  BY <1>4, Places2, Places3, LightPut, AloneUntouched DEF Refuse, Local
<1>5. CASE UseReceipt(w)
  <2>1. row[Call(w)].result \in Results
    BY <1>5, Receipted, Places2 DEF UseReceipt
  <2> QED
    BY <1>5, <2>1, Places3, LightPut, AloneUntouched DEF UseReceipt, Local, Call
<1>6. CASE GiveUpFile(w)
  <2> DEFINE s == [proc[w].state EXCEPT !.fallback = TRUE]
             q == [proc[w] EXCEPT !.state = s, !.got = "failed", !.at = "done"]
  <2>1. proc[w] \in ProcRows
    BY DEF LoopInv
  <2>2. proc' = [proc EXCEPT ![w] = q] /\ q.at = "done" /\ q.removed = proc[w].removed
    BY <1>6, <2>1 DEF GiveUpFile, ProcRows
  <2> HIDE DEF q
  <2>3. q.at \notin Settled /\ Lightly(proc[w], q)
    BY <2>2 DEF Lightly, Using, InTool, Computing, InComputer, Settled
  <2>4. saved' = saved /\ Untouched
    BY <1>6, AloneUntouched DEF GiveUpFile, Local
  <2> QED
    BY <2>2, <2>3, <2>4, Zenon DEF Light
<1>7. CASE ToolFails(w)
  BY <1>7, Places3, LightGo, AloneUntouched DEF ToolFails, Local
<1>8. CASE CannotConfirm(w)
  <2>1. Abandon(w, "resign") \/ Abandon(w, "out")
    BY <1>8 DEF CannotConfirm, Leave
  <2> QED
    BY <1>8, <2>1, Places3, LightAbandon, AloneUntouched DEF CannotConfirm, Local
<1>9. CASE Tell(w)
  <2>1. Abandon(w, "cancelRun") \/ Abandon(w, "out")
    BY <1>9 DEF Tell, Leave
  <2> QED
    BY <1>9, <2>1, Places3, LightAbandon, AloneUntouched DEF Tell
<1>10. CASE Interrupt(w)
  <2>1. Abandon(w, "interrupted") \/ Abandon(w, "resign")
    BY <1>10 DEF Interrupt
  <2> QED
    BY <1>10, <2>1, Places3, LightAbandon, AloneUntouched DEF Interrupt, Local
<1>11. CASE ComputerTimesOut(w)
  BY <1>11, Places3, LightGo, AloneUntouched DEF ComputerTimesOut, Local
<1>12. CASE Crash(w)
  BY <1>12, Places3, LightAbandon, AloneUntouched DEF Crash, Leave, Local
<1>13. CASE Ask(w)
  <2>1. saved' = saved
    BY <1>13, AskMoves
  <2>2. PICK at \in Answering : Go(w, at)
    BY <1>13, AskMoves
  <2>3. PICK r \in Requests : r[1] \in {"model", "wrapUp", "file"} /\ Send(r)
    BY <1>13, AskMoves
  <2>4. Untouched
    BY <2>3, SendUntouched
  <2>5. at \in Locations \ (InTool \cup {"recovered"} \cup Settled)
    BY Places3 DEF Answering
  <2> QED
    BY <2>1, <2>2, <2>4, <2>5, LightGo
<1>14. CASE Search(w)
  <2>1. saved' = saved
    BY <1>14 DEF Search, Local
  <2>2. Untouched
    <3>1. CASE sent' = sent
      BY <1>14, <3>1 DEF Search, Send, Alone, Untouched
    <3>2. CASE \E r \in Requests : r[1] = "search" /\ Send(r)
      BY <3>2, SendUntouched
    <3> QED
      BY <1>14, <3>1, <3>2, SearchMoves
  <2> QED
    BY <1>14, <2>1, <2>2, Places2, Places3, LightPut, LightGo DEF Search
<1> QED
  BY <1>1, <1>2, <1>3, <1>4, <1>5, <1>6, <1>7, <1>8, <1>9, <1>10, <1>11, <1>12, <1>13, <1>14

(* The worker at a call of the computer.                                    *)
LEMMA AtCall ==
  ASSUME LoopInv, HostInv, NEW w \in Workers,
         proc[w].at \in Computing \/ (proc[w].at = "tool" /\ Tool(State(w)) = "computer")
  PROVE  \E c \in Calls :
           /\ Call(w) = c /\ Current(proc[w].state) = c /\ c # 0
           /\ Using(proc[w]) /\ Reached(saved, c) /\ Fits(proc[w]) /\ RowFits(c)
           /\ Stands(row, container, sent, proc[w])
<1>1. Fits(proc[w]) /\ Held(saved, proc[w])
  BY DEF LoopInv
<1>2. Using(proc[w])
  BY <1>1 DEF Fits, Sound, Using, InTool, State
<1>3. Current(proc[w].state) \in Calls
  BY <1>1, <1>2, CallAtHand
<1>4. Reached(saved, Current(proc[w].state))
  BY <1>1, <1>2 DEF Held, Reached
<1>5. RowFits(Current(proc[w].state)) /\ Stands(row, container, sent, proc[w])
  BY <1>3 DEF HostInv, RowsInv, StandInv
<1>6. Current(proc[w].state) # 0
  BY <1>3, CallsAssumption DEF Calls
<1> QED
  BY <1>1, <1>2, <1>3, <1>4, <1>5, <1>6 DEF Call, State

(* One row, its container or its program changes.                           *)
Beside(c) ==
  \A d \in Calls \ {c} : /\ row'[d] = row[d] /\ container'[d] = container[d]
                         /\ sent'[<<"program", d>>] = sent[<<"program", d>>]
LEMMA OneRow ==
  ASSUME HostInv, saved' = saved, NEW c \in Calls, ComputerTypeOK', RowFits(c)', Beside(c)
  PROVE  RowsInv'
<1>1. ASSUME NEW d \in Calls, d # c PROVE RowFits(d)'
  <2>1. RowFits(d)
    BY DEF HostInv, RowsInv
  <2> QED
    BY <1>1, <2>1 DEF RowFits, Beside
<1> QED
  BY <1>1 DEF RowsInv

(* What a change of one phase leaves.                                       *)
LEMMA PhaseSet ==
  ASSUME HostInv, NEW c \in Calls, NEW phase \in Phases, row' = [row EXCEPT ![c].phase = phase],
         UNCHANGED <<container, files, sent>>
  PROVE  /\ ComputerTypeOK' /\ Beside(c)
         /\ row'[c].phase = phase /\ row'[c].result = row[c].result
         /\ row[c].phase # "done" => Settles
<1>1. row \in [Calls -> [phase : Phases, result : Results]]
  BY DEF HostInv, RowsInv, ComputerTypeOK
<1>2. \A d \in Calls : d # c => row'[d] = row[d]
  BY <1>1
<1>4. row'[c] = [row[c] EXCEPT !.phase = phase]
  BY <1>1
<1>5. row' \in [Calls -> [phase : Phases, result : Results]]
  BY <1>1
<1>6. row'[c].phase = phase /\ row'[c].result = row[c].result
  BY <1>1, <1>4
<1>7. Beside(c)
  BY <1>2 DEF Beside
<1>8. row[c].phase # "done" => Settles
  BY <1>2 DEF Settles
<1> QED
  BY <1>5, <1>6, <1>7, <1>8 DEF HostInv, RowsInv, ComputerTypeOK

LEMMA PlaceSet ==
  ASSUME HostInv, NEW c \in Calls, NEW place \in Places, container' = [container EXCEPT ![c] = place],
         UNCHANGED <<row, files, sent>>
  PROVE  /\ ComputerTypeOK' /\ Beside(c)
         /\ container'[c] = place
         /\ container[c] # "gone" \/ place = "gone" => Settles
<1>1. container \in [Calls -> Places]
  BY DEF HostInv, RowsInv, ComputerTypeOK
<1>2. \A d \in Calls : d # c => container'[d] = container[d]
  BY <1>1
<1>4. container' \in [Calls -> Places] /\ container'[c] = place
  BY <1>1
<1>7. Beside(c)
  BY <1>2 DEF Beside
<1>8. container[c] # "gone" \/ place = "gone" => Settles
  BY <1>2, <1>4 DEF Settles
<1> QED
  BY <1>4, <1>7, <1>8 DEF HostInv, RowsInv, ComputerTypeOK

(* What the computer must be like where a step leads.                       *)
LEMMA PutStands ==
  ASSUME LoopInv, HostInv, NEW w \in Workers, NEW at \in Locations, NEW got \in Results, NEW removed \in Removals,
         NEW c \in Calls, Current(proc[w].state) = c, Settles,
         removed # 0 => container'[removed] = "gone",
         at \in InTool => row'[c].phase \notin {"none", "done"},
         at = "create" => row'[c].phase = "creating" /\ container'[c] = "none",
         at \in {"start", "program", "ran", "commit"} => row'[c].phase \in {"running", "cancelled"},
         at = "commit" => container'[c] = "gone",
         at # "recovered",
         at \in {"create", "creating", "start"} => sent'[<<"program", c>>] = 0
  PROVE  Stands(row', container', sent', Put(proc[w], at, got, removed))
<1> DEFINE q == Put(proc[w], at, got, removed)
<1>1. proc[w] \in ProcRows
  BY PutSteps
<1>2. q.at = at /\ q.removed = removed /\ q.state = proc[w].state
  BY <1>1, PutRow
<1> HIDE DEF q
<1>3. Current(q.state) = c
  BY <1>2
<1>4. at \in Computing => at \in InTool
  BY DEF InTool
<1>5. Stands(row', container', sent', q)
  BY <1>2, <1>3, <1>4 DEF Stands, Using
<1> QED
  BY <1>5 DEF q

LEMMA RemovedGone ==
  ASSUME LoopInv, HostInv, NEW w \in Workers, Settles
  PROVE  /\ proc[w].removed \in Removals /\ 0 \in Removals
         /\ proc[w].removed # 0 => container'[proc[w].removed] = "gone"
<1>1. proc[w].removed \in Removals /\ 0 \in Removals
  BY PutSteps
<1>2. proc[w].removed = 0 \/ proc[w].removed \in Calls
  BY <1>1, RemovalsAre
<1> QED
  BY <1>1, <1>2 DEF HostInv, StandInv, Stands, Settles

LEMMA AdmitRows ==
  ASSUME LoopInv, HostInv, NEW w \in Workers, AdmitCall(w), Admit(Call(w)), Go(w, "create")
  PROVE  RowsInv' /\ StandInv'
<1>1. PICK c \in Calls : /\ Call(w) = c /\ Current(proc[w].state) = c
                         /\ Using(proc[w]) /\ Reached(saved, c) /\ RowFits(c)
  BY AtCall DEF AdmitCall
<1>2. /\ row[c].phase = "none" /\ row' = [row EXCEPT ![c].phase = "creating"]
      /\ UNCHANGED <<container, files, sent>> /\ saved' = saved
  BY <1>1 DEF Admit, AdmitCall, Local
<1>3. "creating" \in Phases /\ "create" \in Locations
  BY DEF Phases, Locations, InComputer
<1>4. ComputerTypeOK' /\ Beside(c) /\ row'[c].phase = "creating" /\ Settles
  BY <1>2, <1>3, PhaseSet
<1>5. RowFits(c)'
  BY <1>1, <1>2, <1>4 DEF RowFits
<1>6. RowsInv'
  BY <1>2, <1>4, <1>5, OneRow
<1>7. container'[c] = "none" /\ sent'[<<"program", c>>] = 0
  BY <1>1, <1>2 DEF RowFits
<1> DEFINE q == Put(proc[w], "create", proc[w].got, proc[w].removed)
<1>8. proc' = [proc EXCEPT ![w] = q] /\ proc[w].got \in Results
  BY PutSteps
<1>9. Stands(row', container', sent', q)
  BY <1>1, <1>3, <1>4, <1>7, <1>8, PutStands, RemovedGone
<1> HIDE DEF q
<1> QED
  BY <1>1, <1>4, <1>6, <1>8, <1>9, StandStep

LEMMA CreateRows ==
  ASSUME LoopInv, HostInv, NEW w \in Workers, Create(w)
  PROVE  RowsInv' /\ StandInv'
<1>0. proc[w].at = "create" /\ proc[w].at \in Computing
  BY DEF Create, Computing, InComputer
<1>1. PICK c \in Calls : /\ Call(w) = c /\ Current(proc[w].state) = c
                         /\ Using(proc[w]) /\ Reached(saved, c) /\ Stands(row, container, sent, proc[w])
  BY <1>0, AtCall
<1>2. /\ container' = [container EXCEPT ![c] = "coming"]
      /\ UNCHANGED <<row, files, sent>> /\ saved' = saved
  BY <1>1 DEF Create, AskForContainer, Local, Quiet
<1>3. row[c].phase = "creating" /\ container[c] = "none" /\ sent[<<"program", c>>] = 0
  BY <1>0, <1>1 DEF Stands
<1>4. ComputerTypeOK' /\ Beside(c) /\ container'[c] = "coming" /\ Settles
  <2>1. "coming" \in Places
    BY DEF Places
  <2> QED
    BY <1>2, <1>3, <2>1, PlaceSet
<1>5. RowFits(c)'
  BY <1>1, <1>2, <1>3, <1>4 DEF RowFits
<1>6. RowsInv'
  BY <1>2, <1>4, <1>5, OneRow
<1> DEFINE q == Put(proc[w], "creating", proc[w].got, proc[w].removed)
<1>8. proc' = [proc EXCEPT ![w] = q] /\ proc[w].got \in Results /\ "creating" \in Locations
  BY PutSteps DEF Create, Locations, InComputer
<1>9. Stands(row', container', sent', q)
  BY <1>1, <1>2, <1>3, <1>4, <1>8, PutStands, RemovedGone
<1> HIDE DEF q
<1> QED
  BY <1>1, <1>4, <1>6, <1>8, <1>9, StandStep

LEMMA CreatedRows ==
  ASSUME LoopInv, HostInv, NEW w \in Workers, CreateAnswer(w), Created(Call(w)), Go(w, "start"),
         container[Call(w)] \in {"there", "gone"}
  PROVE  RowsInv' /\ StandInv'
<1>0. proc[w].at = "creating" /\ proc[w].at \in Computing
  BY DEF CreateAnswer, Computing, InComputer
<1>1. PICK c \in Calls : /\ Call(w) = c /\ Current(proc[w].state) = c
                         /\ Using(proc[w]) /\ Reached(saved, c) /\ Stands(row, container, sent, proc[w])
  BY <1>0, AtCall
<1>2. /\ row[c].phase = "creating" /\ row' = [row EXCEPT ![c].phase = "running"]
      /\ UNCHANGED <<container, files, sent>> /\ saved' = saved
  BY <1>1 DEF CreateAnswer, Created, Local, Quiet
<1>3. "running" \in Phases /\ "start" \in Locations
  BY DEF Phases, Locations, InComputer
<1>4. ComputerTypeOK' /\ Beside(c) /\ row'[c].phase = "running" /\ Settles
  BY <1>2, <1>3, PhaseSet
<1>5. RowFits(c)'
  BY <1>1, <1>2, <1>4 DEF RowFits
<1>6. RowsInv'
  BY <1>2, <1>4, <1>5, OneRow
<1>7. sent'[<<"program", c>>] = 0
  BY <1>0, <1>1, <1>2 DEF Stands
<1> DEFINE q == Put(proc[w], "start", proc[w].got, proc[w].removed)
<1>8. proc' = [proc EXCEPT ![w] = q] /\ proc[w].got \in Results
  BY PutSteps
<1>9. Stands(row', container', sent', q)
  BY <1>1, <1>3, <1>4, <1>7, <1>8, PutStands, RemovedGone
<1> HIDE DEF q
<1> QED
  BY <1>1, <1>4, <1>6, <1>8, <1>9, StandStep

LEMMA RunRows ==
  ASSUME LoopInv, SentInv, HostInv, NEW w \in Workers, RunProgram(w)
  PROVE  RowsInv' /\ StandInv'
<1>0. proc[w].at = "start" /\ proc[w].at \in Computing
  BY DEF RunProgram, Computing, InComputer
<1>1. PICK c \in Calls : /\ Call(w) = c /\ Current(proc[w].state) = c
                         /\ Using(proc[w]) /\ Reached(saved, c) /\ RowFits(c) /\ Stands(row, container, sent, proc[w])
  BY <1>0, AtCall
<1>2. /\ sent' = [sent EXCEPT ![<<"program", c>>] = @ + 1] /\ sent \in [Requests -> Nat]
      /\ UNCHANGED <<row, container, files>> /\ saved' = saved
  BY <1>1 DEF RunProgram, Send, Local, computer, SentInv
<1>3. row[c].phase \in {"running", "cancelled"}
  BY <1>0, <1>1 DEF Stands
<1>4. ComputerTypeOK' /\ Beside(c) /\ Settles
  BY <1>2 DEF HostInv, RowsInv, ComputerTypeOK, Beside, Settles, Requests
<1>5. RowFits(c)'
  BY <1>1, <1>2, <1>3 DEF RowFits
<1>6. RowsInv'
  BY <1>2, <1>4, <1>5, OneRow
<1> DEFINE q == Put(proc[w], "program", proc[w].got, proc[w].removed)
<1>8. proc' = [proc EXCEPT ![w] = q] /\ proc[w].got \in Results /\ "program" \in Locations
  BY PutSteps DEF RunProgram, Locations, InComputer
<1>9. Stands(row', container', sent', q)
  BY <1>1, <1>2, <1>3, <1>4, <1>8, PutStands, RemovedGone
<1> HIDE DEF q
<1> QED
  BY <1>1, <1>4, <1>6, <1>8, <1>9, StandStep

(* The program has ended, well or not.                                      *)
LEMMA EndsRows ==
  ASSUME LoopInv, HostInv, NEW w \in Workers, ProgramEnds(w) \/ ExecutorFails(w)
  PROVE  RowsInv' /\ StandInv'
<1>0. proc[w].at \in {"start", "program", "ran"} /\ proc[w].at \in Computing
  BY DEF ProgramEnds, ExecutorFails, Computing, InComputer
<1>1. PICK c \in Calls : /\ Call(w) = c /\ Current(proc[w].state) = c
                         /\ Using(proc[w]) /\ Stands(row, container, sent, proc[w])
  BY <1>0, AtCall
<1>2. Untouched /\ saved' = saved
  BY AloneUntouched DEF ProgramEnds, ExecutorFails, Local
<1>3. RowsInv' /\ Settles /\ row' = row
  BY <1>2, UntouchedRows, UntouchedLeaves DEF Untouched, computer
<1>4. row'[c].phase \in {"running", "cancelled"}
  BY <1>0, <1>1, <1>3 DEF Stands
<1>5. PICK at \in {"ran", "discard"}, got \in {"ok", "failed"} : Gets(w, got, at)
  BY DEF ProgramEnds, ExecutorFails
<1> DEFINE q == Put(proc[w], at, got, 0)
<1>6. proc' = [proc EXCEPT ![w] = q] /\ got \in Results /\ at \in Locations /\ 0 \in Removals
  BY <1>5, PutSteps DEF Results, Locations, InComputer, Cleaning
<1>7. Stands(row', container', sent', q)
  BY <1>1, <1>3, <1>4, <1>6, PutStands
<1> HIDE DEF q
<1> QED
  BY <1>1, <1>3, <1>6, <1>7, StandStep

(* A creation that failed and left nothing, a result that does not fit.     *)
GivesUp(w) == (CreateAnswer(w) \/ Commit(w)) /\ Gets(w, "failed", "discard") /\ UNCHANGED computer
LEMMA GivesUpRows ==
  ASSUME LoopInv, HostInv, NEW w \in Workers, GivesUp(w)
  PROVE  RowsInv' /\ StandInv'
<1>0. proc[w].at \in {"creating", "commit"} /\ proc[w].at \in Computing
  BY DEF GivesUp, CreateAnswer, Commit, Computing, InComputer
<1>1. PICK c \in Calls : /\ Call(w) = c /\ Current(proc[w].state) = c
                         /\ Using(proc[w]) /\ Stands(row, container, sent, proc[w])
  BY <1>0, AtCall
<1>2. Untouched /\ saved' = saved /\ Gets(w, "failed", "discard")
  BY DEF GivesUp, CreateAnswer, Commit, Local, Quiet, Untouched
<1>3. RowsInv' /\ Settles /\ row' = row
  BY <1>2, UntouchedRows, UntouchedLeaves DEF Untouched, computer
<1>4. row'[c].phase \notin {"none", "done"}
  BY <1>0, <1>1, <1>3 DEF Stands
<1> DEFINE q == Put(proc[w], "discard", "failed", 0)
<1>6. /\ proc' = [proc EXCEPT ![w] = q] /\ 0 \in Removals
      /\ "failed" \in Results /\ "discard" \in Locations
  BY <1>2, PutSteps DEF Results, Locations, Cleaning
<1>7. Stands(row', container', sent', q)
  BY <1>1, <1>3, <1>4, <1>6, PutStands
<1> HIDE DEF q
<1> QED
  BY <1>1, <1>3, <1>6, <1>7, StandStep

LEMMA RemoveRows ==
  ASSUME LoopInv, HostInv, NEW w \in Workers, RemoveContainer(w)
  PROVE  RowsInv' /\ StandInv'
<1>0. proc[w].at = "ran" /\ proc[w].at \in Computing
  BY DEF RemoveContainer, Computing, InComputer
<1>1. PICK c \in Calls : /\ Call(w) = c /\ Current(proc[w].state) = c
                         /\ Using(proc[w]) /\ Reached(saved, c) /\ RowFits(c) /\ Stands(row, container, sent, proc[w])
  BY <1>0, AtCall
<1>2. /\ IF container[c] = "there" THEN Remove(c) ELSE UNCHANGED computer
      /\ Unfinished(c) /\ UNCHANGED sent /\ saved' = saved
  BY <1>1 DEF RemoveContainer, Local, Quiet
<1>3. row[c].phase = "running" /\ container[c] \in {"there", "gone"}
  BY <1>0, <1>1, <1>2 DEF Stands, RowFits, Unfinished
<1>4. RowsInv' /\ Settles /\ container'[c] = "gone" /\ row' = row
  <2>1. CASE container[c] = "there"
    <3>1. container' = [container EXCEPT ![c] = "gone"] /\ UNCHANGED <<row, files, sent>> /\ "gone" \in Places
      BY <1>2, <2>1 DEF Remove, Places
    <3>2. ComputerTypeOK' /\ Beside(c) /\ container'[c] = "gone" /\ Settles
      BY <3>1, PlaceSet
    <3>3. RowFits(c)'
      BY <1>1, <1>2, <1>3, <3>1, <3>2 DEF RowFits
    <3> QED
      BY <1>2, <3>1, <3>2, <3>3, OneRow
  <2>2. CASE container[c] = "gone"
    <3>1. Untouched
      BY <1>2, <2>2 DEF Untouched
    <3> QED
      BY <1>2, <2>2, <3>1, UntouchedRows, UntouchedLeaves DEF Untouched, computer
  <2> QED
    BY <1>3, <2>1, <2>2
<1> DEFINE q == Put(proc[w], "commit", proc[w].got, proc[w].removed)
<1>8. proc' = [proc EXCEPT ![w] = q] /\ proc[w].got \in Results /\ "commit" \in Locations
  BY PutSteps DEF RemoveContainer, Locations
<1>9. Stands(row', container', sent', q)
  BY <1>1, <1>3, <1>4, <1>8, PutStands, RemovedGone
<1> HIDE DEF q
<1> QED
  BY <1>1, <1>4, <1>8, <1>9, StandStep

LEMMA CommitRows ==
  ASSUME LoopInv, HostInv, NEW w \in Workers, Commit(w), Finish(Call(w), proc[w].got), Go(w, "done")
  PROVE  RowsInv' /\ StandInv'
<1>0. proc[w].at = "commit" /\ proc[w].at \in Computing
  BY DEF Commit, Computing
<1>1. PICK c \in Calls : /\ Call(w) = c /\ Current(proc[w].state) = c
                         /\ Using(proc[w]) /\ Reached(saved, c) /\ RowFits(c) /\ Fits(proc[w])
                         /\ Stands(row, container, sent, proc[w])
  BY <1>0, AtCall
<1>2. PICK result \in Verdicts : proc[w].got = result
  BY <1>0, <1>1 DEF Fits
<1>3. /\ row[c].phase = "running" /\ row' = [row EXCEPT ![c] = [phase |-> "done", result |-> result]]
      /\ files' = IF result = "ok" THEN Append(files, c) ELSE files
      /\ UNCHANGED <<container, sent>> /\ saved' = saved
  BY <1>1, <1>2 DEF Commit, Finish, Local, Quiet
<1>4. container[c] = "gone"
  BY <1>0, <1>1 DEF Stands
<1>5. row \in [Calls -> [phase : Phases, result : Results]] /\ files \in Seq(Calls)
  BY DEF HostInv, RowsInv, ComputerTypeOK
<1>7. /\ row'[c].phase = "done" /\ row'[c].result = result /\ \A d \in Calls : d # c => row'[d] = row[d]
      /\ row' \in [Calls -> [phase : Phases, result : Results]]
  BY <1>1, <1>3, <1>5 DEF Phases, Verdicts, Results
<1>8. ComputerTypeOK' /\ Beside(c) /\ Settles
  <2>1. files' \in Seq(Calls)
    BY <1>1, <1>3, <1>5
  <2> QED
    BY <1>1, <1>3, <1>7, <2>1 DEF HostInv, RowsInv, ComputerTypeOK, Beside, Settles
<1>9. RowFits(c)'
  BY <1>1, <1>3, <1>4, <1>7 DEF RowFits
<1>10. RowsInv'
  BY <1>3, <1>8, <1>9, OneRow
<1> DEFINE q == Put(proc[w], "done", proc[w].got, proc[w].removed)
<1>11. proc' = [proc EXCEPT ![w] = q] /\ proc[w].got \in Results /\ "done" \in Locations /\ "done" \notin InTool
  BY PutSteps DEF Locations, InTool, Computing, InComputer
<1>12. Stands(row', container', sent', q)
  BY <1>1, <1>8, <1>11, PutStands, RemovedGone
<1> HIDE DEF q
<1> QED
  BY <1>1, <1>8, <1>10, <1>11, <1>12, StandStep

LEMMA LeftoverRows ==
  ASSUME LoopInv, HostInv, NEW w \in Workers, RemoveLeftover(w)
  PROVE  RowsInv' /\ StandInv'
<1>1. PICK c \in Mine : Remove(c) /\ proc' = [proc EXCEPT ![w].removed = c]
  BY DEF RemoveLeftover
<1>2. c \in Calls /\ row[c].phase \in {"creating", "running"} /\ RowFits(c)
  BY DEF Mine, Unfinished, HostInv, RowsInv
<1>3. /\ container[c] = "there" /\ container' = [container EXCEPT ![c] = "gone"]
      /\ UNCHANGED <<row, files, sent>> /\ saved' = saved
  BY <1>1 DEF Remove, RemoveLeftover, Local, Quiet
<1>4. ComputerTypeOK' /\ Beside(c) /\ container'[c] = "gone" /\ Settles
  BY <1>2, <1>3, PlaceSet DEF Places
<1>5. RowFits(c)'
  BY <1>2, <1>3, <1>4 DEF RowFits
<1>6. RowsInv'
  BY <1>2, <1>3, <1>4, <1>5, OneRow
<1>7. proc[w] \in ProcRows /\ Fits(proc[w]) /\ Stands(row, container, sent, proc[w]) /\ proc[w].at \in Cleaning
  BY DEF LoopInv, HostInv, StandInv, RemoveLeftover
<1> DEFINE q == [proc[w] EXCEPT !.removed = c]
<1>8. /\ proc' = [proc EXCEPT ![w] = q]
      /\ q.at = proc[w].at /\ q.state = proc[w].state /\ q.removed = c
  BY <1>1, <1>7 DEF ProcRows
<1> HIDE DEF q
<1>9. q.at \notin {"create", "start", "program", "ran", "commit", "recovered", "creating"}
  BY <1>7, <1>8 DEF Cleaning
<1>10. Stands(row', container', sent', q)
  BY <1>3, <1>4, <1>7, <1>8, <1>9 DEF Stands, Using
<1>11. LeavesBe
  BY <1>3 DEF LeavesBe
<1>12. ASSUME NEW v \in Workers, proc[v].at = "create"
       PROVE  row'[Current(proc[v].state)].phase = "creating" /\ container'[Current(proc[v].state)] = "none"
  <2>1. Fits(proc[v]) /\ Stands(row, container, sent, proc[v])
    BY DEF LoopInv, HostInv, StandInv
  <2>2. Current(proc[v].state) \in Calls
    BY <1>12, <2>1, CallAtHand DEF Computing, InComputer
  <2>3. row[Current(proc[v].state)].phase = "creating" /\ container[Current(proc[v].state)] = "none"
    BY <1>12, <2>1 DEF Stands
  <2>4. container \in [Calls -> Places]
    BY DEF HostInv, RowsInv, ComputerTypeOK
  <2> QED
    BY <1>2, <1>3, <2>2, <2>3, <2>4
<1>13. \A v \in Workers \ {w} : SparesCreate(proc[v])
  BY <1>12 DEF SparesCreate
<1> QED
  BY <1>4, <1>6, <1>8, <1>10, <1>11, <1>13, StandStep

(* What cleanup finds when it is confirmed.                                 *)
LEMMA ConfirmedGone ==
  ASSUME LoopInv, HostInv, NEW w \in Workers, Confirm(w), NEW c \in Mine
  PROVE  c \in Calls /\ container[c] = "gone" /\ row[c].phase \in {"creating", "running"}
<1>1. c \in Calls /\ row[c].phase \in {"creating", "running"} /\ RowFits(c) /\ Confirmed(c, proc[w].removed = c)
  BY DEF Confirm, Mine, Unfinished, HostInv, RowsInv
<1>2. Stands(row, container, sent, proc[w]) /\ c # 0
  BY <1>1, CallsAssumption DEF HostInv, StandInv, Calls
<1>3. CASE proc[w].removed = c
  BY <1>1, <1>2, <1>3 DEF Stands
<1>4. CASE proc[w].removed # c
  BY <1>1, <1>4 DEF Confirmed, RowFits
<1> QED
  BY <1>1, <1>3, <1>4

LEMMA ConfirmMine ==
  ASSUME LoopInv, HostInv, NEW w \in Workers, Confirm(w)
  PROVE  /\ Mine' = {} /\ UNCHANGED <<container, files, sent, strayed>> /\ saved' = saved
         /\ \A c \in Calls : row'[c] = IF c \in Mine THEN [row[c] EXCEPT !.phase = "cancelled"] ELSE row[c]
         /\ \A c \in Mine : row'[c].phase = "cancelled" /\ row'[c].result = row[c].result
         /\ row' \in [Calls -> [phase : Phases, result : Results]]
<1>1. /\ row' = [c \in Calls |-> IF c \in Mine /\ Unfinished(c) THEN [row[c] EXCEPT !.phase = "cancelled"]
                                      ELSE row[c]]
      /\ UNCHANGED <<container, files, sent, strayed>> /\ saved' = saved
  BY DEF Confirm, Cancelled, Local, Quiet
<1>2. row \in [Calls -> [phase : Phases, result : Results]]
  BY DEF HostInv, RowsInv, ComputerTypeOK
<1>3. \A c \in Calls : row'[c] = IF c \in Mine THEN [row[c] EXCEPT !.phase = "cancelled"] ELSE row[c]
  BY <1>1 DEF Mine
<1>4. \A c \in Mine : row'[c].phase = "cancelled" /\ row'[c].result = row[c].result
  BY <1>2, <1>3 DEF Mine
<1>5. row' \in [Calls -> [phase : Phases, result : Results]]
  BY <1>1, <1>2 DEF Phases
<1>6. \A c \in Calls : row'[c].phase \notin {"creating", "running"}
  <2> SUFFICES ASSUME NEW c \in Calls PROVE row'[c].phase \notin {"creating", "running"}
    OBVIOUS
  <2>1. CASE c \in Mine
    BY <1>4, <2>1
  <2>2. CASE c \notin Mine
    BY <1>2, <1>3, <2>2 DEF Mine, Unfinished
  <2> QED
    BY <2>1, <2>2
<1>7. Mine' = {}
  BY <1>6 DEF Mine, Unfinished
<1> QED
  BY <1>1, <1>3, <1>4, <1>5, <1>7

LEMMA ConfirmRows ==
  ASSUME LoopInv, HostInv, NEW w \in Workers, Confirm(w)
  PROVE  RowsInv' /\ StandInv'
<1>1. /\ UNCHANGED <<container, files, sent>> /\ saved' = saved
      /\ \A c \in Calls : row'[c] = IF c \in Mine THEN [row[c] EXCEPT !.phase = "cancelled"] ELSE row[c]
      /\ \A c \in Mine : row'[c].phase = "cancelled" /\ row'[c].result = row[c].result
      /\ row' \in [Calls -> [phase : Phases, result : Results]]
  BY ConfirmMine
<1>3. ComputerTypeOK'
  BY <1>1 DEF HostInv, RowsInv, ComputerTypeOK
<1>4. ASSUME NEW c \in Calls PROVE RowFits(c)'
  <2>1. RowFits(c)
    BY DEF HostInv, RowsInv
  <2>2. CASE c \in Mine
    <3>1. container[c] = "gone" /\ row[c].phase \in {"creating", "running"}
      BY <2>2, ConfirmedGone
    <3> QED
      BY <1>1, <2>1, <2>2, <3>1 DEF RowFits
  <2>3. CASE c \notin Mine
    BY <1>1, <2>1, <2>3 DEF RowFits
  <2> QED
    BY <2>2, <2>3
<1>5. \A c \in Mine : c \in Calls /\ container[c] = "gone" /\ row[c].phase \in {"creating", "running"}
  BY ConfirmedGone
<1>6. Settles
  BY <1>1, <1>5 DEF Settles
<1>7. LeavesBe
  <2> SUFFICES ASSUME NEW c \in Calls
               PROVE  /\ row'[c].phase = "done" => row[c].phase = "done"
                      /\ row[c].phase # "none" => row'[c].phase # "none"
                      /\ row[c].phase \in {"running", "cancelled"} => row'[c].phase \in {"running", "cancelled"}
    BY <1>1 DEF LeavesBe
  <2>1. CASE c \in Mine
    BY <1>1, <2>1
  <2>2. CASE c \notin Mine
    BY <1>1, <2>2
  <2> QED
    BY <2>1, <2>2
<1>8. ASSUME NEW v \in Workers PROVE SparesCreate(proc[v])
  <2> SUFFICES ASSUME proc[v].at = "create"
               PROVE  row'[Current(proc[v].state)].phase = "creating" /\ container'[Current(proc[v].state)] = "none"
    BY DEF SparesCreate
  <2>1. Fits(proc[v]) /\ Stands(row, container, sent, proc[v])
    BY DEF LoopInv, HostInv, StandInv
  <2>2. Current(proc[v].state) \in Calls
    BY <2>1, CallAtHand DEF Computing, InComputer
  <2>3. row[Current(proc[v].state)].phase = "creating" /\ container[Current(proc[v].state)] = "none"
    BY <2>1 DEF Stands
  <2>4. Current(proc[v].state) \notin Mine
    BY <1>5, <2>3
  <2> QED
    BY <1>1, <2>2, <2>3, <2>4
<1>9. Fits(proc[w]) /\ Stands(row, container, sent, proc[w]) /\ proc[w].at \in Cleaning
  BY DEF LoopInv, HostInv, StandInv, Confirm
<1>10. \E q : proc' = [proc EXCEPT ![w] = q] /\ Lightly(proc[w], q)
  <2>1. \/ \E at \in {"done", "saveFailed", "saveFinished"} : Turn(w, at)
        \/ \E at \in {"tellFailed", "cancelRun", "saveCancelled", "out"} : Abandon(w, at)
    BY <1>9 DEF Confirm, Cleaning, After
  <2>2. ASSUME NEW at \in {"done", "saveFailed", "saveFinished"}, Turn(w, at)
        PROVE  \E q : proc' = [proc EXCEPT ![w] = q] /\ Lightly(proc[w], q)
    <3> DEFINE q == Put(proc[w], at, proc[w].got, 0)
    <3>1. proc' = [proc EXCEPT ![w] = q] /\ proc[w] \in ProcRows /\ proc[w].got \in Results /\ 0 \in Removals
      BY <2>2, PutSteps
    <3>2. q.at = at /\ q.removed = 0
      BY <3>1, PutRow DEF Locations, Ending
    <3> HIDE DEF q
    <3>3. Lightly(proc[w], q)
      BY <3>2 DEF Lightly, Using, InTool, Computing, InComputer
    <3> QED
      BY <3>1, <3>3
  <2>3. ASSUME NEW at \in {"tellFailed", "cancelRun", "saveCancelled", "out"}, Abandon(w, at)
        PROVE  \E q : proc' = [proc EXCEPT ![w] = q] /\ Lightly(proc[w], q)
    <3>1. proc' = [proc EXCEPT ![w] = Gone(at)]
      BY <2>3, PutSteps
    <3> QED
      BY <3>1, LightGone, Leaving
  <2> QED
    BY <2>1, <2>2, <2>3
<1>11. PICK q : proc' = [proc EXCEPT ![w] = q] /\ Lightly(proc[w], q)
  BY <1>10
<1>12. Stands(row', container', sent', q)
  <2>1. q.removed # 0 => container'[q.removed] = "gone"
    BY <1>1, <1>9, <1>11 DEF Lightly, Stands
  <2>2. Using(q) => row'[Current(q.state)].phase # "done"
    <3> SUFFICES ASSUME Using(q) PROVE row'[Current(q.state)].phase # "done"
      OBVIOUS
    <3>1. Using(proc[w]) /\ q.state = proc[w].state
      BY <1>11 DEF Lightly
    <3>2. Current(q.state) \in Calls /\ row[Current(q.state)].phase # "done"
      BY <1>9, <3>1, CallAtHand DEF Stands
    <3> QED
      BY <1>7, <3>2 DEF LeavesBe
  <2> QED
    BY <1>11, <2>1, <2>2 DEF Stands, Lightly, Computing, InComputer
<1>13. StandInv'
  BY <1>6, <1>7, <1>8, <1>11, <1>12, StandStep
<1> QED
  BY <1>3, <1>4, <1>13 DEF RowsInv

LEMMA DaemonRows ==
  ASSUME LoopInv, HostInv, Daemon
  PROVE  RowsInv' /\ StandInv'
<1>1. PICK c \in Calls : (Appears(c) \/ Vanishes(c)) /\ UNCHANGED run /\ Quiet
  BY DEF Daemon
<1>2. PICK place \in {"there", "none"} :
        /\ container[c] = "coming" /\ container' = [container EXCEPT ![c] = place]
        /\ UNCHANGED <<row, files, sent>> /\ saved' = saved /\ proc' = proc
  BY <1>1 DEF Appears, Vanishes, Quiet, run
<1>3. RowFits(c) /\ row[c].phase \in Phases
  BY DEF HostInv, RowsInv, ComputerTypeOK
<1>4. row[c].phase = "creating"
  BY <1>2, <1>3 DEF RowFits, Phases
<1>5. ComputerTypeOK' /\ Beside(c) /\ container'[c] = place /\ Settles
  BY <1>2, PlaceSet DEF Places
<1>6. RowFits(c)'
  BY <1>2, <1>3, <1>4, <1>5 DEF RowFits
<1>7. RowsInv'
  BY <1>2, <1>5, <1>6, OneRow
<1>8. LeavesBe
  BY <1>2 DEF LeavesBe
<1>9. ASSUME NEW v \in Workers PROVE Stands(row', container', sent', proc[v])
  <2> DEFINE p == proc[v]
  <2>1. Fits(p) /\ Stands(row, container, sent, p)
    BY DEF LoopInv, HostInv, StandInv
  <2> HIDE DEF p
  <2>2. SparesCreate(p)
    <3> SUFFICES ASSUME p.at = "create"
                 PROVE  row'[Current(p.state)].phase = "creating" /\ container'[Current(p.state)] = "none"
      BY DEF SparesCreate
    <3>1. row[Current(p.state)].phase = "creating" /\ container[Current(p.state)] = "none"
      BY <2>1 DEF Stands
    <3>2. Current(p.state) \in Calls /\ container \in [Calls -> Places]
      BY <2>1, CallAtHand, CallsAssumption
         DEF Computing, InComputer, Calls, HostInv, RowsInv, ComputerTypeOK
    <3> QED
      BY <1>2, <3>1, <3>2
  <2>3. Stands(row', container', sent', p)
    BY <1>5, <1>8, <2>1, <2>2, StandsStill
  <2> QED
    BY <2>3 DEF p
<1>10. StandInv'
  BY <1>2, <1>9 DEF StandInv
<1> QED
  BY <1>7, <1>10

(* Every step of a worker is of one of these kinds.                         *)
Saving(w) ==
  /\ Untouched
  /\ \E t, dispatch, next : Save(w, t, dispatch, next) /\ (Holds(w) => Extends(w, t, next))
Admits(w) == /\ AdmitCall(w) /\ Admit(Call(w)) /\ Go(w, "create")
             /\ strayed' = IF Holds(w) THEN strayed ELSE strayed \cup {Call(w)}
Creates(w) == CreateAnswer(w) /\ container[Call(w)] \in {"there", "gone"} /\ Created(Call(w)) /\ Go(w, "start")
Commits(w) == Commit(w) /\ Finish(Call(w), proc[w].got) /\ Go(w, "done")
Calling(w) == Create(w) \/ Creates(w) \/ RunProgram(w) \/ ProgramEnds(w) \/ ExecutorFails(w) \/ RemoveContainer(w)
                \/ Commits(w) \/ GivesUp(w)

LEMMA WritesSaving ==
  ASSUME NEW w \in Workers, Writes(w), Untouched
  PROVE  Saving(w)
<1>1. PICK t, dispatch, next : Save(w, t, dispatch, next) /\ (Holds(w) => Extends(w, t, next))
  BY Zenon DEF Writes
<1> QED
  BY <1>1, Zenon DEF Saving

LEMMA SavingRows ==
  ASSUME LoopInv, HostInv, NEW w \in Workers, Saving(w)
  PROVE  RowsInv' /\ StandInv'
<1>1. PICK t, dispatch, next : Save(w, t, dispatch, next) /\ (Holds(w) => Extends(w, t, next))
  BY Zenon DEF Saving
<1>2. Untouched
  BY DEF Saving
<1> QED
  BY <1>1, <1>2, SaveRows

LEMMA UploadsSaving ==
  ASSUME LoopInv, SentInv, NEW w \in Workers, Upload(w)
  PROVE  Saving(w) \/ Light(w)
<1>1. Untouched
  <2>1. CASE Alone
    BY <2>1, AloneUntouched
  <2>2. CASE Send(<<"publish", Call(w)>>)
    <3>1. proc[w].at = "upload"
      BY DEF Upload
    <3>2. Sound(State(w)) /\ Pending(State(w))
      BY <3>1, ToolFits
    <3>3. <<"publish", Call(w)>> \in Requests
      BY <3>2, Sorts DEF Requests, Call
    <3>4. <<"publish", Call(w)>>[1] # "program"
      OBVIOUS
    <3> QED
      BY <2>2, <3>3, <3>4, SendUntouched
  <2> QED
    BY <2>1, <2>2, UploadWrites
<1>2. CASE Uploads(w)
  <2>1. saved' = saved /\ Verdicts \subseteq Results
    BY <1>2 DEF Uploads, Verdicts, Results
  <2> QED
    BY <1>1, <1>2, <2>1, LightPut, LightAbandon, Places3 DEF Uploads
<1>3. ASSUME Save(w, State(w), FALSE, "tool"), Holds(w) => Extends(w, State(w), "tool")
      PROVE  Saving(w)
  BY <1>1, <1>3, Zenon DEF Saving
<1> QED
  BY <1>2, <1>3, UploadWrites

LEMMA Kinds3 ==
  ASSUME LoopInv, SentInv, HostInv, NEW w \in Workers, WorkerStep(w)
  PROVE  Saving(w) \/ Light(w) \/ Admits(w) \/ Calling(w) \/ RemoveLeftover(w) \/ Confirm(w)
<1>1. CASE \/ Take(w) \/ CannotAfford(w) \/ ReplyFails(w) \/ Refuse(w) \/ UseReceipt(w) \/ GiveUpFile(w) \/ ToolFails(w)
           \/ CannotConfirm(w) \/ Tell(w) \/ Interrupt(w) \/ ComputerTimesOut(w) \/ Crash(w) \/ Ask(w) \/ Search(w)
  BY <1>1, LightSteps
<1>2. CASE \/ Load(w) \/ AnswerEarly(w) \/ FailEarly(w) \/ ResearchFile(w) \/ AskModel(w) \/ AskForFile(w)
           \/ AskToWrapUp(w) \/ AnswerUnasked(w) \/ Reply(w) \/ FileReply(w)
  <2>1. Writes(w)
    BY <1>2, LoadWrites, AnswerEarlyWrites, FailEarlyWrites, ResearchFileWrites, AskModelWrites, AskForFileWrites,
       AskToWrapUpWrites, AnswerUnaskedWrites, ReplyWrites, FileReplyWrites
  <2>2. Alone
    BY <1>2 DEF Load, AnswerEarly, FailEarly, ResearchFile, AskModel, AskForFile, AskToWrapUp, AnswerUnasked, Reply,
                FileReply
  <2> QED
    BY <2>1, <2>2, WritesSaving, AloneUntouched
<1>3. CASE WrapUpReply(w)
  <2>1. Conclude(w) /\ proc[w].at \in {"work"} \cup Thinking \cup Wrapping /\ Alone
    BY <1>3 DEF WrapUpReply, Wrapping
  <2> QED
    BY <2>1, ConcludeWrites, WritesSaving, AloneUntouched
<1>4. CASE TooLate(w) \/ SaveFailed(w) \/ SaveFinished(w) \/ SaveCancelled(w)
  <2>1. Alone
    BY <1>4 DEF TooLate, SaveFailed, SaveFinished, SaveCancelled
  <2>2. CASE Writes(w)
    BY <2>1, <2>2, WritesSaving, AloneUntouched
  <2>3. CASE Go(w, "fail") /\ saved' = saved
    BY <2>1, <2>3, LightGo, Places3, AloneUntouched
  <2>4. CASE Abandon(w, "failed") /\ saved' = saved
    BY <2>1, <2>4, LightAbandon, Places3, AloneUntouched
  <2>5. CASE Go(w, "tellCancelled") /\ proc[w].at = "saveCancelled" /\ saved' = saved
    BY <2>1, <2>5, LightGo, Places3, AloneUntouched DEF Settled
  <2> QED
    BY <1>4, <2>2, <2>3, <2>4, <2>5, TooLateWrites, SaveFailedWrites, SaveFinishedWrites, SaveCancelledWrites
<1>5. CASE StartTool(w) \/ FinishTool(w) \/ RefuseForGood(w) \/ ReserveSearch(w) \/ AttemptPublication(w)
  <2>1. Writes(w)
    BY <1>5, StartToolWrites, FinishToolWrites, RefuseForGoodWrites, ReserveSearchWrites, AttemptPublicationWrites
  <2>2. Alone
    BY <1>5 DEF StartTool, FinishTool, RefuseForGood, ReserveSearch, AttemptPublication
  <2> QED
    BY <2>1, <2>2, WritesSaving, AloneUntouched
<1>6. CASE Upload(w)
  BY <1>6, UploadsSaving
<1>7. CASE AdmitCall(w)
  <2>1. CASE Abandon(w, "resign") /\ UNCHANGED <<computer, strayed>>
    BY <1>7, <2>1, LightAbandon, Places3 DEF AdmitCall, Local, Untouched
  <2> QED
    BY <1>7, <2>1 DEF AdmitCall, Admits
<1>8. CASE CreateAnswer(w)
  <2>1. CASE Abandon(w, "resign") /\ UNCHANGED computer
    BY <1>8, <2>1, LightAbandon, Places3 DEF CreateAnswer, Local, Quiet, Untouched
  <2>2. CASE Gets(w, "failed", "discard") /\ UNCHANGED computer
    BY <1>8, <2>2 DEF GivesUp, Calling
  <2> QED
    BY <1>8, <2>1, <2>2 DEF CreateAnswer, Creates, Calling
<1>9. CASE Commit(w)
  <2>1. CASE Abandon(w, "resign") /\ UNCHANGED computer
    BY <1>9, <2>1, LightAbandon, Places3 DEF Commit, Local, Quiet, Untouched
  <2>2. CASE Gets(w, "failed", "discard") /\ UNCHANGED computer
    BY <1>9, <2>2 DEF GivesUp, Calling
  <2> QED
    BY <1>9, <2>1, <2>2 DEF Commit, Commits, Calling
<1> QED
  BY <1>1, <1>2, <1>3, <1>4, <1>5, <1>6, <1>7, <1>8, <1>9 DEF WorkerStep, Calling

LEMMA CallingRows ==
  ASSUME LoopInv, SentInv, HostInv, NEW w \in Workers, Calling(w)
  PROVE  RowsInv' /\ StandInv'
BY CreateRows, CreatedRows, RunRows, EndsRows, GivesUpRows, RemoveRows, CommitRows DEF Calling, Creates, Commits

(* The lease, the end and the strays.                                       *)
LEMMA SaveLeaves ==
  ASSUME NEW w, NEW t, NEW dispatch, NEW next, Save(w, t, dispatch, next)
  PROVE  UNCHANGED <<lease, outcome>> /\ (saved' = saved \/ Holds(w))
BY SaveSteps DEF Save, Accepts

Unmoved(w) == UNCHANGED <<lease, outcome>> /\ (saved' = saved \/ Holds(w))
LEMMA UnmovedSteps ==
  ASSUME NEW w \in Workers, WorkerStep(w), ~Take(w), ~Tell(w)
  PROVE  Unmoved(w)
<1>1. CASE \/ Load(w) \/ AskForFile(w) \/ WrapUpReply(w)
           \/ FileReply(w) \/ StartTool(w) \/ FinishTool(w) \/ ReserveSearch(w) \/ AttemptPublication(w)
           \/ SaveFinished(w)
  BY <1>1, SaveLeaves, Zenon
     DEF Load, AskForFile, WrapUpReply, Conclude, FileReply,
         StartTool, FinishTool, ReserveSearch, AttemptPublication, SaveFinished, Unmoved
<1>8. CASE \/ AnswerEarly(w) \/ FailEarly(w) \/ ResearchFile(w) \/ AskModel(w) \/ AskToWrapUp(w)
           \/ AnswerUnasked(w) \/ RefuseForGood(w)
  <2>1. PICK t, dispatch, next : Save(w, t, dispatch, next)
    BY <1>8, Zenon DEF AnswerEarly, FailEarly, ResearchFile, AskModel, AskToWrapUp, AnswerUnasked, RefuseForGood
  <2> QED
    BY <2>1, SaveLeaves, Zenon DEF Unmoved
<1>2. CASE \/ CannotAfford(w) \/ Ask(w) \/ ReplyFails(w) \/ Refuse(w) \/ UseReceipt(w) \/ Search(w) \/ GiveUpFile(w)
           \/ ToolFails(w) \/ AdmitCall(w) \/ Create(w) \/ CreateAnswer(w) \/ RunProgram(w) \/ ProgramEnds(w)
           \/ ExecutorFails(w) \/ RemoveContainer(w) \/ Commit(w) \/ RemoveLeftover(w) \/ Confirm(w)
           \/ CannotConfirm(w) \/ Interrupt(w) \/ ComputerTimesOut(w) \/ Crash(w)
  <2>1. Local
    BY <1>2 DEF CannotAfford, Ask, ReplyFails, Refuse, UseReceipt, Search, GiveUpFile, ToolFails, AdmitCall, Create,
                CreateAnswer, RunProgram, ProgramEnds, ExecutorFails, RemoveContainer, Commit, RemoveLeftover,
                Confirm, CannotConfirm, Interrupt, ComputerTimesOut, Crash
  <2> QED
    BY <2>1 DEF Local, Unmoved
<1>3. CASE TooLate(w)
  BY <1>3, SaveLeaves DEF TooLate, Conclude, Local, Unmoved
<1>4. CASE Reply(w)
  BY <1>4, SaveLeaves DEF Reply, Conclude, Unmoved
<1>5. CASE Upload(w)
  BY <1>5, SaveLeaves DEF Upload, Local, Unmoved
<1>6. CASE SaveFailed(w)
  BY <1>6, SaveLeaves DEF SaveFailed, Local, Unmoved
<1>7. CASE SaveCancelled(w)
  BY <1>7, SaveLeaves DEF SaveCancelled, Local, Unmoved
<1> QED
  BY <1>1, <1>2, <1>3, <1>4, <1>5, <1>6, <1>7, <1>8 DEF WorkerStep

(* Nothing new is unfinished, and the worker comes to a place that follows  *)
(* cleanup only from another one or from the cleanup itself.                *)
TidyMove(w, at) ==
  /\ at \in Settled => proc[w].at \in Settled \/ Mine' = {}
  /\ lease' = lease \/ (at \notin Settled /\ lease' = w)
  /\ outcome' = outcome \/ (lease = w /\ proc[w].at \in Settled)
  /\ Mine' \subseteq Mine /\ strayed' = strayed
LEMMA TidyStep ==
  ASSUME LoopInv, HostInv, NEW w \in Workers, NEW q, proc' = [proc EXCEPT ![w] = q], TidyMove(w, q.at)
  PROVE  TidyInv'
<1>0. /\ q.at \in Settled => proc[w].at \in Settled \/ Mine' = {}
      /\ lease' = lease \/ (q.at \notin Settled /\ lease' = w)
      /\ outcome' = outcome \/ (lease = w /\ proc[w].at \in Settled)
      /\ Mine' \subseteq Mine /\ strayed' = strayed
  BY DEF TidyMove
<1>1. proc \in [Workers -> ProcRows]
  BY DEF LoopInv
<1>2. proc'[w] = q /\ \A v \in Workers : v # w => proc'[v] = proc[v]
  BY <1>1
<1>3. /\ strayed \subseteq Calls
      /\ \A v \in Workers : lease = v /\ proc[v].at \in Settled => Mine \subseteq strayed
      /\ outcome.by = "worker" => Mine \subseteq strayed
  BY DEF HostInv, TidyInv
<1>4. ASSUME NEW v \in Workers, lease' = v, proc'[v].at \in Settled PROVE Mine' \subseteq strayed'
  <2>1. CASE v = w
    BY <1>0, <1>2, <1>3, <1>4, <2>1
  <2>2. CASE v # w
    BY <1>0, <1>2, <1>3, <1>4, <2>2
  <2> QED
    BY <2>1, <2>2
<1>5. ASSUME outcome'.by = "worker" PROVE Mine' \subseteq strayed'
  BY <1>0, <1>3, <1>5
<1> QED
  BY <1>0, <1>3, <1>4, <1>5 DEF TidyInv

LEMMA StayedAt ==
  ASSUME LoopInv, NEW w \in Workers, NEW at, NEW got, Go(w, at) \/ Turn(w, at) \/ Gets(w, got, at) \/ Abandon(w, at)
  PROVE  \E q : proc' = [proc EXCEPT ![w] = q] /\ q.at = at
<1>1. proc[w] \in ProcRows
  BY DEF LoopInv
<1>2. CASE Abandon(w, at)
  <2> DEFINE q == [Away EXCEPT !.at = at]
  <2>1. proc' = [proc EXCEPT ![w] = q] /\ q.at = at
    BY <1>2 DEF Abandon, Away
  <2> HIDE DEF q
  <2> QED
    BY <2>1
<1>3. CASE Go(w, at) \/ Turn(w, at) \/ Gets(w, got, at)
  <2>1. PICK g, removed : proc' = [proc EXCEPT ![w] = Put(proc[w], at, g, removed)]
    BY <1>3, PutSteps
  <2> DEFINE q == Put(proc[w], at, g, removed)
  <2>2. q.at = at
    BY <1>1 DEF Put, ProcRows
  <2>3. proc' = [proc EXCEPT ![w] = q]
    BY <2>1
  <2> HIDE DEF q
  <2> QED
    BY <2>2, <2>3
<1> QED
  BY <1>2, <1>3

LEMMA MineSame ==
  ASSUME UNCHANGED row
  PROVE  Mine' = Mine
BY DEF Mine, Unfinished

LEMMA SavingTidy ==
  ASSUME LoopInv, HostInv, NEW w \in Workers, Saving(w), UNCHANGED strayed
  PROVE  TidyInv'
<1>1. PICK t, dispatch, next : Save(w, t, dispatch, next) /\ (Holds(w) => Extends(w, t, next))
  BY Zenon DEF Saving
<1>2. Mine' = Mine
  BY MineSame DEF Saving, Untouched, computer
<1>3. lease' = lease /\ outcome' = outcome
  BY <1>1, SaveLeaves
<1>4. \E q : proc' = [proc EXCEPT ![w] = q] /\ (q.at \in Settled => proc[w].at \in Settled \/ Mine = {})
  <2>1. ASSUME NEW at \in {"resign", "interrupted"}, proc' = [proc EXCEPT ![w] = Gone(at)]
        PROVE  \E q : proc' = [proc EXCEPT ![w] = q] /\ (q.at \in Settled => proc[w].at \in Settled \/ Mine = {})
    <3>1. Gone(at).at = at /\ at \notin Settled
      BY GoneFits, Leaving DEF Settled
    <3> QED
      BY <2>1, <3>1
  <2>2. ASSUME proc' = [proc EXCEPT ![w] = Kept(w, t, next)], Holds(w)
        PROVE  \E q : proc' = [proc EXCEPT ![w] = q] /\ (q.at \in Settled => proc[w].at \in Settled \/ Mine = {})
    <3> DEFINE q == Kept(w, t, next)
    <3>1. q.at = next
      BY DEF Kept, LoopInv, ProcRows
    <3>2. next \in Settled => proc[w].at \in Settled \/ Mine = {}
      BY <1>1, <2>2 DEF Extends
    <3>3. proc' = [proc EXCEPT ![w] = q]
      BY <2>2
    <3> HIDE DEF q
    <3> QED
      BY <3>1, <3>2, <3>3
  <2> QED
    BY <1>1, <2>1, <2>2, SaveSteps
<1>5. PICK q : proc' = [proc EXCEPT ![w] = q] /\ (q.at \in Settled => proc[w].at \in Settled \/ Mine = {})
  BY <1>4
<1> QED
  BY <1>2, <1>3, <1>5, TidyStep DEF TidyMove

LEMMA LightTidy ==
  ASSUME LoopInv, HostInv, NEW w \in Workers, Light(w), UNCHANGED strayed,
         lease' = lease \/ (lease' = w /\ proc'[w].at \notin Settled),
         outcome' = outcome \/ (lease = w /\ proc[w].at \in Settled)
  PROVE  TidyInv'
<1>1. PICK q : proc' = [proc EXCEPT ![w] = q] /\ (q.at \in Settled => proc[w].at \in Settled)
  BY DEF Light
<1>2. Mine' = Mine
  BY MineSame DEF Light, Untouched, computer
<1>3. proc'[w] = q
  BY <1>1 DEF LoopInv
<1> QED
  BY <1>1, <1>2, <1>3, TidyStep DEF TidyMove

LEMMA CallingTidy ==
  ASSUME LoopInv, HostInv, NEW w \in Workers, Calling(w)
  PROVE  TidyInv'
<1>1. Local /\ strayed' = strayed
  BY DEF Calling, Create, Creates, CreateAnswer, RunProgram, ProgramEnds, ExecutorFails, GivesUp, RemoveContainer,
         Commits, Commit, Quiet, Alone, Send
<1>2. \E at \in {"creating", "start", "program", "ran", "discard", "commit", "done"} : \E got :
        Go(w, at) \/ Turn(w, at) \/ Gets(w, got, at) \/ Abandon(w, at)
  BY DEF Calling, Create, Creates, RunProgram, ProgramEnds, ExecutorFails, GivesUp, RemoveContainer, Commits
<1>3. PICK q : proc' = [proc EXCEPT ![w] = q] /\ q.at \notin Settled
  BY <1>2, StayedAt DEF Settled
<1>4. Mine' \subseteq Mine
  <2>1. CASE UNCHANGED row
    BY <2>1, MineSame
  <2>2. CASE Creates(w)
    <3>1. PICK c \in Calls : Call(w) = c
      BY <2>2, AtCall DEF Creates, CreateAnswer, Computing, InComputer
    <3>2. row[c].phase = "creating" /\ row' = [row EXCEPT ![c].phase = "running"]
      BY <2>2, <3>1 DEF Creates, Created
    <3>3. row \in [Calls -> [phase : Phases, result : Results]]
      BY DEF HostInv, RowsInv, ComputerTypeOK
    <3>4. \A d \in Calls : row'[d] = row[d] \/ d = c
      BY <3>1, <3>2, <3>3
    <3> QED
      BY <3>1, <3>2, <3>4 DEF Mine, Unfinished
  <2>3. CASE Commits(w)
    <3>1. PICK c \in Calls : Call(w) = c
      BY <2>3, AtCall DEF Commits, Commit, Computing, InComputer
    <3>2. row[c].phase = "running" /\ row' = [row EXCEPT ![c] = [phase |-> "done", result |-> proc[w].got]]
      BY <2>3, <3>1 DEF Commits, Finish
    <3>3. row \in [Calls -> [phase : Phases, result : Results]]
      BY DEF HostInv, RowsInv, ComputerTypeOK
    <3>4. \A d \in Calls : row'[d] = row[d] \/ d = c
      BY <3>1, <3>2, <3>3
    <3> QED
      BY <3>1, <3>2, <3>4 DEF Mine, Unfinished
  <2> QED
    BY <2>1, <2>2, <2>3
       DEF Calling, Create, AskForContainer, RunProgram, Send, ProgramEnds, ExecutorFails, GivesUp, RemoveContainer,
           Remove, Alone, computer
<1> QED
  BY <1>1, <1>3, <1>4, TidyStep DEF Local, TidyMove

(* A worker that lets a call in has either the lease or strayed.            *)
LEMMA AdmitsTidy ==
  ASSUME LoopInv, HostInv, NEW w \in Workers, Admits(w)
  PROVE  TidyInv'
<1>1. PICK c \in Calls : Call(w) = c
  BY AtCall DEF Admits, AdmitCall
<1>2. /\ row' = [row EXCEPT ![c].phase = "creating"] /\ Local
      /\ strayed' = IF Holds(w) THEN strayed ELSE strayed \cup {c}
  BY <1>1 DEF Admits, AdmitCall, Admit
<1>3. row \in [Calls -> [phase : Phases, result : Results]]
  BY DEF HostInv, RowsInv, ComputerTypeOK
<1>4. \A d \in Calls : row'[d] = row[d] \/ d = c
  BY <1>1, <1>2, <1>3
<1>5. Mine' \subseteq Mine \cup {c}
  BY <1>4 DEF Mine, Unfinished
<1>6. PICK q : proc' = [proc EXCEPT ![w] = q] /\ q.at = "create"
  BY StayedAt DEF Admits
<1>7. proc'[w] = q /\ \A v \in Workers : v # w => proc'[v] = proc[v]
  BY <1>6 DEF LoopInv
<1>8. /\ strayed \subseteq Calls
      /\ \A v \in Workers : lease = v /\ proc[v].at \in Settled => Mine \subseteq strayed
      /\ outcome.by = "worker" => Mine \subseteq strayed /\ outcome.state # "open"
  BY DEF HostInv, TidyInv, LoopInv
<1>9. lease' = lease /\ outcome' = outcome
  BY <1>2 DEF Local
<1>10. CASE Holds(w)
  BY <1>2, <1>6, <1>7, <1>8, <1>9, <1>10 DEF TidyInv, Holds, Settled
<1>11. CASE ~Holds(w)
  <2>1. ASSUME Mine \subseteq strayed PROVE Mine' \subseteq strayed'
    BY <1>2, <1>5, <1>11, <2>1
  <2>2. strayed' \subseteq Calls
    BY <1>1, <1>2, <1>8
  <2>3. ASSUME NEW v \in Workers, lease' = v, proc'[v].at \in Settled PROVE Mine' \subseteq strayed'
    BY <1>6, <1>7, <1>8, <1>9, <2>1, <2>3 DEF Settled
  <2> QED
    BY <1>8, <1>9, <2>1, <2>2, <2>3 DEF TidyInv
<1> QED
  BY <1>10, <1>11

LEMMA LeftoverTidy ==
  ASSUME LoopInv, HostInv, NEW w \in Workers, RemoveLeftover(w)
  PROVE  TidyInv'
<1>1. PICK c : Remove(c) /\ proc' = [proc EXCEPT ![w].removed = c]
  BY DEF RemoveLeftover
<1> DEFINE q == [proc[w] EXCEPT !.removed = c]
<1>2. proc' = [proc EXCEPT ![w] = q] /\ q.at = proc[w].at
  BY <1>1 DEF LoopInv, ProcRows
<1> HIDE DEF q
<1>3. Mine' = Mine
  BY <1>1, MineSame DEF Remove
<1>4. lease' = lease /\ outcome' = outcome /\ strayed' = strayed
  BY DEF RemoveLeftover, Local, Quiet
<1> QED
  BY <1>2, <1>3, <1>4, TidyStep DEF TidyMove

LEMMA ConfirmTidy ==
  ASSUME LoopInv, HostInv, NEW w \in Workers, Confirm(w)
  PROVE  TidyInv'
<1>1. Mine' = {} /\ strayed' = strayed
  BY ConfirmMine
<1>2. \E at : Turn(w, at) \/ Abandon(w, at)
  BY DEF Confirm
<1>3. PICK q : proc' = [proc EXCEPT ![w] = q]
  BY <1>2, StayedAt
<1>4. lease' = lease /\ outcome' = outcome
  BY DEF Confirm, Local
<1> QED
  BY <1>1, <1>3, <1>4, TidyStep DEF TidyMove

LEMMA StrayedSteps ==
  ASSUME NEW w \in Workers, WorkerStep(w), ~Admits(w)
  PROVE  UNCHANGED strayed
<1>1. CASE \/ Take(w) \/ Load(w) \/ AnswerEarly(w) \/ FailEarly(w) \/ ResearchFile(w) \/ RefuseForGood(w)
           \/ AskModel(w) \/ CannotAfford(w) \/ AskForFile(w) \/ AskToWrapUp(w)
           \/ AnswerUnasked(w) \/ TooLate(w) \/ Reply(w) \/ ReplyFails(w) \/ WrapUpReply(w)
           \/ FileReply(w) \/ StartTool(w) \/ Refuse(w) \/ UseReceipt(w) \/ FinishTool(w)
           \/ ReserveSearch(w) \/ AttemptPublication(w) \/ GiveUpFile(w) \/ ToolFails(w)
           \/ ProgramEnds(w) \/ ExecutorFails(w) \/ CannotConfirm(w)
           \/ SaveFailed(w) \/ SaveFinished(w) \/ SaveCancelled(w) \/ Tell(w)
           \/ Interrupt(w) \/ ComputerTimesOut(w) \/ Crash(w)
  <2>1. Alone
    BY <1>1, Zenon
       DEF Take, Load, AnswerEarly, FailEarly, ResearchFile, RefuseForGood, AskModel, CannotAfford, AskForFile, AskToWrapUp, AnswerUnasked, TooLate, Reply, ReplyFails,
           WrapUpReply, FileReply, StartTool, Refuse, UseReceipt, FinishTool, ReserveSearch, AttemptPublication,
           GiveUpFile, ToolFails, ProgramEnds, ExecutorFails, CannotConfirm, SaveFailed, SaveFinished, SaveCancelled,
           Tell, Interrupt, ComputerTimesOut, Crash
  <2> QED
    BY <2>1 DEF Alone
<1>2. CASE Ask(w) \/ Search(w) \/ Upload(w) \/ RunProgram(w)
  BY <1>2 DEF Ask, Asking, Search, Upload, RunProgram, Send, Alone
<1>3. CASE Create(w) \/ CreateAnswer(w) \/ RemoveContainer(w) \/ Commit(w) \/ RemoveLeftover(w) \/ Confirm(w)
  BY <1>3 DEF Create, CreateAnswer, RemoveContainer, Commit, RemoveLeftover, Confirm, Quiet
<1>4. CASE AdmitCall(w)
  BY <1>4 DEF AdmitCall, Admits
<1> QED
  BY <1>1, <1>2, <1>3, <1>4 DEF WorkerStep

LEMMA TidyNext ==
  ASSUME LoopInv, SentInv, HostInv, [Next]_vars
  PROVE  TidyInv'
<1>1. ASSUME NEW w \in Workers, WorkerStep(w) PROVE TidyInv'
  <2>1. CASE Admits(w)
    BY <2>1, AdmitsTidy
  <2>2. CASE Saving(w) /\ UNCHANGED strayed
    BY <2>2, SavingTidy
  <2>3. CASE Light(w) /\ UNCHANGED strayed
    <3>1. CASE Take(w)
      <4>1. proc'[w].at \in {"load", "cancelRun"}
        BY <3>1 DEF Take, Go, LoopInv, ProcRows
      <4>2. proc'[w].at \notin Settled
        BY <4>1 DEF Settled
      <4>3. lease' = w /\ outcome' = outcome
        BY <3>1 DEF Take
      <4> QED
        BY <2>3, <4>2, <4>3, LightTidy
    <3>2. CASE Tell(w)
      <4>1. lease' = lease /\ (outcome' = outcome \/ (lease = w /\ proc[w].at \in Settled))
        BY <3>2 DEF Tell, Holds, Settled, Ends
      <4> QED
        BY <2>3, <4>1, LightTidy
    <3>3. CASE ~Take(w) /\ ~Tell(w)
      <4>1. lease' = lease /\ outcome' = outcome
        BY <1>1, <3>3, UnmovedSteps DEF Unmoved
      <4> QED
        BY <2>3, <4>1, LightTidy
    <3> QED
      BY <3>1, <3>2, <3>3
  <2>4. CASE Calling(w)
    BY <2>4, CallingTidy
  <2>5. CASE RemoveLeftover(w)
    BY <2>5, LeftoverTidy
  <2>6. CASE Confirm(w)
    BY <2>6, ConfirmTidy
  <2> QED
    BY <1>1, <2>1, <2>2, <2>3, <2>4, <2>5, <2>6, Kinds3, StrayedSteps
<1>2. CASE RequestCancellation \/ FinalizeCancellation \/ Daemon \/ UNCHANGED vars
  <2>1. UNCHANGED <<row, lease, proc, strayed>> /\ (outcome' = outcome \/ outcome'.by = "newscraft")
    BY <1>2 DEF RequestCancellation, FinalizeCancellation, Daemon, Appears, Vanishes, Alone, Quiet, run, vars, computer
  <2>2. Mine' = Mine
    BY <2>1, MineSame
  <2> QED
    BY <2>1, <2>2 DEF HostInv, TidyInv
<1> QED
  BY <1>1, <1>2 DEF Next

LEMMA EndNext ==
  ASSUME LoopInv, HostInv, [Next]_vars
  PROVE  EndInv'
<1>0. EndInv /\ (outcome.by = "worker" => outcome.state # "open")
  BY DEF HostInv, LoopInv
<1>1. ASSUME NEW w \in Workers, WorkerStep(w) PROVE EndInv'
  <2>1. CASE Take(w)
    BY <1>0, <2>1 DEF Take, EndInv
  <2>2. CASE Tell(w)
    <3>1. saved' = saved
      BY <2>2 DEF Tell
    <3>2. CASE outcome' = outcome
      BY <1>0, <3>1, <3>2 DEF EndInv
    <3>3. CASE Holds(w) /\ outcome' = [state |-> Ends[proc[w].at], by |-> "worker"]
      <4>1. MayTell(proc[w].at, saved)
        BY <3>3 DEF LoopInv, Fresh, Holds
      <4>2. proc[w].at \in {"tellFailed", "tellComplete", "tellCancelled"}
        BY <2>2 DEF Tell, Ends
      <4>3. /\ proc[w].at = "tellFailed" => outcome'.state = "failed"
            /\ proc[w].at = "tellComplete" => outcome'.state = "complete"
            /\ proc[w].at = "tellCancelled" => outcome'.state = "cancelled"
        BY <3>3 DEF Ends
      <4> QED
        BY <3>1, <4>1, <4>2, <4>3 DEF MayTell, EndInv
    <3> QED
      BY <2>2, <3>2, <3>3 DEF Tell
  <2>3. CASE ~Take(w) /\ ~Tell(w)
    <3>1. outcome' = outcome /\ (saved' = saved \/ outcome.state = "open")
      BY <1>1, <2>3, UnmovedSteps DEF Unmoved, Holds
    <3> QED
      BY <1>0, <3>1 DEF EndInv
  <2> QED
    BY <2>1, <2>2, <2>3
<1>2. CASE RequestCancellation \/ FinalizeCancellation \/ Daemon \/ UNCHANGED vars
  <2>1. saved' = saved /\ (outcome' = outcome \/ outcome'.by = "newscraft")
    BY <1>2 DEF RequestCancellation, FinalizeCancellation, Daemon, run, vars
  <2> QED
    BY <1>0, <2>1 DEF EndInv
<1> QED
  BY <1>1, <1>2 DEF Next

LEMMA HostNext ==
  ASSUME LoopInv, SentInv, HostInv, [Next]_vars
  PROVE  HostInv'
<1>1. RowsInv' /\ StandInv'
  <2>1. ASSUME NEW w \in Workers, WorkerStep(w) PROVE RowsInv' /\ StandInv'
    <3>1. CASE Admits(w)
      BY <3>1, AdmitRows DEF Admits
    <3> QED
      BY <2>1, <3>1, Kinds3, SavingRows, LightRows, CallingRows, LeftoverRows, ConfirmRows
  <2>2. CASE Daemon
    BY <2>2, DaemonRows
  <2>3. CASE RequestCancellation \/ FinalizeCancellation \/ UNCHANGED vars
    <3>1. Untouched /\ saved' = saved /\ proc' = proc
      BY <2>3 DEF RequestCancellation, FinalizeCancellation, Alone, run, vars, Untouched
    <3>2. RowsInv'
      BY <3>1, UntouchedRows
    <3>3. row' = row /\ container' = container /\ sent' = sent
      BY <2>3 DEF RequestCancellation, FinalizeCancellation, Alone, vars, computer
    <3>4. StandInv'
      BY <3>1, <3>3 DEF HostInv, StandInv
    <3> QED
      BY <3>2, <3>4
  <2> QED
    BY <2>1, <2>2, <2>3 DEF Next
<1> QED
  BY <1>1, TidyNext, EndNext DEF HostInv

------------------------------------------------------------------------------
(* The files and the receipts.                                              *)

SameWrites == files' = files /\ \A c \in Calls : Wrote(row', c) <=> Wrote(row, c)

LEMMA DoneCall ==
  ASSUME NEW p, Fits(p), p.at = "done"
  PROVE  Current(p.state) \in Calls
BY Sorts DEF Fits

LEMMA ReceiptsStill ==
  ASSUME Sound(saved), ReceiptsFit(row, saved), \A c \in Calls : Wrote(row', c) <=> Wrote(row, c)
  PROVE  ReceiptsFit(row', saved)
<1>1. Len(saved.receipts) \in Nat /\ Len(saved.calls) \in Nat
  BY Sorts
<1>2. \A i \in 1..Len(saved.receipts) : i \in Calls
  BY <1>1, CallsAssumption DEF Sound, Calls
<1> QED
  BY <1>2 DEF ReceiptsFit

FilesMove(w, q) ==
  /\ proc' = [proc EXCEPT ![w] = q]
  /\ lease' = lease \/ lease' = w
  /\ lease' = w => DoneFits(row', q)
  /\ saved' = saved \/ ReceiptsFit(row', saved')
LEMMA FilesStep ==
  ASSUME LoopInv, FilesInv, NEW w \in Workers, NEW q, FilesMove(w, q), SameWrites
  PROVE  FilesInv'
<1>1. proc \in [Workers -> ProcRows] /\ Sound(saved) /\ \A v \in Workers : Fits(proc[v])
  BY DEF LoopInv
<1>2. proc'[w] = q /\ \A v \in Workers : v # w => proc'[v] = proc[v]
  BY <1>1 DEF FilesMove
<1>3. ASSUME NEW v \in Workers, lease' = v PROVE DoneFits(row', proc'[v])
  <2>1. CASE v = w
    BY <1>2, <1>3, <2>1 DEF FilesMove
  <2>2. CASE v # w
    <3>1. DoneFits(row, proc[v])
      BY <1>3, <2>2 DEF FilesMove, FilesInv
    <3>2. proc[v].at = "done" => Current(proc[v].state) \in Calls
      BY <1>1, DoneCall
    <3> QED
      BY <1>2, <2>2, <3>1, <3>2 DEF DoneFits, SameWrites
  <2> QED
    BY <2>1, <2>2
<1>4. ReceiptsFit(row', saved')
  <2>1. CASE saved' = saved
    <3>1. ReceiptsFit(row', saved)
      BY <1>1, ReceiptsStill DEF FilesInv, SameWrites
    <3> QED
      BY <2>1, <3>1
  <2> QED
    BY <2>1 DEF FilesMove
<1>5. \A c \in Calls : (\E k \in DOMAIN files' : files'[k] = c) <=> Wrote(row', c)
  BY DEF FilesInv, SameWrites
<1> QED
  BY <1>3, <1>4, <1>5 DEF FilesInv

(* The worker goes elsewhere than to the result of a tool.                  *)
LEMMA GoesFiles ==
  ASSUME LoopInv, FilesInv, NEW w \in Workers, NEW at, at # "done", NEW got,
         Go(w, at) \/ Turn(w, at) \/ Gets(w, got, at) \/ Abandon(w, at),
         saved' = saved, SameWrites, lease' = lease \/ lease' = w
  PROVE  FilesInv'
<1>1. PICK q : proc' = [proc EXCEPT ![w] = q] /\ q.at = at
  BY StayedAt
<1>2. FilesMove(w, q)
  BY <1>1 DEF FilesMove, DoneFits
<1> QED
  BY <1>2, FilesStep

LEMMA DoneFiles ==
  ASSUME LoopInv, FilesInv, NEW w \in Workers, NEW got \in Results, Gets(w, got, "done"),
         saved' = saved, SameWrites, row' = row, lease' = lease,
         lease = w /\ Tool(State(w)) = "computer" => (got = "ok" <=> Wrote(row, Call(w)))
  PROVE  FilesInv'
<1> DEFINE q == Put(proc[w], "done", got, 0)
<1>1. proc' = [proc EXCEPT ![w] = q] /\ proc[w] \in ProcRows /\ 0 \in Removals
  BY PutSteps
<1>2. q.at = "done" /\ q.got = got /\ q.state = proc[w].state
  BY <1>1, PutRow DEF Locations
<1> HIDE DEF q
<1>3. FilesMove(w, q)
  BY <1>1, <1>2 DEF FilesMove, DoneFits, State, Call
<1> QED
  BY <1>3, FilesStep

LEMMA UntouchedWrites ==
  ASSUME Untouched
  PROVE  SameWrites /\ row' = row
BY DEF Untouched, computer, SameWrites

(* While a call is at hand its files are not written.                       *)
LEMMA NotYetWritten ==
  ASSUME LoopInv, HostInv, NEW w \in Workers, proc[w].at = "tool", Tool(State(w)) = "computer"
  PROVE  ~Wrote(row, Call(w))
<1>1. PICK c \in Calls : Call(w) = c /\ Current(proc[w].state) = c /\ Using(proc[w])
                         /\ Stands(row, container, sent, proc[w])
  BY AtCall
<1> QED
  BY <1>1 DEF Stands, Wrote

(* A receipt is added for the tool at hand.                                 *)
LEMMA AddedFits ==
  ASSUME LoopInv, HostInv, FilesInv, NEW w \in Workers, Holds(w), NEW t, Remembers(saved, t), Adds(w, t)
  PROVE  ReceiptsFit(row, t)
<1>1. Sound(saved) /\ Sound(t) /\ Fits(proc[w]) /\ lease = w
  BY DEF LoopInv, Remembers, Holds
<1>2. /\ Len(saved.calls) \in Nat /\ Len(saved.receipts) \in Nat /\ Len(saved.receipts) <= Len(saved.calls)
      /\ saved.receipts \in Seq(Verdicts) /\ Current(saved) = Len(saved.receipts) + 1
  BY <1>1, Sorts DEF Sound, StateRows
<1>3. \A i \in 1..Len(saved.receipts) : t.calls[i] = saved.calls[i]
  BY <1>2 DEF Remembers
<1>4. ReceiptsFit(row, saved) /\ DoneFits(row, proc[w])
  BY <1>1 DEF FilesInv
<1>5. CASE t.receipts = saved.receipts
  BY <1>3, <1>4, <1>5 DEF ReceiptsFit
<1>6. CASE proc[w].at = "done" /\ t.receipts = Append(saved.receipts, proc[w].got) /\ t.calls = saved.calls
  <2>1. Alike(saved, proc[w])
    BY <1>1, <1>6 DEF LoopInv, Fresh, Following, InLoop
  <2>2. proc[w].state.receipts = saved.receipts /\ proc[w].state.calls = saved.calls
    <3>1. saved \in StateRows
      BY <1>1, Sorts
    <3>2. CASE proc[w].state = saved
      BY <3>2
    <3>3. CASE proc[w].state = [saved EXCEPT !.fallback = TRUE]
      BY <3>1, <3>3 DEF StateRows
    <3> QED
      BY <2>1, <3>2, <3>3 DEF Alike
  <2>3. Current(proc[w].state) = Len(saved.receipts) + 1 /\ Tool(proc[w].state) = saved.calls[Len(saved.receipts) + 1]
    BY <2>2 DEF Current, Tool
  <2>4. proc[w].got \in Verdicts
    BY <1>1, <1>6 DEF Fits
  <2>5. /\ Len(t.receipts) = Len(saved.receipts) + 1
        /\ t.receipts[Len(saved.receipts) + 1] = proc[w].got
        /\ \A i \in 1..Len(saved.receipts) : t.receipts[i] = saved.receipts[i]
    BY <1>2, <1>6, <2>4
  <2>6. ASSUME NEW i \in 1..Len(t.receipts), t.calls[i] = "computer"
        PROVE  t.receipts[i] = "ok" <=> Wrote(row, i)
    <3>1. CASE i \in 1..Len(saved.receipts)
      BY <1>4, <1>6, <2>5, <2>6, <3>1 DEF ReceiptsFit
    <3>2. CASE i = Len(saved.receipts) + 1
      BY <1>4, <1>6, <2>3, <2>5, <2>6, <3>2 DEF DoneFits
    <3> QED
      BY <1>2, <2>5, <3>1, <3>2
  <2> QED
    BY <2>6 DEF ReceiptsFit
<1>7. CASE proc[w].at = "tool" /\ t.receipts = Append(saved.receipts, "failed") /\ t.calls = saved.calls
  <2>1. State(w) = saved
    BY <1>1, <1>7, HolderState DEF State, Following, InLoop, InTool
  <2>2. Tool(saved) = "computer" => ~Wrote(row, Current(saved))
    BY <1>7, <2>1, NotYetWritten DEF Call
  <2>3. "failed" \in Verdicts
    BY DEF Verdicts
  <2>4. /\ Len(t.receipts) = Len(saved.receipts) + 1
        /\ t.receipts[Len(saved.receipts) + 1] = "failed"
        /\ \A i \in 1..Len(saved.receipts) : t.receipts[i] = saved.receipts[i]
    BY <1>2, <1>7, <2>3
  <2>5. ASSUME NEW i \in 1..Len(t.receipts), t.calls[i] = "computer"
        PROVE  t.receipts[i] = "ok" <=> Wrote(row, i)
    <3>1. CASE i \in 1..Len(saved.receipts)
      BY <1>4, <1>7, <2>4, <2>5, <3>1 DEF ReceiptsFit
    <3>2. CASE i = Len(saved.receipts) + 1
      BY <1>2, <1>7, <2>2, <2>4, <2>5, <3>2 DEF Tool
    <3> QED
      BY <1>2, <2>4, <3>1, <3>2
  <2> QED
    BY <2>5 DEF ReceiptsFit
<1> QED
  BY <1>5, <1>6, <1>7 DEF Adds

LEMMA SavingFiles ==
  ASSUME LoopInv, HostInv, FilesInv, NEW w \in Workers, Saving(w)
  PROVE  FilesInv'
<1>1. PICK t, dispatch, next : Save(w, t, dispatch, next) /\ (Holds(w) => Extends(w, t, next))
  BY Zenon DEF Saving
<1>2. SameWrites /\ row' = row
  BY UntouchedWrites DEF Saving
<1>3. lease' = lease
  BY <1>1, SaveLeaves
<1>4. ASSUME Holds(w), saved' = t PROVE ReceiptsFit(row', saved')
  <2>1. ReceiptsFit(row, t)
    BY <1>1, <1>4, AddedFits DEF Extends
  <2> QED
    BY <1>2, <1>4, <2>1
<1>5. ASSUME NEW at \in {"resign", "interrupted"}, proc' = [proc EXCEPT ![w] = Gone(at)],
             saved' = saved \/ (saved' = t /\ Holds(w))
      PROVE  FilesInv'
  <2> DEFINE q == Gone(at)
  <2>1. q.at # "done"
    BY GoneFits, Leaving
  <2>2. FilesMove(w, q)
    BY <1>3, <1>4, <1>5, <2>1 DEF FilesMove, DoneFits
  <2> HIDE DEF q
  <2> QED
    BY <1>2, <2>2, FilesStep
<1>6. ASSUME proc' = [proc EXCEPT ![w] = Kept(w, t, next)], saved' = t, Holds(w)
      PROVE  FilesInv'
  <2> DEFINE q == Kept(w, t, next)
  <2>1. q.at = next /\ next # "done"
    BY <1>1, <1>6 DEF Kept, LoopInv, ProcRows, Extends
  <2>2. proc' = [proc EXCEPT ![w] = q]
    BY <1>6
  <2> HIDE DEF q
  <2>3. FilesMove(w, q)
    BY <1>3, <1>4, <1>6, <2>1, <2>2 DEF FilesMove, DoneFits
  <2> QED
    BY <1>2, <2>3, FilesStep
<1> QED
  BY <1>1, <1>5, <1>6, SaveSteps

(* The result of a tool, without the computer.                              *)
LEMMA RefuseFiles ==
  ASSUME LoopInv, HostInv, FilesInv, NEW w \in Workers, Refuse(w)
  PROVE  FilesInv'
<1>1. Gets(w, "failed", "done") /\ saved' = saved /\ lease' = lease /\ Alone /\ "failed" \in Results
  BY DEF Refuse, Local, Results
<1>2. ASSUME lease = w, Tool(State(w)) = "computer" PROVE ~Wrote(row, Call(w))
  <2>1. CASE proc[w].at = "work" /\ Pending(State(w)) /\ State(w).intent = "none"
    <3>1. State(w) = saved
      BY <1>2, <2>1, HolderState DEF State, Following, InLoop
    <3>2. Current(saved) \in Calls
      BY <2>1, <3>1, Sorts DEF LoopInv
    <3>3. ~Reached(saved, Current(saved))
      BY <2>1, <3>1, <3>2, CallsAssumption DEF Reached, Calls
    <3>4. row[Current(saved)].phase = "none"
      BY <3>2, <3>3 DEF HostInv, RowsInv, RowFits
    <3> QED
      BY <3>1, <3>4 DEF Wrote, Call
  <2>2. CASE proc[w].at = "tool"
    BY <1>2, <2>2, NotYetWritten
  <2> QED
    BY <2>1, <2>2 DEF Refuse, Working
<1>3. SameWrites /\ row' = row
  BY <1>1, AloneUntouched, UntouchedWrites
<1> QED
  BY <1>1, <1>2, <1>3, DoneFiles

LEMMA UseReceiptFiles ==
  ASSUME LoopInv, HostInv, FilesInv, NEW w \in Workers, UseReceipt(w)
  PROVE  FilesInv'
<1>1. proc[w].at = "recovered"
  BY DEF UseReceipt
<1>2. row[Call(w)].phase = "done" /\ row[Call(w)].result \in Verdicts /\ Call(w) = Current(State(w))
  BY <1>1, Receipted
<1>3. Gets(w, row[Call(w)].result, "done") /\ saved' = saved /\ lease' = lease /\ Alone
  BY <1>2 DEF UseReceipt, Local
<1>4. row[Call(w)].result \in Results
  BY <1>2 DEF Verdicts, Results
<1>5. row[Call(w)].result = "ok" <=> Wrote(row, Call(w))
  BY <1>2 DEF Wrote
<1>6. SameWrites /\ row' = row
  BY <1>3, AloneUntouched, UntouchedWrites
<1> QED
  BY <1>3, <1>4, <1>5, <1>6, DoneFiles

LEMMA GiveUpFiles ==
  ASSUME LoopInv, HostInv, FilesInv, NEW w \in Workers, GiveUpFile(w)
  PROVE  FilesInv'
<1> DEFINE s == [proc[w].state EXCEPT !.fallback = TRUE]
           q == [proc[w] EXCEPT !.state = s, !.got = "failed", !.at = "done"]
<1>1. proc[w] \in ProcRows /\ proc[w].state \in StateRows
  BY DEF LoopInv, ProcRows
<1>2. proc' = [proc EXCEPT ![w] = q] /\ q.at = "done" /\ q.state = s
  BY <1>1 DEF GiveUpFile, ProcRows
<1>3. Tool(s) = Tool(proc[w].state)
  BY <1>1 DEF StateRows, Tool, Current
<1>4. Tool(q.state) = "publish" /\ saved' = saved /\ lease' = lease /\ Alone
  BY <1>2, <1>3 DEF GiveUpFile, State, Local
<1> HIDE DEF q
<1>5. SameWrites
  BY <1>4, AloneUntouched, UntouchedWrites
<1>6. FilesMove(w, q)
  BY <1>2, <1>4 DEF FilesMove, DoneFits
<1> QED
  BY <1>5, <1>6, FilesStep

LEMMA SearchFiles ==
  ASSUME LoopInv, SentInv, HostInv, FilesInv, NEW w \in Workers, Search(w)
  PROVE  FilesInv'
<1>1. Light(w)
  BY LightSteps
<1>2. SameWrites /\ row' = row /\ saved' = saved /\ lease' = lease
  BY <1>1, UntouchedWrites DEF Light, Search, Local
<1>3. Tool(State(w)) # "computer"
  BY DEF Search, LoopInv, Fits, State
<1>4. ASSUME Gets(w, "ok", "done") PROVE FilesInv'
  BY <1>2, <1>3, <1>4, DoneFiles DEF Results
<1>5. CASE Go(w, "fail")
  BY <1>2, <1>5, GoesFiles
<1> QED
  BY <1>4, <1>5 DEF Search

LEMMA UploadFiles ==
  ASSUME LoopInv, SentInv, HostInv, FilesInv, NEW w \in Workers, Upload(w)
  PROVE  FilesInv'
<1>1. CASE Saving(w)
  BY <1>1, SavingFiles
<1>2. CASE Light(w) /\ Uploads(w)
  <2>1. SameWrites /\ row' = row /\ saved' = saved /\ lease' = lease
    BY <1>2, UntouchedWrites, UnmovedSteps DEF Light, WorkerStep, Upload, Local, Save
  <2>2. proc[w].at = "upload"
    BY DEF Upload
  <2>3. State(w).intent = "publication" /\ Sound(State(w))
    BY <2>2 DEF LoopInv, Fits, State
  <2>4. Tool(State(w)) # "computer"
    BY <2>3 DEF Sound
  <2>5. ASSUME NEW result \in Verdicts, Gets(w, result, "done") PROVE FilesInv'
    BY <2>1, <2>4, <2>5, DoneFiles DEF Results, Verdicts
  <2>6. ASSUME NEW at \in {"resign", "interrupted"}, Abandon(w, at) PROVE FilesInv'
    BY <2>1, <2>6, GoesFiles
  <2> QED
    BY <1>2, <2>5, <2>6 DEF Uploads
<1>3. ASSUME Save(w, State(w), FALSE, "tool"), Holds(w) => Extends(w, State(w), "tool"), Untouched
      PROVE  Saving(w)
  BY <1>3, Zenon DEF Saving
<1>4. Saving(w) \/ (Light(w) /\ Uploads(w))
  <2>1. Untouched
    BY UploadsSaving DEF Saving, Light
  <2>2. CASE Uploads(w)
    <3>1. saved' = saved /\ Verdicts \subseteq Results
      BY <2>2 DEF Uploads, Verdicts, Results
    <3> QED
      BY <2>1, <2>2, <3>1, LightPut, LightAbandon, Places3 DEF Uploads
  <2> QED
    BY <1>3, <2>1, <2>2, UploadWrites
<1> QED
  BY <1>1, <1>2, <1>4

(* The files are committed with the result.                                 *)
LEMMA CommitFiles ==
  ASSUME LoopInv, HostInv, FilesInv, NEW w \in Workers, Commits(w)
  PROVE  FilesInv'
<1>0. proc[w].at = "commit" /\ proc[w].at \in Computing
  BY DEF Commits, Commit, Computing
<1>1. PICK c \in Calls : /\ Call(w) = c /\ Current(proc[w].state) = c
                         /\ Using(proc[w]) /\ Fits(proc[w])
  BY <1>0, AtCall
<1>2. PICK result \in Verdicts : proc[w].got = result
  BY <1>0, <1>1 DEF Fits
<1>3. /\ row[c].phase = "running" /\ row' = [row EXCEPT ![c] = [phase |-> "done", result |-> result]]
      /\ files' = IF result = "ok" THEN Append(files, c) ELSE files
      /\ saved' = saved /\ lease' = lease
  BY <1>1, <1>2 DEF Commits, Commit, Finish, Local
<1>4. row \in [Calls -> [phase : Phases, result : Results]] /\ files \in Seq(Calls)
  BY DEF HostInv, RowsInv, ComputerTypeOK
<1>6. /\ Wrote(row', c) <=> result = "ok"
      /\ ~Wrote(row, c)
      /\ \A d \in Calls : d # c => (Wrote(row', d) <=> Wrote(row, d))
  BY <1>1, <1>3, <1>4 DEF Wrote
<1>7. ASSUME NEW d \in Calls PROVE (\E k \in DOMAIN files' : files'[k] = d) <=> Wrote(row', d)
  <2>1. (\E k \in DOMAIN files : files[k] = d) <=> Wrote(row, d)
    BY DEF FilesInv
  <2>2. CASE result = "ok"
    <3>1. /\ DOMAIN files = 1..Len(files) /\ Len(files) \in Nat
          /\ DOMAIN files' = 1..(Len(files) + 1)
          /\ files'[Len(files) + 1] = c /\ \A k \in 1..Len(files) : files'[k] = files[k]
      BY <1>1, <1>3, <1>4, <2>2
    <3>2. (\E k \in DOMAIN files' : files'[k] = d) <=> ((\E k \in DOMAIN files : files[k] = d) \/ d = c)
      BY <3>1
    <3> QED
      BY <1>6, <2>1, <2>2, <3>2
  <2>3. CASE result # "ok"
    BY <1>3, <1>6, <2>1, <2>3
  <2> QED
    BY <2>2, <2>3
<1>8. Held(saved, proc[w]) /\ Sound(saved) /\ Aside(w)
  BY <1>1, BusyAside DEF LoopInv, Busy
<1>9. ReceiptsFit(row', saved)
  <2>1. Len(saved.receipts) \in Nat /\ Len(saved.calls) \in Nat /\ Current(saved) = c /\ Current(saved) = Len(saved.receipts) + 1
    BY <1>1, <1>8, Sorts DEF Held
  <2>2. \A i \in 1..Len(saved.receipts) : i \in Calls /\ i # c
    BY <1>8, <2>1, CallsAssumption DEF Sound, Calls
  <2> QED
    BY <1>6, <2>2 DEF FilesInv, ReceiptsFit
<1> DEFINE q == Put(proc[w], "done", proc[w].got, proc[w].removed)
<1>10. /\ proc' = [proc EXCEPT ![w] = q] /\ q.at = "done" /\ q.got = result /\ q.state = proc[w].state
       /\ proc \in [Workers -> ProcRows]
  <2>1. /\ proc[w] \in ProcRows /\ proc[w].got \in Results /\ proc[w].removed \in Removals /\ "done" \in Locations
        /\ proc' = [proc EXCEPT ![w] = q]
    BY PutSteps DEF Commits, Locations
  <2>2. q.at = "done" /\ q.got = proc[w].got /\ q.state = proc[w].state
    BY <2>1, PutRow
  <2> HIDE DEF q
  <2> QED
    BY <1>2, <2>1, <2>2 DEF LoopInv
<1> HIDE DEF q
<1>11. ASSUME NEW v \in Workers, lease' = v PROVE DoneFits(row', proc'[v])
  <2>1. CASE v = w
    BY <1>1, <1>6, <1>10, <2>1 DEF DoneFits
  <2>2. CASE v # w
    <3>1. proc'[v] = proc[v] /\ lease = v
      BY <1>3, <1>10, <1>11, <2>2
    <3>2. proc[v].at # "done"
      <4>1. ASSUME proc[v].at = "done" PROVE FALSE
        <5>1. Aside(v)
          BY <3>1, <4>1 DEF LoopInv, Fresh
        <5> QED
          BY <1>1, <2>2, <5>1 DEF Aside, Busy
      <4> QED
        BY <4>1
    <3> QED
      BY <3>1, <3>2 DEF DoneFits
  <2> QED
    BY <2>1, <2>2
<1> QED
  BY <1>3, <1>7, <1>9, <1>11 DEF FilesInv

LEMMA ConfirmFiles ==
  ASSUME LoopInv, HostInv, FilesInv, NEW w \in Workers, Confirm(w)
  PROVE  FilesInv'
<1>1. /\ files' = files /\ saved' = saved
      /\ \A c \in Calls : row'[c] = IF c \in Mine THEN [row[c] EXCEPT !.phase = "cancelled"] ELSE row[c]
      /\ \A c \in Mine : row'[c].phase = "cancelled"
  BY ConfirmMine
<1>3. SameWrites
  <2> SUFFICES ASSUME NEW c \in Calls PROVE Wrote(row', c) <=> Wrote(row, c)
    BY <1>1 DEF SameWrites
  <2>1. CASE c \in Mine
    BY <1>1, <2>1 DEF Wrote, Mine, Unfinished
  <2>2. CASE c \notin Mine
    BY <1>1, <2>2 DEF Wrote
  <2> QED
    BY <2>1, <2>2
<1>4. proc[w].at \in Cleaning /\ lease' = lease
  BY DEF Confirm, Local
<1>5. ASSUME NEW at, at # "done", Turn(w, at) \/ Abandon(w, at) PROVE FilesInv'
  BY <1>1, <1>3, <1>4, <1>5, GoesFiles
<1>6. CASE proc[w].at = "discard"
  <2>1. Turn(w, "done")
    BY <1>6 DEF Confirm, After, Cleaning
  <2>2. proc[w].at \in Computing
    BY <1>6 DEF Computing
  <2>3. PICK c \in Calls : /\ Current(proc[w].state) = c /\ Using(proc[w]) /\ Fits(proc[w])
                           /\ Stands(row, container, sent, proc[w])
    BY <2>2, AtCall
  <2>4. proc[w].got = "failed" /\ ~Wrote(row, c)
    BY <1>6, <2>3 DEF Fits, Stands, Wrote
  <2> DEFINE q == Put(proc[w], "done", proc[w].got, 0)
  <2>5. /\ proc' = [proc EXCEPT ![w] = q] /\ proc[w] \in ProcRows /\ proc[w].got \in Results
        /\ 0 \in Removals /\ "done" \in Locations
    BY <2>1, PutSteps DEF Locations
  <2>6. q.at = "done" /\ q.got = proc[w].got /\ q.state = proc[w].state
    BY <2>5, PutRow
  <2> HIDE DEF q
  <2>7. ~Wrote(row', c)
    BY <1>3, <2>4 DEF SameWrites
  <2>8. FilesMove(w, q)
    BY <1>1, <1>4, <2>3, <2>4, <2>5, <2>6, <2>7 DEF FilesMove, DoneFits
  <2> QED
    BY <1>3, <2>8, FilesStep
<1>7. CASE proc[w].at # "discard"
  <2>1. \E at \in {"saveFailed", "saveFinished", "tellFailed", "cancelRun", "saveCancelled", "out"} :
          Turn(w, at) \/ Abandon(w, at)
    BY <1>4, <1>7 DEF Confirm, After, Cleaning
  <2> QED
    BY <1>5, <2>1
<1> QED
  BY <1>6, <1>7

(* A phase that is set without a result.                                    *)
LEMMA PhaseWrites ==
  ASSUME HostInv, NEW c \in Calls, NEW phase \in Phases, phase # "done", row[c].phase # "done",
         row' = [row EXCEPT ![c].phase = phase], files' = files
  PROVE  SameWrites
<1>1. row \in [Calls -> [phase : Phases, result : Results]]
  BY DEF HostInv, RowsInv, ComputerTypeOK
<1>2. row'[c].phase = phase /\ \A d \in Calls : d # c => row'[d] = row[d]
  BY <1>1
<1> QED
  BY <1>2 DEF SameWrites, Wrote

LEMMA CallFiles ==
  ASSUME LoopInv, HostInv, FilesInv, NEW w \in Workers,
         \/ Admits(w) \/ Create(w) \/ Creates(w) \/ RunProgram(w) \/ ProgramEnds(w) \/ ExecutorFails(w)
         \/ GivesUp(w) \/ RemoveContainer(w)
  PROVE  FilesInv'
<1>1. saved' = saved /\ lease' = lease
  BY DEF Admits, AdmitCall, Create, Creates, CreateAnswer, RunProgram, ProgramEnds, ExecutorFails, GivesUp, Commit,
         RemoveContainer, Local
<1>2. \E at \in {"create", "creating", "start", "program", "ran", "discard", "commit"} : \E got :
        Go(w, at) \/ Turn(w, at) \/ Gets(w, got, at) \/ Abandon(w, at)
  BY DEF Admits, Create, Creates, RunProgram, ProgramEnds, ExecutorFails, GivesUp, RemoveContainer
<1>3. SameWrites
  <2>1. CASE Admits(w)
    <3>1. PICK c \in Calls : Call(w) = c
      BY <2>1, AtCall DEF Admits, AdmitCall
    <3>2. row[c].phase = "none" /\ row' = [row EXCEPT ![c].phase = "creating"] /\ files' = files
      BY <2>1, <3>1 DEF Admits, Admit
    <3> QED
      BY <3>2, PhaseWrites DEF Phases
  <2>2. CASE Creates(w)
    <3>1. PICK c \in Calls : Call(w) = c
      BY <2>2, AtCall DEF Creates, CreateAnswer, Computing, InComputer
    <3>2. row[c].phase = "creating" /\ row' = [row EXCEPT ![c].phase = "running"] /\ files' = files
      BY <2>2, <3>1 DEF Creates, Created
    <3> QED
      BY <3>2, PhaseWrites DEF Phases
  <2>3. CASE Create(w) \/ RunProgram(w) \/ ProgramEnds(w) \/ ExecutorFails(w) \/ GivesUp(w) \/ RemoveContainer(w)
    <3>1. row' = row /\ files' = files
      BY <2>3 DEF Create, AskForContainer, RunProgram, Send, ProgramEnds, ExecutorFails, GivesUp, RemoveContainer,
                  Remove, Alone, computer
    <3> QED
      BY <3>1 DEF SameWrites
  <2> QED
    BY <2>1, <2>2, <2>3
<1>4. PICK at \in {"create", "creating", "start", "program", "ran", "discard", "commit"} : \E got :
        Go(w, at) \/ Turn(w, at) \/ Gets(w, got, at) \/ Abandon(w, at)
  BY <1>2
<1> QED
  BY <1>1, <1>3, <1>4, GoesFiles

LEMMA LeftoverFiles ==
  ASSUME LoopInv, HostInv, FilesInv, NEW w \in Workers, RemoveLeftover(w)
  PROVE  FilesInv'
<1>1. PICK c : Remove(c) /\ proc' = [proc EXCEPT ![w].removed = c]
  BY DEF RemoveLeftover
<1> DEFINE q == [proc[w] EXCEPT !.removed = c]
<1>2. proc' = [proc EXCEPT ![w] = q] /\ q.at = proc[w].at /\ proc[w].at # "done"
  BY <1>1 DEF LoopInv, ProcRows, RemoveLeftover, Cleaning
<1> HIDE DEF q
<1>3. SameWrites /\ lease' = lease /\ saved' = saved
  BY <1>1 DEF Remove, SameWrites, RemoveLeftover, Local
<1>4. FilesMove(w, q)
  BY <1>2, <1>3 DEF FilesMove, DoneFits
<1> QED
  BY <1>3, <1>4, FilesStep

(* The worker leaves, fails or goes on, and nothing else.                   *)
Elsewhere(w) ==
  /\ Untouched /\ saved' = saved /\ (lease' = lease \/ lease' = w)
  /\ \E at \in Locations \ {"done"} : Go(w, at) \/ Turn(w, at) \/ Abandon(w, at)
LEMMA ElsewhereFiles ==
  ASSUME LoopInv, FilesInv, NEW w \in Workers, Elsewhere(w)
  PROVE  FilesInv'
<1>1. SameWrites
  BY UntouchedWrites DEF Elsewhere
<1> QED
  BY <1>1, GoesFiles DEF Elsewhere

LEMMA Places4 ==
  {"load", "cancelRun", "fail", "reply", "wrapReply", "fileReply", "resign", "out", "interrupted", "failed", "tellCancelled"}
    \subseteq Locations \ {"done"}
BY Leaving DEF Locations, Cleaning, Ending, Answering

LEMMA FilesKinds ==
  ASSUME LoopInv, SentInv, HostInv, NEW w \in Workers, WorkerStep(w)
  PROVE  \/ Saving(w) \/ Elsewhere(w) \/ Refuse(w) \/ UseReceipt(w) \/ GiveUpFile(w) \/ Search(w) \/ Upload(w)
         \/ Admits(w) \/ Calling(w) \/ RemoveLeftover(w) \/ Confirm(w)
<1>1. CASE Take(w)
  BY <1>1, Places4, AloneUntouched DEF Take, Elsewhere
<1>2. CASE CannotAfford(w) \/ ReplyFails(w) \/ ToolFails(w) \/ ComputerTimesOut(w)
  <2>1. Local /\ Alone /\ (Go(w, "fail") \/ Turn(w, "fail"))
    BY <1>2 DEF CannotAfford, ReplyFails, ToolFails, ComputerTimesOut
  <2> QED
    BY <2>1, Places4, AloneUntouched DEF Local, Elsewhere
<1>3. CASE CannotConfirm(w) \/ Interrupt(w) \/ Crash(w)
  <2>1. Local /\ Alone /\ (Abandon(w, "resign") \/ Abandon(w, "out") \/ Abandon(w, "interrupted"))
    BY <1>3 DEF CannotConfirm, Interrupt, Crash, Leave
  <2> QED
    BY <2>1, Places4, AloneUntouched DEF Local, Elsewhere
<1>4. CASE Tell(w)
  <2>1. saved' = saved /\ lease' = lease /\ Alone /\ (Abandon(w, "out") \/ Abandon(w, "cancelRun"))
    BY <1>4 DEF Tell, Leave
  <2> QED
    BY <2>1, Places4, AloneUntouched DEF Elsewhere
<1>5. CASE Ask(w)
  <2>1. Untouched
    BY <1>5, LightSteps DEF Light
  <2>2. saved' = saved /\ lease' = lease /\ (Go(w, "reply") \/ Go(w, "wrapReply") \/ Go(w, "fileReply"))
    BY <1>5 DEF Ask, Asking, Local
  <2> QED
    BY <2>1, <2>2, Places4 DEF Elsewhere
<1>6. CASE \/ Load(w) \/ AnswerEarly(w) \/ FailEarly(w) \/ ResearchFile(w) \/ AskModel(w) \/ AskForFile(w)
           \/ AskToWrapUp(w) \/ AnswerUnasked(w) \/ Reply(w) \/ FileReply(w)
  <2>1. Writes(w)
    BY <1>6, LoadWrites, AnswerEarlyWrites, FailEarlyWrites, ResearchFileWrites, AskModelWrites, AskForFileWrites,
       AskToWrapUpWrites, AnswerUnaskedWrites, ReplyWrites, FileReplyWrites
  <2>2. Alone
    BY <1>6 DEF Load, AnswerEarly, FailEarly, ResearchFile, AskModel, AskForFile, AskToWrapUp, AnswerUnasked, Reply,
                FileReply
  <2> QED
    BY <2>1, <2>2, WritesSaving, AloneUntouched
<1>7. CASE WrapUpReply(w)
  <2>1. Conclude(w) /\ proc[w].at \in {"work"} \cup Thinking \cup Wrapping /\ Alone
    BY <1>7 DEF WrapUpReply, Wrapping
  <2> QED
    BY <2>1, ConcludeWrites, WritesSaving, AloneUntouched
<1>8. CASE TooLate(w) \/ SaveFailed(w) \/ SaveFinished(w) \/ SaveCancelled(w)
  <2>1. Alone /\ lease' = lease
    <3>1. ~Take(w) /\ ~Tell(w)
      BY <1>8 DEF TooLate, SaveFailed, SaveFinished, SaveCancelled, Take, Tell, Ends
    <3> QED
      BY <1>8, <3>1, UnmovedSteps DEF Unmoved, TooLate, SaveFailed, SaveFinished, SaveCancelled
  <2>2. CASE Writes(w)
    BY <2>1, <2>2, WritesSaving, AloneUntouched
  <2>3. CASE saved' = saved /\ (Go(w, "fail") \/ Abandon(w, "failed") \/ Go(w, "tellCancelled"))
    BY <2>1, <2>3, Places4, AloneUntouched DEF Elsewhere
  <2> QED
    BY <1>8, <2>2, <2>3, TooLateWrites, SaveFailedWrites, SaveFinishedWrites, SaveCancelledWrites
<1>9. CASE StartTool(w) \/ FinishTool(w) \/ RefuseForGood(w) \/ ReserveSearch(w) \/ AttemptPublication(w)
  <2>1. Writes(w)
    BY <1>9, StartToolWrites, FinishToolWrites, RefuseForGoodWrites, ReserveSearchWrites, AttemptPublicationWrites
  <2>2. Alone
    BY <1>9 DEF StartTool, FinishTool, RefuseForGood, ReserveSearch, AttemptPublication
  <2> QED
    BY <2>1, <2>2, WritesSaving, AloneUntouched
<1>10. CASE AdmitCall(w)
  <2>1. CASE Abandon(w, "resign") /\ UNCHANGED <<computer, strayed>>
    BY <1>10, <2>1, Places4 DEF AdmitCall, Local, Untouched, Elsewhere
  <2> QED
    BY <1>10, <2>1 DEF AdmitCall, Admits
<1>11. CASE CreateAnswer(w)
  <2>1. CASE Abandon(w, "resign") /\ UNCHANGED computer
    BY <1>11, <2>1, Places4 DEF CreateAnswer, Local, Quiet, Untouched, Elsewhere
  <2>2. CASE Gets(w, "failed", "discard") /\ UNCHANGED computer
    BY <1>11, <2>2 DEF GivesUp, Calling
  <2> QED
    BY <1>11, <2>1, <2>2 DEF CreateAnswer, Creates, Calling
<1>12. CASE Commit(w)
  <2>1. CASE Abandon(w, "resign") /\ UNCHANGED computer
    BY <1>12, <2>1, Places4 DEF Commit, Local, Quiet, Untouched, Elsewhere
  <2>2. CASE Gets(w, "failed", "discard") /\ UNCHANGED computer
    BY <1>12, <2>2 DEF GivesUp, Calling
  <2> QED
    BY <1>12, <2>1, <2>2 DEF Commit, Commits, Calling
<1> QED
  BY <1>1, <1>2, <1>3, <1>4, <1>5, <1>6, <1>7, <1>8, <1>9, <1>10, <1>11, <1>12 DEF WorkerStep, Calling

LEMMA FilesNext ==
  ASSUME LoopInv, SentInv, HostInv, FilesInv, [Next]_vars
  PROVE  FilesInv'
<1>1. ASSUME NEW w \in Workers, WorkerStep(w) PROVE FilesInv'
  BY <1>1, FilesKinds, SavingFiles, ElsewhereFiles, RefuseFiles, UseReceiptFiles, GiveUpFiles, SearchFiles, UploadFiles,
     CallFiles, CommitFiles, LeftoverFiles, ConfirmFiles DEF Calling
<1>2. CASE RequestCancellation \/ FinalizeCancellation \/ Daemon \/ UNCHANGED vars
  BY <1>2 DEF RequestCancellation, FinalizeCancellation, Daemon, Appears, Vanishes, Alone, run, vars, computer, FilesInv
<1> QED
  BY <1>1, <1>2 DEF Next

------------------------------------------------------------------------------
(* The invariant of the loop.                                               *)

LEMMA RunInit ==
  ASSUME Init
  PROVE  RunInv
<1>1. /\ saved = NoState /\ lease = Nobody /\ leases = 0 /\ stopping = FALSE
      /\ outcome = [state |-> "open", by |-> "nobody"] /\ proc = [w \in Workers |-> Away]
      /\ sent = [r \in Requests |-> 0] /\ strayed = {}
      /\ container = [c \in Calls |-> "none"] /\ files = <<>>
  BY DEF Init, ComputerInit
<1>2. Nobody \notin Workers /\ MaxLeases \in Nat /\ MaxCalls \in Nat
  BY RunAssumption, CallsAssumption
<1>3. Sound(NoState) /\ Away \in ProcRows
  BY NoStateSound
<1>4. /\ NoState.calls = <<>> /\ NoState.receipts = <<>> /\ NoState.used = 0 /\ NoState.attempts = 0
      /\ Away.at = "out" /\ Away.removed = 0
  BY DEF NoState, Away
<1>5. LoopInv
  <2>1. Fits(Away) /\ ~Busy(Away)
    <3>1. "out" \in Locations \ Following
      BY Leaving
    <3>2. Fits(Gone("out")) /\ ~Busy(Gone("out"))
      BY <3>1, GoneFits
    <3>3. Gone("out") = Away
      BY DEF Gone, Away
    <3> QED
      BY <3>2, <3>3
  <2>2. outcome \in Outcomes
    BY <1>1 DEF Outcomes
  <2>3. \A w \in Workers : Fits(proc[w]) /\ Fresh(w) /\ Held(saved, proc[w])
    BY <1>1, <1>2, <1>4, <2>1 DEF Fresh, Held, Busy, Thinking, Wrapping
  <2>4. Unique
    BY <1>1, <2>1 DEF Unique
  <2>5. lease \in Workers \cup {Nobody} /\ leases \in Nat /\ leases <= MaxLeases /\ stopping \in BOOLEAN
    <3>1. lease = Nobody /\ leases = 0 /\ stopping = FALSE
      BY <1>1
    <3>2. leases <= MaxLeases /\ leases \in Nat
      BY <1>2, <3>1
    <3>3. stopping \in BOOLEAN
      BY <3>1
    <3> QED
      BY <3>1, <3>2, <3>3
  <2>6. outcome.by # "worker"
    BY <1>1
  <2>7. proc \in [Workers -> ProcRows]
    BY <1>1, <1>3
  <2>8. Sound(saved)
    BY <1>1, <1>3
  <2> QED
    BY <2>2, <2>3, <2>4, <2>5, <2>6, <2>7, <2>8 DEF LoopInv
<1>6. SentInv
  <2>1. sent \in [Requests -> Nat] /\ \A r \in Requests : sent[r] = 0
    BY <1>1
  <2>2. \A w \in Workers : proc[w] = Away
    BY <1>1
  <2>3. \A w \in Workers : Unsent(sent, saved.steps, proc[w])
    BY <1>4, <2>2 DEF Unsent
  <2>4. Reserved = {}
    BY <1>4, <2>1, <2>2 DEF Reserved, Paid, Owing, Asking
  <2>5. Cardinality(Reserved) <= saved.used
    BY <1>1, <1>4, <2>4, FS_EmptySet
  <2> QED
    BY <2>1, <2>3, <2>5 DEF SentInv
<1>7. UploadInv
  <2> SUFFICES ASSUME NEW c \in Calls
               PROVE  IsFiniteSet(Uploaders(c)) /\ sent[<<"publish", c>>] + Cardinality(Uploaders(c)) <= Allowed(c)
    BY DEF UploadInv
  <2>1. Uploaders(c) = {}
    BY <1>1, <1>4 DEF Uploaders
  <2>2. sent[<<"publish", c>>] = 0
    BY <1>1 DEF Requests
  <2>3. Allowed(c) = 0
    BY <1>1, <1>4 DEF Allowed, Current, Calls
  <2>4. IsFiniteSet(Uploaders(c)) /\ Cardinality(Uploaders(c)) = 0
    BY <2>1, FS_EmptySet
  <2> QED
    BY <2>2, <2>3, <2>4
<1>8. \A c \in Calls : row[c].phase = "none" /\ c \in Calls /\ container[c] = "none" /\ sent[<<"program", c>>] = 0
  BY <1>1, <1>2 DEF Init, ComputerInit, Calls, Requests
<1>9. HostInv
  <2>1. ComputerTypeOK
    <3>1. row \in [Calls -> [phase : Phases, result : Results]]
      BY DEF Init, ComputerInit, Phases, Results
    <3>2. files \in Seq(Calls)
      BY <1>1
    <3> QED
      BY <1>1, <3>1, <3>2 DEF ComputerTypeOK, Places
  <2>2. \A c \in Calls : RowFits(c)
    BY <1>8 DEF RowFits
  <2>3. StandInv
    BY <1>1, <1>4 DEF StandInv, Stands, Using, InTool, Computing, InComputer
  <2>4. TidyInv /\ EndInv
    BY <1>1, <1>4, <1>8 DEF TidyInv, EndInv, Settled
  <2> QED
    BY <2>1, <2>2, <2>3, <2>4 DEF HostInv, RowsInv
<1>10. FilesInv
  <2>1. \A c \in Calls : (\E k \in DOMAIN files : files[k] = c) <=> Wrote(row, c)
    <3>1. \A c \in Calls : ~Wrote(row, c)
      BY <1>8 DEF Wrote
    <3>2. DOMAIN files = {}
      BY <1>1
    <3> QED
      BY <3>1, <3>2
  <2>2. ReceiptsFit(row, saved)
    <3>1. Len(saved.receipts) = 0
      BY <1>1, <1>4
    <3>2. 1..Len(saved.receipts) = {}
      BY <3>1
    <3> QED
      BY <3>2 DEF ReceiptsFit
  <2>3. \A w \in Workers : DoneFits(row, proc[w])
    <3>1. \A w \in Workers : proc[w].at # "done"
      BY <1>1, <1>4
    <3> QED
      BY <3>1 DEF DoneFits
  <2> QED
    BY <2>1, <2>2, <2>3 DEF FilesInv
<1> QED
  BY <1>5, <1>6, <1>7, <1>9, <1>10 DEF RunInv

LEMMA RunNext ==
  ASSUME RunInv, [Next]_vars
  PROVE  RunInv'
<1>1. LoopInv /\ SentInv /\ UploadInv /\ HostInv /\ FilesInv
  BY DEF RunInv
<1>2. LoopInv'
  BY <1>1, LoopNext
<1>3. SentInv'
  BY <1>1, <1>2, SentNext
<1>4. UploadInv'
  BY <1>1, UploadNext
<1>5. HostInv'
  BY <1>1, HostNext
<1>6. FilesInv'
  BY <1>1, FilesNext
<1> QED
  BY <1>2, <1>3, <1>4, <1>5, <1>6 DEF RunInv

(* The inductive invariant of the run: what the loop, the requests, the      *)
(* uploads, the computer and the files keep, and the ends that were told.   *)
THEOREM RunInvariant == Spec => []RunInv
<1>1. Init => RunInv
  BY RunInit
<1>2. RunInv /\ [Next]_vars => RunInv'
  BY RunNext
<1> QED
  BY <1>1, <1>2, PTL DEF Spec

------------------------------------------------------------------------------
(* The theorems.                                                            *)

(* The checkpoint, the processes and the computer have the shape the code   *)
(* gives them, whatever dies and however many workers take the run up       *)
(* (PortableRunner.run, SnapshotStore).                                     *)
THEOREM TypeCorrect == Spec => []TypeOK
<1>1. RunInv => TypeOK
  <2> SUFFICES ASSUME RunInv PROVE TypeOK
    OBVIOUS
  <2>1. LoopInv /\ SentInv /\ HostInv
    BY DEF RunInv
  <2>2. Sound(saved) /\ saved \in StateRows
    BY <2>1 DEF LoopInv, Sound
  <2>3. /\ saved.phase \in {"none", "running", "finishing"} \cup Over
        /\ saved.intent \in Kinds
        /\ saved.calls \in Seq(Tools) /\ saved.receipts \in Seq(Results \ {"none"})
        /\ saved.steps \in Nat
    <3>1. Results \ {"none"} = Verdicts
      BY DEF Results, Verdicts
    <3> QED
      BY <2>2, <3>1 DEF StateRows
  <2>4. saved.searches <= MaxSearches /\ saved.attempts <= MaxAttempts
    BY <2>2 DEF Sound
  <2>5. lease \in Workers \cup {Nobody} /\ leases <= MaxLeases /\ stopping \in BOOLEAN
    BY <2>1 DEF LoopInv
  <2>6. \A w \in Workers : proc[w].at \in Locations
    BY <2>1 DEF LoopInv, ProcRows
  <2>7. \A r \in Requests : sent[r] \in Nat
    BY <2>1 DEF SentInv
  <2>8. strayed \subseteq Calls /\ ComputerTypeOK
    BY <2>1 DEF HostInv, RowsInv, TidyInv
  <2> QED
    BY <2>3, <2>4, <2>5, <2>6, <2>7, <2>8 DEF TypeOK
<1> QED
  BY <1>1, RunInvariant, PTL

(* No model request, search or program of the computer is ever made twice,  *)
(* and a file is uploaded at most MAX_PUBLICATION_ATTEMPTS times, however   *)
(* often the run is taken up again and while workers that lost their lease  *)
(* are still at it: the intent saved before a request, the counter saved    *)
(* before an upload and the row admitted before a program see to it.        *)
THEOREM NothingTwice == Spec => []NothingRepeated
<1>1. RunInv => NothingRepeated
  <2> SUFFICES ASSUME RunInv, NEW r \in Requests
               PROVE  sent[r] <= IF r[1] = "publish" THEN MaxAttempts ELSE 1
    BY DEF NothingRepeated
  <2>1. CASE r[1] # "publish"
    BY <2>1 DEF RunInv, SentInv
  <2>2. CASE r[1] = "publish"
    <3>1. PICK c \in Calls : r = <<"publish", c>>
      BY <2>2 DEF Requests
    <3>2. IsFiniteSet(Uploaders(c)) /\ sent[r] + Cardinality(Uploaders(c)) <= Allowed(c)
      BY <3>1 DEF RunInv, UploadInv
    <3>3. Cardinality(Uploaders(c)) \in Nat
      BY <3>2, FS_CardinalityType
    <3>4. sent[r] \in Nat
      BY DEF RunInv, SentInv
    <3>5. Sound(saved)
      BY DEF RunInv, LoopInv
    <3>6. Allowed(c) <= MaxAttempts /\ Allowed(c) \in Nat /\ MaxAttempts \in Nat
      BY <3>5, Sorts, RunAssumption DEF Sound, Allowed
    <3> QED
      BY <2>2, <3>2, <3>3, <3>4, <3>6
  <2> QED
    BY <2>1, <2>2
<1> QED
  BY <1>1, RunInvariant, PTL

(* Every request that costs money was reserved in the saved state before it *)
(* left, no crash gives a reservation back, and reservations stay within    *)
(* the budget (budgets.reserve and save(dispatch=True)).                    *)
THEOREM PaidBefore == Spec => []PaidFirst
<1>1. RunInv => PaidFirst
  <2> SUFFICES ASSUME RunInv PROVE PaidFirst
    OBVIOUS
  <2> DEFINE Made == UNION {{r} \X (1..sent[r]) : r \in Paid}
             first == [m \in Made |-> m[1]]
  <2>1. /\ \A r \in Requests : sent[r] \in Nat /\ (r[1] # "publish" => sent[r] <= 1)
        /\ Cardinality(Reserved) <= saved.used /\ Sound(saved)
    BY DEF RunInv, SentInv, LoopInv
  <2>2. \A r \in Paid : r \in Requests /\ sent[r] \in 0..1
    <3> SUFFICES ASSUME NEW r \in Paid PROVE r \in Requests /\ sent[r] \in 0..1
      OBVIOUS
    <3>1. r \in Requests /\ r[1] # "publish"
      BY DEF Paid
    <3> QED
      BY <2>1, <3>1
  <2>3. \A m \in Made : m[1] \in Paid /\ sent[m[1]] # 0 /\ m = <<m[1], 1>>
    <3> SUFFICES ASSUME NEW m \in Made PROVE m[1] \in Paid /\ sent[m[1]] # 0 /\ m = <<m[1], 1>>
      OBVIOUS
    <3>1. PICK r \in Paid : m \in {r} \X (1..sent[r])
      OBVIOUS
    <3>2. PICK n \in 1..sent[r] : m = <<r, n>>
      BY <3>1
    <3>3. n = 1 /\ sent[r] # 0
      BY <2>2, <3>2
    <3> QED
      BY <3>2, <3>3
  <2>4. IsFiniteSet(Reserved)
    <3>1. Reserved \in SUBSET Paid
      BY DEF Reserved
    <3> QED
      BY <3>1, PaidFinite, FS_Subset
  <2>5. first \in Injection(Made, Reserved)
    <3>1. \A m \in Made : m[1] \in Reserved
      BY <2>3 DEF Reserved
    <3>2. \A m, n \in Made : m[1] = n[1] => m = n
      BY <2>3
    <3> HIDE DEF Made
    <3>3. first \in [Made -> Reserved]
      BY <3>1
    <3>4. \A m, n \in Made : first[m] = first[n] => m = n
      BY <3>2
    <3> HIDE DEF first
    <3> QED
      BY <3>3, <3>4 DEF Injection, IsInjective
  <2> HIDE DEF first
  <2>6. IsFiniteSet(Made) /\ Cardinality(Made) <= Cardinality(Reserved)
    <3> HIDE DEF Made
    <3> QED
      BY <2>4, <2>5, FS_Injection
  <2>7. Cardinality(Made) \in Nat /\ Cardinality(Reserved) \in Nat /\ saved.used \in Nat
    <3> HIDE DEF Made
    <3> QED
      BY <2>1, <2>4, <2>6, FS_CardinalityType, Sorts
  <2>8. Cardinality(Made) <= saved.used
    <3> HIDE DEF Made
    <3> QED
      BY <2>1, <2>6, <2>7
  <2>9. saved.used <= Budget
    BY <2>1 DEF Sound
  <2> QED
    BY <2>8, <2>9 DEF PaidFirst
<1> QED
  BY <1>1, RunInvariant, PTL

(* When a worker has reported the end of the run, nothing of the run is     *)
(* left in the computer but what a worker without the lease let in, and the *)
(* checkpoint says the same end, with an answer if the run is complete      *)
(* (finish, cancel_run and the failure path of PortableRunner.run).         *)
THEOREM EndsAreSettled == Spec => []EndsSettled
<1>1. RunInv => EndsSettled
  <2> SUFFICES ASSUME RunInv, outcome.by = "worker"
               PROVE  /\ Leftovers \subseteq strayed
                      /\ outcome.state = "complete" => saved.phase = "finished" /\ saved.answer
                      /\ outcome.state = "failed" => saved.phase \in {"failed", "cancelled"}
                      /\ outcome.state = "cancelled" => saved.phase \in Over
    BY DEF EndsSettled
  <2>1. Sound(saved) /\ RowsInv /\ TidyInv /\ EndInv
    BY DEF RunInv, LoopInv, HostInv
  <2>2. Leftovers \subseteq Mine
    <3> SUFFICES ASSUME NEW c \in Leftovers PROVE c \in Mine
      OBVIOUS
    <3>1. c \in Calls /\ RowFits(c) /\ row[c].phase \in Phases
      BY <2>1, CallsAssumption DEF Leftovers, RowsInv, ComputerTypeOK, Calls
    <3> QED
      BY <3>1 DEF Leftovers, Mine, Unfinished, RowFits, Phases
  <2>3. saved.phase = "finished" => saved.answer
    BY <2>1 DEF Sound
  <2> QED
    BY <2>1, <2>2, <2>3 DEF TidyInv, EndInv
<1> QED
  BY <1>1, RunInvariant, PTL

(* A receipt of a computer call says ok exactly if the call's files were    *)
(* committed, also when it was recovered from the computer's store after a  *)
(* crash (SnapshotStore.finish, completed).                                 *)
THEOREM ReceiptsAreTrue == Spec => []ReceiptsTrue
<1>1. RunInv => ReceiptsTrue
  <2> SUFFICES ASSUME RunInv, NEW i \in DOMAIN saved.receipts, saved.calls[i] = "computer"
               PROVE  saved.receipts[i] = "ok" <=> \E k \in DOMAIN files : files[k] = i
    BY DEF ReceiptsTrue
  <2>1. Sound(saved) /\ FilesInv
    BY DEF RunInv, LoopInv
  <2>2. /\ Len(saved.receipts) \in Nat /\ Len(saved.calls) \in Nat /\ Len(saved.receipts) <= Len(saved.calls)
        /\ Len(saved.calls) <= MaxCalls /\ DOMAIN saved.receipts = 1..Len(saved.receipts)
    BY <2>1, Sorts DEF Sound, StateRows
  <2>3. i \in Calls
    BY <2>2, CallsAssumption DEF Calls
  <2> QED
    BY <2>1, <2>2, <2>3 DEF FilesInv, ReceiptsFit
<1> QED
  BY <1>1, RunInvariant, PTL

------------------------------------------------------------------------------
(* What the saved state says is never taken back.                           *)
Starts(t, s) == Len(s) <= Len(t) /\ \A i \in 1..Len(s) : t[i] = s[i]
NothingUndone ==
  /\ Starts(saved'.calls, saved.calls) /\ Starts(saved'.receipts, saved.receipts)
  /\ saved'.used >= saved.used /\ saved'.steps >= saved.steps
  /\ saved.answer => saved'.answer
  /\ saved.phase \in Over => saved'.phase = saved.phase

Advances(s, t) ==
  /\ Starts(t.calls, s.calls) /\ Starts(t.receipts, s.receipts)
  /\ t.used >= s.used /\ t.steps >= s.steps
  /\ s.answer => t.answer

LEMMA ExtendsAdvances ==
  ASSUME LoopInv, NEW w \in Workers, NEW t, NEW next, Extends(w, t, next)
  PROVE  Advances(saved, t)
<1>1. Remembers(saved, t) /\ Adds(w, t) /\ Sound(saved)
  BY DEF Extends, LoopInv
<1>2. Starts(t.calls, saved.calls)
  BY <1>1 DEF Remembers, Starts
<1>3. saved.receipts \in Seq(Verdicts)
  BY <1>1 DEF Sound, StateRows
<1>4. Starts(t.receipts, saved.receipts)
  <2>1. CASE t.receipts = saved.receipts
    BY <1>3, <2>1 DEF Starts
  <2>2. CASE t.receipts = Append(saved.receipts, proc[w].got)
    BY <1>1, <1>3, <2>2 DEF Starts, Remembers
  <2>3. CASE t.receipts = Append(saved.receipts, "failed")
    BY <1>1, <1>3, <2>3 DEF Starts, Remembers, Verdicts
  <2> QED
    BY <1>1, <2>1, <2>2, <2>3 DEF Adds
<1> QED
  BY <1>1, <1>2, <1>4 DEF Advances, Remembers, Grown

LEMMA SameAdvances ==
  ASSUME LoopInv, saved' = saved
  PROVE  Advances(saved, saved')
<1>1. saved \in StateRows
  BY DEF LoopInv, Sound
<1>2. Len(saved.calls) \in Nat /\ Len(saved.receipts) \in Nat /\ saved.used \in Nat /\ saved.steps \in Nat
  BY <1>1 DEF StateRows
<1> QED
  BY <1>2 DEF Advances, Starts

LEMMA SaveAdvances ==
  ASSUME LoopInv, NEW w \in Workers, NEW t, NEW dispatch, NEW next, Save(w, t, dispatch, next),
         Holds(w) => Extends(w, t, next)
  PROVE  Advances(saved, saved')
<1>1. saved' = saved \/ (Holds(w) /\ saved' = t)
  BY SaveSteps
<1> QED
  BY <1>1, ExtendsAdvances, SameAdvances

LEMMA AlwaysAdvances ==
  ASSUME LoopInv, SentInv, HostInv, [Next]_vars
  PROVE  Advances(saved, saved')
<1>1. ASSUME NEW w \in Workers, WorkerStep(w) PROVE Advances(saved, saved')
  <2>1. CASE Writes(w)
    <3>1. PICK t, dispatch, next : Save(w, t, dispatch, next) /\ (Holds(w) => Extends(w, t, next))
      BY <2>1, Zenon DEF Writes
    <3> QED
      BY <3>1, SaveAdvances
  <2>2. CASE Upload(w)
    <3>1. Uploads(w) \/ (Save(w, State(w), FALSE, "tool") /\ (Holds(w) => Extends(w, State(w), "tool")))
      BY <2>2, UploadWrites
    <3> QED
      BY <3>1, SaveAdvances, SameAdvances DEF Uploads
  <2>3. CASE Plain(w) \/ Ask(w) \/ Search(w) \/ RunProgram(w)
    <3>1. saved' = saved
      BY <2>3 DEF Plain, Ask, Search, RunProgram, Local
    <3> QED
      BY <3>1, SameAdvances
  <2> QED
    BY <1>1, <2>1, <2>2, <2>3, Kinds2
<1>2. CASE RequestCancellation \/ FinalizeCancellation \/ Daemon \/ UNCHANGED vars
  <2>1. saved' = saved
    BY <1>2 DEF RequestCancellation, FinalizeCancellation, Daemon, run, vars
  <2> QED
    BY <2>1, SameAdvances
<1> QED
  BY <1>1, <1>2 DEF Next

(* An end that was saved stays: the places from which another phase is      *)
(* saved are not reached in it.                                             *)
Stays == saved.phase \in Over => saved'.phase = saved.phase

LEMMA LoopStays ==
  ASSUME LoopInv, NEW w \in Workers, proc[w].at \in InLoop, proc[w].at # "done", saved' = saved \/ Holds(w)
  PROVE  Stays
<1>1. CASE saved' = saved
  BY <1>1 DEF Stays
<1>2. CASE Holds(w)
  BY <1>2, HolderFits DEF Stays, Over
<1> QED
  BY <1>1, <1>2

LEMMA DoneStays ==
  ASSUME LoopInv, NEW w \in Workers, FinishTool(w)
  PROVE  Stays
<1>1. proc[w].at = "done" /\ proc[w].at \in InLoop /\ proc[w].at \in Following
  BY DEF FinishTool, InLoop, Following
<1>2. saved' = saved \/ Holds(w)
  BY SaveLeaves DEF FinishTool
<1>3. CASE Holds(w)
  <2>1. Alike(saved, proc[w]) /\ proc[w].state.phase = "running" /\ saved \in StateRows
    BY <1>1, <1>3 DEF LoopInv, Fits, Fresh, Holds, Sound
  <2>2. saved.phase = "running"
    BY <2>1 DEF Alike, StateRows
  <2> QED
    BY <2>2 DEF Stays, Over
<1> QED
  BY <1>2, <1>3 DEF Stays

LEMMA LoadStays ==
  ASSUME LoopInv, NEW w \in Workers, Load(w)
  PROVE  Stays
<1> DEFINE s == IF saved.phase = "none" THEN Begun ELSE saved
<1>1. \E next : Save(w, s, FALSE, next)
  BY Zenon DEF Load
<1>2. saved' = saved \/ saved' = s
  BY <1>1, SaveSteps
<1> QED
  BY <1>2 DEF Stays, Over

LEMMA EndStays ==
  ASSUME LoopInv, NEW w \in Workers, SaveFailed(w) \/ SaveFinished(w) \/ SaveCancelled(w)
  PROVE  Stays
<1>1. CASE SaveFailed(w)
  <2>1. proc[w].at \in Following /\ proc[w].at # "done"
    BY <1>1 DEF SaveFailed, Following, Failing
  <2>2. saved' = saved \/ (Holds(w) /\ State(w).phase \notin Over)
    BY <1>1, SaveLeaves DEF SaveFailed, Local
  <2>3. Holds(w) => State(w) = saved
    BY <2>1, HolderState DEF Holds, State
  <2> QED
    BY <2>2, <2>3 DEF Stays
<1>2. CASE SaveFinished(w)
  <2> DEFINE t == [State(w) EXCEPT !.phase = "finished"]
  <2>1. proc[w].at \in Following /\ proc[w].at # "done" /\ proc[w].at \in Finishing
    BY <1>2 DEF SaveFinished, Following, Finishing
  <2>2. State(w).phase \in {"finishing", "finished"} /\ State(w) \in StateRows
    BY <2>1 DEF LoopInv, Fits, State, Sound
  <2>3. t.phase = "finished"
    BY <2>2 DEF StateRows
  <2>4. Save(w, t, FALSE, "tellComplete")
    BY <1>2 DEF SaveFinished
  <2> HIDE DEF t
  <2>5. saved' = saved \/ (Holds(w) /\ saved' = t)
    BY <2>4, SaveSteps
  <2>6. Holds(w) => State(w) = saved
    BY <2>1, HolderState DEF Holds, State
  <2> QED
    BY <2>2, <2>3, <2>5, <2>6 DEF Stays, Over
<1>3. CASE SaveCancelled(w)
  <2>1. saved' = saved \/ saved.phase \notin Over
    BY <1>3 DEF SaveCancelled, Local
  <2> QED
    BY <2>1 DEF Stays
<1> QED
  BY <1>1, <1>2, <1>3

LEMMA AlwaysStays ==
  ASSUME LoopInv, SentInv, HostInv, [Next]_vars
  PROVE  Stays
<1>1. ASSUME NEW w \in Workers, WorkerStep(w) PROVE Stays
  <2>1. CASE \/ AnswerEarly(w) \/ FailEarly(w) \/ ResearchFile(w) \/ RefuseForGood(w)
             \/ AskModel(w) \/ AskForFile(w) \/ AskToWrapUp(w) \/ AnswerUnasked(w) \/ TooLate(w) \/ Reply(w)
             \/ WrapUpReply(w) \/ FileReply(w) \/ StartTool(w) \/ ReserveSearch(w) \/ AttemptPublication(w) \/ Upload(w)
    <3>1. proc[w].at \in {"work", "ask", "wrapAsk", "fileAsk", "reply", "wrapReply", "fileReply", "tool", "upload"}
      BY <2>1 DEF AnswerEarly, FailEarly, ResearchFile, RefuseForGood,
                  AskModel, AskForFile, AskToWrapUp, AnswerUnasked, TooLate, Reply, WrapUpReply, FileReply, StartTool,
                  ReserveSearch, AttemptPublication, Upload, Idle, Working
    <3>2. proc[w].at \in InLoop /\ proc[w].at # "done"
      BY <3>1 DEF InLoop, Thinking, Wrapping, InTool
    <3>3. saved' = saved \/ Holds(w)
      BY <1>1, <2>1, <3>1, UnmovedSteps DEF Take, Tell, Ends, Unmoved
    <3> QED
      BY <3>2, <3>3, LoopStays
  <2>2. CASE Load(w) \/ FinishTool(w) \/ SaveFailed(w) \/ SaveFinished(w) \/ SaveCancelled(w)
    BY <2>2, LoadStays, DoneStays, EndStays
  <2>3. CASE \/ Take(w) \/ CannotAfford(w) \/ ReplyFails(w) \/ Refuse(w) \/ UseReceipt(w) \/ GiveUpFile(w) \/ ToolFails(w)
             \/ AdmitCall(w) \/ Create(w) \/ CreateAnswer(w) \/ ProgramEnds(w) \/ ExecutorFails(w)
             \/ RemoveContainer(w) \/ Commit(w) \/ RemoveLeftover(w) \/ Confirm(w) \/ CannotConfirm(w)
             \/ Tell(w) \/ Interrupt(w) \/ ComputerTimesOut(w) \/ Crash(w) \/ Ask(w) \/ Search(w) \/ RunProgram(w)
    <3>1. saved' = saved
      BY <2>3, PlainSteps DEF Plain, Ask, Search, RunProgram, Local
    <3> QED
      BY <3>1 DEF Stays
  <2> QED
    BY <1>1, <2>1, <2>2, <2>3 DEF WorkerStep
<1>2. CASE RequestCancellation \/ FinalizeCancellation \/ Daemon \/ UNCHANGED vars
  BY <1>2 DEF RequestCancellation, FinalizeCancellation, Daemon, run, vars, Stays
<1> QED
  BY <1>1, <1>2 DEF Next

(* No save takes anything back, whichever worker makes it and whatever died *)
(* before: calls and receipts stay in their order, what was reserved stays  *)
(* reserved, an answer stays an answer, and a run that ended in the         *)
(* checkpoint never ends there in another way (save under the lease, and    *)
(* the single read of the checkpoint in _run_locked).                       *)
THEOREM WorkIsKept == Spec => [][NothingUndone]_vars
<1>1. RunInv /\ [Next]_vars => [NothingUndone]_vars
  <2> SUFFICES ASSUME RunInv, [Next]_vars PROVE NothingUndone
    OBVIOUS
  <2>1. LoopInv /\ SentInv /\ HostInv
    BY DEF RunInv
  <2>2. Advances(saved, saved') /\ Stays
    BY <2>1, AlwaysAdvances, AlwaysStays
  <2> QED
    BY <2>2 DEF Advances, Stays, NothingUndone
<1> QED
  BY <1>1, RunInvariant, PTL DEF Spec
=============================================================================
