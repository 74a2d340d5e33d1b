------------------------- MODULE DispatchQueueProofs -------------------------
(***************************************************************************)
(* The counters, queues and jobs of one worker's admission agree, for any  *)
(* number of runs, tenants and limits.  The inductive invariant is stated  *)
(* over the record that the sections under the lock work on (Now), so that *)
(* each helper has a lemma of its own: what it is given is sound, and so   *)
(* is what it leaves.  A step is a composition of helpers.                 *)
(***************************************************************************)
EXTENDS DispatchQueue, FiniteSetTheorems, SequenceTheorems, WellFoundedInduction, TLAPS

(* A value of what the sections under the lock work on.                     *)
Whole(s) ==
  s = [heap |-> s.heap, table |-> s.table, queue |-> s.queue, order |-> s.order,
       active |-> s.active, byTenant |-> s.byTenant]

------------------------------------------------------------------------------
(* Sequences that hold nothing twice.                                       *)

LEMMA FirstOf ==
  ASSUME NEW S \in SUBSET Nat, S # {}
  PROVE  \E k \in S : \A l \in S : k <= l
<1>1. PICK k \in S : \A l \in S : <<l, k>> \notin OpToRel(<, Nat)
  BY NatLessThanWellFounded, WFMin, Zenon
<1>2. ASSUME NEW l \in S, l < k
      PROVE  FALSE
  <2>1. <<l, k>> \in Nat \X Nat
    OBVIOUS
  <2>2. <<l, k>>[1] < <<l, k>>[2]
    BY <1>2
  <2>3. <<l, k>> \in OpToRel(<, Nat)
    BY <2>1, <2>2, Zenon DEF OpToRel
  <2> QED
    BY <2>3, <1>1
<1>3. \A l \in S : k \in Nat /\ l \in Nat
  OBVIOUS
<1> QED
  BY <1>2, <1>3

(* What a queue holds, and that it holds nothing twice.                     *)
Has(q, x) == \E i \in DOMAIN q : q[i] = x
Distinct(q) == \A i, k \in DOMAIN q : q[i] = q[k] => i = k

LEMMA EmptyHasNothing ==
  ASSUME NEW S, NEW q \in Seq(S)
  PROVE  q = <<>> <=> \A x \in S : ~Has(q, x)
<1>1. q = <<>> => \A x \in S : ~Has(q, x)
  BY DEF Has
<1>2. ASSUME q # <<>>
      PROVE  \E x \in S : Has(q, x)
  <2>1. 1 \in DOMAIN q /\ q[1] \in S
    BY <1>2, EmptySeq, LenProperties
  <2> QED
    BY <2>1 DEF Has
<1> QED
  BY <1>1, <1>2

LEMMA AppendHas ==
  ASSUME NEW S, NEW q \in Seq(S), NEW x \in S, ~Has(q, x), Distinct(q), NEW w, w = Append(q, x)
  PROVE  /\ w \in Seq(S) /\ Distinct(w) /\ Len(w) = Len(q) + 1
         /\ \A y : Has(w, y) <=> Has(q, y) \/ y = x
<1>1. /\ w \in Seq(S) /\ Len(w) = Len(q) + 1
      /\ \A i \in 1..Len(q) : w[i] = q[i]
      /\ w[Len(q) + 1] = x
  BY AppendProperties
<1>2. Len(q) \in Nat /\ DOMAIN q = 1..Len(q) /\ DOMAIN w = 1..(Len(q) + 1)
  BY <1>1, LenProperties
<1>3. ASSUME NEW i \in DOMAIN w, NEW k \in DOMAIN w, w[i] = w[k]
      PROVE  i = k
  <2>1. CASE i \in DOMAIN q /\ k \in DOMAIN q
    BY <1>1, <1>2, <1>3, <2>1 DEF Distinct
  <2>2. CASE i \in DOMAIN q /\ k = Len(q) + 1
    BY <1>1, <1>2, <1>3, <2>2 DEF Has
  <2>3. CASE k \in DOMAIN q /\ i = Len(q) + 1
    BY <1>1, <1>2, <1>3, <2>3 DEF Has
  <2> QED
    BY <1>2, <2>1, <2>2, <2>3
<1>4. ASSUME NEW y
      PROVE  Has(w, y) <=> Has(q, y) \/ y = x
  BY <1>1, <1>2 DEF Has
<1> QED
  BY <1>1, <1>3, <1>4 DEF Distinct

LEMMA TailHas ==
  ASSUME NEW S, NEW q \in Seq(S), q # <<>>, Distinct(q)
  PROVE  /\ Head(q) \in S /\ Has(q, Head(q))
         /\ Tail(q) \in Seq(S) /\ Distinct(Tail(q)) /\ Len(Tail(q)) = Len(q) - 1
         /\ \A y : Has(Tail(q), y) <=> Has(q, y) /\ y # Head(q)
<1> DEFINE w == Tail(q)
<1>1. /\ Head(q) \in S /\ w \in Seq(S) /\ Len(w) = Len(q) - 1
      /\ \A i \in 1..Len(w) : w[i] = q[i + 1]
  BY HeadTailProperties
<1>2. Len(q) \in Nat \ {0} /\ DOMAIN q = 1..Len(q) /\ DOMAIN w = 1..(Len(q) - 1)
  BY <1>1, LenProperties, EmptySeq
<1>3. Head(q) = q[1]
  OBVIOUS
<1> HIDE DEF w
<1>4. Has(q, Head(q))
  BY <1>2, <1>3 DEF Has
<1>5. Distinct(w)
  <2>1. ASSUME NEW i \in DOMAIN w, NEW k \in DOMAIN w, w[i] = w[k]
        PROVE  i = k
    <3>1. /\ i \in Nat /\ k \in Nat /\ i + 1 \in DOMAIN q /\ k + 1 \in DOMAIN q
          /\ w[i] = q[i + 1] /\ w[k] = q[k + 1]
      BY <1>1, <1>2
    <3>2. i + 1 = k + 1
      BY <3>1, <2>1 DEF Distinct
    <3> QED
      BY <3>1, <3>2
  <2> QED
    BY <2>1 DEF Distinct
<1>6. ASSUME NEW y, Has(w, y)
      PROVE  Has(q, y) /\ y # Head(q)
  BY <1>1, <1>2, <1>3, <1>6 DEF Has, Distinct
<1>7. ASSUME NEW y, Has(q, y), y # Head(q)
      PROVE  Has(w, y)
  <2>1. PICK i \in DOMAIN q : q[i] = y
    BY <1>7 DEF Has
  <2>2. i - 1 \in DOMAIN w /\ w[i - 1] = y
    BY <2>1, <1>7, <1>1, <1>2, <1>3
  <2> QED
    BY <2>2 DEF Has
<1> QED
  BY <1>1, <1>4, <1>5, <1>6, <1>7 DEF w

LEMMA Places ==
  ASSUME NEW n \in Nat, NEW k \in Nat, 1 <= k, k <= n, NEW i \in Nat, 1 <= i, i <= n
  PROVE  /\ (k - 1) + (n - k) = n - 1 /\ (n - k) + (k - 1) = n - 1
         /\ i <= n - 1 => i \in 1..(n - 1)
         /\ (i <= n - 1 /\ ~(i < k)) =>
              ~(i <= k - 1) /\ i - (k - 1) \in 1..(n - k) /\ k + (i - (k - 1)) = i + 1
         /\ i <= n - k => i \in 1..(n - k) /\ k + i \in 1..n /\ i <= n - 1
         /\ (i <= n - 1 /\ ~(i <= n - k)) => i - (n - k) \in 1..(k - 1) /\ i - (n - k) \in 1..n
<1>1. (k - 1) + (n - k) = n - 1 /\ (n - k) + (k - 1) = n - 1
  OBVIOUS
<1>2. i <= n - 1 => i \in 1..(n - 1)
  OBVIOUS
<1>3. (i <= n - 1 /\ ~(i < k)) =>
              ~(i <= k - 1) /\ i - (k - 1) \in 1..(n - k) /\ k + (i - (k - 1)) = i + 1
  OBVIOUS
<1>4. i <= n - k => i \in 1..(n - k) /\ k + i \in 1..n /\ i <= n - 1
  OBVIOUS
<1>5. (i <= n - 1 /\ ~(i <= n - k)) => i - (n - k) \in 1..(k - 1) /\ i - (n - k) \in 1..n
  OBVIOUS
<1> QED
  BY <1>1, <1>2, <1>3, <1>4, <1>5

LEMMA Skips ==
  ASSUME NEW k \in Nat, NEW i \in Nat, NEW l \in Nat,
         (IF i < k THEN i ELSE i + 1) = (IF l < k THEN l ELSE l + 1)
  PROVE  i = l
OBVIOUS

(* What comes before and after the place k of a sequence.                   *)
LEMMA Slices ==
  ASSUME NEW S, NEW q \in Seq(S), NEW k \in 1..Len(q)
  PROVE  /\ SubSeq(q, 1, k - 1) \in Seq(S) /\ Len(SubSeq(q, 1, k - 1)) = k - 1
         /\ \A i \in 1..(k - 1) : SubSeq(q, 1, k - 1)[i] = q[i]
         /\ SubSeq(q, k + 1, Len(q)) \in Seq(S) /\ Len(SubSeq(q, k + 1, Len(q))) = Len(q) - k
         /\ \A i \in 1..(Len(q) - k) : SubSeq(q, k + 1, Len(q))[i] = q[k + i]
<1> DEFINE n == Len(q)
<1>1. n \in Nat /\ k \in Nat /\ 1 <= k /\ k <= n /\ \A i \in 1..n : q[i] \in S
  BY LenProperties, ElementOfSeq
<1> HIDE DEF n
<1>2. /\ 1 \in Int /\ k - 1 \in Int /\ k + 1 \in Int /\ n \in Int
      /\ \A i \in 1..(k - 1) : q[i] \in S
      /\ \A i \in (k + 1)..n : q[i] \in S
  BY <1>1
<1>3. /\ SubSeq(q, 1, k - 1) \in Seq(S)
      /\ Len(SubSeq(q, 1, k - 1)) = IF 1 <= k - 1 THEN (k - 1) - 1 + 1 ELSE 0
      /\ \A i \in 1..((k - 1) - 1 + 1) : SubSeq(q, 1, k - 1)[i] = q[1 + i - 1]
  BY <1>2, SubSeqProperties
<1>4. /\ SubSeq(q, k + 1, n) \in Seq(S)
      /\ Len(SubSeq(q, k + 1, n)) = IF k + 1 <= n THEN n - (k + 1) + 1 ELSE 0
      /\ \A i \in 1..(n - (k + 1) + 1) : SubSeq(q, k + 1, n)[i] = q[(k + 1) + i - 1]
  BY <1>2, SubSeqProperties
<1>5. /\ (k - 1) - 1 + 1 = k - 1 /\ (IF 1 <= k - 1 THEN (k - 1) - 1 + 1 ELSE 0) = k - 1
      /\ n - (k + 1) + 1 = n - k /\ (IF k + 1 <= n THEN n - (k + 1) + 1 ELSE 0) = n - k
      /\ \A i \in Nat : 1 + i - 1 = i /\ (k + 1) + i - 1 = k + i
  BY <1>1
<1>6. /\ SubSeq(q, 1, k - 1) \in Seq(S) /\ Len(SubSeq(q, 1, k - 1)) = k - 1
      /\ \A i \in 1..(k - 1) : SubSeq(q, 1, k - 1)[i] = q[i]
  BY <1>3, <1>5
<1>7. /\ SubSeq(q, k + 1, n) \in Seq(S) /\ Len(SubSeq(q, k + 1, n)) = n - k
      /\ \A i \in 1..(n - k) : SubSeq(q, k + 1, n)[i] = q[k + i]
  BY <1>4, <1>5
<1> QED
  BY <1>6, <1>7 DEF n

(* A sequence without its element at k.                                     *)
LEMMA CutHas ==
  ASSUME NEW S, NEW q \in Seq(S), NEW k \in DOMAIN q, Distinct(q),
         NEW w, w = SubSeq(q, 1, k - 1) \o SubSeq(q, k + 1, Len(q))
  PROVE  /\ w \in Seq(S) /\ Distinct(w)
         /\ \A y : Has(w, y) <=> Has(q, y) /\ y # q[k]
<1> DEFINE u == SubSeq(q, 1, k - 1)
           v == SubSeq(q, k + 1, Len(q))
<1>1. Len(q) \in Nat /\ DOMAIN q = 1..Len(q) /\ k \in 1..Len(q) /\ \A i \in 1..Len(q) : q[i] \in S
  BY LenProperties, ElementOfSeq
<1>2. u \in Seq(S) /\ Len(u) = k - 1 /\ \A i \in 1..(k - 1) : u[i] = q[i]
  BY <1>1, Slices
<1>3. v \in Seq(S) /\ Len(v) = Len(q) - k /\ \A i \in 1..(Len(q) - k) : v[i] = q[k + i]
  BY <1>1, Slices
<1> HIDE DEF u, v
<1>4. w \in Seq(S) /\ Len(w) = Len(u) + Len(v)
      /\ \A i \in 1..(Len(u) + Len(v)) : w[i] = IF i <= Len(u) THEN u[i] ELSE v[i - Len(u)]
  <2>1. w = u \o v
    BY DEF u, v
  <2>2. u \in Seq(S) /\ v \in Seq(S)
    BY <1>2, <1>3
  <2>3. /\ u \o v \in Seq(S) /\ Len(u \o v) = Len(u) + Len(v)
        /\ \A i \in 1..(Len(u) + Len(v)) : (u \o v)[i] = IF i <= Len(u) THEN u[i] ELSE v[i - Len(u)]
    BY <2>2, ConcatProperties, Zenon
  <2> QED
    BY <2>1, <2>3, Zenon
<1> DEFINE n == Len(q)
<1>n. /\ n \in Nat /\ k \in Nat /\ 1 <= k /\ k <= n
      /\ DOMAIN q = 1..n /\ Len(u) = k - 1 /\ Len(v) = n - k
  BY <1>1, <1>2, <1>3
<1>w. DOMAIN w = 1..(n - 1)
  <2>1. Len(w) = n - 1
    BY <1>4, <1>n
  <2> QED
    BY <2>1, <1>4, LenProperties
<1>u. /\ \A i \in 1..(k - 1) : u[i] = q[i]
      /\ \A i \in 1..(n - k) : v[i] = q[k + i]
  BY <1>2, <1>3
<1> HIDE DEF n
<1>5. \A i \in 1..(n - 1) : w[i] = IF i < k THEN q[i] ELSE q[i + 1]
  <2>1. ASSUME NEW i \in 1..(n - 1), i < k
        PROVE  w[i] = q[i]
    <3>1. i \in 1..(Len(u) + Len(v)) /\ i <= Len(u) /\ i \in 1..(k - 1)
      BY <1>n, <2>1
    <3> QED
      BY <3>1, <1>u, <1>4
  <2>2. ASSUME NEW i \in 1..(n - 1), ~(i < k)
        PROVE  w[i] = q[i + 1]
    <3>0. i \in Nat /\ 1 <= i /\ i <= n - 1 /\ k <= i
      BY <1>n, <2>2
    <3>a. i <= n
      BY <1>n, <3>0
    <3>1. /\ i \in 1..(Len(u) + Len(v)) /\ ~(i <= Len(u))
          /\ i - Len(u) \in 1..(n - k) /\ k + (i - Len(u)) = i + 1
      <4>1. /\ (k - 1) + (n - k) = n - 1 /\ i \in 1..(n - 1) /\ ~(i <= k - 1)
            /\ i - (k - 1) \in 1..(n - k) /\ k + (i - (k - 1)) = i + 1
        BY <1>n, <3>0, <3>a, <2>2, Places
      <4> QED
        BY <4>1, <1>n, Zenon
    <3>2. w[i] = v[i - Len(u)]
      BY <3>1, <1>4
    <3> QED
      BY <3>1, <3>2, <1>u
  <2> QED
    BY <2>1, <2>2
<1>6. Distinct(w)
  <2>1. ASSUME NEW i \in 1..(n - 1), NEW l \in 1..(n - 1), w[i] = w[l]
        PROVE  i = l
    <3>1. \A a, b \in 1..n : q[a] = q[b] => a = b
      BY <1>n DEF Distinct
    <3>2. i \in 1..n /\ i + 1 \in 1..n /\ l \in 1..n /\ l + 1 \in 1..n
      BY <1>n
    <3> DEFINE f(b) == IF b < k THEN b ELSE b + 1
    <3>3. q[f(i)] = q[f(l)] /\ f(i) \in 1..n /\ f(l) \in 1..n
      BY <3>2, <2>1, <1>5
    <3>4. f(i) = f(l)
      BY <3>1, <3>3, Zenon
    <3>5. i \in Nat /\ l \in Nat
      BY <1>n
    <3> QED
      BY <3>4, <3>5, <1>n, Skips, Zenon
  <2> QED
    BY <2>1, <1>w DEF Distinct
<1>7. ASSUME NEW y, Has(w, y)
      PROVE  Has(q, y) /\ y # q[k]
  <2>1. PICK i \in 1..(n - 1) : w[i] = y
    BY <1>7, <1>w DEF Has
  <2> DEFINE l == IF i < k THEN i ELSE i + 1
  <2>2. l \in 1..n /\ l # k
    BY <1>n
  <2>3. q[l] = y
    BY <2>1, <1>5
  <2> HIDE DEF l
  <2> QED
    BY <2>2, <2>3, <1>n DEF Has, Distinct
<1>8. ASSUME NEW y, Has(q, y), y # q[k]
      PROVE  Has(w, y)
  <2>1. PICK l \in 1..n : q[l] = y
    BY <1>8, <1>n DEF Has
  <2>2. l # k
    BY <2>1, <1>8
  <2>3. CASE l < k
    <3>1. l \in 1..(n - 1)
      BY <2>3, <1>n
    <3> QED
      BY <3>1, <2>1, <2>3, <1>5, <1>w DEF Has
  <2>4. CASE l > k
    <3>1. l - 1 \in 1..(n - 1) /\ ~(l - 1 < k) /\ (l - 1) + 1 = l
      BY <2>4, <1>n
    <3>2. w[l - 1] = y
      BY <3>1, <2>1, <1>5
    <3> QED
      BY <3>1, <3>2, <1>w DEF Has
  <2> QED
    BY <2>2, <2>3, <2>4, <1>n
<1> QED
  BY <1>4, <1>6, <1>7, <1>8

LEMMA WithoutHas ==
  ASSUME NEW S, NEW q \in Seq(S), Distinct(q), NEW x
  PROVE  /\ Without(q, x) \in Seq(S) /\ Distinct(Without(q, x))
         /\ \A y : Has(Without(q, x), y) <=> Has(q, y) /\ y # x
<1> DEFINE at == {i \in DOMAIN q : q[i] = x}
           i == CHOOSE i \in at : \A k \in at : i <= k
<1>1. CASE at = {}
  BY <1>1 DEF Without, Has
<1>2. CASE at # {}
  <2>1. at \subseteq Nat
    BY LenProperties
  <2>2. i \in at
    BY <1>2, <2>1, FirstOf
  <2>3. Without(q, x) = SubSeq(q, 1, i - 1) \o SubSeq(q, i + 1, Len(q))
    BY <1>2 DEF Without
  <2>4. i \in DOMAIN q /\ q[i] = x
    BY <2>2
  <2> HIDE DEF i, at
  <2> QED
    BY <2>3, <2>4, CutHas
<1> QED
  BY <1>1, <1>2

(* The tenant at k has its turn last, or none if it has no more runs.       *)
LEMMA NextTurnsHas ==
  ASSUME NEW S, NEW o \in Seq(S), NEW k \in DOMAIN o, Distinct(o), NEW more \in BOOLEAN
  PROVE  /\ NextTurns(o, k, more) \in Seq(S) /\ Distinct(NextTurns(o, k, more))
         /\ \A y : Has(NextTurns(o, k, more), y) <=> Has(o, y) /\ (y = o[k] => more)
<1> DEFINE n == Len(o)
           u == SubSeq(o, k + 1, n)
           v == SubSeq(o, 1, k - 1)
           c == u \o v
           w == IF more THEN <<o[k]>> ELSE <<>>
<1>1. n \in Nat /\ DOMAIN o = 1..n /\ k \in 1..n /\ \A i \in 1..n : o[i] \in S
  BY LenProperties, ElementOfSeq
<1>2. u \in Seq(S) /\ v \in Seq(S) /\ Len(u) = n - k /\ Len(v) = k - 1
      /\ (\A i \in 1..(n - k) : u[i] = o[k + i]) /\ (\A i \in 1..(k - 1) : v[i] = o[i])
  BY <1>1, Slices
<1>3. NextTurns(o, k, more) = c \o w
  BY DEF NextTurns
<1> HIDE DEF n, u, v
<1>4. /\ c \in Seq(S) /\ Len(c) = Len(u) + Len(v)
      /\ \A i \in 1..(Len(u) + Len(v)) : c[i] = IF i <= Len(u) THEN u[i] ELSE v[i - Len(u)]
  <2>1. u \in Seq(S) /\ v \in Seq(S)
    BY <1>2
  <2> QED
    BY <2>1, ConcatProperties, Zenon
<1>5. w \in Seq(S) /\ Len(w) = IF more THEN 1 ELSE 0
  BY <1>1
<1>6. more => w[1] = o[k]
  OBVIOUS
<1> HIDE DEF c, w
<1>7. /\ c \o w \in Seq(S) /\ Len(c \o w) = Len(c) + Len(w)
      /\ \A i \in 1..(Len(c) + Len(w)) : (c \o w)[i] = IF i <= Len(c) THEN c[i] ELSE w[i - Len(c)]
  <2>1. c \in Seq(S) /\ w \in Seq(S)
    BY <1>4, <1>5
  <2> QED
    BY <2>1, ConcatProperties, Zenon
<1> DEFINE x == NextTurns(o, k, more)
           m == IF more THEN n ELSE n - 1
<1>8. x \in Seq(S) /\ DOMAIN x = 1..m
  <2>1. Len(x) = m
    BY <1>1, <1>2, <1>3, <1>4, <1>5, <1>7
  <2> QED
    BY <2>1, <1>3, <1>7, LenProperties
(* The turn that comes at place i was at place from(i).                     *)
<1> DEFINE from(i) == IF i <= n - k THEN k + i ELSE IF i <= n - 1 THEN i - (n - k) ELSE k
<1>9. ASSUME NEW i \in 1..m
      PROVE  x[i] = o[from(i)] /\ from(i) \in 1..n
  <2>0. n \in Nat /\ k \in Nat /\ 1 <= k /\ k <= n /\ i \in Nat /\ 1 <= i
        /\ Len(u) = n - k /\ Len(v) = k - 1 /\ Len(c) = n - 1
    BY <1>1, <1>2, <1>4
  <2>1. CASE i <= n - k
    <3>1. i \in 1..(Len(u) + Len(v)) /\ i <= Len(u) /\ i <= Len(c) /\ i \in 1..(n - k)
      BY <2>0, <2>1
    <3>2. i \in 1..(Len(c) + Len(w))
      BY <3>1, <2>0, <1>5
    <3>3. x[i] = u[i]
      BY <3>1, <3>2, <1>3, <1>4, <1>7
    <3>4. x[i] = o[k + i] /\ k + i \in 1..n
      <4>1. k + i \in 1..n
        <5>1. i <= n
          BY <2>0, <2>1
        <5> QED
          BY <2>0, <2>1, <5>1, Places
      <4> QED
        BY <3>1, <3>3, <1>2, <4>1
    <3>5. from(i) = k + i
      BY <2>1
    <3> HIDE DEF from
    <3> QED
      BY <3>4, <3>5
  <2>2. CASE i > n - k /\ i <= n - 1
    <3>0. Len(u) + Len(v) = n - 1 /\ i \in Nat
      BY <2>0
    <3>1. /\ i \in 1..(Len(u) + Len(v)) /\ ~(i <= Len(u)) /\ i <= Len(c)
          /\ i - Len(u) \in 1..(k - 1) /\ i - Len(u) = i - (n - k) /\ ~(i <= n - k)
      <4>1. i <= n /\ ~(i <= n - k)
        BY <2>0, <2>2
      <4>2. /\ i \in 1..(n - 1) /\ i - (n - k) \in 1..(k - 1) /\ (n - k) + (k - 1) = n - 1
        BY <2>0, <2>2, <4>1, Places
      <4> QED
        BY <4>1, <4>2, <2>0, <2>2, Zenon
    <3>2. i \in 1..(Len(c) + Len(w))
      BY <3>1, <2>0, <1>5
    <3>3. x[i] = v[i - Len(u)]
      BY <3>1, <3>2, <1>3, <1>4, <1>7
    <3>4. x[i] = o[i - (n - k)]
      BY <3>1, <3>3, <1>2
    <3> QED
      BY <3>1, <3>4, <2>0, <2>2
  <2>3. CASE i > n - 1
    <3>1. more /\ i = n
      BY <2>0, <2>3
    <3>2. i \in 1..(Len(c) + Len(w)) /\ ~(i <= Len(c)) /\ i - Len(c) = 1 /\ ~(i <= n - k) /\ ~(i <= n - 1)
      BY <3>1, <2>0, <1>5
    <3>3. x[i] = w[1]
      BY <3>2, <1>3, <1>7
    <3>4. x[i] = o[k]
      BY <3>1, <3>3, <1>6
    <3>5. from(i) = k /\ k \in 1..n
      BY <3>2, <2>0
    <3> QED
      BY <3>4, <3>5, Zenon
  <2> QED
    BY <2>0, <2>1, <2>2, <2>3
<1>a. n \in Nat /\ k \in Nat /\ 1 <= k /\ k <= n /\ m \in Int
      /\ \A i \in 1..m : i \in Nat /\ 1 <= i /\ i <= n /\ (~more => i <= n - 1)
  BY <1>1
<1> HIDE DEF x, m
<1>b. Distinct(x)
  <2>1. ASSUME NEW i \in 1..m, NEW l \in 1..m, x[i] = x[l]
        PROVE  i = l
    <3>1. from(i) = from(l)
      BY <1>9, <1>1, <2>1 DEF Distinct
    <3> QED
      BY <3>1, <1>a
  <2> QED
    BY <2>1, <1>8 DEF Distinct
<1>c. ASSUME NEW y, Has(x, y)
      PROVE  Has(o, y) /\ (y = o[k] => more)
  <2>1. PICK i \in 1..m : x[i] = y
    BY <1>c, <1>8 DEF Has
  <2>2. from(i) \in 1..n /\ o[from(i)] = y
    BY <2>1, <1>9
  <2>3. ~more => from(i) # k
    BY <1>a
  <2> HIDE DEF from
  <2> QED
    BY <2>2, <2>3, <1>1 DEF Has, Distinct
<1>d. ASSUME NEW y, Has(o, y), y = o[k] => more
      PROVE  Has(x, y)
  <2>1. PICK l \in 1..n : o[l] = y
    BY <1>d, <1>1 DEF Has
  <2> DEFINE i == IF l > k THEN l - k ELSE IF l < k THEN l + (n - k) ELSE n
  <2>2. i \in 1..m /\ from(i) = l
    BY <2>1, <1>d, <1>a DEF m
  <2>3. x[i] = y
    BY <2>1, <2>2, <1>9
  <2> HIDE DEF i
  <2> QED
    BY <2>2, <2>3, <1>8 DEF Has
<1> QED
  BY <1>8, <1>b, <1>c, <1>d DEF x

------------------------------------------------------------------------------
(* The inductive invariant, over what the sections under the lock work on.  *)

JobRows == [task : Phases, slot : BOOLEAN, waited : BOOLEAN,
            claim : {"none", "granted", "duplicate", "error"}, cancelled : BOOLEAN]

Typed(s) ==
  /\ s.heap \in [DOMAIN s.heap -> JobRows]
  /\ DOMAIN s.heap \subseteq Jobs /\ IsFiniteSet(DOMAIN s.heap)
  /\ s.table \in [Runs -> Jobs \cup {NoJob}]
  /\ \A r \in Runs : s.table[r] # NoJob => s.table[r] \in DOMAIN s.heap /\ RunOf(s.table[r]) = r
  /\ s.queue \in [Tenants -> Seq(Runs)]
  /\ s.order \in Seq(Tenants)
  /\ s.active \in Nat /\ s.byTenant \in [Tenants -> Nat]

(* The counters count who holds a slot.                                     *)
SlotHolders(s) == {j \in DOMAIN s.heap : s.heap[j].slot}
HoldersOf(H, t) == {j \in H : TenantOf[RunOf(j)] = t}
Slots(s) ==
  /\ s.active = Cardinality(SlotHolders(s)) /\ s.active <= MaxActive
  /\ \A t \in Tenants : /\ s.byTenant[t] = Cardinality(HoldersOf(SlotHolders(s), t))
                        /\ s.byTenant[t] <= MaxActivePerTenant

(* A job that waits or is over holds no slot, and the table leads to a job  *)
(* until its claim is answered.                                             *)
Phased(s) ==
  \A j \in DOMAIN s.heap :
    /\ s.heap[j].task \in {"queued", "done"} => ~s.heap[j].slot
    /\ s.heap[j].task \in {"queued", "new", "claiming", "dropped"} =>
         s.table[RunOf(j)] = j /\ s.heap[j].claim \in {"none", "granted"}

(* The queues hold the runs that wait, and the order the tenants that have  *)
(* some.                                                                    *)
Waiting(s, r) ==
  s.table[r] # NoJob /\ s.heap[s.table[r]].task = "queued" /\ ~s.heap[s.table[r]].cancelled
Queues(s) ==
  /\ \A t \in Tenants : Distinct(s.queue[t])
  /\ \A t \in Tenants, r \in Runs : Has(s.queue[t], r) <=> TenantOf[r] = t /\ Waiting(s, r)
  /\ Distinct(s.order)
  /\ \A t \in Tenants : Has(s.order, t) <=> s.queue[t] # <<>>

Sound(s) == Whole(s) /\ Typed(s) /\ Slots(s) /\ Phased(s) /\ Queues(s)

(* Nobody waits whom a slot is free for.                                    *)
Open(s, t) == s.queue[t] # <<>> /\ HasSlot(s, t)
Idle(s) == \A t \in Tenants : ~Open(s, t)

(* One round of the dispatch loop leaves nobody who waits beside a slot.    *)
OneRound(s) ==
  \/ s.active + 1 >= MaxActive
  \/ \A t, u \in Tenants : Open(s, t) /\ Open(s, u) =>
       t = u /\ (s.byTenant[t] + 1 >= MaxActivePerTenant \/ Len(s.queue[t]) = 1)

EmptyIfClosed(s) == closed => \A t \in Tenants : s.queue[t] = <<>>

------------------------------------------------------------------------------
(* Counting slots.                                                          *)

LEMMA OneMoreHolder ==
  ASSUME NEW H, IsFiniteSet(H), NEW j, j \notin H
  PROVE  /\ Cardinality(H \cup {j}) = Cardinality(H) + 1
         /\ Cardinality(HoldersOf(H \cup {j}, TenantOf[RunOf(j)]))
              = Cardinality(HoldersOf(H, TenantOf[RunOf(j)])) + 1
         /\ \A t : t # TenantOf[RunOf(j)] => HoldersOf(H \cup {j}, t) = HoldersOf(H, t)
<1> DEFINE K == HoldersOf(H, TenantOf[RunOf(j)])
<1>1. HoldersOf(H \cup {j}, TenantOf[RunOf(j)]) = K \cup {j}
  BY DEF HoldersOf
<1>2. K \subseteq H /\ j \notin K
  BY DEF HoldersOf
<1>3. IsFiniteSet(K)
  BY <1>2, FS_Subset
<1>4. \A t : t # TenantOf[RunOf(j)] => HoldersOf(H \cup {j}, t) = HoldersOf(H, t)
  BY DEF HoldersOf
<1> HIDE DEF K
<1>5. Cardinality(K \cup {j}) = Cardinality(K) + 1
  BY <1>2, <1>3, FS_AddElement
<1>6. Cardinality(H \cup {j}) = Cardinality(H) + 1
  BY FS_AddElement
<1> QED
  BY <1>1, <1>4, <1>5, <1>6 DEF K

LEMMA SlotTaken ==
  ASSUME NEW s, Typed(s), Slots(s), NEW j \in Jobs, j \notin SlotHolders(s),
         HasSlot(s, TenantOf[RunOf(j)]),
         NEW d, SlotHolders(d) = SlotHolders(s) \cup {j}, d.active = s.active + 1,
         d.byTenant = [s.byTenant EXCEPT ![TenantOf[RunOf(j)]] = @ + 1]
  PROVE  Slots(d) /\ d.active \in Nat /\ d.byTenant \in [Tenants -> Nat]
<1> DEFINE H == SlotHolders(s)
           u == TenantOf[RunOf(j)]
<1>1. IsFiniteSet(H)
  <2>1. H \subseteq DOMAIN s.heap
    BY DEF SlotHolders
  <2> QED
    BY <2>1, FS_Subset DEF Typed
<1>2. u \in Tenants
  BY LimitsAssumption DEF Jobs, RunOf
<1>3. MaxActive \in Nat /\ MaxActivePerTenant \in Nat
  BY LimitsAssumption
<1>4. s.active \in Nat /\ s.active < MaxActive /\ s.active = Cardinality(H)
  BY DEF Typed, HasSlot, Slots
<1>5. /\ s.byTenant \in [Tenants -> Nat] /\ s.byTenant[u] < MaxActivePerTenant
      /\ \A t \in Tenants : /\ s.byTenant[t] = Cardinality(HoldersOf(H, t))
                            /\ s.byTenant[t] <= MaxActivePerTenant
  BY DEF Typed, HasSlot, Slots
<1>6. /\ Cardinality(H \cup {j}) = Cardinality(H) + 1
      /\ Cardinality(HoldersOf(H \cup {j}, u)) = Cardinality(HoldersOf(H, u)) + 1
      /\ \A t : t # u => HoldersOf(H \cup {j}, t) = HoldersOf(H, t)
  BY <1>1, OneMoreHolder
<1>7. SlotHolders(d) = H \cup {j}
  OBVIOUS
<1> HIDE DEF H, u
<1>8. d.active = Cardinality(SlotHolders(d)) /\ d.active <= MaxActive /\ d.active \in Nat
  <2>1. d.active = Cardinality(SlotHolders(d))
    BY <1>4, <1>6, <1>7, Zenon
  <2> DEFINE a == s.active
             b == MaxActive
  <2>2. a \in Nat /\ b \in Nat /\ a < b /\ d.active = a + 1
    BY <1>3, <1>4
  <2>3. d.active = a + 1
    OBVIOUS
  <2> HIDE DEF a, b
  <2>4. a + 1 <= b /\ a + 1 \in Nat
    BY <2>2
  <2> QED
    BY <2>1, <2>3, <2>4 DEF b
<1>9. d.byTenant \in [Tenants -> Nat]
  BY <1>2, <1>5 DEF u
<1>10. ASSUME NEW t \in Tenants
       PROVE  /\ d.byTenant[t] = Cardinality(HoldersOf(SlotHolders(d), t))
              /\ d.byTenant[t] <= MaxActivePerTenant
  <2>1. CASE t = u
    <3>1. d.byTenant[t] = s.byTenant[u] + 1
      BY <1>2, <1>5, <2>1 DEF u
    <3>2. d.byTenant[t] = Cardinality(HoldersOf(SlotHolders(d), t))
      BY <3>1, <1>2, <1>5, <1>6, <1>7, <2>1, Zenon
    <3> DEFINE a == s.byTenant[u]
               b == MaxActivePerTenant
    <3>3. a \in Nat /\ b \in Nat /\ a < b
      BY <1>2, <1>3, <1>5
    <3> HIDE DEF a, b
    <3>4. a + 1 <= b
      BY <3>3
    <3> QED
      BY <3>1, <3>2, <3>4 DEF a, b
  <2>2. CASE t # u
    <3>1. d.byTenant[t] = s.byTenant[t]
      BY <1>2, <1>5, <2>2 DEF u
    <3> QED
      BY <3>1, <1>5, <1>6, <1>7, <2>2
  <2> QED
    BY <2>1, <2>2
<1> QED
  BY <1>8, <1>9, <1>10 DEF Slots

LEMMA SlotGiven ==
  ASSUME NEW s, Typed(s), Slots(s), NEW j \in SlotHolders(s),
         NEW d, SlotHolders(d) = SlotHolders(s) \ {j}, d.active = s.active - 1,
         d.byTenant = [s.byTenant EXCEPT ![TenantOf[RunOf(j)]] = @ - 1]
  PROVE  Slots(d) /\ d.active \in Nat /\ d.byTenant \in [Tenants -> Nat]
<1> DEFINE H == SlotHolders(s) \ {j}
           u == TenantOf[RunOf(j)]
<1>1. IsFiniteSet(H) /\ SlotHolders(s) = H \cup {j} /\ j \notin H
  <2>1. H \subseteq DOMAIN s.heap
    BY DEF SlotHolders
  <2> QED
    BY <2>1, FS_Subset DEF Typed
<1>2. u \in Tenants
  BY LimitsAssumption DEF Jobs, RunOf, SlotHolders, Typed
<1>3. MaxActive \in Nat /\ MaxActivePerTenant \in Nat
  BY LimitsAssumption
<1>4. s.active \in Nat /\ s.active <= MaxActive /\ s.active = Cardinality(H \cup {j})
  BY <1>1 DEF Typed, Slots
<1>5. /\ s.byTenant \in [Tenants -> Nat]
      /\ \A t \in Tenants : /\ s.byTenant[t] = Cardinality(HoldersOf(H \cup {j}, t))
                            /\ s.byTenant[t] <= MaxActivePerTenant
  BY <1>1 DEF Typed, Slots
<1>6. /\ Cardinality(H \cup {j}) = Cardinality(H) + 1
      /\ Cardinality(HoldersOf(H \cup {j}, u)) = Cardinality(HoldersOf(H, u)) + 1
      /\ \A t : t # u => HoldersOf(H \cup {j}, t) = HoldersOf(H, t)
  BY <1>1, OneMoreHolder
<1>7. Cardinality(H) \in Nat /\ Cardinality(HoldersOf(H, u)) \in Nat
  <2>1. HoldersOf(H, u) \subseteq H
    BY DEF HoldersOf
  <2> QED
    BY <2>1, <1>1, FS_Subset, FS_CardinalityType
<1>8. SlotHolders(d) = H
  OBVIOUS
<1> HIDE DEF H, u
<1>9. d.active = Cardinality(SlotHolders(d)) /\ d.active <= MaxActive /\ d.active \in Nat
  <2> DEFINE c == Cardinality(H)
             b == MaxActive
  <2>1. c \in Nat /\ b \in Nat /\ c + 1 <= b
    BY <1>3, <1>4, <1>6, <1>7
  <2>2. d.active = (c + 1) - 1
    BY <1>4, <1>6, Zenon
  <2>3. Cardinality(SlotHolders(d)) = c
    BY <1>8
  <2> HIDE DEF c, b
  <2>4. (c + 1) - 1 = c /\ c <= b
    BY <2>1
  <2> QED
    BY <2>1, <2>2, <2>3, <2>4 DEF b
<1>10. ASSUME NEW t \in Tenants
       PROVE  /\ d.byTenant[t] = Cardinality(HoldersOf(SlotHolders(d), t))
              /\ d.byTenant[t] <= MaxActivePerTenant /\ d.byTenant[t] \in Nat
  <2>1. CASE t = u
    <3>1. d.byTenant[t] = s.byTenant[u] - 1
      BY <1>2, <1>5, <2>1 DEF u
    <3>2. s.byTenant[u] \in Nat
      BY <1>2, <1>5
    <3>3. s.byTenant[u] = Cardinality(HoldersOf(H, u)) + 1 /\ s.byTenant[u] <= MaxActivePerTenant
      BY <1>2, <1>5, <1>6
    <3> DEFINE c == Cardinality(HoldersOf(H, u))
               b == MaxActivePerTenant
    <3>4. c \in Nat /\ b \in Nat /\ c + 1 <= b
      BY <3>3, <1>3, <1>7
    <3>5. d.byTenant[t] = (c + 1) - 1
      BY <3>1, <3>3, Zenon
    <3>6. Cardinality(HoldersOf(SlotHolders(d), t)) = c
      BY <1>8, <2>1
    <3> HIDE DEF c, b
    <3>7. (c + 1) - 1 = c /\ c <= b
      BY <3>4
    <3> QED
      BY <3>4, <3>5, <3>6, <3>7 DEF b
  <2>2. CASE t # u
    <3>1. d.byTenant[t] = s.byTenant[t]
      BY <1>2, <1>5, <2>2 DEF u
    <3> QED
      BY <3>1, <1>5, <1>6, <1>8, <2>2
  <2> QED
    BY <2>1, <2>2
<1>11. d.byTenant \in [Tenants -> Nat]
  <2>1. d.byTenant = [t \in Tenants |-> d.byTenant[t]]
    BY <1>5
  <2> QED
    BY <2>1, <1>10
<1> QED
  BY <1>9, <1>10, <1>11 DEF Slots

------------------------------------------------------------------------------
(* The helpers that run under the lock.                                     *)

(* What _reserve_slot_locked changes.                                       *)
Reserved(s, j, d) ==
  /\ Whole(d)
  /\ d.heap = [s.heap EXCEPT ![j] = [@ EXCEPT !.slot = TRUE, !.task = "new"]]
  /\ d.table = s.table /\ d.queue = s.queue /\ d.order = s.order
  /\ d.active = s.active + 1
  /\ d.byTenant = [s.byTenant EXCEPT ![TenantOf[RunOf(j)]] = @ + 1]

LEMMA ReserveFields ==
  ASSUME NEW s, Whole(s), NEW j
  PROVE  Reserved(s, j, Reserve(s, j))
<1>1. ASSUME NEW d, d = Reserve(s, j)
      PROVE  /\ Whole(d)
             /\ d.heap = [s.heap EXCEPT ![j] = [@ EXCEPT !.slot = TRUE, !.task = "new"]]
             /\ d.table = s.table /\ d.queue = s.queue /\ d.order = s.order
             /\ d.active = s.active + 1
             /\ d.byTenant = [s.byTenant EXCEPT ![TenantOf[RunOf(j)]] = @ + 1]
  BY <1>1 DEF Whole, Reserve
<1> QED
  BY <1>1, Zenon DEF Reserved

(* A row that gets its slot.                                                *)
Admitted(row) == [row EXCEPT !.slot = TRUE, !.task = "new"]

LEMMA AdmittedRow ==
  ASSUME NEW row \in JobRows
  PROVE  /\ Admitted(row) \in JobRows
         /\ Admitted(row).slot /\ Admitted(row).task = "new"
         /\ Admitted(row).claim = row.claim /\ Admitted(row).cancelled = row.cancelled
         /\ Admitted(row).waited = row.waited
BY DEF Admitted, JobRows, Phases

(* A tenant that still waits while its slot goes to somebody else.          *)
LEMMA StaysClosed ==
  ASSUME NEW s, Typed(s), NEW u \in Tenants, HasSlot(s, u), NEW d,
         d.active = s.active + 1, d.byTenant = [s.byTenant EXCEPT ![u] = @ + 1],
         NEW t \in Tenants, HasSlot(d, t)
  PROVE  /\ HasSlot(s, t) /\ ~(s.active + 1 >= MaxActive)
         /\ t = u => ~(s.byTenant[u] + 1 >= MaxActivePerTenant)
<1> DEFINE a == s.active
           m == MaxActive
           c == s.byTenant[t]
           n == MaxActivePerTenant
<1>1. a \in Nat /\ m \in Nat /\ c \in Nat /\ n \in Nat
  BY LimitsAssumption DEF Typed
<1>2. d.active = a + 1 /\ d.byTenant[t] = IF t = u THEN c + 1 ELSE c
  BY DEF Typed
<1>3. d.active < m /\ d.byTenant[t] < n
  BY DEF HasSlot
<1>4. a < m /\ c < n <=> HasSlot(s, t)
  BY DEF HasSlot
<1>5. s.active = a /\ s.byTenant[t] = c
  OBVIOUS
<1> HIDE DEF a, m, c, n
<1>6. a < m /\ c < n /\ ~(a + 1 >= m) /\ (t = u => ~(c + 1 >= n))
  BY <1>1, <1>2, <1>3
<1> QED
  BY <1>4, <1>6 DEF a, m, c, n

LEMMA DispatchSound ==
  ASSUME NEW s, Sound(s), OneRound(s), EmptyIfClosed(s), NEW d, d = Dispatch(s)
  PROVE  /\ Sound(d) /\ Idle(d) /\ EmptyIfClosed(d)
         /\ d.table = s.table /\ DOMAIN d.heap = DOMAIN s.heap
         /\ \A i \in DOMAIN s.heap :
              \/ d.heap[i] = s.heap[i]
              \/ s.heap[i].task = "queued" /\ d.heap[i] = Admitted(s.heap[i])
<1> DEFINE open == {k \in DOMAIN s.order : HasSlot(s, s.order[k])}
<1>0. Whole(s) /\ Typed(s) /\ Slots(s) /\ Phased(s) /\ Queues(s)
  BY DEF Sound
<1>1. CASE closed \/ open = {}
  <2>1. d = s
    BY <1>1 DEF Dispatch
  <2>2. ASSUME NEW t \in Tenants, Open(s, t)
        PROVE  FALSE
    <3>1. s.queue[t] # <<>> /\ HasSlot(s, t)
      BY <2>2 DEF Open
    <3>2. ~closed
      BY <3>1 DEF EmptyIfClosed
    <3>3. Has(s.order, t)
      BY <3>1, <1>0 DEF Queues
    <3>4. PICK k \in DOMAIN s.order : s.order[k] = t
      BY <3>3 DEF Has
    <3>5. k \in open
      BY <3>1, <3>4
    <3> QED
      BY <3>2, <3>5, <1>1
  <2> QED
    BY <2>1, <2>2 DEF Idle
<1>2. CASE ~closed /\ open # {}
  <2> DEFINE k == CHOOSE k \in open : \A l \in open : k <= l
             t == s.order[k]
             r == Head(s.queue[t])
             j == s.table[r]
             rest == Tail(s.queue[t])
             turned == [s EXCEPT !.queue[t] = rest, !.order = NextTurns(@, k, rest # <<>>)]
  <2>1. k \in DOMAIN s.order /\ HasSlot(s, t)
    <3>1. open \subseteq Nat
      BY <1>0, LenProperties DEF Typed
    <3>2. k \in open
      BY <1>2, <3>1, FirstOf
    <3> QED
      BY <3>2
  <2>2. d = IF j = NoJob \/ s.heap[j].cancelled THEN turned ELSE Reserve(turned, j)
    BY <1>2 DEF Dispatch
  <2>3. t \in Tenants /\ Has(s.order, t) /\ s.queue[t] # <<>>
    <3>1. t \in Tenants
      BY <2>1, <1>0, ElementOfSeq, LenProperties DEF Typed
    <3>2. Has(s.order, t)
      BY <2>1 DEF Has
    <3> QED
      BY <3>1, <3>2, <1>0 DEF Queues
  <2> HIDE DEF open, k, t
  <2>4. s.queue[t] \in Seq(Runs) /\ Distinct(s.queue[t])
    BY <2>3, <1>0 DEF Typed, Queues
  <2>5. /\ r \in Runs /\ Has(s.queue[t], r)
        /\ rest \in Seq(Runs) /\ Distinct(rest) /\ Len(rest) = Len(s.queue[t]) - 1
        /\ \A y : Has(rest, y) <=> Has(s.queue[t], y) /\ y # r
    BY <2>3, <2>4, TailHas
  <2> HIDE DEF r, rest
  <2>6. TenantOf[r] = t /\ Waiting(s, r)
    BY <2>3, <2>5, <1>0 DEF Queues
  <2>7. /\ j # NoJob /\ j \in DOMAIN s.heap /\ j \in Jobs /\ RunOf(j) = r
        /\ s.heap[j].task = "queued" /\ ~s.heap[j].cancelled
    BY <2>5, <2>6, <1>0 DEF Waiting, Typed
  <2>8. d = Reserve(turned, j)
    BY <2>2, <2>7
  <2> HIDE DEF turned, j
  <2>t. turned = [s EXCEPT !.queue[t] = rest, !.order = NextTurns(@, k, rest # <<>>)]
    BY DEF turned
  <2>9. /\ Whole(turned)
        /\ turned.heap = s.heap /\ turned.table = s.table
        /\ turned.queue = [s.queue EXCEPT ![t] = rest]
        /\ turned.order = NextTurns(s.order, k, rest # <<>>)
        /\ turned.active = s.active /\ turned.byTenant = s.byTenant
    BY <1>0, <2>t DEF Whole
  <2>10. /\ Whole(d)
         /\ d.heap = [s.heap EXCEPT ![j] = Admitted(@)]
         /\ d.table = s.table
         /\ d.queue = [s.queue EXCEPT ![t] = rest]
         /\ d.order = NextTurns(s.order, k, rest # <<>>)
         /\ d.active = s.active + 1
         /\ d.byTenant = [s.byTenant EXCEPT ![t] = @ + 1]
    <3>1. TenantOf[RunOf(j)] = t
      BY <2>6, <2>7
    <3>2. /\ Whole(d)
          /\ d.heap = [turned.heap EXCEPT ![j] = [@ EXCEPT !.slot = TRUE, !.task = "new"]]
          /\ d.table = turned.table /\ d.queue = turned.queue /\ d.order = turned.order
          /\ d.active = turned.active + 1
          /\ d.byTenant = [turned.byTenant EXCEPT ![TenantOf[RunOf(j)]] = @ + 1]
      <4>1. Whole(turned)
        BY <2>9
      <4>2. Reserved(turned, j, d)
        BY <2>8, <4>1, ReserveFields
      <4> QED
        BY <4>2 DEF Reserved
    <3> QED
      BY <3>1, <3>2, <2>9, Zenon DEF Admitted
  <2>11. /\ d.heap \in [DOMAIN s.heap -> JobRows] /\ DOMAIN d.heap = DOMAIN s.heap
         /\ \A i \in DOMAIN s.heap : d.heap[i] = IF i = j THEN Admitted(s.heap[i]) ELSE s.heap[i]
    <3>1. s.heap[j] \in JobRows /\ Admitted(s.heap[j]) \in JobRows
      BY <2>7, <1>0, AdmittedRow DEF Typed
    <3> QED
      BY <3>1, <2>7, <2>10, <1>0 DEF Typed
  <2>12. /\ s.heap[j] \in JobRows /\ d.heap[j].slot /\ d.heap[j].task = "new"
         /\ d.heap[j].claim = s.heap[j].claim
    <3>1. s.heap[j] \in JobRows
      BY <2>7, <1>0 DEF Typed
    <3> QED
      BY <3>1, <2>7, <2>11, AdmittedRow
  <2>13. SlotHolders(d) = SlotHolders(s) \cup {j} /\ j \notin SlotHolders(s)
    BY <2>7, <2>11, <2>12, <1>0 DEF SlotHolders, Phased
  <2>14. Slots(d) /\ d.active \in Nat /\ d.byTenant \in [Tenants -> Nat]
    <3>1. TenantOf[RunOf(j)] = t
      BY <2>6, <2>7
    <3>2. HasSlot(s, TenantOf[RunOf(j)]) /\ d.byTenant = [s.byTenant EXCEPT ![TenantOf[RunOf(j)]] = @ + 1]
      BY <3>1, <2>1, <2>10, Zenon
    <3>3. j \in Jobs /\ d.active = s.active + 1
      BY <2>7, <2>10
    <3> QED
      BY <3>2, <3>3, <2>13, <1>0, SlotTaken, Zenon
  <2>15. /\ d.order \in Seq(Tenants) /\ Distinct(d.order)
         /\ \A y : Has(d.order, y) <=> Has(s.order, y) /\ (y = t => rest # <<>>)
    <3>1. s.order \in Seq(Tenants) /\ Distinct(s.order) /\ (rest # <<>>) \in BOOLEAN
      BY <1>0 DEF Typed, Queues
    <3>2. s.order[k] = t
      BY DEF t
    <3> DEFINE more == rest # <<>>
    <3>3. d.order = NextTurns(s.order, k, more) /\ more \in BOOLEAN
      BY <2>10
    <3> HIDE DEF more
    <3>4. /\ d.order \in Seq(Tenants) /\ Distinct(d.order)
          /\ \A y : Has(d.order, y) <=> Has(s.order, y) /\ (y = t => more)
      BY <3>1, <3>2, <3>3, <2>1, NextTurnsHas
    <3> QED
      BY <3>4 DEF more
  <2>16. /\ d.queue \in [Tenants -> Seq(Runs)]
         /\ \A u \in Tenants : d.queue[u] = IF u = t THEN rest ELSE s.queue[u]
    BY <2>3, <2>5, <2>10, <1>0 DEF Typed
  <2>17. Typed(d)
    <3>1. \A q \in Runs : d.table[q] # NoJob => d.table[q] \in DOMAIN d.heap /\ RunOf(d.table[q]) = q
      BY <2>10, <2>11, <1>0 DEF Typed
    <3> QED
      BY <3>1, <2>10, <2>11, <2>14, <2>15, <2>16, <1>0 DEF Typed
  <2>18. Phased(d)
    <3>1. ASSUME NEW i \in DOMAIN s.heap
          PROVE  /\ d.heap[i].task \in {"queued", "done"} => ~d.heap[i].slot
                 /\ d.heap[i].task \in {"queued", "new", "claiming", "dropped"} =>
                      s.table[RunOf(i)] = i /\ d.heap[i].claim \in {"none", "granted"}
      BY <2>7, <2>11, <2>12, <1>0 DEF Phased
    <3> QED
      BY <3>1, <2>10, <2>11 DEF Phased
  <2>19. \A q \in Runs : Waiting(d, q) <=> Waiting(s, q) /\ q # r
    <3>1. ASSUME NEW q \in Runs
          PROVE  Waiting(d, q) <=> Waiting(s, q) /\ q # r
      <4>1. d.table[q] = s.table[q]
        BY <2>10
      <4>2. CASE s.table[q] = j
        <5>1. q = r /\ ~Waiting(d, q)
          BY <4>1, <4>2, <2>7, <2>12, <1>0 DEF Typed, Waiting
        <5> QED
          BY <5>1
      <4>3. CASE s.table[q] # j
        <5>1. q # r
          BY <4>3 DEF j
        <5>2. s.table[q] # NoJob => d.heap[s.table[q]] = s.heap[s.table[q]]
          BY <4>3, <2>11, <1>0 DEF Typed
        <5> QED
          BY <5>1, <5>2, <4>1 DEF Waiting
      <4> QED
        BY <4>2, <4>3
    <3> QED
      BY <3>1
  <2>20. Queues(d)
    <3>1. ASSUME NEW u \in Tenants
          PROVE  /\ Distinct(d.queue[u])
                 /\ \A q \in Runs : Has(d.queue[u], q) <=> TenantOf[q] = u /\ Waiting(d, q)
                 /\ Has(d.order, u) <=> d.queue[u] # <<>>
      <4>1. CASE u = t
        <5>1. d.queue[u] = rest
          BY <4>1, <2>16
        <5>2. \A q \in Runs : Has(s.queue[t], q) <=> TenantOf[q] = t /\ Waiting(s, q)
          BY <2>3, <1>0 DEF Queues
        <5> QED
          BY <5>1, <5>2, <4>1, <2>3, <2>5, <2>15, <2>19
      <4>2. CASE u # t
        <5>1. d.queue[u] = s.queue[u]
          BY <4>2, <2>16
        <5>2. /\ Distinct(s.queue[u])
              /\ \A q \in Runs : Has(s.queue[u], q) <=> TenantOf[q] = u /\ Waiting(s, q)
              /\ Has(s.order, u) <=> s.queue[u] # <<>>
          BY <1>0 DEF Queues
        <5> QED
          BY <5>1, <5>2, <4>2, <2>6, <2>15, <2>19
      <4> QED
        BY <4>1, <4>2
    <3> QED
      BY <3>1, <2>15 DEF Queues
  <2>21. Idle(d)
    <3>1. ASSUME NEW u \in Tenants, Open(d, u)
          PROVE  FALSE
      <4>1. d.queue[u] # <<>> /\ HasSlot(d, u)
        BY <3>1 DEF Open
      <4>2. /\ HasSlot(s, u) /\ ~(s.active + 1 >= MaxActive)
            /\ u = t => ~(s.byTenant[t] + 1 >= MaxActivePerTenant)
        BY <4>1, <1>0, <2>1, <2>3, <2>10, StaysClosed
      <4>3. s.queue[u] # <<>>
        BY <4>1, <2>3, <2>16
      <4>4. Open(s, u) /\ Open(s, t)
        BY <4>2, <4>3, <2>1, <2>3 DEF Open
      <4>5. u = t /\ (s.byTenant[t] + 1 >= MaxActivePerTenant \/ Len(s.queue[t]) = 1)
        BY <4>2, <4>4, <2>3 DEF OneRound
      <4>6. Len(s.queue[t]) = 1
        BY <4>2, <4>5
      <4>7. rest = <<>>
        BY <4>6, <2>5, EmptySeq
      <4> QED
        BY <4>1, <4>5, <4>7, <2>16
    <3> QED
      BY <3>1 DEF Idle
  <2> QED
    BY <2>7, <2>10, <2>11, <2>14, <2>17, <2>18, <2>20, <2>21, <1>2 DEF Sound, EmptyIfClosed
<1> QED
  BY <1>1, <1>2

(* Steps that leave the queues and the slots alone: rows change or go, and  *)
(* the table forgets a job or not.                                          *)
SameQueues(s, d) ==
  d.queue = s.queue /\ d.order = s.order /\ d.active = s.active /\ d.byTenant = s.byTenant
InQueue(row) == row.task = "queued" /\ ~row.cancelled

LEMMA StaysIdle ==
  ASSUME NEW s, NEW d, SameQueues(s, d)
  PROVE  (Idle(s) => Idle(d)) /\ (EmptyIfClosed(s) => EmptyIfClosed(d))
BY DEF SameQueues, Idle, Open, HasSlot, EmptyIfClosed

LEMMA ReshapedSound ==
  ASSUME NEW s, Sound(s), NEW d, Whole(d), SameQueues(s, d),
         d.heap \in [DOMAIN d.heap -> JobRows], DOMAIN d.heap \subseteq DOMAIN s.heap,
         d.table \in [Runs -> Jobs \cup {NoJob}],
         \A r \in Runs :
           \/ d.table[r] = s.table[r] /\ (s.table[r] # NoJob => s.table[r] \in DOMAIN d.heap)
           \/ d.table[r] = NoJob /\ ~Waiting(s, r),
         \A i \in DOMAIN s.heap \ DOMAIN d.heap : ~s.heap[i].slot,
         \A i \in DOMAIN d.heap : d.heap[i].slot = s.heap[i].slot,
         \A i \in DOMAIN d.heap : InQueue(d.heap[i]) <=> InQueue(s.heap[i]),
         Phased(d)
  PROVE  Sound(d)
<1>0. Whole(s) /\ Typed(s) /\ Slots(s) /\ Phased(s) /\ Queues(s)
  BY DEF Sound
<1>1. IsFiniteSet(DOMAIN d.heap)
  BY <1>0, FS_Subset DEF Typed
<1>2. \A r \in Runs : d.table[r] # NoJob => d.table[r] \in DOMAIN d.heap /\ RunOf(d.table[r]) = r
  BY <1>0 DEF Typed
<1>3. Typed(d)
  BY <1>0, <1>1, <1>2 DEF Typed, SameQueues
<1>4. SlotHolders(d) = SlotHolders(s)
  BY DEF SlotHolders
<1>5. Slots(d)
  BY <1>0, <1>4 DEF Slots, SameQueues
<1>6. \A r \in Runs : Waiting(d, r) <=> Waiting(s, r)
  BY <1>2 DEF Waiting, InQueue
<1>7. Queues(d)
  BY <1>0, <1>6 DEF Queues, SameQueues
<1> QED
  BY <1>3, <1>5, <1>7 DEF Sound

(* A row of its own kind takes the place of one.                            *)
RowSet(s, j, row, d) ==
  Whole(d) /\ d.heap = [s.heap EXCEPT ![j] = row] /\ d.table = s.table /\ SameQueues(s, d)

LEMMA RowSetSound ==
  ASSUME NEW s, Sound(s), NEW j \in DOMAIN s.heap, NEW row \in JobRows,
         NEW d, RowSet(s, j, row, d),
         row.slot = s.heap[j].slot, InQueue(row) <=> InQueue(s.heap[j]),
         row.task \in {"queued", "done"} => ~row.slot,
         row.task \in {"queued", "new", "claiming", "dropped"} =>
           s.table[RunOf(j)] = j /\ row.claim \in {"none", "granted"}
  PROVE  /\ Sound(d) /\ d.heap[j] = row /\ DOMAIN d.heap = DOMAIN s.heap
         /\ (Idle(s) => Idle(d)) /\ (EmptyIfClosed(s) => EmptyIfClosed(d))
<1>0. Typed(s) /\ Phased(s)
  BY DEF Sound
<1>1. /\ Whole(d) /\ d.heap = [s.heap EXCEPT ![j] = row] /\ d.table = s.table /\ SameQueues(s, d)
  BY DEF RowSet
<1>2. /\ DOMAIN d.heap = DOMAIN s.heap /\ d.heap \in [DOMAIN d.heap -> JobRows]
      /\ \A i \in DOMAIN s.heap : d.heap[i] = IF i = j THEN row ELSE s.heap[i]
  BY <1>0, <1>1 DEF Typed
<1>3. Phased(d)
  BY <1>0, <1>1, <1>2 DEF Phased
<1>4. Sound(d)
  BY <1>0, <1>1, <1>2, <1>3, ReshapedSound DEF Typed
<1> QED
  BY <1>1, <1>2, <1>4, StaysIdle

(* The table forgets a job that may be forgotten.                           *)
LEMMA ForgetSound ==
  ASSUME NEW s, Sound(s), NEW j \in DOMAIN s.heap,
         s.heap[j].task \notin {"queued", "new", "claiming", "dropped"},
         NEW d, d = Forget(s, j)
  PROVE  /\ Sound(d) /\ d.heap = s.heap /\ SameQueues(s, d)
         /\ (Idle(s) => Idle(d)) /\ (EmptyIfClosed(s) => EmptyIfClosed(d))
<1>0. Whole(s) /\ Typed(s) /\ Phased(s)
  BY DEF Sound
<1>1. /\ Whole(d) /\ d.heap = s.heap /\ SameQueues(s, d)
      /\ d.table = [s.table EXCEPT ![RunOf(j)] = IF @ = j THEN NoJob ELSE @]
  BY <1>0 DEF Whole, Forget, SameQueues
<1>2. RunOf(j) \in Runs
  BY <1>0 DEF Typed, Jobs, RunOf
<1>3. d.table \in [Runs -> Jobs \cup {NoJob}]
      /\ \A r \in Runs : d.table[r] = IF s.table[r] = j THEN NoJob ELSE s.table[r]
  BY <1>0, <1>1, <1>2 DEF Typed
<1>4. \A r \in Runs : s.table[r] = j => ~Waiting(s, r)
  BY DEF Waiting
<1>5. Phased(d)
  <2>1. ASSUME NEW i \in DOMAIN s.heap, i # j, s.table[RunOf(i)] = i
        PROVE  d.table[RunOf(i)] = i
    <3>1. RunOf(i) \in Runs
      BY <1>0 DEF Typed, Jobs, RunOf
    <3> QED
      BY <3>1, <2>1, <1>3
  <2> QED
    BY <2>1, <1>0, <1>1 DEF Phased
<1>6. Sound(d)
  BY <1>0, <1>1, <1>3, <1>4, <1>5, ReshapedSound DEF Typed
<1> QED
  BY <1>1, <1>6, StaysIdle

(* Of the jobs that are over, those that nothing refers to go, and of the   *)
(* others what does not matter any more.                                    *)
LEMMA TidySound ==
  ASSUME NEW s, Sound(s), NEW d, d = [s EXCEPT !.heap = Tidy(s.heap, s.table)]
  PROVE  Sound(d) /\ SameQueues(s, d)
<1> DEFINE kept == {k \in DOMAIN s.heap : s.heap[k].task \notin Over \/ s.heap[k].waited
                                          \/ s.table[RunOf(k)] = k}
           faded(row) == [Job(row.task, "none") EXCEPT !.slot = row.slot]
           kind(row) == IF row.task \in Over /\ ~row.waited THEN faded(row) ELSE row
<1>0. Whole(s) /\ Typed(s) /\ Phased(s)
  BY DEF Sound
<1>1. /\ Whole(d) /\ d.heap = [k \in kept |-> kind(s.heap[k])] /\ d.table = s.table
      /\ SameQueues(s, d)
  BY <1>0 DEF Whole, SameQueues, Tidy
<1>2. ASSUME NEW row \in JobRows
      PROVE  /\ kind(row) \in JobRows /\ kind(row).task = row.task /\ kind(row).slot = row.slot
             /\ kind(row).claim = row.claim \/ kind(row).claim = "none"
             /\ InQueue(kind(row)) <=> InQueue(row)
  BY DEF JobRows, Over, Phases, Job, InQueue
<1>3. /\ DOMAIN d.heap = kept /\ kept \subseteq DOMAIN s.heap
      /\ \A k \in kept : d.heap[k] = kind(s.heap[k]) /\ s.heap[k] \in JobRows
  BY <1>0, <1>1 DEF Typed
<1> HIDE DEF kind
<1>4. d.heap \in [DOMAIN d.heap -> JobRows]
  BY <1>1, <1>2, <1>3
<1>5. \A k \in DOMAIN s.heap \ kept : ~s.heap[k].slot
  BY <1>0 DEF Over, Phased
<1>6. \A r \in Runs : s.table[r] # NoJob => s.table[r] \in kept
  BY <1>0 DEF Typed
<1> HIDE DEF kept
<1>7. Phased(d)
  BY <1>0, <1>1, <1>2, <1>3 DEF Phased
<1>8. \A k \in DOMAIN d.heap :
        d.heap[k].slot = s.heap[k].slot /\ (InQueue(d.heap[k]) <=> InQueue(s.heap[k]))
  BY <1>2, <1>3
<1>9. /\ d.table \in [Runs -> Jobs \cup {NoJob}]
      /\ \A r \in Runs : d.table[r] = s.table[r] /\ (s.table[r] # NoJob => s.table[r] \in DOMAIN d.heap)
  BY <1>0, <1>1, <1>3, <1>6 DEF Typed
<1>10. /\ DOMAIN d.heap \subseteq DOMAIN s.heap
       /\ \A k \in DOMAIN s.heap \ DOMAIN d.heap : ~s.heap[k].slot
  BY <1>3, <1>5
<1> QED
  BY <1>1, <1>4, <1>7, <1>8, <1>9, <1>10, ReshapedSound

(* Every step under the lock ends so.                                       *)
LEMMA InstallsSound ==
  ASSUME NEW s, Sound(s), Installs(s)
  PROVE  Sound(Now') /\ SameQueues(s, Now')
<1> DEFINE d == [s EXCEPT !.heap = Tidy(s.heap, s.table)]
<1>1. Sound(d) /\ SameQueues(s, d)
  BY TidySound, Zenon
<1>2. Whole(s)
  BY DEF Sound
<1>3. d = Now'
  BY <1>2 DEF Installs, Now, Whole
<1> QED
  BY <1>1, <1>3

LEMMA NoJobIsNone == NoJob \notin Jobs
<1>1. \A j \in Jobs : j = <<j[1], j[2]>>
  BY DEF Jobs
<1>2. \A a, b : <<>> # <<a, b>>
  OBVIOUS
<1> QED
  BY <1>1, <1>2 DEF NoJob

(* A new job, to which the table leads.                                     *)
NewRow(s, j, row, d) ==
  /\ Whole(d) /\ SameQueues(s, d)
  /\ d.heap = With(s.heap, j, row) /\ d.table = [s.table EXCEPT ![RunOf(j)] = j]

(* What is then known of the tables.                                        *)
HasNewRow(s, j, row, d) ==
  /\ RunOf(j) \in Runs /\ TenantOf[RunOf(j)] \in Tenants /\ j # NoJob
  /\ d.heap \in [DOMAIN s.heap \cup {j} -> JobRows] /\ DOMAIN d.heap = DOMAIN s.heap \cup {j}
  /\ d.heap[j] = row /\ \A i \in DOMAIN s.heap : i # j /\ d.heap[i] = s.heap[i]
  /\ DOMAIN d.heap \subseteq Jobs /\ IsFiniteSet(DOMAIN d.heap)
  /\ d.table \in [Runs -> Jobs \cup {NoJob}]
  /\ \A r \in Runs : d.table[r] = IF r = RunOf(j) THEN j ELSE s.table[r]
  /\ \A r \in Runs : d.table[r] # NoJob => d.table[r] \in DOMAIN d.heap /\ RunOf(d.table[r]) = r
  /\ \A i \in DOMAIN s.heap : s.table[RunOf(i)] = i => d.table[RunOf(i)] = i
  /\ \A r \in Runs : r # RunOf(j) => (Waiting(d, r) <=> Waiting(s, r))
  /\ ~Waiting(s, RunOf(j)) /\ (Waiting(d, RunOf(j)) <=> InQueue(row))

LEMMA NewRowFields ==
  ASSUME NEW s, Sound(s), NEW j \in Jobs, j \notin DOMAIN s.heap, s.table[RunOf(j)] = NoJob,
         NEW row \in JobRows, NEW d, NewRow(s, j, row, d)
  PROVE  HasNewRow(s, j, row, d)
<1>0. Whole(s) /\ Typed(s)
  BY DEF Sound
<1>1. d.heap = With(s.heap, j, row) /\ d.table = [s.table EXCEPT ![RunOf(j)] = j]
  BY DEF NewRow
<1>2. RunOf(j) \in Runs /\ TenantOf[RunOf(j)] \in Tenants /\ j # NoJob
  BY LimitsAssumption, NoJobIsNone DEF Jobs, RunOf
<1>3. /\ d.heap \in [DOMAIN s.heap \cup {j} -> JobRows] /\ DOMAIN d.heap = DOMAIN s.heap \cup {j}
      /\ d.heap[j] = row /\ \A i \in DOMAIN s.heap : i # j /\ d.heap[i] = s.heap[i]
  BY <1>0, <1>1 DEF With, Typed
<1>4. DOMAIN d.heap \subseteq Jobs /\ IsFiniteSet(DOMAIN d.heap)
  <2>1. IsFiniteSet(DOMAIN s.heap) /\ DOMAIN s.heap \subseteq Jobs
    BY <1>0 DEF Typed
  <2>2. IsFiniteSet(DOMAIN s.heap \cup {j})
    BY <2>1, FS_AddElement
  <2> QED
    BY <2>1, <2>2, <1>3
<1>5. /\ d.table \in [Runs -> Jobs \cup {NoJob}]
      /\ \A r \in Runs : d.table[r] = IF r = RunOf(j) THEN j ELSE s.table[r]
  BY <1>0, <1>1, <1>2 DEF Typed
<1>6. \A r \in Runs : d.table[r] # NoJob => d.table[r] \in DOMAIN d.heap /\ RunOf(d.table[r]) = r
  BY <1>0, <1>3, <1>5 DEF Typed
<1>7. ASSUME NEW i \in DOMAIN s.heap, s.table[RunOf(i)] = i
      PROVE  d.table[RunOf(i)] = i
  <2>1. i \in Jobs /\ RunOf(i) \in Runs
    BY <1>0 DEF Typed, Jobs, RunOf
  <2>2. i # NoJob
    BY <2>1, NoJobIsNone
  <2> QED
    BY <2>1, <2>2, <1>5, <1>7
<1>8. ASSUME NEW r \in Runs, r # RunOf(j)
      PROVE  Waiting(d, r) <=> Waiting(s, r)
  <2>1. d.table[r] = s.table[r]
    BY <1>5, <1>8
  <2>2. s.table[r] # NoJob => d.heap[s.table[r]] = s.heap[s.table[r]]
    BY <1>0, <1>3 DEF Typed
  <2> QED
    BY <2>1, <2>2 DEF Waiting
<1>9. ~Waiting(s, RunOf(j)) /\ (Waiting(d, RunOf(j)) <=> InQueue(row))
  <2>1. d.table[RunOf(j)] = j
    BY <1>2, <1>5
  <2> QED
    BY <2>1, <1>2, <1>3 DEF Waiting, InQueue
<1> QED
  BY <1>2, <1>3, <1>4, <1>5, <1>6, <1>7, <1>8, <1>9 DEF HasNewRow

LEMMA EnqueueSound ==
  ASSUME NEW s, Sound(s), Idle(s), NEW j \in Jobs, j \notin DOMAIN s.heap,
         s.table[RunOf(j)] = NoJob, NEW known, NewRow(s, j, Job("queued", "none"), known),
         NEW d, d = Enqueue(known, RunOf(j))
  PROVE  Sound(d) /\ d.heap = known.heap /\ OneRound(d)
<1> DEFINE r == RunOf(j)
           t == TenantOf[RunOf(j)]
           row == Job("queued", "none")
<1>0. Whole(s) /\ Typed(s) /\ Slots(s) /\ Phased(s) /\ Queues(s)
  BY DEF Sound
<1>1. row \in JobRows /\ InQueue(row) /\ ~row.slot /\ row.task = "queued" /\ row.claim = "none"
  BY DEF Job, JobRows, Phases, InQueue
<1> HIDE DEF row
<1>n. NewRow(s, j, row, known)
  BY DEF row
<1>2. /\ r \in Runs /\ t \in Tenants /\ j # NoJob
      /\ known.heap \in [DOMAIN s.heap \cup {j} -> JobRows]
      /\ DOMAIN known.heap = DOMAIN s.heap \cup {j}
      /\ known.heap[j] = row /\ \A i \in DOMAIN s.heap : i # j /\ known.heap[i] = s.heap[i]
      /\ DOMAIN known.heap \subseteq Jobs /\ IsFiniteSet(DOMAIN known.heap)
      /\ known.table \in [Runs -> Jobs \cup {NoJob}]
      /\ \A q \in Runs : known.table[q] = IF q = r THEN j ELSE s.table[q]
      /\ \A q \in Runs : known.table[q] # NoJob =>
           known.table[q] \in DOMAIN known.heap /\ RunOf(known.table[q]) = q
      /\ \A i \in DOMAIN s.heap : s.table[RunOf(i)] = i => known.table[RunOf(i)] = i
      /\ \A q \in Runs : q # r => (Waiting(known, q) <=> Waiting(s, q))
      /\ ~Waiting(s, r) /\ (Waiting(known, r) <=> InQueue(row))
  <2>1. HasNewRow(s, j, row, known)
    BY <1>1, <1>n, NewRowFields
  <2> QED
    BY <2>1, Zenon DEF HasNewRow
<1>3. Whole(known) /\ SameQueues(s, known)
  BY <1>n DEF NewRow
<1>4. /\ Whole(d) /\ d.heap = known.heap /\ d.table = known.table
      /\ d.active = s.active /\ d.byTenant = s.byTenant
      /\ d.queue = [s.queue EXCEPT ![t] = Append(@, r)]
      /\ d.order = IF s.queue[t] = <<>> THEN Append(s.order, t) ELSE s.order
  BY <1>3 DEF Whole, Enqueue, SameQueues
<1> HIDE DEF r, t
<1>5. /\ s.queue[t] \in Seq(Runs) /\ Distinct(s.queue[t]) /\ ~Has(s.queue[t], r)
  BY <1>0, <1>2 DEF Typed, Queues
<1>6. /\ d.queue \in [Tenants -> Seq(Runs)]
      /\ \A u \in Tenants : u # t => d.queue[u] = s.queue[u]
      /\ d.queue[t] = Append(s.queue[t], r)
  <2>1. Append(s.queue[t], r) \in Seq(Runs)
    BY <1>2, <1>5
  <2> QED
    BY <2>1, <1>0, <1>2, <1>4 DEF Typed
<1>7. /\ Distinct(d.queue[t]) /\ Len(d.queue[t]) = Len(s.queue[t]) + 1
      /\ \A y : Has(d.queue[t], y) <=> Has(s.queue[t], y) \/ y = r
  <2> DEFINE q == s.queue[t]
             w == d.queue[t]
  <2>1. q \in Seq(Runs) /\ Distinct(q) /\ ~Has(q, r) /\ r \in Runs /\ w = Append(q, r)
    BY <1>2, <1>5, <1>6
  <2> HIDE DEF q, w
  <2>2. Distinct(w) /\ Len(w) = Len(q) + 1 /\ \A y : Has(w, y) <=> Has(q, y) \/ y = r
    BY <2>1, AppendHas
  <2> QED
    BY <2>2 DEF q, w
<1>8. d.queue[t] # <<>>
  <2>1. Has(d.queue[t], r)
    BY <1>7
  <2> QED
    BY <2>1 DEF Has
<1>9. /\ d.order \in Seq(Tenants) /\ Distinct(d.order)
      /\ \A u \in Tenants : Has(d.order, u) <=> Has(s.order, u) \/ u = t
  <2>1. s.order \in Seq(Tenants) /\ Distinct(s.order) /\ (Has(s.order, t) <=> s.queue[t] # <<>>)
    BY <1>0, <1>2 DEF Typed, Queues
  <2>2. CASE s.queue[t] = <<>>
    <3>1. d.order = Append(s.order, t) /\ ~Has(s.order, t)
      BY <2>1, <2>2, <1>4
    <3> DEFINE q == s.order
               w == d.order
    <3>2. q \in Seq(Tenants) /\ Distinct(q) /\ ~Has(q, t) /\ t \in Tenants /\ w = Append(q, t)
      BY <3>1, <2>1, <1>2
    <3> HIDE DEF q, w
    <3>3. w \in Seq(Tenants) /\ Distinct(w) /\ \A y : Has(w, y) <=> Has(q, y) \/ y = t
      BY <3>2, AppendHas
    <3> QED
      BY <3>3 DEF q, w
  <2>3. CASE s.queue[t] # <<>>
    BY <2>1, <2>3, <1>4
  <2> QED
    BY <2>2, <2>3
<1>10. Typed(d)
  BY <1>0, <1>2, <1>4, <1>6, <1>9 DEF Typed
<1>11. Slots(d)
  <2>1. SlotHolders(d) = SlotHolders(s)
    BY <1>1, <1>2, <1>4 DEF SlotHolders
  <2> QED
    BY <2>1, <1>0, <1>4 DEF Slots
<1>12. Phased(d)
  <2>1. known.table[RunOf(j)] = j
    BY <1>2 DEF r
  <2> QED
    BY <2>1, <1>0, <1>1, <1>2, <1>4 DEF Phased
<1>13. Queues(d)
  <2>1. \A q \in Runs : Waiting(d, q) <=> Waiting(s, q) \/ q = r
    <3>1. \A q \in Runs : Waiting(d, q) <=> Waiting(known, q)
      BY <1>4 DEF Waiting
    <3> QED
      BY <3>1, <1>1, <1>2
  <2>2. TenantOf[r] = t
    BY DEF r, t
  <2>3. ASSUME NEW u \in Tenants
        PROVE  /\ Distinct(d.queue[u])
               /\ \A q \in Runs : Has(d.queue[u], q) <=> TenantOf[q] = u /\ Waiting(d, q)
               /\ Has(d.order, u) <=> d.queue[u] # <<>>
    <3>1. /\ Distinct(s.queue[u])
          /\ \A q \in Runs : Has(s.queue[u], q) <=> TenantOf[q] = u /\ Waiting(s, q)
          /\ Has(s.order, u) <=> s.queue[u] # <<>>
      BY <1>0 DEF Queues
    <3>2. CASE u = t
      BY <3>1, <3>2, <2>1, <2>2, <1>7, <1>8, <1>9
    <3>3. CASE u # t
      BY <3>1, <3>3, <2>1, <2>2, <1>6, <1>9
    <3> QED
      BY <3>2, <3>3
  <2> QED
    BY <2>3, <1>9 DEF Queues
<1>14. OneRound(d)
  <2>1. \A u \in Tenants : HasSlot(d, u) <=> HasSlot(s, u)
    BY <1>4 DEF HasSlot
  <2>2. ASSUME NEW u \in Tenants, Open(d, u)
        PROVE  u = t /\ Len(d.queue[t]) = 1
    <3>1. d.queue[u] # <<>> /\ HasSlot(s, u)
      BY <2>1, <2>2 DEF Open
    <3>2. s.queue[u] = <<>>
      BY <3>1 DEF Idle, Open
    <3>3. u = t
      BY <3>1, <3>2, <1>6
    <3> QED
      BY <3>2, <3>3, <1>7
  <2> QED
    BY <2>2 DEF OneRound
<1> QED
  BY <1>4, <1>10, <1>11, <1>12, <1>13, <1>14 DEF Sound

LEMMA RecoveredSound ==
  ASSUME NEW s, Sound(s), Idle(s), EmptyIfClosed(s), NEW j \in Jobs, j \notin DOMAIN s.heap,
         s.table[RunOf(j)] = NoJob, HasSlot(s, TenantOf[RunOf(j)]),
         NEW known, NewRow(s, j, Job("new", "granted"), known),
         NEW d, d = Reserve(known, j)
  PROVE  Sound(d) /\ Idle(d) /\ EmptyIfClosed(d)
<1> DEFINE r == RunOf(j)
           t == TenantOf[RunOf(j)]
           row == Job("new", "granted")
<1>0. Whole(s) /\ Typed(s) /\ Slots(s) /\ Phased(s) /\ Queues(s)
  BY DEF Sound
<1>1. row \in JobRows /\ ~InQueue(row) /\ row.claim = "granted"
  BY DEF Job, JobRows, Phases, InQueue
<1> HIDE DEF row
<1>n. NewRow(s, j, row, known)
  BY DEF row
<1>2. /\ r \in Runs /\ t \in Tenants /\ j # NoJob
      /\ known.heap \in [DOMAIN s.heap \cup {j} -> JobRows]
      /\ DOMAIN known.heap = DOMAIN s.heap \cup {j}
      /\ known.heap[j] = row /\ \A i \in DOMAIN s.heap : i # j /\ known.heap[i] = s.heap[i]
      /\ DOMAIN known.heap \subseteq Jobs /\ IsFiniteSet(DOMAIN known.heap)
      /\ known.table \in [Runs -> Jobs \cup {NoJob}]
      /\ \A q \in Runs : known.table[q] = IF q = r THEN j ELSE s.table[q]
      /\ \A q \in Runs : known.table[q] # NoJob =>
           known.table[q] \in DOMAIN known.heap /\ RunOf(known.table[q]) = q
      /\ \A i \in DOMAIN s.heap : s.table[RunOf(i)] = i => known.table[RunOf(i)] = i
      /\ \A q \in Runs : q # r => (Waiting(known, q) <=> Waiting(s, q))
      /\ ~Waiting(s, r) /\ (Waiting(known, r) <=> InQueue(row))
  <2>1. HasNewRow(s, j, row, known)
    BY <1>1, <1>n, NewRowFields
  <2> QED
    BY <2>1, Zenon DEF HasNewRow
<1>3. Whole(known) /\ SameQueues(s, known)
  BY <1>n DEF NewRow
<1>4. Reserved(known, j, d)
  BY <1>3, ReserveFields
<1>5. /\ Whole(d) /\ d.heap = [known.heap EXCEPT ![j] = Admitted(@)] /\ d.table = known.table
      /\ d.queue = s.queue /\ d.order = s.order
      /\ d.active = s.active + 1 /\ d.byTenant = [s.byTenant EXCEPT ![t] = @ + 1]
  BY <1>3, <1>4, Zenon DEF Reserved, SameQueues, Admitted
<1> HIDE DEF r, t
<1>6. /\ Admitted(row) \in JobRows /\ Admitted(row).slot /\ Admitted(row).task = "new"
      /\ Admitted(row).claim = "granted"
  BY <1>1, AdmittedRow
<1>7. /\ DOMAIN d.heap = DOMAIN known.heap /\ d.heap \in [DOMAIN d.heap -> JobRows]
      /\ d.heap[j] = Admitted(row) /\ \A i \in DOMAIN s.heap : i # j /\ d.heap[i] = s.heap[i]
  BY <1>2, <1>5, <1>6
<1>8. SlotHolders(d) = SlotHolders(s) \cup {j} /\ j \notin SlotHolders(s)
  BY <1>2, <1>6, <1>7 DEF SlotHolders
<1>9. Slots(d) /\ d.active \in Nat /\ d.byTenant \in [Tenants -> Nat]
  <2>1. /\ HasSlot(s, TenantOf[RunOf(j)])
        /\ d.byTenant = [s.byTenant EXCEPT ![TenantOf[RunOf(j)]] = @ + 1]
        /\ d.active = s.active + 1
    BY <1>5, Zenon DEF t
  <2> QED
    BY <2>1, <1>0, <1>8, SlotTaken, Zenon
<1>10. Typed(d)
  BY <1>0, <1>2, <1>5, <1>7, <1>9 DEF Typed
<1>11. Phased(d)
  <2>1. known.table[RunOf(j)] = j
    BY <1>2 DEF r
  <2> QED
    BY <2>1, <1>0, <1>2, <1>5, <1>6, <1>7 DEF Phased
<1>12. \A q \in Runs : Waiting(d, q) <=> Waiting(s, q)
  <2>1. ASSUME NEW q \in Runs, q # r
        PROVE  Waiting(d, q) <=> Waiting(s, q)
    <3>1. d.table[q] = s.table[q]
      BY <2>1, <1>2, <1>5
    <3>2. s.table[q] # NoJob => d.heap[s.table[q]] = s.heap[s.table[q]]
      BY <1>0, <1>7 DEF Typed
    <3> QED
      BY <3>1, <3>2 DEF Waiting
  <2>2. ~Waiting(d, r)
    BY <1>2, <1>5, <1>6, <1>7 DEF Waiting
  <2> QED
    BY <2>1, <2>2, <1>2
<1>13. Queues(d)
  BY <1>0, <1>5, <1>12 DEF Queues
<1>14. Idle(d)
  <2>1. ASSUME NEW u \in Tenants, Open(d, u)
        PROVE  FALSE
    <3>1. HasSlot(s, t) /\ HasSlot(d, u)
      BY <2>1 DEF Open, t
    <3>2. HasSlot(s, u)
      BY <3>1, <1>0, <1>2, <1>5, StaysClosed
    <3>3. Open(s, u)
      BY <3>2, <2>1, <1>5 DEF Open
    <3> QED
      BY <3>3 DEF Idle
  <2> QED
    BY <2>1 DEF Idle
<1> QED
  BY <1>5, <1>10, <1>9, <1>11, <1>13, <1>14 DEF Sound, EmptyIfClosed

(* A run that waits is cancelled: its job is marked, and it leaves the      *)
(* queue, with its tenant's turn if it was the last.                        *)
LEMMA CancelQueuedSound ==
  ASSUME NEW s, Sound(s), NEW r \in Runs, NEW j, j = s.table[r], j # NoJob,
         InQueue(s.heap[j]), NEW d, d = RemoveQueued([s EXCEPT !.heap[j].cancelled = TRUE], r)
  PROVE  /\ Sound(d)
         /\ (Idle(s) => Idle(d)) /\ (EmptyIfClosed(s) => EmptyIfClosed(d))
<1> DEFINE t == TenantOf[r]
           rest == Without(s.queue[t], r)
           row == [s.heap[j] EXCEPT !.cancelled = TRUE]
<1>0. Whole(s) /\ Typed(s) /\ Slots(s) /\ Phased(s) /\ Queues(s)
  BY DEF Sound
<1>1. /\ Whole(d) /\ d.heap = [s.heap EXCEPT ![j] = row] /\ d.table = s.table
      /\ d.active = s.active /\ d.byTenant = s.byTenant
      /\ d.queue = [s.queue EXCEPT ![t] = rest]
      /\ d.order = IF rest = <<>> THEN Without(s.order, t) ELSE s.order
  BY <1>0 DEF Whole, RemoveQueued
<1>2. j \in DOMAIN s.heap /\ RunOf(j) = r /\ t \in Tenants /\ s.heap[j] \in JobRows
  BY <1>0, LimitsAssumption DEF Typed
<1>3. /\ row \in JobRows /\ row.cancelled /\ row.slot = s.heap[j].slot /\ row.task = s.heap[j].task
      /\ row.claim = s.heap[j].claim
  BY <1>2 DEF JobRows
<1>4. /\ DOMAIN d.heap = DOMAIN s.heap /\ d.heap \in [DOMAIN d.heap -> JobRows]
      /\ \A i \in DOMAIN s.heap : d.heap[i] = IF i = j THEN row ELSE s.heap[i]
  <2>1. d.heap = [s.heap EXCEPT ![j] = row] /\ s.heap \in [DOMAIN s.heap -> JobRows]
    BY <1>0, <1>1 DEF Typed
  <2>2. row \in JobRows /\ j \in DOMAIN s.heap
    BY <1>2, <1>3
  <2> HIDE DEF row
  <2> QED
    BY <2>1, <2>2
<1>5. s.queue[t] \in Seq(Runs) /\ Distinct(s.queue[t])
  BY <1>0, <1>2 DEF Typed, Queues
<1>6. /\ rest \in Seq(Runs) /\ Distinct(rest)
      /\ \A y : Has(rest, y) <=> Has(s.queue[t], y) /\ y # r
  BY <1>5, WithoutHas
<1> HIDE DEF row, rest, t
<1>7. /\ d.queue \in [Tenants -> Seq(Runs)]
      /\ \A u \in Tenants : d.queue[u] = IF u = t THEN rest ELSE s.queue[u]
  <2>1. s.queue \in [Tenants -> Seq(Runs)] /\ d.queue = [s.queue EXCEPT ![t] = rest]
    BY <1>0, <1>1 DEF Typed
  <2>2. t \in Tenants /\ rest \in Seq(Runs)
    BY <1>2, <1>6
  <2> QED
    BY <2>1, <2>2
<1>8. /\ d.order \in Seq(Tenants) /\ Distinct(d.order)
      /\ \A u : Has(d.order, u) <=> Has(s.order, u) /\ (u = t => rest # <<>>)
  <2>1. s.order \in Seq(Tenants) /\ Distinct(s.order)
    BY <1>0 DEF Typed, Queues
  <2>2. /\ Without(s.order, t) \in Seq(Tenants) /\ Distinct(Without(s.order, t))
        /\ \A y : Has(Without(s.order, t), y) <=> Has(s.order, y) /\ y # t
    BY <2>1, WithoutHas
  <2>3. CASE rest = <<>>
    BY <2>2, <2>3, <1>1
  <2>4. CASE rest # <<>>
    BY <2>1, <2>4, <1>1
  <2> QED
    BY <2>3, <2>4
<1>9. Typed(d)
  <2>1. \A q \in Runs : d.table[q] # NoJob => d.table[q] \in DOMAIN d.heap /\ RunOf(d.table[q]) = q
    BY <1>0, <1>1, <1>4 DEF Typed
  <2> QED
    BY <2>1, <1>0, <1>1, <1>4, <1>7, <1>8 DEF Typed
<1>10. Slots(d)
  <2>1. SlotHolders(d) = SlotHolders(s)
    BY <1>3, <1>4 DEF SlotHolders
  <2> QED
    BY <2>1, <1>0, <1>1 DEF Slots
<1>11. Phased(d)
  <2>1. d.table = s.table
    BY <1>1
  <2>2. ASSUME NEW i \in DOMAIN s.heap
        PROVE  d.heap[i].task = s.heap[i].task /\ d.heap[i].slot = s.heap[i].slot
               /\ d.heap[i].claim = s.heap[i].claim
    BY <1>3, <1>4
  <2>3. DOMAIN d.heap = DOMAIN s.heap /\ Phased(s)
    BY <1>0, <1>4
  <2>4. ASSUME NEW i \in DOMAIN d.heap
        PROVE  /\ d.heap[i].task \in {"queued", "done"} => ~d.heap[i].slot
               /\ d.heap[i].task \in {"queued", "new", "claiming", "dropped"} =>
                    d.table[RunOf(i)] = i /\ d.heap[i].claim \in {"none", "granted"}
    <3>1. /\ s.heap[i].task \in {"queued", "done"} => ~s.heap[i].slot
          /\ s.heap[i].task \in {"queued", "new", "claiming", "dropped"} =>
               s.table[RunOf(i)] = i /\ s.heap[i].claim \in {"none", "granted"}
      BY <2>3, Zenon DEF Phased
    <3> QED
      BY <3>1, <2>1, <2>2, <2>3, Zenon
  <2> QED
    BY <2>4, Zenon DEF Phased
<1>12. \A q \in Runs : Waiting(d, q) <=> Waiting(s, q) /\ q # r
  <2>1. ASSUME NEW q \in Runs, q # r
        PROVE  Waiting(d, q) <=> Waiting(s, q)
    <3>1. s.table[q] # NoJob => s.table[q] # j /\ d.heap[s.table[q]] = s.heap[s.table[q]]
      BY <2>1, <1>0, <1>2, <1>4 DEF Typed
    <3> QED
      BY <3>1, <1>1 DEF Waiting
  <2>2. ~Waiting(d, r)
    <3>1. d.table[r] = j
      BY <1>1
    <3>2. d.heap[j].cancelled
      BY <1>2, <1>3, <1>4
    <3> QED
      BY <3>1, <3>2 DEF Waiting
  <2> QED
    BY <2>1, <2>2
<1>13. Queues(d)
  <2>1. ASSUME NEW u \in Tenants
        PROVE  /\ Distinct(d.queue[u])
               /\ \A q \in Runs : Has(d.queue[u], q) <=> TenantOf[q] = u /\ Waiting(d, q)
               /\ Has(d.order, u) <=> d.queue[u] # <<>>
    <3>1. /\ Distinct(s.queue[u])
          /\ \A q \in Runs : Has(s.queue[u], q) <=> TenantOf[q] = u /\ Waiting(s, q)
          /\ Has(s.order, u) <=> s.queue[u] # <<>>
      BY <1>0 DEF Queues
    <3>2. CASE u = t
      <4>1. s.queue[t] # <<>>
        <5>1. Waiting(s, r) /\ TenantOf[r] = u
          BY <3>2, <1>2 DEF Waiting, InQueue, t
        <5>2. Has(s.queue[u], r)
          BY <5>1, <3>1
        <5> QED
          BY <5>2, <3>2 DEF Has
      <4> QED
        BY <4>1, <3>1, <3>2, <1>6, <1>7, <1>8, <1>12
    <3>3. CASE u # t
      <4>1. TenantOf[r] # u
        BY <3>3 DEF t
      <4> QED
        BY <4>1, <3>1, <3>3, <1>7, <1>8, <1>12
    <3> QED
      BY <3>2, <3>3
  <2> QED
    BY <2>1, <1>8 DEF Queues
<1>14. \A u \in Tenants : d.queue[u] # <<>> => s.queue[u] # <<>>
  <2>1. s.queue[t] = <<>> => rest = <<>>
    <3>1. rest = <<>> <=> \A q \in Runs : ~Has(rest, q)
      BY <1>6, EmptyHasNothing
    <3> QED
      BY <3>1, <1>6 DEF Has
  <2> QED
    BY <2>1, <1>7
<1>15. (Idle(s) => Idle(d)) /\ (EmptyIfClosed(s) => EmptyIfClosed(d))
  BY <1>1, <1>14 DEF Idle, Open, HasSlot, EmptyIfClosed
<1> QED
  BY <1>1, <1>9, <1>10, <1>11, <1>13, <1>15 DEF Sound

(* A job ends, and its slot, if it had one, is free again.                  *)
Freed(s, j, row, d) ==
  /\ Whole(d) /\ d.queue = s.queue /\ d.order = s.order
  /\ d.heap = [s.heap EXCEPT ![j] = row]
  /\ \/ d.table = s.table
     \/ d.table = [s.table EXCEPT ![RunOf(j)] = IF @ = j THEN NoJob ELSE @]
  /\ \/ ~s.heap[j].slot /\ d.active = s.active /\ d.byTenant = s.byTenant
     \/ /\ s.heap[j].slot /\ d.active = s.active - 1
        /\ d.byTenant = [s.byTenant EXCEPT ![TenantOf[RunOf(j)]] = @ - 1]

LEMMA FreedSound ==
  ASSUME NEW s, Sound(s), Idle(s), NEW j \in DOMAIN s.heap, s.heap[j].task # "queued",
         NEW row \in JobRows, row.task = "done", ~row.slot, NEW d, Freed(s, j, row, d)
  PROVE  Sound(d) /\ OneRound(d)
<1> DEFINE t == TenantOf[RunOf(j)]
<1>0. Whole(s) /\ Typed(s) /\ Slots(s) /\ Phased(s) /\ Queues(s)
  BY DEF Sound
<1>1. /\ Whole(d) /\ d.queue = s.queue /\ d.order = s.order
      /\ d.heap = [s.heap EXCEPT ![j] = row]
  BY DEF Freed
<1>2. RunOf(j) \in Runs /\ t \in Tenants /\ j \in Jobs /\ s.heap[j] \in JobRows
  BY <1>0, LimitsAssumption DEF Typed, Jobs, RunOf
<1>3. /\ DOMAIN d.heap = DOMAIN s.heap /\ d.heap \in [DOMAIN d.heap -> JobRows]
      /\ \A i \in DOMAIN s.heap : d.heap[i] = IF i = j THEN row ELSE s.heap[i]
  BY <1>0, <1>1 DEF Typed
<1>4. /\ d.table \in [Runs -> Jobs \cup {NoJob}]
      /\ \A r \in Runs : d.table[r] = s.table[r] \/ (d.table[r] = NoJob /\ s.table[r] = j)
  <2>1. s.table \in [Runs -> Jobs \cup {NoJob}]
    BY <1>0 DEF Typed
  <2>2. CASE d.table = s.table
    BY <2>1, <2>2
  <2>3. CASE d.table = [s.table EXCEPT ![RunOf(j)] = IF @ = j THEN NoJob ELSE @]
    <3> DEFINE v == IF s.table[RunOf(j)] = j THEN NoJob ELSE s.table[RunOf(j)]
    <3>1. d.table = [s.table EXCEPT ![RunOf(j)] = v]
      BY <2>3
    <3>2. /\ v \in Jobs \cup {NoJob} /\ RunOf(j) \in Runs
          /\ v = s.table[RunOf(j)] \/ (v = NoJob /\ s.table[RunOf(j)] = j)
      BY <2>1, <1>2
    <3> HIDE DEF v
    <3>3. d.table \in [Runs -> Jobs \cup {NoJob}]
      BY <3>1, <3>2, <2>1
    <3>4. \A r \in Runs : d.table[r] = IF r = RunOf(j) THEN v ELSE s.table[r]
      BY <3>1, <2>1
    <3> QED
      BY <3>2, <3>3, <3>4
  <2> QED
    BY <2>2, <2>3 DEF Freed
<1>5. Slots(d) /\ d.active \in Nat /\ d.byTenant \in [Tenants -> Nat]
  <2>1. CASE s.heap[j].slot
    <3>1. SlotHolders(d) = SlotHolders(s) \ {j} /\ j \in SlotHolders(s)
      BY <2>1, <1>3 DEF SlotHolders
    <3>2. d.active = s.active - 1 /\ d.byTenant = [s.byTenant EXCEPT ![TenantOf[RunOf(j)]] = @ - 1]
      BY <2>1 DEF Freed
    <3> QED
      BY <3>1, <3>2, <1>0, SlotGiven
  <2>2. CASE ~s.heap[j].slot
    <3>1. SlotHolders(d) = SlotHolders(s)
      BY <2>2, <1>3 DEF SlotHolders
    <3>2. d.active = s.active /\ d.byTenant = s.byTenant
      BY <2>2 DEF Freed
    <3> QED
      BY <3>1, <3>2, <1>0 DEF Slots, Typed
  <2> QED
    BY <2>1, <2>2
<1>6. Typed(d)
  <2>1. \A q \in Runs : d.table[q] # NoJob => d.table[q] \in DOMAIN d.heap /\ RunOf(d.table[q]) = q
    BY <1>0, <1>3, <1>4 DEF Typed
  <2> QED
    BY <2>1, <1>0, <1>1, <1>3, <1>4, <1>5 DEF Typed
<1>7. Phased(d)
  <2>1. ASSUME NEW i \in DOMAIN s.heap, i # j, s.table[RunOf(i)] = i
        PROVE  d.table[RunOf(i)] = i
    <3>1. RunOf(i) \in Runs
      BY <1>0 DEF Typed, Jobs, RunOf
    <3> QED
      BY <3>1, <2>1, <1>4
  <2> QED
    BY <2>1, <1>0, <1>3 DEF Phased
<1>8. \A q \in Runs : Waiting(d, q) <=> Waiting(s, q)
  <2>1. ASSUME NEW q \in Runs
        PROVE  Waiting(d, q) <=> Waiting(s, q)
    <3>1. CASE s.table[q] = j
      BY <3>1, <1>3, <1>4 DEF Waiting
    <3>2. CASE s.table[q] # j
      <4>1. d.table[q] = s.table[q] /\ (s.table[q] # NoJob => d.heap[s.table[q]] = s.heap[s.table[q]])
        BY <3>2, <1>0, <1>3, <1>4 DEF Typed
      <4> QED
        BY <4>1 DEF Waiting
    <3> QED
      BY <3>1, <3>2
  <2> QED
    BY <2>1
<1>9. Queues(d)
  BY <1>0, <1>1, <1>8 DEF Queues
<1>10. OneRound(d)
  <2>1. CASE s.heap[j].slot
    <3> DEFINE a == s.active
               m == MaxActive
               n == MaxActivePerTenant
    <3>1. a \in Nat /\ m \in Nat /\ n \in Nat
      BY <1>0, LimitsAssumption DEF Typed
    <3>2. /\ d.active = a - 1 /\ d.byTenant \in [Tenants -> Nat] /\ s.byTenant \in [Tenants -> Nat]
          /\ d.byTenant = [s.byTenant EXCEPT ![t] = @ - 1]
      BY <2>1, <1>0, <1>5 DEF Freed, Typed
    <3>3. CASE a >= m
      BY <3>1, <3>2, <3>3 DEF OneRound
    <3>4. CASE a < m
      <4>1. ASSUME NEW u \in Tenants, Open(d, u)
            PROVE  u = t /\ d.byTenant[u] + 1 >= n
        <5>1. s.queue[u] # <<>> /\ d.byTenant[u] < n
          BY <4>1, <1>1 DEF Open, HasSlot
        <5>2. ~HasSlot(s, u)
          BY <5>1 DEF Idle, Open
        <5>3. ~(s.byTenant[u] < n)
          BY <5>2, <3>4 DEF HasSlot
        <5>4. u = t
          BY <5>1, <5>3, <3>2
        <5>5. s.byTenant[t] \in Nat /\ d.byTenant[t] = s.byTenant[t] - 1
          BY <3>2, <1>2
        <5> HIDE DEF n, t
        <5>6. (s.byTenant[t] - 1) + 1 >= n
          BY <5>3, <5>4, <5>5, <3>1
        <5> QED
          BY <5>4, <5>5, <5>6
      <4> QED
        BY <4>1 DEF OneRound
    <3> QED
      BY <3>1, <3>3, <3>4
  <2>2. CASE ~s.heap[j].slot
    <3>1. d.active = s.active /\ d.byTenant = s.byTenant
      BY <2>2 DEF Freed
    <3>2. Idle(d)
      BY <3>1, <1>1 DEF Idle, Open, HasSlot
    <3> QED
      BY <3>2 DEF Idle, OneRound
  <2> QED
    BY <2>1, <2>2
<1> QED
  BY <1>1, <1>5, <1>6, <1>7, <1>9, <1>10 DEF Sound

LEMMA EndSound ==
  ASSUME NEW s, Sound(s), Idle(s), EmptyIfClosed(s), NEW j \in DOMAIN s.heap,
         s.heap[j].task # "queued",
         NEW e, e = [s EXCEPT !.heap[j].task = "done"],
         NEW f, f = e \/ f = Forget(e, j),
         NEW d, d = ReleaseSlot(f, j)
  PROVE  Sound(d) /\ Idle(d) /\ EmptyIfClosed(d)
<1> DEFINE over == [s.heap[j] EXCEPT !.task = "done"]
           g == IF f.heap[j].slot
                THEN [f EXCEPT !.active = @ - 1, !.byTenant[TenantOf[RunOf(j)]] = @ - 1,
                               !.heap[j].slot = FALSE]
                ELSE f
<1>0. Whole(s) /\ Typed(s)
  BY DEF Sound
<1>1. s.heap[j] \in JobRows /\ s.heap \in [DOMAIN s.heap -> JobRows]
  BY <1>0 DEF Typed
<1>2. over \in JobRows /\ over.slot = s.heap[j].slot /\ over.task = "done"
  BY <1>1 DEF JobRows, Phases
<1>3. RowSet(s, j, over, e)
  BY <1>0 DEF Whole, RowSet, SameQueues
<1> HIDE DEF over
<1>4. /\ Whole(f) /\ f.heap = [s.heap EXCEPT ![j] = over] /\ SameQueues(s, f)
      /\ \/ f.table = s.table
         \/ f.table = [s.table EXCEPT ![RunOf(j)] = IF @ = j THEN NoJob ELSE @]
  <2>1. /\ Whole(e) /\ e.heap = [s.heap EXCEPT ![j] = over] /\ e.table = s.table /\ SameQueues(s, e)
    BY <1>3 DEF RowSet
  <2>2. CASE f = e
    BY <2>1, <2>2
  <2>3. CASE f = Forget(e, j)
    <3>1. /\ Whole(f) /\ f.heap = e.heap /\ SameQueues(e, f)
          /\ f.table = [e.table EXCEPT ![RunOf(j)] = IF @ = j THEN NoJob ELSE @]
      BY <2>1, <2>3 DEF Whole, Forget, SameQueues
    <3> QED
      BY <3>1, <2>1 DEF SameQueues
  <2> QED
    BY <2>2, <2>3
<1>5. f.heap[j] = over /\ f.heap[j].slot = s.heap[j].slot
  BY <1>1, <1>2, <1>4
<1>6. \E row \in JobRows : row.task = "done" /\ ~row.slot /\ Freed(s, j, row, g)
  <2>1. CASE s.heap[j].slot
    <3> DEFINE row == [over EXCEPT !.slot = FALSE]
    <3>1. row \in JobRows /\ row.task = "done" /\ ~row.slot
      BY <1>2 DEF JobRows
    <3>2. g = [f EXCEPT !.active = @ - 1, !.byTenant[TenantOf[RunOf(j)]] = @ - 1,
                        !.heap[j].slot = FALSE]
      BY <2>1, <1>5
    <3> HIDE DEF g
    <3>3. Whole(f)
      BY <1>4
    <3>4. /\ Whole(g) /\ g.queue = f.queue /\ g.order = f.order /\ g.table = f.table
          /\ g.heap = [f.heap EXCEPT ![j] = [@ EXCEPT !.slot = FALSE]]
          /\ g.active = f.active - 1
          /\ g.byTenant = [f.byTenant EXCEPT ![TenantOf[RunOf(j)]] = @ - 1]
      BY <3>2, <3>3 DEF Whole
    <3>5. g.heap = [s.heap EXCEPT ![j] = row]
      BY <3>4, <1>1, <1>4, <1>5
    <3> HIDE DEF row
    <3>6. Freed(s, j, row, g)
      BY <3>4, <3>5, <1>4, <2>1 DEF Freed, SameQueues
    <3> QED
      BY <3>1, <3>6
  <2>2. CASE ~s.heap[j].slot
    <3>1. g = f
      BY <2>2, <1>5
    <3>2. Freed(s, j, over, g)
      BY <3>1, <2>2, <1>4 DEF Freed, SameQueues
    <3> QED
      BY <3>2, <2>2, <1>2
  <2> QED
    BY <2>1, <2>2
<1>7. d = Dispatch(g)
  BY DEF ReleaseSlot
<1> HIDE DEF g
<1>8. Sound(g) /\ OneRound(g) /\ g.queue = s.queue
  <2>1. PICK row \in JobRows : row.task = "done" /\ ~row.slot /\ Freed(s, j, row, g)
    BY <1>6
  <2> QED
    BY <2>1, FreedSound DEF Freed
<1>9. EmptyIfClosed(g)
  BY <1>8 DEF EmptyIfClosed
<1> QED
  BY <1>7, <1>8, <1>9, DispatchSound

------------------------------------------------------------------------------
(* The steps.                                                               *)

AdmissionInv ==
  /\ Sound(Now) /\ Idle(Now) /\ EmptyIfClosed(Now)
  /\ closed \in BOOLEAN /\ closing \subseteq Jobs

LEMMA NowFields ==
  /\ Whole(Now) /\ Now.heap = heap /\ Now.table = table /\ Now.queue = queue /\ Now.order = order
  /\ Now.active = active /\ Now.byTenant = byTenant
BY DEF Now, Whole

LEMMA BecomesKeeps ==
  ASSUME AdmissionInv, NEW s, Sound(s), Idle(s), EmptyIfClosed(s), Becomes(s)
  PROVE  AdmissionInv'
<1>1. Installs(s) /\ closed' = closed /\ closing' = closing
  BY DEF Becomes
<1>2. Sound(Now') /\ SameQueues(s, Now')
  BY <1>1, InstallsSound
<1>3. Idle(Now')
  BY <1>2, StaysIdle
<1>4. \A t \in Tenants : (Now').queue[t] = s.queue[t]
  BY <1>2 DEF SameQueues
<1>5. EmptyIfClosed(Now)'
  BY <1>1, <1>4 DEF EmptyIfClosed
<1> QED
  BY <1>1, <1>2, <1>3, <1>5 DEF AdmissionInv

(* A step of the job j that changes its row only.                           *)
LEMMA RowStep ==
  ASSUME AdmissionInv, NEW j \in DOMAIN heap, NEW row \in JobRows,
         row.slot = heap[j].slot, InQueue(row) <=> InQueue(heap[j]),
         row.task \in {"queued", "done"} => ~row.slot,
         row.task \in {"queued", "new", "claiming", "dropped"} =>
           table[RunOf(j)] = j /\ row.claim \in {"none", "granted"},
         NEW d, RowSet(Now, j, row, d)
  PROVE  /\ Sound(d) /\ Idle(d) /\ EmptyIfClosed(d)
         /\ d.heap[j] = row /\ DOMAIN d.heap = DOMAIN heap
<1>1. Sound(Now) /\ Idle(Now) /\ EmptyIfClosed(Now)
  BY DEF AdmissionInv
<1> QED
  BY <1>1, NowFields, RowSetSound

LEMMA RowOf ==
  ASSUME AdmissionInv, NEW j \in DOMAIN heap
  PROVE  /\ heap[j] \in JobRows /\ j \in Jobs
         /\ heap[j].task \in {"queued", "done"} => ~heap[j].slot
         /\ heap[j].task \in {"queued", "new", "claiming", "dropped"} =>
              table[RunOf(j)] = j /\ heap[j].claim \in {"none", "granted"}
BY NowFields DEF AdmissionInv, Sound, Typed, Phased

(* Rows with one field changed.                                             *)
LEMMA TaskSet ==
  ASSUME NEW row \in JobRows, NEW p \in Phases
  PROVE  /\ [row EXCEPT !.task = p] \in JobRows /\ [row EXCEPT !.task = p].task = p
         /\ [row EXCEPT !.task = p].slot = row.slot /\ [row EXCEPT !.task = p].claim = row.claim
         /\ p # "queued" => ~InQueue([row EXCEPT !.task = p])
BY DEF JobRows, InQueue

LEMMA BeginKeeps ==
  ASSUME AdmissionInv, NEW j \in Jobs, Begin(j)
  PROVE  AdmissionInv'
<1> DEFINE p == IF heap[j].claim = "granted" THEN "running" ELSE "claiming"
           row == [heap[j] EXCEPT !.task = p]
           d == [Now EXCEPT !.heap[j].task = p]
<1>1. j \in DOMAIN heap /\ heap[j].task = "new" /\ Becomes(d)
  BY DEF Begin, Undisturbed, In
<1>2. /\ heap[j] \in JobRows /\ table[RunOf(j)] = j /\ heap[j].claim \in {"none", "granted"}
  BY <1>1, RowOf
<1>3. p \in Phases /\ p # "queued" /\ p # "done"
  BY DEF Phases
<1>4. RowSet(Now, j, row, d)
  BY NowFields DEF Whole, RowSet, SameQueues
<1> HIDE DEF p
<1>5. /\ row \in JobRows /\ row.task = p /\ row.slot = heap[j].slot /\ row.claim = heap[j].claim
      /\ ~InQueue(row) /\ ~InQueue(heap[j])
  BY <1>1, <1>2, <1>3, TaskSet DEF InQueue
<1> HIDE DEF row, d
<1>6. Sound(d) /\ Idle(d) /\ EmptyIfClosed(d)
  BY <1>1, <1>2, <1>3, <1>4, <1>5, RowStep
<1> QED
  BY <1>1, <1>6, BecomesKeeps

LEMMA DropTaskKeeps ==
  ASSUME AdmissionInv, NEW j \in Jobs, DropTask(j)
  PROVE  AdmissionInv'
<1> DEFINE row == [heap[j] EXCEPT !.task = "dropped"]
           d == [Now EXCEPT !.heap[j].task = "dropped"]
<1>1. j \in DOMAIN heap /\ heap[j].task = "new" /\ Becomes(d)
  BY DEF DropTask, In
<1>2. /\ heap[j] \in JobRows /\ table[RunOf(j)] = j /\ heap[j].claim \in {"none", "granted"}
  BY <1>1, RowOf
<1>4. RowSet(Now, j, row, d)
  BY NowFields DEF Whole, RowSet, SameQueues
<1>5. /\ row \in JobRows /\ row.task = "dropped" /\ row.slot = heap[j].slot /\ row.claim = heap[j].claim
      /\ ~InQueue(row) /\ ~InQueue(heap[j])
  BY <1>1, <1>2, TaskSet DEF InQueue, Phases
<1> HIDE DEF row, d
<1>6. Sound(d) /\ Idle(d) /\ EmptyIfClosed(d)
  BY <1>1, <1>2, <1>4, <1>5, RowStep
<1> QED
  BY <1>1, <1>6, BecomesKeeps

LEMMA ClaimAnsweredKeeps ==
  ASSUME AdmissionInv, NEW j \in Jobs, NEW outcome \in {"granted", "duplicate", "error"},
         ClaimAnswered(j, outcome)
  PROVE  AdmissionInv'
<1> DEFINE p == IF outcome = "granted" THEN "running" ELSE "told"
           row == [heap[j] EXCEPT !.claim = outcome, !.task = p]
           d == [Now EXCEPT !.heap[j].claim = outcome, !.heap[j].task = p]
<1>1. j \in DOMAIN heap /\ heap[j].task = "claiming" /\ Becomes(d)
  BY DEF ClaimAnswered, Undisturbed, In
<1>2. heap[j] \in JobRows
  BY <1>1, RowOf
<1>3. p \in Phases /\ p \notin {"queued", "done", "new", "claiming", "dropped"}
  BY DEF Phases
<1>4. RowSet(Now, j, row, d)
  <2>1. Whole(Now)
    BY NowFields
  <2>2. Now.heap = heap /\ heap \in [DOMAIN heap -> JobRows]
    BY NowFields DEF AdmissionInv, Sound, Typed
  <2> DEFINE c == [Now EXCEPT !.heap[j].claim = outcome]
  <2>c. /\ Whole(c) /\ c.table = Now.table /\ SameQueues(Now, c)
        /\ c.heap = [Now.heap EXCEPT ![j] = [@ EXCEPT !.claim = outcome]]
    BY <2>1 DEF Whole, SameQueues
  <2>d. d = [c EXCEPT !.heap[j].task = p]
    BY Zenon
  <2> HIDE DEF c, d, p
  <2>e. /\ Whole(d) /\ d.table = c.table /\ SameQueues(c, d)
        /\ d.heap = [c.heap EXCEPT ![j] = [@ EXCEPT !.task = p]]
    BY <2>c, <2>d DEF Whole, SameQueues
  <2>3. /\ Whole(d) /\ d.table = Now.table /\ SameQueues(Now, d)
        /\ d.heap = [[Now.heap EXCEPT ![j] = [@ EXCEPT !.claim = outcome]]
                       EXCEPT ![j] = [@ EXCEPT !.task = p]]
    BY <2>c, <2>e DEF SameQueues
  <2>4. d.heap = [Now.heap EXCEPT ![j] = row]
    BY <2>2, <2>3, <1>1
  <2> QED
    BY <2>3, <2>4 DEF RowSet
<1> HIDE DEF p
<1>5. /\ row \in JobRows /\ row.task = p /\ row.slot = heap[j].slot
      /\ ~InQueue(row) /\ ~InQueue(heap[j])
  BY <1>1, <1>2, <1>3 DEF InQueue, JobRows
<1> HIDE DEF row, d
<1>6. Sound(d) /\ Idle(d) /\ EmptyIfClosed(d)
  BY <1>1, <1>3, <1>4, <1>5, RowStep
<1> QED
  BY <1>1, <1>6, BecomesKeeps

(* The next state of a task that ends up in its finally block.              *)
LEMMA ClosingSound ==
  ASSUME AdmissionInv, NEW j \in DOMAIN heap, heap[j].task # "queued",
         NEW d, d = [Now EXCEPT !.heap[j].task = "closing"]
  PROVE  /\ Sound(d) /\ Idle(d) /\ EmptyIfClosed(d)
         /\ d.heap[j].task = "closing" /\ DOMAIN d.heap = DOMAIN heap
<1> DEFINE row == [heap[j] EXCEPT !.task = "closing"]
<1>2. heap[j] \in JobRows
  BY RowOf
<1>4. RowSet(Now, j, row, d)
  BY NowFields DEF Whole, RowSet, SameQueues
<1>5. /\ row \in JobRows /\ row.task = "closing" /\ row.slot = heap[j].slot
      /\ ~InQueue(row) /\ ~InQueue(heap[j])
  BY <1>2, TaskSet DEF InQueue, Phases
<1> HIDE DEF row
<1> QED
  BY <1>4, <1>5, RowStep

LEMMA InterruptKeeps ==
  ASSUME AdmissionInv, NEW j \in Jobs, Interrupt(j)
  PROVE  AdmissionInv'
<1> DEFINE d == [Now EXCEPT !.heap[j].task = "closing"]
<1>1. j \in DOMAIN heap /\ heap[j].task # "queued" /\ Becomes(d)
  BY DEF Interrupt, In
<1>d. d = [Now EXCEPT !.heap[j].task = "closing"]
  OBVIOUS
<1> HIDE DEF d
<1>2. Sound(d) /\ Idle(d) /\ EmptyIfClosed(d)
  BY <1>1, <1>d, ClosingSound
<1> QED
  BY <1>1, <1>2, BecomesKeeps

LEMMA SettleKeeps ==
  ASSUME AdmissionInv, NEW j \in Jobs, Settle(j)
  PROVE  AdmissionInv'
<1> DEFINE c == [Now EXCEPT !.heap[j].task = "closing"]
           d == ForgetUnleased(c, j)
<1>1. j \in DOMAIN heap /\ heap[j].task # "queued" /\ Becomes(d)
  BY DEF Settle, Undisturbed, In
<1>c. c = [Now EXCEPT !.heap[j].task = "closing"]
  OBVIOUS
<1> HIDE DEF c
<1>2. /\ Sound(c) /\ Idle(c) /\ EmptyIfClosed(c)
      /\ c.heap[j].task = "closing" /\ j \in DOMAIN c.heap
  BY <1>1, <1>c, ClosingSound
<1>3. d = c \/ d = Forget(c, j)
  BY DEF ForgetUnleased
<1> HIDE DEF d
<1>4. Sound(d) /\ Idle(d) /\ EmptyIfClosed(d)
  BY <1>2, <1>3, ForgetSound
<1> QED
  BY <1>1, <1>4, BecomesKeeps

LEMMA CloseKeeps ==
  ASSUME AdmissionInv, NEW j \in Jobs, Close(j)
  PROVE  AdmissionInv'
<1> DEFINE e == [Now EXCEPT !.heap[j].task = "done"]
           f == IF heap[j].cancelled THEN ForgetUnleased(e, j) ELSE e
           d == ReleaseSlot(f, j)
<1>1. j \in DOMAIN heap /\ heap[j].task = "closing" /\ Becomes(d)
  BY DEF Close, In
<1>e. e = [Now EXCEPT !.heap[j].task = "done"]
  OBVIOUS
<1> HIDE DEF e
<1>2. f = e \/ f = Forget(e, j)
  BY DEF ForgetUnleased
<1>3. d = ReleaseSlot(f, j)
  OBVIOUS
<1> HIDE DEF f, d
<1>4. Sound(Now) /\ Idle(Now) /\ EmptyIfClosed(Now) /\ j \in DOMAIN Now.heap /\ Now.heap[j].task # "queued"
  BY <1>1, NowFields DEF AdmissionInv
<1>5. Sound(d) /\ Idle(d) /\ EmptyIfClosed(d)
  BY <1>e, <1>2, <1>3, <1>4, EndSound
<1> QED
  BY <1>1, <1>5, BecomesKeeps

LEMMA EndRunKeeps ==
  ASSUME AdmissionInv, NEW j \in Jobs, NEW recoveryPending \in BOOLEAN, EndRun(j, recoveryPending)
  PROVE  AdmissionInv'
<1> DEFINE e == [Now EXCEPT !.heap[j].task = "done"]
           f == IF recoveryPending THEN Forget(e, j) ELSE e
           d == ReleaseSlot(f, j)
<1>1. j \in DOMAIN heap /\ heap[j].task = "running" /\ Becomes(d)
  BY DEF EndRun, In
<1>e. e = [Now EXCEPT !.heap[j].task = "done"]
  OBVIOUS
<1> HIDE DEF e
<1>2. f = e \/ f = Forget(e, j)
  OBVIOUS
<1>3. d = ReleaseSlot(f, j)
  OBVIOUS
<1> HIDE DEF f, d
<1>4. Sound(Now) /\ Idle(Now) /\ EmptyIfClosed(Now) /\ j \in DOMAIN Now.heap /\ Now.heap[j].task # "queued"
  BY <1>1, NowFields DEF AdmissionInv
<1>5. Sound(d) /\ Idle(d) /\ EmptyIfClosed(d)
  BY <1>e, <1>2, <1>3, <1>4, EndSound
<1> QED
  BY <1>1, <1>5, BecomesKeeps

LEMMA WaitedSet ==
  ASSUME NEW s, Whole(s), NEW j, NEW b, NEW d, d = [s EXCEPT !.heap[j].waited = b]
  PROVE  RowSet(s, j, [s.heap[j] EXCEPT !.waited = b], d)
BY DEF Whole, RowSet, SameQueues

LEMMA CancelledSet ==
  ASSUME NEW s, Whole(s), NEW j, NEW b, NEW d, d = [s EXCEPT !.heap[j].cancelled = b]
  PROVE  RowSet(s, j, [s.heap[j] EXCEPT !.cancelled = b], d)
BY DEF Whole, RowSet, SameQueues

LEMMA AnswerStartKeeps ==
  ASSUME AdmissionInv, NEW j \in Jobs, AnswerStart(j)
  PROVE  AdmissionInv'
<1> DEFINE row == [heap[j] EXCEPT !.waited = FALSE]
           c == [Now EXCEPT !.heap[j].waited = FALSE]
           d == IF heap[j].claim \in {"duplicate", "error"} THEN ForgetUnleased(c, j) ELSE c
<1>1. j \in DOMAIN heap /\ Becomes(d)
  BY DEF AnswerStart
<1>2. /\ heap[j] \in JobRows
      /\ heap[j].task \in {"queued", "done"} => ~heap[j].slot
      /\ heap[j].task \in {"queued", "new", "claiming", "dropped"} =>
           table[RunOf(j)] = j /\ heap[j].claim \in {"none", "granted"}
  BY <1>1, RowOf
<1>3. RowSet(Now, j, row, c)
  <2>1. c = [Now EXCEPT !.heap[j].waited = FALSE]
    OBVIOUS
  <2> HIDE DEF c
  <2>2. RowSet(Now, j, [Now.heap[j] EXCEPT !.waited = FALSE], c)
    BY <2>1, NowFields, WaitedSet
  <2> QED
    BY <2>2, NowFields
<1>4. /\ row \in JobRows /\ row.task = heap[j].task /\ row.slot = heap[j].slot
      /\ row.claim = heap[j].claim /\ (InQueue(row) <=> InQueue(heap[j]))
  BY <1>2 DEF JobRows, InQueue
<1> HIDE DEF row, c
<1>5. /\ Sound(c) /\ Idle(c) /\ EmptyIfClosed(c) /\ c.heap[j] = row /\ j \in DOMAIN c.heap
  BY <1>1, <1>2, <1>3, <1>4, RowStep
<1>6. Sound(d) /\ Idle(d) /\ EmptyIfClosed(d)
  <2>1. CASE d = c
    BY <2>1, <1>5
  <2>2. CASE d # c
    <3>1. heap[j].claim \in {"duplicate", "error"} /\ d = Forget(c, j)
      BY <2>2 DEF ForgetUnleased
    <3>2. c.heap[j].task \notin {"queued", "new", "claiming", "dropped"}
      BY <3>1, <1>2, <1>4, <1>5
    <3> HIDE DEF d
    <3> QED
      BY <3>1, <3>2, <1>5, ForgetSound
  <2> QED
    BY <2>1, <2>2
<1> HIDE DEF d
<1> QED
  BY <1>1, <1>6, BecomesKeeps

LEMMA StartKeeps ==
  ASSUME AdmissionInv, NEW j \in Jobs, Start(j)
  PROVE  AdmissionInv'
<1> DEFINE r == RunOf(j)
           known == [Now EXCEPT !.heap = With(heap, j, Job("queued", "none")), !.table[r] = j]
           q == Enqueue(known, r)
           s == Dispatch(q)
           b == s.heap[j].task = "new"
           d == [s EXCEPT !.heap[j].waited = b]
<1>0. Sound(Now) /\ Idle(Now) /\ EmptyIfClosed(Now) /\ Whole(Now) /\ closed \in BOOLEAN
  BY NowFields DEF AdmissionInv
<1>1. j \notin DOMAIN heap /\ table[r] = NoJob /\ ~closed /\ Becomes(d)
  BY DEF Start, Unused, NoJobFor
<1>b. b \in BOOLEAN
  OBVIOUS
<1>d. d = [s EXCEPT !.heap[j].waited = b]
  OBVIOUS
<1>s. s = Dispatch(q)
  OBVIOUS
<1>q. q = Enqueue(known, RunOf(j))
  OBVIOUS
<1> HIDE DEF d, b, s, q
<1>2. NewRow(Now, j, Job("queued", "none"), known)
  <2> DEFINE h == With(heap, j, Job("queued", "none"))
  <2>1. known = [Now EXCEPT !.heap = h, !.table[RunOf(j)] = j]
    OBVIOUS
  <2> HIDE DEF known, h
  <2>2. /\ Whole(known) /\ known.heap = h /\ known.table = [Now.table EXCEPT ![RunOf(j)] = j]
        /\ SameQueues(Now, known)
    BY <1>0, <2>1 DEF Whole, SameQueues
  <2> QED
    BY <2>2, NowFields DEF NewRow, h
<1> HIDE DEF known
<1>3. j \notin DOMAIN Now.heap /\ Now.table[RunOf(j)] = NoJob
  BY <1>1, NowFields
<1>4. Sound(q) /\ q.heap = known.heap /\ OneRound(q)
  BY <1>0, <1>2, <1>3, <1>q, EnqueueSound
<1>5. EmptyIfClosed(q)
  BY <1>1 DEF EmptyIfClosed
<1>6. /\ Sound(s) /\ Idle(s) /\ EmptyIfClosed(s) /\ DOMAIN s.heap = DOMAIN q.heap
  BY <1>4, <1>5, <1>s, DispatchSound
<1>7. j \in DOMAIN s.heap
  BY <1>2, <1>4, <1>6 DEF NewRow, With
<1> DEFINE row == [s.heap[j] EXCEPT !.waited = b]
<1>8. RowSet(s, j, row, d)
  BY <1>6, <1>d, WaitedSet DEF Sound
<1>9. /\ s.heap[j] \in JobRows
      /\ s.heap[j].task \in {"queued", "done"} => ~s.heap[j].slot
      /\ s.heap[j].task \in {"queued", "new", "claiming", "dropped"} =>
           s.table[RunOf(j)] = j /\ s.heap[j].claim \in {"none", "granted"}
  BY <1>6, <1>7 DEF Sound, Typed, Phased
<1>10. /\ row \in JobRows /\ row.task = s.heap[j].task /\ row.slot = s.heap[j].slot
       /\ row.claim = s.heap[j].claim /\ (InQueue(row) <=> InQueue(s.heap[j]))
  BY <1>9, <1>b DEF JobRows, InQueue
<1> HIDE DEF row
<1>11. Sound(d) /\ Idle(d) /\ EmptyIfClosed(d)
  BY <1>6, <1>7, <1>8, <1>9, <1>10, RowSetSound
<1> QED
  BY <1>1, <1>11, BecomesKeeps

LEMMA StartRecoveredKeeps ==
  ASSUME AdmissionInv, NEW j \in Jobs, StartRecovered(j)
  PROVE  AdmissionInv'
<1> DEFINE r == RunOf(j)
           known == [Now EXCEPT !.heap = With(heap, j, Job("new", "granted")), !.table[r] = j]
           d == Reserve(known, j)
<1>0. Sound(Now) /\ Idle(Now) /\ EmptyIfClosed(Now) /\ Whole(Now)
  BY NowFields DEF AdmissionInv
<1>1. j \notin DOMAIN heap /\ table[r] = NoJob /\ HasSlot(Now, TenantOf[r]) /\ Becomes(d)
  BY DEF StartRecovered, Unused, NoJobFor
<1>d. d = Reserve(known, j)
  OBVIOUS
<1> HIDE DEF d
<1>2. NewRow(Now, j, Job("new", "granted"), known)
  <2> DEFINE h == With(heap, j, Job("new", "granted"))
  <2>1. known = [Now EXCEPT !.heap = h, !.table[RunOf(j)] = j]
    OBVIOUS
  <2> HIDE DEF known, h
  <2>2. /\ Whole(known) /\ known.heap = h /\ known.table = [Now.table EXCEPT ![RunOf(j)] = j]
        /\ SameQueues(Now, known)
    BY <1>0, <2>1 DEF Whole, SameQueues
  <2> QED
    BY <2>2, NowFields DEF NewRow, h
<1> HIDE DEF known
<1>3. j \notin DOMAIN Now.heap /\ Now.table[RunOf(j)] = NoJob /\ HasSlot(Now, TenantOf[RunOf(j)])
  BY <1>1, NowFields
<1>4. Sound(d) /\ Idle(d) /\ EmptyIfClosed(d)
  BY <1>0, <1>2, <1>3, <1>d, RecoveredSound
<1> QED
  BY <1>1, <1>4, BecomesKeeps

LEMMA CancelKeeps ==
  ASSUME AdmissionInv, NEW r \in Runs, Cancel(r)
  PROVE  AdmissionInv'
<1> DEFINE j == table[r]
           c == [Now EXCEPT !.heap[j].cancelled = TRUE]
<1>0. Sound(Now) /\ Idle(Now) /\ EmptyIfClosed(Now) /\ Whole(Now)
  BY NowFields DEF AdmissionInv
<1>1. j # NoJob /\ j = Now.table[r] /\ j \in DOMAIN heap
  BY <1>0, NowFields DEF Cancel, Sound, Typed
<1>2. CASE heap[j].task = "queued" /\ ~heap[j].cancelled /\ Becomes(RemoveQueued(c, r))
  <2> DEFINE d == RemoveQueued(c, r)
  <2>1. d = RemoveQueued([Now EXCEPT !.heap[j].cancelled = TRUE], r) /\ Becomes(d)
    BY <1>2
  <2>2. InQueue(Now.heap[j])
    BY <1>2, NowFields DEF InQueue
  <2> HIDE DEF d, c, j
  <2>3. Sound(d) /\ Idle(d) /\ EmptyIfClosed(d)
    BY <1>0, <1>1, <2>1, <2>2, CancelQueuedSound
  <2> QED
    BY <2>1, <2>3, BecomesKeeps
<1>3. CASE heap[j].task \notin Over \cup {"queued"} /\ Becomes(c)
  <2> DEFINE row == [heap[j] EXCEPT !.cancelled = TRUE]
  <2>c. c = [Now EXCEPT !.heap[j].cancelled = TRUE]
    OBVIOUS
  <2> HIDE DEF c
  <2>1. RowSet(Now, j, [Now.heap[j] EXCEPT !.cancelled = TRUE], c)
    BY <1>0, <2>c, CancelledSet
  <2>2. RowSet(Now, j, row, c)
    BY <2>1, NowFields
  <2> HIDE DEF j
  <2>3. /\ heap[j] \in JobRows /\ heap[j].task \notin {"queued", "done", "dropped"}
        /\ heap[j].task \in {"queued", "new", "claiming", "dropped"} =>
             table[RunOf(j)] = j /\ heap[j].claim \in {"none", "granted"}
    BY <1>1, <1>3, RowOf DEF Over
  <2>4. /\ row \in JobRows /\ row.task = heap[j].task /\ row.slot = heap[j].slot
        /\ row.claim = heap[j].claim /\ ~InQueue(row) /\ ~InQueue(heap[j])
    BY <2>3 DEF JobRows, InQueue
  <2> HIDE DEF row
  <2>5. Sound(c) /\ Idle(c) /\ EmptyIfClosed(c)
    BY <1>1, <2>2, <2>3, <2>4, RowStep
  <2> QED
    BY <1>3, <2>5, BecomesKeeps
<1> QED
  BY <1>2, <1>3 DEF Cancel

(* The shutdown cancels whoever waits and empties the queues.               *)
LEMMA ShutdownKeeps ==
  ASSUME AdmissionInv, Shutdown
  PROVE  AdmissionInv'
<1> DEFINE marks(k) == heap[k].cancelled \/ (Known(k) /\ heap[k].task = "queued")
           h == [k \in DOMAIN heap |-> [heap[k] EXCEPT !.cancelled = marks(k)]]
           none == [t \in Tenants |-> <<>>]
           d == [Now EXCEPT !.heap = h, !.queue = none, !.order = <<>>]
<1>0. Sound(Now) /\ Whole(Now) /\ Typed(Now) /\ Slots(Now) /\ Phased(Now) /\ Queues(Now)
  BY DEF AdmissionInv, Sound
<1>1. Installs(d) /\ closed' = TRUE /\ closing' = {k \in DOMAIN heap : Known(k) /\ AtWork(k)}
  BY DEF Shutdown
<1>2. \A k \in DOMAIN heap : marks(k) \in BOOLEAN /\ heap[k] \in JobRows
  BY <1>0, NowFields DEF Typed, JobRows
<1> HIDE DEF h, none
<1>3. /\ Whole(d) /\ d.heap = h /\ d.table = table /\ d.queue = none /\ d.order = <<>>
      /\ d.active = active /\ d.byTenant = byTenant
  <2> DEFINE o == <<>>
  <2>1. d = [Now EXCEPT !.heap = h, !.queue = none, !.order = o]
    OBVIOUS
  <2>2. o = <<>>
    OBVIOUS
  <2> HIDE DEF d, o
  <2>3. /\ Whole(d) /\ d.heap = h /\ d.queue = none /\ d.order = o
        /\ d.table = Now.table /\ d.active = Now.active /\ d.byTenant = Now.byTenant
    BY <1>0, <2>1 DEF Whole
  <2> QED
    BY <2>2, <2>3, NowFields
<1>4. /\ DOMAIN h = DOMAIN heap /\ h \in [DOMAIN heap -> JobRows]
      /\ \A k \in DOMAIN heap : /\ h[k].task = heap[k].task /\ h[k].slot = heap[k].slot
                                /\ h[k].claim = heap[k].claim /\ (h[k].cancelled <=> marks(k))
  <2>1. ASSUME NEW k \in DOMAIN heap, NEW m \in BOOLEAN
        PROVE  /\ [heap[k] EXCEPT !.cancelled = m] \in JobRows
               /\ [heap[k] EXCEPT !.cancelled = m].task = heap[k].task
               /\ [heap[k] EXCEPT !.cancelled = m].slot = heap[k].slot
               /\ [heap[k] EXCEPT !.cancelled = m].claim = heap[k].claim
               /\ [heap[k] EXCEPT !.cancelled = m].cancelled = m
    BY <1>2 DEF JobRows
  <2> HIDE DEF marks
  <2>2. DOMAIN h = DOMAIN heap /\ \A k \in DOMAIN heap : h[k] = [heap[k] EXCEPT !.cancelled = marks(k)]
    BY DEF h
  <2>3. ASSUME NEW k \in DOMAIN heap
        PROVE  /\ h[k] \in JobRows /\ h[k].task = heap[k].task /\ h[k].slot = heap[k].slot
               /\ h[k].claim = heap[k].claim /\ h[k].cancelled = marks(k)
    <3> DEFINE m == marks(k)
    <3>1. m \in BOOLEAN /\ h[k] = [heap[k] EXCEPT !.cancelled = m]
      BY <1>2, <2>2
    <3> HIDE DEF m
    <3>2. /\ h[k] \in JobRows /\ h[k].task = heap[k].task /\ h[k].slot = heap[k].slot
          /\ h[k].claim = heap[k].claim /\ h[k].cancelled = m
      BY <3>1, <2>1
    <3> QED
      BY <3>2 DEF m
  <2>4. h \in [DOMAIN heap -> JobRows]
    BY <2>2, <2>3 DEF h
  <2> QED
    BY <2>2, <2>3, <2>4
<1> HIDE DEF d
<1>5. none \in [Tenants -> Seq(Runs)] /\ \A t \in Tenants : none[t] = <<>>
  BY DEF none
<1>6. Typed(d)
  BY <1>0, <1>3, <1>4, <1>5, NowFields DEF Typed
<1>7. Slots(d)
  <2>1. SlotHolders(d) = SlotHolders(Now)
    BY <1>3, <1>4, NowFields DEF SlotHolders
  <2> QED
    BY <2>1, <1>0, <1>3, NowFields DEF Slots
<1>8. Phased(d)
  BY <1>0, <1>3, <1>4, NowFields DEF Phased
<1>9. \A r \in Runs : ~Waiting(d, r)
  <2>1. ASSUME NEW r \in Runs, table[r] # NoJob
        PROVE  table[r] \in DOMAIN heap /\ Known(table[r])
    BY <2>1, <1>0, NowFields DEF Typed, Known
  <2> QED
    BY <2>1, <1>3, <1>4 DEF Waiting
<1>10. Queues(d)
  <2>1. \A x : ~Has(<<>>, x)
    BY DEF Has
  <2>2. Distinct(<<>>)
    BY DEF Distinct
  <2> QED
    BY <2>1, <2>2, <1>3, <1>5, <1>9 DEF Queues
<1>11. Sound(d)
  BY <1>3, <1>6, <1>7, <1>8, <1>10 DEF Sound
<1>12. Sound(Now') /\ SameQueues(d, Now')
  BY <1>1, <1>11, InstallsSound
<1>13. Idle(Now')
  BY <1>3, <1>5, <1>12 DEF SameQueues, Idle, Open
<1>14. \A t \in Tenants : (Now').queue[t] = <<>>
  BY <1>3, <1>5, <1>12 DEF SameQueues
<1>15. EmptyIfClosed(Now)'
  BY <1>14 DEF EmptyIfClosed
<1>16. closing' \subseteq Jobs
  BY <1>0, <1>1, NowFields DEF Typed
<1> QED
  BY <1>1, <1>12, <1>13, <1>15, <1>16 DEF AdmissionInv

LEMMA InterruptTasksKeeps ==
  ASSUME AdmissionInv, InterruptTasks
  PROVE  AdmissionInv'
<1> DEFINE marks(k) == heap[k].cancelled \/ (k \in closing /\ AtWork(k))
           h == [k \in DOMAIN heap |-> [heap[k] EXCEPT !.cancelled = marks(k)]]
           d == [Now EXCEPT !.heap = h]
<1>0. Sound(Now) /\ Whole(Now) /\ Typed(Now) /\ Phased(Now) /\ Idle(Now) /\ EmptyIfClosed(Now)
  BY DEF AdmissionInv, Sound
<1>1. Installs(d) /\ closed' = closed /\ closing' = {}
  BY DEF InterruptTasks
<1>2. \A k \in DOMAIN heap : marks(k) \in BOOLEAN /\ heap[k] \in JobRows
  BY <1>0, NowFields DEF Typed, JobRows
<1> HIDE DEF h
<1>3. Whole(d) /\ d.heap = h /\ d.table = table /\ SameQueues(Now, d)
  BY <1>0, NowFields DEF Whole, SameQueues
<1>4. /\ DOMAIN h = DOMAIN heap /\ h \in [DOMAIN heap -> JobRows]
      /\ \A k \in DOMAIN heap : /\ h[k].task = heap[k].task /\ h[k].slot = heap[k].slot
                                /\ h[k].claim = heap[k].claim /\ (h[k].cancelled <=> marks(k))
  <2>1. ASSUME NEW k \in DOMAIN heap, NEW m \in BOOLEAN
        PROVE  /\ [heap[k] EXCEPT !.cancelled = m] \in JobRows
               /\ [heap[k] EXCEPT !.cancelled = m].task = heap[k].task
               /\ [heap[k] EXCEPT !.cancelled = m].slot = heap[k].slot
               /\ [heap[k] EXCEPT !.cancelled = m].claim = heap[k].claim
               /\ [heap[k] EXCEPT !.cancelled = m].cancelled = m
    BY <1>2 DEF JobRows
  <2> HIDE DEF marks
  <2>2. DOMAIN h = DOMAIN heap /\ \A k \in DOMAIN heap : h[k] = [heap[k] EXCEPT !.cancelled = marks(k)]
    BY DEF h
  <2>3. ASSUME NEW k \in DOMAIN heap
        PROVE  /\ h[k] \in JobRows /\ h[k].task = heap[k].task /\ h[k].slot = heap[k].slot
               /\ h[k].claim = heap[k].claim /\ h[k].cancelled = marks(k)
    <3> DEFINE m == marks(k)
    <3>1. m \in BOOLEAN /\ h[k] = [heap[k] EXCEPT !.cancelled = m]
      BY <1>2, <2>2
    <3> HIDE DEF m
    <3>2. /\ h[k] \in JobRows /\ h[k].task = heap[k].task /\ h[k].slot = heap[k].slot
          /\ h[k].claim = heap[k].claim /\ h[k].cancelled = m
      BY <3>1, <2>1
    <3> QED
      BY <3>2 DEF m
  <2>4. h \in [DOMAIN heap -> JobRows]
    BY <2>2, <2>3 DEF h
  <2> QED
    BY <2>2, <2>3, <2>4
<1> HIDE DEF d
<1>5. \A k \in DOMAIN heap : InQueue(h[k]) <=> InQueue(heap[k])
  <2>1. \A k \in DOMAIN heap : heap[k].task = "queued" => ~heap[k].slot
    BY <1>0, NowFields DEF Phased
  <2> QED
    BY <2>1, <1>4 DEF InQueue, AtWork
<1>6. Phased(d)
  BY <1>0, <1>3, <1>4, NowFields DEF Phased
<1>7. /\ table \in [Runs -> Jobs \cup {NoJob}]
      /\ \A r \in Runs : table[r] # NoJob => table[r] \in DOMAIN heap
  BY <1>0, NowFields DEF Typed
<1>8. Sound(d)
  BY <1>0, <1>3, <1>4, <1>5, <1>6, <1>7, NowFields, ReshapedSound
<1>9. Idle(d) /\ EmptyIfClosed(d)
  BY <1>0, <1>3, StaysIdle
<1>10. Sound(Now') /\ SameQueues(d, Now')
  BY <1>1, <1>8, InstallsSound
<1>11. Idle(Now')
  BY <1>9, <1>10, StaysIdle
<1>12. \A t \in Tenants : (Now').queue[t] = d.queue[t]
  BY <1>10 DEF SameQueues
<1>13. EmptyIfClosed(Now)'
  BY <1>1, <1>9, <1>12 DEF EmptyIfClosed
<1> QED
  BY <1>1, <1>10, <1>11, <1>13 DEF AdmissionInv

LEMMA StartsSound == Init => AdmissionInv
<1> SUFFICES ASSUME Init
             PROVE  AdmissionInv
  OBVIOUS
<1>1. /\ DOMAIN heap = {} /\ heap \in [{} -> JobRows]
      /\ table = [r \in Runs |-> NoJob] /\ queue = [t \in Tenants |-> <<>>] /\ order = <<>>
      /\ active = 0 /\ byTenant = [t \in Tenants |-> 0] /\ closed = FALSE /\ closing = {}
  BY DEF Init
<1>2. Typed(Now)
  BY <1>1, NowFields, FS_EmptySet DEF Typed
<1>3. Slots(Now)
  <2>1. SlotHolders(Now) = {} /\ \A t : HoldersOf({}, t) = {}
    BY <1>1, NowFields DEF SlotHolders, HoldersOf
  <2>2. MaxActive \in Nat /\ MaxActivePerTenant \in Nat
    BY LimitsAssumption
  <2>3. Cardinality(SlotHolders(Now)) = 0 /\ \A t : Cardinality(HoldersOf(SlotHolders(Now), t)) = 0
    BY <2>1, FS_EmptySet
  <2>4. Now.active = 0 /\ \A t \in Tenants : Now.byTenant[t] = 0
    BY <1>1, NowFields
  <2> QED
    BY <2>2, <2>3, <2>4 DEF Slots
<1>4. Phased(Now)
  BY <1>1, NowFields DEF Phased
<1>5. Queues(Now)
  BY <1>1, NowFields DEF Queues, Has, Distinct, Waiting
<1>6. Idle(Now) /\ EmptyIfClosed(Now)
  BY <1>1, NowFields DEF Idle, Open, EmptyIfClosed
<1> QED
  BY <1>1, <1>2, <1>3, <1>4, <1>5, <1>6, NowFields DEF AdmissionInv, Sound

LEMMA StaysSound == AdmissionInv /\ [Next]_vars => AdmissionInv'
<1> SUFFICES ASSUME AdmissionInv, [Next]_vars
             PROVE  AdmissionInv'
  OBVIOUS
<1>1. ASSUME NEW j \in Jobs, Start(j)
      PROVE  AdmissionInv'
  BY <1>1, StartKeeps
<1>2. ASSUME NEW j \in Jobs, StartRecovered(j)
      PROVE  AdmissionInv'
  BY <1>2, StartRecoveredKeeps
<1>3. ASSUME NEW r \in Runs, Cancel(r)
      PROVE  AdmissionInv'
  BY <1>3, CancelKeeps
<1>4. CASE Shutdown
  BY <1>4, ShutdownKeeps
<1>5. CASE InterruptTasks
  BY <1>5, InterruptTasksKeeps
<1>6. ASSUME NEW j \in Jobs, TaskStep(j)
      PROVE  AdmissionInv'
  BY <1>6, BeginKeeps, DropTaskKeeps, SettleKeeps, InterruptKeeps, CloseKeeps, ClaimAnsweredKeeps,
     EndRunKeeps DEF TaskStep
<1>7. ASSUME NEW j \in Jobs, AnswerStart(j)
      PROVE  AdmissionInv'
  BY <1>7, AnswerStartKeeps
<1>8. CASE UNCHANGED vars
  <2>1. Now' = Now /\ closed' = closed /\ closing' = closing
    BY <1>8 DEF vars, Now
  <2>2. EmptyIfClosed(Now)'
    BY <2>1, NowFields DEF AdmissionInv, EmptyIfClosed
  <2> QED
    BY <2>1, <2>2 DEF AdmissionInv
<1> QED
  BY <1>1, <1>2, <1>3, <1>4, <1>5, <1>6, <1>7, <1>8 DEF Next

(* The state of the queues, slots and jobs agrees in every state.           *)
THEOREM Admission == Spec => []AdmissionInv
<1> QED
  BY StartsSound, StaysSound, PTL DEF Spec

------------------------------------------------------------------------------
(* Every variable of the worker's admission keeps its type.                 *)
THEOREM TypeCorrect == Spec => []TypeOK
<1>1. AdmissionInv => TypeOK
  BY NowFields DEF AdmissionInv, Sound, Typed, TypeOK, JobRows
<1> QED
  BY <1>1, Admission, PTL

(* The counters are the slots that jobs hold, and neither the worker's      *)
(* limit nor a tenant's is ever passed, however starts, recoveries,         *)
(* cancellations, a shutdown and the ends of runs interleave.               *)
THEOREM LimitsHold == Spec => []SlotsCounted
<1>1. ASSUME AdmissionInv
      PROVE  SlotsCounted
  <2>1. Slots(Now)
    BY <1>1 DEF AdmissionInv, Sound
  <2>2. SlotHolders(Now) = {j \in DOMAIN heap : heap[j].slot}
    BY NowFields DEF SlotHolders
  <2>3. \A t : HoldersOf(SlotHolders(Now), t) = Holders(t)
    BY <2>2 DEF HoldersOf, Holders
  <2> QED
    BY <2>1, <2>2, <2>3, NowFields DEF Slots, SlotsCounted
<1> QED
  BY <1>1, Admission, PTL

LEMMA OnceIn ==
  ASSUME NEW S, NEW q \in Seq(S), Distinct(q), NEW x
  PROVE  Cardinality({i \in DOMAIN q : q[i] = x}) = IF Has(q, x) THEN 1 ELSE 0
<1>1. CASE Has(q, x)
  <2>1. PICK i \in DOMAIN q : q[i] = x
    BY <1>1 DEF Has
  <2>2. {k \in DOMAIN q : q[k] = x} = {i}
    BY <2>1 DEF Distinct
  <2> QED
    BY <2>2, <1>1, FS_Singleton
<1>2. CASE ~Has(q, x)
  <2>1. {k \in DOMAIN q : q[k] = x} = {}
    BY <1>2 DEF Has
  <2> QED
    BY <2>1, <1>2, FS_EmptySet
<1> QED
  BY <1>1, <1>2

(* A run that waits is in the queue of its tenant, once, and no other run   *)
(* is; a tenant has one turn exactly when somebody of it waits.             *)
THEOREM QueuedOnce == Spec => []QueueMatchesJobs
<1>1. ASSUME AdmissionInv
      PROVE  QueueMatchesJobs
  <2>1. Typed(Now) /\ Queues(Now)
    BY <1>1 DEF AdmissionInv, Sound
  <2>2. ASSUME NEW r \in Runs
        PROVE  Cardinality({i \in DOMAIN queue[TenantOf[r]] : queue[TenantOf[r]][i] = r})
                 = IF table[r] # NoJob /\ heap[table[r]].task = "queued" /\ ~heap[table[r]].cancelled
                   THEN 1 ELSE 0
    <3> DEFINE q == queue[TenantOf[r]]
    <3>1. TenantOf[r] \in Tenants
      BY LimitsAssumption
    <3>2. q \in Seq(Runs) /\ Distinct(q) /\ (Has(q, r) <=> Waiting(Now, r))
      BY <3>1, <2>1, NowFields DEF Typed, Queues
    <3>3. Waiting(Now, r) <=>
            (table[r] # NoJob /\ heap[table[r]].task = "queued" /\ ~heap[table[r]].cancelled)
      BY NowFields DEF Waiting
    <3> HIDE DEF q
    <3>4. Cardinality({i \in DOMAIN q : q[i] = r}) = IF Has(q, r) THEN 1 ELSE 0
      BY <3>2, OnceIn
    <3> QED
      BY <3>2, <3>3, <3>4 DEF q
  <2>3. ASSUME NEW t \in Tenants
        PROVE  Cardinality({k \in DOMAIN order : order[k] = t}) = IF queue[t] # <<>> THEN 1 ELSE 0
    <3>1. order \in Seq(Tenants) /\ Distinct(order) /\ (Has(order, t) <=> queue[t] # <<>>)
      BY <2>1, NowFields DEF Typed, Queues
    <3>2. Cardinality({k \in DOMAIN order : order[k] = t}) = IF Has(order, t) THEN 1 ELSE 0
      BY <3>1, OnceIn
    <3> QED
      BY <3>1, <3>2
  <2> QED
    BY <2>2, <2>3 DEF QueueMatchesJobs
<1> QED
  BY <1>1, Admission, PTL

(* Every slot that becomes free is handed on: whatever frees one, nobody    *)
(* who could have it is left waiting, so the dispatch loop never needs a    *)
(* second round to find somebody.                                           *)
THEOREM SlotsHandedOn == Spec => []NobodyWaitsBesideASlot
<1>1. AdmissionInv => NobodyWaitsBesideASlot
  BY NowFields DEF AdmissionInv, Idle, Open, NobodyWaitsBesideASlot
<1> QED
  BY <1>1, Admission, PTL
==============================================================================
