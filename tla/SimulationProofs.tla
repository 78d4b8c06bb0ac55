--------------------------- MODULE SimulationProofs ---------------------------
(***************************************************************************)
(* RuledSimulation for every number of processes and every bound.  First   *)
(* the sequencing set: it stays in order, a statement moves at most one    *)
(* notice, and simulated time does not go back.  Then the two runtimes     *)
(* together: that the transfers keep to the operating chain, so that what  *)
(* SequencingProofs shows of the chain holds here, and that sim.c's record *)
(* of who runs is the one of sequencing.c.  Last, programs whose processes *)
(* queue for their turn keep the rules.                                    *)
(***************************************************************************)
EXTENDS RuledSimulation, SequencingProofs, FiniteSetTheorems, SequenceTheorems,
        WellFoundedInduction, TLAPS

-----------------------------------------------------------------------------
(* Cancelled: the notices of others, in their order.                       *)

Kept(q, p) == {i \in DOMAIN q : q[i].process # p}
Out(q, p, i) == Cardinality({j \in Kept(q, p) : j <= i})

LEMMA CancelledIs ==
  ASSUME NEW q, NEW p
  PROVE  Cancelled(q, p) = [k \in 1..Cardinality(Kept(q, p)) |->
                              q[CHOOSE i \in Kept(q, p) : Out(q, p, i) = k]]
  BY DEF Cancelled, Kept, Out

\* Out counts: it grows by one at each kept place and nowhere else.
LEMMA OutCounts ==
  ASSUME NEW q, q \in Seq(Notice), NEW p
  PROVE  /\ IsFiniteSet(Kept(q, p))
         /\ Cardinality(Kept(q, p)) \in Nat
         /\ Out(q, p, 0) = 0
         /\ Out(q, p, Len(q)) = Cardinality(Kept(q, p))
         /\ \A i \in 0..Len(q) : Out(q, p, i) \in 0..Cardinality(Kept(q, p))
         /\ \A i \in 1..Len(q) :
              Out(q, p, i) = IF i \in Kept(q, p) THEN Out(q, p, i - 1) + 1
                             ELSE Out(q, p, i - 1)
         /\ \A i, j \in 0..Len(q) : i <= j => Out(q, p, i) <= Out(q, p, j)
<1>. DEFINE K == Kept(q, p)
            To(i) == {j \in K : j <= i}
<1>1. Len(q) \in Nat /\ DOMAIN q = 1..Len(q) /\ K \subseteq 1..Len(q)
  BY DEF Kept
<1>2. IsFiniteSet(K) /\ Cardinality(K) \in Nat
  <2>1. IsFiniteSet(1..Len(q))
    BY <1>1, FS_Interval
  <2>2. IsFiniteSet(K)
    BY <1>1, <2>1, FS_Subset, Zenon
  <2>. QED
    BY <2>2, FS_CardinalityType, Zenon
<1>3. \A i : /\ IsFiniteSet(To(i))
             /\ Cardinality(To(i)) \in Nat
             /\ Cardinality(To(i)) <= Cardinality(K)
             /\ Out(q, p, i) = Cardinality(To(i))
  <2>. TAKE i
  <2>1. To(i) \in SUBSET K
    OBVIOUS
  <2>2. IsFiniteSet(To(i)) /\ Cardinality(To(i)) <= Cardinality(K)
    BY <2>1, <1>2, FS_Subset, Zenon
  <2>. QED
    BY <2>2, FS_CardinalityType, Zenon DEF Out
<1>4. Out(q, p, 0) = 0
  <2>1. To(0) = {}
    BY <1>1
  <2>. QED
    BY <2>1, <1>3, FS_EmptySet
<1>5. Out(q, p, Len(q)) = Cardinality(K)
  <2>1. To(Len(q)) = K
    BY <1>1
  <2>. QED
    BY <2>1, <1>3
<1>6. \A i \in 1..Len(q) : Out(q, p, i) = IF i \in K THEN Out(q, p, i - 1) + 1
                                          ELSE Out(q, p, i - 1)
  <2>. TAKE i \in 1..Len(q)
  <2>1. CASE i \in K
    <3>1. To(i) = To(i - 1) \cup {i} /\ i \notin To(i - 1)
      BY <1>1, <2>1
    <3>. HIDE DEF To
    <3>2. Cardinality(To(i - 1) \cup {i}) = Cardinality(To(i - 1)) + 1
      BY <3>1, <1>3, FS_AddElement, Zenon
    <3>. QED
      BY <3>1, <3>2, <2>1, <1>3
  <2>2. CASE i \notin K
    <3>1. To(i) = To(i - 1)
      BY <1>1, <2>2
    <3>. QED
      BY <3>1, <2>2, <1>3
  <2>. QED
    BY <2>1, <2>2
<1>7. \A i, j \in 0..Len(q) : i <= j => Out(q, p, i) <= Out(q, p, j)
  <2>. TAKE i, j \in 0..Len(q)
  <2>. HAVE i <= j
  <2>1. To(i) \in SUBSET To(j)
    BY <1>1
  <2>2. Cardinality(To(i)) <= Cardinality(To(j))
    BY <2>1, <1>3, FS_Subset, Zenon
  <2>. QED
    BY <2>2, <1>3
<1>8. \A i : Out(q, p, i) \in 0..Cardinality(K)
  <2>. HIDE DEF To, K
  <2>. QED
    BY <1>2, <1>3
<1>. QED
  BY <1>2, <1>4, <1>5, <1>6, <1>7, <1>8, Zenon

\* Where the k-th kept notice is.
KthKept(q, p, k) == CHOOSE i \in Kept(q, p) : Out(q, p, i) = k

LEMMA KthKeptIs ==
  ASSUME NEW q \in Seq(Notice), NEW p, NEW k \in 1..Cardinality(Kept(q, p))
  PROVE  KthKept(q, p, k) \in Kept(q, p) /\ Out(q, p, KthKept(q, p, k)) = k
<1>. DEFINE Reached == {i \in Nat : i <= Len(q) /\ Out(q, p, i) >= k}
<1>1. Len(q) \in Nat /\ Len(q) \in Reached
  BY OutCounts
<1>2. PICK i \in Reached : \A j \in Reached : ~(<<j, i>> \in OpToRel(<, Nat))
  BY <1>1, WFMin, NatLessThanWellFounded, Zenon
<1>3. \A j \in Reached : i <= j
  <2>. TAKE j \in Reached
  <2>1. i \in Nat /\ j \in Nat
    OBVIOUS
  <2>2. ~(j < i)
    BY <1>2, <2>1 DEF OpToRel
  <2>. QED
    BY <2>1, <2>2
<1>4. i \in 1..Len(q) /\ i - 1 \in 0..Len(q)
  BY OutCounts
<1>5. Out(q, p, i - 1) < k
  <2>1. i - 1 \notin Reached
    BY <1>3, <1>4
  <2>. QED
    BY <2>1, <1>4, OutCounts
<1>6. Out(q, p, i) >= k
  OBVIOUS
<1>7. i \in Kept(q, p) /\ Out(q, p, i) = k
  BY <1>4, <1>5, <1>6, OutCounts
<1>. QED
  BY <1>7 DEF KthKept

\* What the copying loop leaves: the kept notices, each once, in their order.
LEMMA CancelledFacts ==
  ASSUME NEW q \in Seq(Notice), NEW p
  PROVE  /\ Cancelled(q, p) \in Seq(Notice)
         /\ Len(Cancelled(q, p)) = Cardinality(Kept(q, p))
         /\ Len(Cancelled(q, p)) <= Len(q)
         /\ \A k \in 1..Len(Cancelled(q, p)) :
              /\ KthKept(q, p, k) \in Kept(q, p)
              /\ Cancelled(q, p)[k] = q[KthKept(q, p, k)]
         /\ \A k, m \in 1..Len(Cancelled(q, p)) :
              k < m => KthKept(q, p, k) < KthKept(q, p, m)
         /\ \A i \in Kept(q, p) :
              /\ Out(q, p, i) \in 1..Len(Cancelled(q, p))
              /\ KthKept(q, p, Out(q, p, i)) = i
<1>. DEFINE r == Cancelled(q, p)
            N == Cardinality(Kept(q, p))
<1>1. N \in Nat /\ Kept(q, p) \subseteq 1..Len(q) /\ Len(q) \in Nat
  <2>1. N \in Nat
    BY OutCounts, Zenon
  <2>. QED
    BY <2>1 DEF Kept
<1>2. r = [k \in 1..N |-> q[KthKept(q, p, k)]]
  BY CancelledIs DEF KthKept
<1>3. \A k \in 1..N : KthKept(q, p, k) \in Kept(q, p) /\ Out(q, p, KthKept(q, p, k)) = k
  BY KthKeptIs
<1>4. r \in Seq(Notice) /\ Len(r) = N
  <2>1. \A k \in 1..N : q[KthKept(q, p, k)] \in Notice
    BY <1>1, <1>3
  <2>. QED
    BY <1>1, <1>2, <2>1
<1>5. N <= Len(q)
  <2>1. IsFiniteSet(1..Len(q)) /\ Cardinality(1..Len(q)) = Len(q)
    <3>1. Len(q) \in Int /\ 1 \in Int
      BY <1>1
    <3>2. IsFiniteSet(1..Len(q))
          /\ Cardinality(1..Len(q)) = IF 1 > Len(q) THEN 0 ELSE Len(q) - 1 + 1
      BY <3>1, FS_Interval, Zenon
    <3>. QED
      BY <1>1, <3>2
  <2>. QED
    BY <1>1, <2>1, FS_Subset
<1>6. \A k, m \in 1..N : k < m => KthKept(q, p, k) < KthKept(q, p, m)
  <2>. TAKE k, m \in 1..N
  <2>. HAVE k < m
  <2>1. ~(KthKept(q, p, m) <= KthKept(q, p, k))
    BY <1>1, <1>3, OutCounts
  <2>. QED
    BY <2>1, <1>1, <1>3
<1>7. \A i \in Kept(q, p) : Out(q, p, i) \in 1..N /\ KthKept(q, p, Out(q, p, i)) = i
  <2>. TAKE i \in Kept(q, p)
  <2>1. Out(q, p, i) \in 1..N
    BY <1>1, OutCounts
  <2>. DEFINE m == KthKept(q, p, Out(q, p, i))
  <2>2. m \in 1..Len(q) /\ m \in Kept(q, p) /\ Out(q, p, m) = Out(q, p, i)
    BY <2>1, <1>1, <1>3
  <2>3. ~(m < i)
    <3>. SUFFICES ASSUME m < i PROVE FALSE
      OBVIOUS
    <3>1. Out(q, p, m) <= Out(q, p, i - 1)
      BY <1>1, <2>2, OutCounts
    <3>. QED
      BY <3>1, <1>1, <2>2, OutCounts
  <2>4. ~(i < m)
    <3>. SUFFICES ASSUME i < m PROVE FALSE
      OBVIOUS
    <3>1. Out(q, p, i) <= Out(q, p, m - 1)
      BY <1>1, <2>2, OutCounts
    <3>. QED
      BY <3>1, <1>1, <2>2, OutCounts
  <2>. QED
    BY <1>1, <2>1, <2>2, <2>3, <2>4
<1>. QED
  BY <1>2, <1>3, <1>4, <1>5, <1>6, <1>7

-----------------------------------------------------------------------------
(* A notice is filed in the place found for it.                            *)

\* s is r with n put at place a.
Insertion(s, r, n, a) ==
  /\ s \in Seq(Notice)
  /\ Len(s) = Len(r) + 1
  /\ \A i \in 1..Len(r) + 1 :
       s[i] = IF i < a THEN r[i] ELSE IF i = a THEN n ELSE r[i - 1]

LEMMA InsertAtIs ==
  ASSUME NEW q \in Seq(Notice), NEW n \in Notice, NEW a \in 1..Len(q) + 1
  PROVE  Insertion(InsertAt(q, a, n), q, n, a)
<1>. DEFINE u == SubSeq(q, 1, a - 1)
            v == SubSeq(q, a, Len(q))
<1>1. Len(q) \in Nat /\ \A i \in 1..Len(q) : q[i] \in Notice
  OBVIOUS
<1>2. u \in Seq(Notice) /\ Len(u) = a - 1 /\ \A i \in 1..a - 1 : u[i] = q[i]
  BY <1>1, SubSeqProperties
<1>3. /\ v \in Seq(Notice)
      /\ Len(v) = Len(q) - a + 1
      /\ \A i \in 1..Len(q) - a + 1 : v[i] = q[a + i - 1]
  BY <1>1, SubSeqProperties
<1>4. <<n>> \in Seq(Notice) /\ Len(<<n>>) = 1 /\ <<n>>[1] = n
  OBVIOUS
<1>. HIDE DEF u, v
<1>. DEFINE w == u \o <<n>>
<1>5. /\ w \in Seq(Notice)
      /\ Len(w) = a
      /\ \A i \in 1..a : w[i] = IF i = a THEN n ELSE u[i]
  BY <1>2, <1>4, ConcatProperties
<1>. HIDE DEF w
<1>6. /\ w \o v \in Seq(Notice)
      /\ Len(w \o v) = Len(q) + 1
      /\ \A i \in 1..Len(q) + 1 : (w \o v)[i] = IF i <= a THEN w[i] ELSE v[i - a]
  BY <1>3, <1>5, ConcatProperties
<1>7. InsertAt(q, a, n) = w \o v
  BY DEF InsertAt, u, v, w
<1>8. ASSUME NEW i \in 1..Len(q) + 1
      PROVE  (w \o v)[i] = IF i < a THEN q[i] ELSE IF i = a THEN n ELSE q[i - 1]
  <2>1. CASE i < a
    BY <2>1, <1>2, <1>5, <1>6
  <2>2. CASE i = a
    BY <2>2, <1>5, <1>6
  <2>3. CASE i > a
    <3>1. i - a \in 1..Len(q) - a + 1 /\ a + (i - a) - 1 = i - 1
      BY <1>1, <2>3
    <3>2. v[i - a] = q[a + (i - a) - 1]
      BY <3>1, <1>3
    <3>. QED
      BY <2>3, <3>1, <3>2, <1>6
  <2>. QED
    <3>1. i < a \/ i = a \/ i > a
      BY <1>1
    <3>. QED
      BY <3>1, <2>1, <2>2, <2>3, Zenon
<1>. QED
  BY <1>6, <1>7, <1>8 DEF Insertion

\* The least place with a property, as SelectInSeq finds it.
LEMMA LeastPlace ==
  ASSUME NEW I \in SUBSET Nat, I # {}
  PROVE  Min(I) \in I /\ \A j \in I : Min(I) <= j
<1>1. PICK i \in I : \A j \in I : ~(<<j, i>> \in OpToRel(<, Nat))
  BY WFMin, NatLessThanWellFounded, Zenon
<1>2. \A j \in I : i <= j
  <2>. TAKE j \in I
  <2>1. ~(j < i)
    BY <1>1 DEF OpToRel
  <2>. QED
    BY <2>1
<1>. QED
  BY <1>2 DEF Min

-----------------------------------------------------------------------------
(* Order and the operations on the set.                                    *)

\* In order of time, with one notice of each process.
Ordered(q) ==
  \A i, j \in DOMAIN q :
    i < j => q[i].evtime <= q[j].evtime /\ q[i].process # q[j].process

LEMMA CancelledOrdered ==
  ASSUME NEW q \in Seq(Notice), Ordered(q), NEW p
  PROVE  /\ Ordered(Cancelled(q, p))
         /\ \A k \in DOMAIN Cancelled(q, p) : Cancelled(q, p)[k].process # p
<1>1. Len(q) \in Nat /\ Kept(q, p) \subseteq 1..Len(q) /\ DOMAIN q = 1..Len(q)
  BY DEF Kept
<1>2. DOMAIN Cancelled(q, p) = 1..Len(Cancelled(q, p))
  BY CancelledFacts
<1>. DEFINE r == Cancelled(q, p)
<1>3. \A k \in 1..Len(r) : /\ KthKept(q, p, k) \in 1..Len(q)
                           /\ q[KthKept(q, p, k)].process # p
                           /\ r[k] = q[KthKept(q, p, k)]
  BY <1>1, CancelledFacts DEF Kept
<1>4. \A k, m \in 1..Len(r) : k < m => KthKept(q, p, k) < KthKept(q, p, m)
  BY CancelledFacts
<1>. HIDE DEF r
<1>5. Ordered(r)
  BY <1>1, <1>2, <1>3, <1>4 DEF Ordered, r
<1>. QED
  BY <1>2, <1>3, <1>5 DEF r

\* Where insert_event files a notice: before everything later.
NextAt(q, t, prior) ==
  LET next == SelectInSeq(q, LAMBDA n : IF prior THEN n.evtime >= t
                                        ELSE n.evtime > t)
  IN IF next = 0 THEN Len(q) + 1 ELSE next

LEMMA NextAtFacts ==
  ASSUME NEW q \in Seq(Notice), NEW t \in 0..MaxTime, NEW prior \in BOOLEAN
  PROVE  /\ NextAt(q, t, prior) \in 1..Len(q) + 1
         /\ \A i \in 1..Len(q) : i < NextAt(q, t, prior) =>
              q[i].evtime <= t /\ (prior => q[i].evtime < t)
         /\ NextAt(q, t, prior) <= Len(q) =>
              /\ q[NextAt(q, t, prior)].evtime >= t
              /\ ~prior => q[NextAt(q, t, prior)].evtime > t
<1>. DEFINE I == {i \in 1..Len(q) : IF prior THEN q[i].evtime >= t
                                    ELSE q[i].evtime > t}
<1>1. NextAt(q, t, prior) = IF I # {} THEN IF Min(I) = 0 THEN Len(q) + 1 ELSE Min(I)
                            ELSE Len(q) + 1
  BY DEF NextAt, SelectInSeq
<1>2. Len(q) \in Nat /\ MaxTime \in Nat /\ \A i \in 1..Len(q) : q[i].evtime \in 0..MaxTime
  <2>1. \A i \in 1..Len(q) : q[i] \in Notice
    OBVIOUS
  <2>2. MaxTime \in Nat
    BY SimulationAssumption
  <2>. QED
    BY <2>1, <2>2 DEF Notice
<1>3. CASE I = {}
  BY <1>1, <1>2, <1>3
<1>4. CASE I # {}
  <2>1. Min(I) \in I /\ \A j \in I : Min(I) <= j
    <3>1. I \in SUBSET Nat
      OBVIOUS
    <3>. HIDE DEF I
    <3>. QED
      BY <3>1, <1>4, LeastPlace, Zenon
  <2>2. NextAt(q, t, prior) = Min(I)
    BY <1>1, <1>4, <2>1
  <2>3. \A i \in 1..Len(q) : i < NextAt(q, t, prior) => i \notin I
    <3>1. \A i \in 1..Len(q) : i < Min(I) => ~(Min(I) <= i)
      BY <1>2, <2>1
    <3>. QED
      BY <2>1, <2>2, <3>1
  <2>4. NextAt(q, t, prior) \in I
    BY <2>1, <2>2
  <2>. HIDE DEF I
  <2>5. NextAt(q, t, prior) \in 1..Len(q) + 1
    BY <1>2, <2>4 DEF I
  <2>. QED
    BY <1>2, <2>3, <2>4, <2>5 DEF I
<1>. QED
  BY <1>3, <1>4

LEMMA InsertEventIs ==
  ASSUME NEW q, NEW t, NEW p, NEW prior
  PROVE  InsertEvent(q, t, p, prior) =
           InsertAt(Cancelled(q, p), NextAt(Cancelled(q, p), t, prior), NoticeOf(t, p))
  BY DEF InsertEvent, NextAt

\* A notice of a new process between the earlier and the later ones.
LEMMA OrderedInsert ==
  ASSUME NEW r \in Seq(Notice), Ordered(r), NEW n \in Notice,
         NEW a \in 1..Len(r) + 1, NEW s, Insertion(s, r, n, a),
         \A i \in 1..Len(r) : r[i].process # n.process,
         \A i \in 1..Len(r) : i < a => r[i].evtime <= n.evtime,
         a <= Len(r) => n.evtime <= r[a].evtime
  PROVE  Ordered(s)
<1>. USE DEF Insertion
<1>1. /\ Len(r) \in Nat /\ n.evtime \in Int
      /\ \A i \in 1..Len(r) : r[i].evtime \in Int
  <2>1. \A i \in 1..Len(r) : r[i] \in Notice
    OBVIOUS
  <2>. QED
    BY <2>1, SimulationAssumption DEF Notice
<1>2. \A i, j \in 1..Len(r) :
        i < j => r[i].evtime <= r[j].evtime /\ r[i].process # r[j].process
  BY DEF Ordered
<1>3. \A i \in 1..Len(r) : a <= i => n.evtime <= r[i].evtime
  <2>. TAKE i \in 1..Len(r)
  <2>. HAVE a <= i
  <2>1. a \in 1..Len(r) /\ n.evtime <= r[a].evtime
    BY <1>1
  <2>2. r[a].evtime <= r[i].evtime
    BY <1>1, <1>2, <2>1
  <2>. QED
    BY <1>1, <2>1, <2>2
<1>4. SUFFICES ASSUME NEW i \in 1..Len(r) + 1, NEW j \in 1..Len(r) + 1, i < j
               PROVE  s[i].evtime <= s[j].evtime /\ s[i].process # s[j].process
  BY DEF Ordered
<1>5. CASE j < a
  BY <1>1, <1>2, <1>4, <1>5
<1>6. CASE j = a
  BY <1>1, <1>2, <1>4, <1>6
<1>7. CASE i < a /\ a < j
  <2>1. j - 1 \in 1..Len(r) /\ i \in 1..Len(r) /\ i < j - 1
    BY <1>1, <1>4, <1>7
  <2>2. s[i] = r[i] /\ s[j] = r[j - 1]
    BY <1>1, <1>7
  <2>. QED
    BY <1>2, <2>1, <2>2
<1>8. CASE i = a
  <2>1. j - 1 \in 1..Len(r) /\ a <= j - 1
    BY <1>1, <1>4, <1>8
  <2>2. s[i] = n /\ s[j] = r[j - 1]
    BY <1>1, <1>4, <1>8
  <2>. QED
    BY <1>3, <2>1, <2>2
<1>9. CASE a < i
  <2>1. i - 1 \in 1..Len(r) /\ j - 1 \in 1..Len(r) /\ i - 1 < j - 1
    BY <1>1, <1>4, <1>9
  <2>2. s[i] = r[i - 1] /\ s[j] = r[j - 1]
    BY <1>1, <1>4, <1>9
  <2>. QED
    BY <1>2, <2>1, <2>2
<1>. QED
  BY <1>1, <1>4, <1>5, <1>6, <1>7, <1>8, <1>9

\* s is q with p's notice, if any, replaced by one for time t.
Filed(q, s, t, p) ==
  \E n \in Notice, a \in 1..Len(Cancelled(q, p)) + 1 :
    /\ n.process = p
    /\ n.evtime = t
    /\ s = InsertAt(Cancelled(q, p), a, n)

\* A filed notice keeps the set in order.
LEMMA InsertEventOrdered ==
  ASSUME NEW q \in Seq(Notice), Ordered(q), NEW t \in 0..MaxTime,
         NEW p \in Object \cup {SimMain}, NEW prior \in BOOLEAN
  PROVE  /\ InsertEvent(q, t, p, prior) \in Seq(Notice)
         /\ Len(InsertEvent(q, t, p, prior)) = Len(Cancelled(q, p)) + 1
         /\ Ordered(InsertEvent(q, t, p, prior))
         /\ Filed(q, InsertEvent(q, t, p, prior), t, p)
<1>. DEFINE r == Cancelled(q, p)
            a == NextAt(r, t, prior)
            s == InsertEvent(q, t, p, prior)
            n == NoticeOf(t, p)
<1>1. r \in Seq(Notice) /\ Ordered(r) /\ \A k \in 1..Len(r) : r[k].process # p
  <2>1. r \in Seq(Notice)
    BY CancelledFacts
  <2>2. Ordered(r) /\ \A k \in DOMAIN r : r[k].process # p
    BY CancelledOrdered
  <2>. QED
    BY <2>1, <2>2
<1>. HIDE DEF r
<1>2. /\ a \in 1..Len(r) + 1
      /\ \A i \in 1..Len(r) : i < a => r[i].evtime <= t
      /\ a <= Len(r) => r[a].evtime >= t
  BY <1>1, NextAtFacts
<1>3. n \in Notice /\ n.evtime = t /\ n.process = p
  BY DEF Notice, NoticeOf
<1>4. s = InsertAt(r, a, n)
  BY InsertEventIs DEF r
<1>5. Insertion(s, r, n, a)
  <2>. HIDE DEF s, a, n
  <2>. QED
    BY <1>1, <1>2, <1>3, <1>4, InsertAtIs, Zenon
<1>. HIDE DEF s, a, n
<1>6. Ordered(s)
  BY <1>1, <1>2, <1>3, <1>5, OrderedInsert
<1>7. Filed(q, s, t, p)
  BY <1>2, <1>3, <1>4, Zenon DEF Filed, r
<1>. QED
  BY <1>5, <1>6, <1>7 DEF s, r, Insertion

LEMMA InsertBesideOrdered ==
  ASSUME NEW q \in Seq(Notice), Ordered(q), NEW p \in Object \cup {SimMain},
         NEW other, other # p, NEW o \in 1..Len(q), q[o].process = other,
         NEW before \in BOOLEAN
  PROVE  /\ InsertBeside(q, p, other, before) \in Seq(Notice)
         /\ Len(InsertBeside(q, p, other, before)) = Len(Cancelled(q, p)) + 1
         /\ Ordered(InsertBeside(q, p, other, before))
         /\ \E y \in 1..Len(Cancelled(q, p)) :
              Filed(q, InsertBeside(q, p, other, before),
                    Cancelled(q, p)[y].evtime, p)
<1>. DEFINE r == Cancelled(q, p)
            I == {i \in 1..Len(r) : r[i].process = other}
            y == SelectInSeq(r, LAMBDA m : m.process = other)
            n == NoticeOf(r[y].evtime, p)
            ties == {i \in y..Len(r) : r[i].evtime = r[y].evtime}
            a == CASE before -> y
                   [] ~before /\ p = SimMain -> y + Cardinality(ties)
                   [] OTHER -> y + 1
            s == InsertBeside(q, p, other, before)
<1>1. r \in Seq(Notice) /\ Ordered(r) /\ \A k \in 1..Len(r) : r[k].process # p
  <2>1. r \in Seq(Notice)
    BY CancelledFacts
  <2>2. Ordered(r) /\ \A k \in DOMAIN r : r[k].process # p
    BY CancelledOrdered
  <2>. QED
    BY <2>1, <2>2
<1>2. I # {}
  <2>1. o \in Kept(q, p)
    BY DEF Kept
  <2>2. /\ Out(q, p, o) \in 1..Len(r)
        /\ r[Out(q, p, o)] = q[KthKept(q, p, Out(q, p, o))]
        /\ KthKept(q, p, Out(q, p, o)) = o
    BY <2>1, CancelledFacts
  <2>. QED
    BY <2>2
<1>3. s = InsertAt(r, a, n)
  BY DEF InsertBeside
<1>4. y = Min(I)
  BY <1>2 DEF SelectInSeq
<1>. HIDE DEF r
<1>5. y \in I
  <2>1. I \in SUBSET Nat
    OBVIOUS
  <2>. HIDE DEF I
  <2>. QED
    BY <2>1, <1>2, <1>4, LeastPlace, Zenon
<1>. HIDE DEF y
<1>6. /\ Len(r) \in Nat /\ y \in 1..Len(r)
      /\ \A i \in 1..Len(r) : r[i].evtime \in 0..MaxTime
      /\ 0..MaxTime \subseteq Int
  <2>1. \A i \in 1..Len(r) : r[i] \in Notice
    BY <1>1
  <2>2. MaxTime \in Nat
    BY SimulationAssumption
  <2>. QED
    BY <2>1, <2>2, <1>5, <1>1 DEF Notice
<1>7. \A i, j \in 1..Len(r) : i <= j => r[i].evtime <= r[j].evtime
  <2>. TAKE i, j \in 1..Len(r)
  <2>1. CASE i = j
    BY <2>1, <1>6
  <2>2. CASE i < j
    BY <2>2, <1>1 DEF Ordered
  <2>. QED
    BY <2>1, <2>2, <1>6
<1>8. n \in Notice /\ n.evtime = r[y].evtime /\ n.process = p
  BY <1>6 DEF NoticeOf, Notice
<1>9. PICK e \in y..Len(r) + 1 :
        /\ ties = y..e - 1
        /\ e = y + Cardinality(ties)
  <2>. DEFINE E == {i \in y..Len(r) + 1 : i = Len(r) + 1 \/ r[i].evtime # r[y].evtime}
              e == Min(E)
  <2>1. E \in SUBSET Nat /\ Len(r) + 1 \in E
    BY <1>6
  <2>2. e \in E /\ \A j \in E : e <= j
    <3>. HIDE DEF E
    <3>. QED
      BY <2>1, LeastPlace, Zenon
  <2>. HIDE DEF e
  <2>3. e \in y..Len(r) + 1 /\ (e <= Len(r) => r[e].evtime # r[y].evtime)
    BY <2>2, <1>6
  <2>4. \A i \in y..Len(r) : i < e => r[i].evtime = r[y].evtime
    <3>. TAKE i \in y..Len(r)
    <3>. HAVE i < e
    <3>1. i \notin E
      <4>. HIDE DEF E
      <4>. QED
        BY <2>2, <2>3, <1>6
    <3>. QED
      BY <3>1, <1>6
  <2>5. \A i \in y..Len(r) : e <= i => r[i].evtime # r[y].evtime
    <3>. TAKE i \in y..Len(r)
    <3>. HAVE e <= i
    <3>1. e \in 1..Len(r) /\ i \in 1..Len(r) /\ y <= e
      BY <2>3, <1>6
    <3>2. r[y].evtime <= r[e].evtime /\ r[e].evtime <= r[i].evtime
      BY <3>1, <1>6, <1>7
    <3>. QED
      BY <3>1, <3>2, <2>3, <1>6
  <2>6. ties = y..e - 1
    BY <2>3, <2>4, <2>5, <1>6
  <2>7. Cardinality(y..e - 1) = e - y
    <3>1. y \in Int /\ e - 1 \in Int
      BY <1>6, <2>3
    <3>2. Cardinality(y..e - 1) = IF y > e - 1 THEN 0 ELSE e - 1 - y + 1
      BY <3>1, FS_Interval, Zenon
    <3>. QED
      BY <3>2, <1>6, <2>3
  <2>8. e = y + Cardinality(ties)
    <3>. HIDE DEF ties
    <3>. QED
      BY <2>6, <2>7, <2>3, <1>6
  <2>. QED
    BY <2>3, <2>6, <2>8
<1>10. /\ a \in 1..Len(r) + 1
       /\ \A i \in 1..Len(r) : i < a => r[i].evtime <= n.evtime
       /\ a <= Len(r) => n.evtime <= r[a].evtime
  <2>1. a \in {y, e, y + 1}
    BY <1>9
  <2>2. \A i \in 1..Len(r) : i < e => r[i].evtime <= r[y].evtime
    <3>. TAKE i \in 1..Len(r)
    <3>. HAVE i < e
    <3>1. CASE i <= y
      BY <3>1, <1>6, <1>7
    <3>2. CASE i > y
      <4>1. i \in ties
        <5>. HIDE DEF ties
        <5>. QED
          BY <3>2, <1>6, <1>9
      <4>. QED
        BY <4>1, <1>6
    <3>. QED
      BY <3>1, <3>2, <1>6
  <2>. HIDE DEF a, n
  <2>3. CASE a = y
    BY <2>3, <1>6, <1>7, <1>8
  <2>4. CASE a = e
    BY <2>2, <2>4, <1>6, <1>7, <1>8
  <2>5. CASE a = y + 1
    BY <2>5, <1>6, <1>7, <1>8
  <2>. QED
    BY <2>1, <2>3, <2>4, <2>5
<1>. HIDE DEF a, n, s
<1>11. Insertion(s, r, n, a)
  BY <1>1, <1>3, <1>8, <1>10, InsertAtIs, Zenon
<1>12. Ordered(s)
  BY <1>1, <1>8, <1>10, <1>11, OrderedInsert
<1>13. Filed(q, s, r[y].evtime, p)
  BY <1>3, <1>8, <1>10, Zenon DEF Filed, r
<1>. QED
  BY <1>6, <1>11, <1>12, <1>13 DEF s, r, Insertion

-----------------------------------------------------------------------------
(* What a step leaves of the notices of others.                            *)

LEMMA CancelledNone ==
  ASSUME NEW q \in Seq(Notice), NEW p, \A i \in 1..Len(q) : q[i].process # p
  PROVE  Cancelled(q, p) = q
<1>. DEFINE r == Cancelled(q, p)
<1>1. Len(q) \in Nat /\ Kept(q, p) = 1..Len(q)
  BY DEF Kept
<1>2. Cardinality(Kept(q, p)) = Len(q)
  <2>1. Len(q) \in Int /\ 1 \in Int
    BY <1>1
  <2>2. Cardinality(1..Len(q)) = IF 1 > Len(q) THEN 0 ELSE Len(q) - 1 + 1
    BY <2>1, FS_Interval, Zenon
  <2>. QED
    BY <1>1, <2>2
<1>3. \A i \in 1..Len(q) : Out(q, p, i) = i
  <2>. TAKE i \in 1..Len(q)
  <2>1. {j \in Kept(q, p) : j <= i} = 1..i
    BY <1>1
  <2>2. Cardinality(1..i) = IF 1 > i THEN 0 ELSE i - 1 + 1
    BY FS_Interval
  <2>. QED
    <3>1. Cardinality(1..i) = i
      BY <1>1, <2>2
    <3>. QED
      BY <2>1, <3>1, Zenon DEF Out
<1>4. r \in Seq(Notice) /\ Len(r) = Len(q)
  BY <1>2, CancelledFacts
<1>5. \A k \in 1..Len(q) : r[k] = q[k]
  <2>. TAKE k \in 1..Len(q)
  <2>1. KthKept(q, p, k) \in Kept(q, p) /\ Out(q, p, KthKept(q, p, k)) = k
    BY <1>2, KthKeptIs
  <2>2. KthKept(q, p, k) = k
    BY <2>1, <1>1, <1>3
  <2>. QED
    BY <2>2, <1>4, CancelledFacts
<1>. HIDE DEF r
<1>. QED
  BY <1>4, <1>5 DEF r

LEMMA CancelledFiled ==
  ASSUME NEW r \in Seq(Notice), NEW n \in Notice, NEW a \in 1..Len(r) + 1,
         \A i \in 1..Len(r) : r[i].process # n.process
  PROVE  Cancelled(InsertAt(r, a, n), n.process) = r
<1>. DEFINE s == InsertAt(r, a, n)
            p == n.process
            u == Cancelled(s, p)
<1>1. Insertion(s, r, n, a)
  BY InsertAtIs, Zenon
<1>. USE DEF Insertion
<1>. HIDE DEF s
<1>2. Len(r) \in Nat
  OBVIOUS
<1>3. Kept(s, p) = (1..Len(r) + 1) \ {a}
  <2>1. \A i \in 1..Len(r) + 1 : s[i].process # p <=> i # a
    <3>. TAKE i \in 1..Len(r) + 1
    <3>1. CASE i < a
      BY <3>1, <1>1, <1>2
    <3>2. CASE i = a
      BY <3>2, <1>1, <1>2
    <3>3. CASE i > a
      <4>1. i - 1 \in 1..Len(r) /\ s[i] = r[i - 1]
        BY <3>3, <1>1, <1>2
      <4>. QED
        BY <3>3, <4>1
    <3>. QED
      BY <3>1, <3>2, <3>3, <1>2
  <2>. QED
    BY <2>1, <1>1, <1>2 DEF Kept
<1>4. \A i \in 1..Len(r) + 1 :
        /\ IsFiniteSet(1..i) /\ Cardinality(1..i) = i
        /\ Cardinality((1..i) \ {a}) = IF a <= i THEN i - 1 ELSE i
  <2>. TAKE i \in 1..Len(r) + 1
  <2>1. IsFiniteSet(1..i) /\ Cardinality(1..i) = i
    BY FS_Interval
  <2>2. Cardinality((1..i) \ {a}) = IF a \in 1..i THEN Cardinality(1..i) - 1
                                    ELSE Cardinality(1..i)
    BY <2>1, FS_RemoveElement, Zenon
  <2>. QED
    BY <2>1, <2>2, <1>2
<1>5. Cardinality(Kept(s, p)) = Len(r)
  BY <1>2, <1>3, <1>4
<1>6. \A i \in 1..Len(r) + 1 : Out(s, p, i) = IF a <= i THEN i - 1 ELSE i
  <2>. TAKE i \in 1..Len(r) + 1
  <2>1. {j \in Kept(s, p) : j <= i} = (1..i) \ {a}
    BY <1>2, <1>3
  <2>. QED
    BY <2>1, <1>4 DEF Out
<1>7. u \in Seq(Notice) /\ Len(u) = Len(r)
  BY <1>1, <1>5, CancelledFacts
<1>8. \A k \in 1..Len(r) : u[k] = r[k]
  <2>. TAKE k \in 1..Len(r)
  <2>1. KthKept(s, p, k) \in Kept(s, p) /\ Out(s, p, KthKept(s, p, k)) = k
    BY <1>1, <1>5, KthKeptIs
  <2>2. KthKept(s, p, k) = IF k < a THEN k ELSE k + 1
    BY <2>1, <1>2, <1>3, <1>6
  <2>3. u[k] = s[KthKept(s, p, k)]
    BY <1>1, <1>7, CancelledFacts
  <2>. QED
    BY <2>2, <2>3, <1>1, <1>2
<1>. HIDE DEF u
<1>. QED
  BY <1>7, <1>8 DEF u, s

\* Of all notices, filing one moves that of its process alone.
LEMMA FiledMovesOne ==
  ASSUME NEW q \in Seq(Notice), Ordered(q), NEW p, NEW s, NEW t, Filed(q, s, t, p)
  PROVE  Cancelled(s, p) = Cancelled(q, p)
<1>1. Cancelled(q, p) \in Seq(Notice)
  BY CancelledFacts
<1>2. \A i \in 1..Len(Cancelled(q, p)) : Cancelled(q, p)[i].process # p
  BY <1>1, CancelledOrdered
<1>. QED
  BY <1>1, <1>2, CancelledFiled DEF Filed

-----------------------------------------------------------------------------
(* The steps of a program under the rules.                                 *)

SqsInv == sqs \in Seq(Notice) /\ Len(sqs) <= MaxNotices /\ SqsOrdered

\* What a step makes of the sequencing set.
SetStep ==
  \/ UNCHANGED <<active, sqs>>
  \/ ~active /\ sqs' = <<NoticeOf(0, SimMain)>>
  \/ ~active' /\ sqs' = <<>>
  \/ \E p \in Object \cup {SimMain} :
       \/ sqs' = Cancelled(sqs, p)
       \/ /\ ~Full(p)
          /\ \/ \E t \in 0..MaxTime, prior \in BOOLEAN :
                  /\ Time(sqs) <= t
                  /\ sqs' = InsertEvent(sqs, t, p, prior)
             \/ /\ FirstOf(sqs) # p
                /\ sqs' = InsertEvent(Cancelled(sqs, p),
                                      Time(Cancelled(sqs, p)), p, TRUE)
             \/ \E other \in Named, before \in BOOLEAN :
                  /\ other # p
                  /\ IsScheduled(other)
                  /\ sqs' = InsertBeside(sqs, p, other, before)

LEMMA TimeType ==
  ASSUME NEW q \in Seq(Notice)
  PROVE  Time(q) \in 0..MaxTime
<1>1. MaxTime \in Nat
  BY SimulationAssumption
<1>2. CASE q = <<>>
  BY <1>1, <1>2 DEF Time
<1>3. CASE q # <<>>
  <2>1. q[1] \in Notice
    BY <1>3
  <2>. QED
    BY <2>1, <1>3 DEF Time, Notice
<1>. QED
  BY <1>2, <1>3

LEMMA Filing ==
  ASSUME NEW p \in Object \cup {SimMain}, ~Full(p), NEW t \in 0..MaxTime,
         Time(sqs) <= t, NEW prior \in BOOLEAN,
         sqs' = InsertEvent(sqs, t, p, prior)
  PROVE  SetStep
  BY Zenon DEF SetStep

LEMMA StepsOfSet ==
  ASSUME sqs \in Seq(Notice), [RuledNext]_allVars
  PROVE  SetStep
<1>. USE SimulationAssumption, TimeType DEF simVars
<1>1. MaxTime \in Nat /\ Time(sqs) \in 0..MaxTime /\ Named \subseteq Object \cup {SimMain}
  BY DEF Named
<1>2. CASE UNCHANGED allVars
  BY <1>2 DEF SetStep, allVars
<1>3. ASSUME NEW s \in SimBlock, SimEnter(s) PROVE SetStep
  BY <1>3 DEF SimEnter, SetStep
<1>4. CASE FinishMain
  BY <1>4 DEF FinishMain, SetStep
<1>5. ASSUME NEW x \in Process, NEW d, NewProcess(x, d) PROVE SetStep
  BY <1>5 DEF NewProcess, SetStep
<1>6. ASSUME NEW x \in Process, TerminateCurrent(x) PROVE SetStep
  BY <1>6 DEF TerminateCurrent, SetStep
<1>7. CASE SimEnd
  BY <1>7 DEF SimEnd, SetStep
<1>8. ASSUME NEW p \in Named \cup {None}, ActivateDirect(p) PROVE SetStep
  <2>1. CASE Reorder(sqs)
    BY <2>1 DEF Reorder, SetStep
  <2>2. CASE p \in Named /\ ~Full(p) /\ Reorder(InsertEvent(sqs, Time(sqs), p, TRUE))
    <3>1. sqs' = InsertEvent(sqs, Time(sqs), p, TRUE) /\ p \in Object \cup {SimMain}
      BY <1>1, <2>2 DEF Reorder
    <3>2. Time(sqs) <= Time(sqs)
      BY <1>1
    <3>. QED
      BY <1>1, <2>2, <3>1, <3>2, Filing, Zenon
  <2>3. CASE Overflow
    BY <2>3 DEF Overflow, SetStep
  <2>. QED
    BY <1>8, <2>1, <2>2, <2>3, Zenon DEF ActivateDirect
<1>9. ASSUME NEW p \in Named, NEW t \in Timing, NEW mode \in {"delay", "at"},
             NEW prior \in BOOLEAN, NEW reac \in BOOLEAN,
             ActivateTimed(p, t, mode, prior, reac)
      PROVE  SetStep
  <2>. DEFINE at == IF mode = "delay" THEN Time(sqs) + Larger(t, 0)
                    ELSE Larger(t, Time(sqs))
  <2>1. at \in Int /\ Time(sqs) <= at /\ 0 <= at
    BY <1>1 DEF Larger
  <2>. HIDE DEF at
  <2>2. at <= MaxTime
    BY <1>9 DEF ActivateTimed, at
  <2>3. \/ UNCHANGED simVars
        \/ UNCHANGED <<active, sqs>>
        \/ ~Full(p) /\ sqs' = InsertEvent(sqs, at, p, prior)
    BY <1>9, Zenon DEF ActivateTimed, Refile, Overflow, at
  <2>4. at \in 0..MaxTime /\ p \in Object \cup {SimMain}
    BY <1>1, <2>1, <2>2
  <2>5. UNCHANGED <<active, sqs>> => SetStep
    BY DEF SetStep
  <2>6. UNCHANGED simVars => UNCHANGED <<active, sqs>>
    OBVIOUS
  <2>. QED
    BY <2>1, <2>3, <2>4, <2>5, <2>6, Filing, Zenon
<1>10. ASSUME NEW p \in Named, NEW other \in Named, NEW before \in BOOLEAN,
              ActivateRelative(p, other, before)
       PROVE  SetStep
  BY <1>1, <1>10 DEF ActivateRelative, Refile, Overflow, SetStep
<1>11. ASSUME NEW p \in Named, FirstOf(sqs) # p, ReactivateDirect(p)
       PROVE  SetStep
  BY <1>1, <1>11 DEF ReactivateDirect, Reorder, Overflow, SetStep
<1>12. ASSUME NEW p \in Named, Cancel(p) PROVE SetStep
  BY <1>1, <1>12 DEF Cancel, Refile, SetStep
<1>13. ASSUME NEW p \in Object \cup {SimMain}, Passivate(p) PROVE SetStep
  BY <1>13 DEF Passivate, Reorder, SetStep
<1>14. ASSUME NEW p \in Object \cup {SimMain}, NEW dt \in Timing, Hold(p, dt)
       PROVE  SetStep
  <2>. DEFINE t == Time(sqs) + Larger(dt, 0)
  <2>1. t \in Int /\ Time(sqs) <= t /\ 0 <= t
    BY <1>1 DEF Larger
  <2>. HIDE DEF t
  <2>2. t <= MaxTime
    BY <1>14 DEF Hold, t
  <2>3. UNCHANGED simVars \/ (~Full(p) /\ sqs' = InsertEvent(sqs, t, p, FALSE))
    <3>1. CASE Full(p)
      BY <1>14, <3>1 DEF Hold, Reorder, Overflow
    <3>2. CASE ~Full(p)
      BY <1>14, <3>2 DEF Hold, Reorder, t
    <3>. QED
      BY <3>1, <3>2
  <2>4. t \in 0..MaxTime
    BY <1>1, <2>1, <2>2
  <2>5. UNCHANGED simVars => SetStep
    BY DEF SetStep
  <2>. QED
    BY <2>1, <2>3, <2>4, <2>5, Filing, Zenon
<1>15. CASE UNCHANGED simVars
  BY <1>15 DEF SetStep
<1>. QED
  BY <1>2, <1>3, <1>4, <1>5, <1>6, <1>7, <1>8, <1>9, <1>10, <1>11, <1>12,
     <1>13, <1>14, <1>15
  DEF RuledNext, Ruled, RuledActivation, RuledReactivation, Cancellation,
      Suspension, NoSimulation

\* From an ordered set each of these makes an ordered set that fits.
LEMMA SqsStep ==
  ASSUME SqsInv, SetStep
  PROVE  SqsInv'
<1>. USE SimulationAssumption
<1>1. sqs \in Seq(Notice) /\ Ordered(sqs) /\ MaxTime \in Nat /\ MaxNotices \in Nat
  BY DEF SqsInv, SqsOrdered, Ordered
<1>2. ASSUME NEW s \in Seq(Notice), Ordered(s), Len(s) <= MaxNotices, sqs' = s
      PROVE  SqsInv'
  BY <1>2 DEF SqsInv, SqsOrdered, Ordered
<1>3. CASE UNCHANGED <<active, sqs>>
  BY <1>1, <1>2, <1>3 DEF SqsInv
<1>4. CASE sqs' = <<NoticeOf(0, SimMain)>>
  <2>1. NoticeOf(0, SimMain) \in Notice
    BY <1>1 DEF NoticeOf, Notice
  <2>. DEFINE n == NoticeOf(0, SimMain)
  <2>. HIDE DEF n
  <2>2. <<n>> \in Seq(Notice) /\ Len(<<n>>) = 1 /\ Ordered(<<n>>)
    BY <2>1 DEF Ordered, n
  <2>. QED
    <3>1. 1 <= MaxNotices
      BY DEF n
    <3>2. Len(<<n>>) <= MaxNotices /\ sqs' = <<n>>
      BY <1>4, <2>2, <3>1 DEF n
    <3>. QED
      BY <1>2, <2>2, <3>2, Zenon
<1>5. CASE sqs' = <<>>
  <2>1. <<>> \in Seq(Notice) /\ Len(<<>>) <= MaxNotices
    BY <1>1
  <2>2. Ordered(<<>>)
    BY DEF Ordered
  <2>. QED
    BY <1>2, <1>5, <2>1, <2>2, Zenon
<1>6. ASSUME NEW p, sqs' = Cancelled(sqs, p) PROVE SqsInv'
  <2>1. /\ Cancelled(sqs, p) \in Seq(Notice)
        /\ Ordered(Cancelled(sqs, p))
        /\ Len(Cancelled(sqs, p)) <= Len(sqs)
    BY <1>1, CancelledFacts, CancelledOrdered
  <2>. QED
    BY <1>1, <1>2, <1>6, <2>1 DEF SqsInv
<1>7. ASSUME NEW p \in Object \cup {SimMain}, ~Full(p), NEW t \in 0..MaxTime,
             NEW prior \in BOOLEAN, sqs' = InsertEvent(sqs, t, p, prior)
      PROVE  SqsInv'
  <2>1. Len(Cancelled(sqs, p)) \in Nat
    BY <1>1, CancelledFacts
  <2>2. Len(Cancelled(sqs, p)) + 1 <= MaxNotices
    BY <1>1, <1>7, <2>1 DEF Full
  <2>. QED
    BY <1>1, <1>2, <1>7, <2>2, InsertEventOrdered
<1>8. ASSUME NEW p \in Object \cup {SimMain}, ~Full(p),
             sqs' = InsertEvent(Cancelled(sqs, p), Time(Cancelled(sqs, p)), p, TRUE)
      PROVE  SqsInv'
  <2>. DEFINE r == Cancelled(sqs, p)
  <2>1. r \in Seq(Notice) /\ Ordered(r) /\ Cancelled(r, p) = r /\ Len(r) \in Nat
    <3>1. r \in Seq(Notice)
      BY <1>1, CancelledFacts
    <3>. QED
      BY <1>1, <3>1, CancelledOrdered, CancelledNone
  <2>2. Len(r) + 1 <= MaxNotices
    BY <1>1, <1>8, <2>1 DEF Full
  <2>. HIDE DEF r
  <2>3. Time(r) \in 0..MaxTime
    BY <2>1, TimeType
  <2>4. sqs' = InsertEvent(r, Time(r), p, TRUE)
    BY <1>8 DEF r
  <2>. QED
    BY <1>2, <2>1, <2>2, <2>3, <2>4, InsertEventOrdered
<1>9. ASSUME NEW p \in Object \cup {SimMain}, ~Full(p), NEW other, other # p,
             IsScheduled(other), NEW before \in BOOLEAN,
             sqs' = InsertBeside(sqs, p, other, before)
      PROVE  SqsInv'
  <2>1. Len(Cancelled(sqs, p)) \in Nat
    BY <1>1, CancelledFacts
  <2>2. Len(Cancelled(sqs, p)) + 1 <= MaxNotices
    BY <1>1, <1>9, <2>1 DEF Full
  <2>3. PICK o \in 1..Len(sqs) : sqs[o].process = other
    BY <1>1, <1>9 DEF IsScheduled
  <2>. QED
    BY <1>1, <1>2, <1>9, <2>2, <2>3, InsertBesideOrdered
<1>. QED
  BY <1>3, <1>4, <1>5, <1>6, <1>7, <1>8, <1>9, Zenon DEF SetStep

\* Only one process's notice differs, unless the block is entered or left.
LEMMA OneMoves ==
  ASSUME SqsInv, SetStep, active, active'
  PROVE  OneNoticeMoves
<1>1. sqs \in Seq(Notice) /\ Ordered(sqs)
  BY DEF SqsInv, SqsOrdered, Ordered
<1>2. ASSUME NEW p \in Object \cup {SimMain}, Cancelled(sqs', p) = Cancelled(sqs, p)
      PROVE  OneNoticeMoves
  BY <1>2 DEF OneNoticeMoves
<1>3. ASSUME NEW p PROVE Cancelled(Cancelled(sqs, p), p) = Cancelled(sqs, p)
  <2>1. Cancelled(sqs, p) \in Seq(Notice)
    BY <1>1, CancelledFacts
  <2>. QED
    BY <1>1, <2>1, CancelledOrdered, CancelledNone
<1>4. CASE UNCHANGED <<active, sqs>>
  BY <1>2, <1>4
<1>5. ASSUME NEW p \in Object \cup {SimMain}, sqs' = Cancelled(sqs, p)
      PROVE  OneNoticeMoves
  BY <1>2, <1>3, <1>5
<1>6. ASSUME NEW p \in Object \cup {SimMain}, NEW t \in 0..MaxTime,
             NEW prior \in BOOLEAN, sqs' = InsertEvent(sqs, t, p, prior)
      PROVE  OneNoticeMoves
  BY <1>1, <1>2, <1>6, InsertEventOrdered, FiledMovesOne
<1>7. ASSUME NEW p \in Object \cup {SimMain},
             sqs' = InsertEvent(Cancelled(sqs, p), Time(Cancelled(sqs, p)), p, TRUE)
      PROVE  OneNoticeMoves
  <2>. DEFINE r == Cancelled(sqs, p)
  <2>1. r \in Seq(Notice) /\ Ordered(r) /\ Time(r) \in 0..MaxTime
    BY <1>1, CancelledFacts, CancelledOrdered, TimeType
  <2>2. Cancelled(r, p) = r
    BY <1>3
  <2>. HIDE DEF r
  <2>3. sqs' = InsertEvent(r, Time(r), p, TRUE)
    BY <1>7 DEF r
  <2>4. Cancelled(sqs', p) = r
    BY <2>1, <2>2, <2>3, InsertEventOrdered, FiledMovesOne
  <2>. QED
    BY <1>2, <2>4 DEF r
<1>8. ASSUME NEW p \in Object \cup {SimMain}, NEW other, other # p,
             IsScheduled(other), NEW before \in BOOLEAN,
             sqs' = InsertBeside(sqs, p, other, before)
      PROVE  OneNoticeMoves
  <2>1. PICK o \in 1..Len(sqs) : sqs[o].process = other
    BY <1>1, <1>8 DEF IsScheduled
  <2>2. PICK t : Filed(sqs, sqs', t, p)
    BY <1>1, <1>8, <2>1, InsertBesideOrdered
  <2>. QED
    BY <1>1, <1>2, <2>2, FiledMovesOne
<1>9. CASE ~active \/ ~active'
  BY <1>9
<1>. QED
  BY <1>4, <1>5, <1>6, <1>7, <1>8, <1>9, Zenon DEF SetStep

\* The first notice, if one is left, is not of an earlier time than before.
LEMMA TimeMoves ==
  ASSUME SqsInv, SetStep, active, active', sqs # <<>>, sqs' # <<>>
  PROVE  Time(sqs) <= Time(sqs')
<1>1. sqs \in Seq(Notice) /\ Ordered(sqs)
  BY DEF SqsInv, SqsOrdered, Ordered
<1>2. Time(sqs) \in 0..MaxTime /\ 0..MaxTime \subseteq Int
  BY <1>1, TimeType, SimulationAssumption
\* What remains of the set is no earlier,
<1>3. ASSUME NEW p, NEW k \in 1..Len(Cancelled(sqs, p))
      PROVE  Time(sqs) <= Cancelled(sqs, p)[k].evtime
  <2>1. KthKept(sqs, p, k) \in 1..Len(sqs)
        /\ Cancelled(sqs, p)[k] = sqs[KthKept(sqs, p, k)]
    <3>1. Kept(sqs, p) \subseteq 1..Len(sqs)
      BY <1>1 DEF Kept
    <3>2. KthKept(sqs, p, k) \in Kept(sqs, p)
          /\ Cancelled(sqs, p)[k] = sqs[KthKept(sqs, p, k)]
      BY <1>1, CancelledFacts
    <3>. QED
      BY <3>1, <3>2
  <2>2. \A i \in 1..Len(sqs) : sqs[1].evtime <= sqs[i].evtime
    <3>. TAKE i \in 1..Len(sqs)
    <3>1. sqs[1] \in Notice /\ sqs[1].evtime \in Int
      <4>1. sqs[1] \in Notice
        BY <1>1
      <4>. QED
        BY <4>1, <1>2 DEF Notice
    <3>2. CASE i = 1
      BY <3>1, <3>2
    <3>3. CASE i > 1
      BY <3>3, <1>1 DEF Ordered
    <3>. QED
      BY <3>2, <3>3
  <2>. QED
    BY <2>1, <2>2 DEF Time
\* nor is a set into which a notice of no earlier time is filed.
<1>4. ASSUME NEW p, NEW t \in 0..MaxTime, Time(sqs) <= t, Filed(sqs, sqs', t, p)
      PROVE  Time(sqs) <= Time(sqs')
  <2>. DEFINE r == Cancelled(sqs, p)
  <2>1. r \in Seq(Notice) /\ \A k \in 1..Len(r) : Time(sqs) <= r[k].evtime
    BY <1>1, <1>3, CancelledFacts
  <2>. HIDE DEF r
  <2>2. PICK n \in Notice, a \in 1..Len(r) + 1 :
          n.evtime = t /\ sqs' = InsertAt(r, a, n)
    BY <1>4, Zenon DEF Filed, r
  <2>3. sqs'[1] = IF 1 < a THEN r[1] ELSE n
    <3>1. Insertion(sqs', r, n, a)
      BY <2>1, <2>2, InsertAtIs, Zenon
    <3>. QED
      BY <3>1, <2>1 DEF Insertion
  <2>4. 1 < a => 1 \in 1..Len(r)
    BY <2>1
  <2>. QED
    BY <1>4, <2>1, <2>2, <2>3, <2>4 DEF Time
<1>5. CASE UNCHANGED <<active, sqs>>
  BY <1>2, <1>5
<1>6. ASSUME NEW p, sqs' = Cancelled(sqs, p)
      PROVE  Time(sqs) <= Time(sqs')
  <2>1. 1 \in 1..Len(Cancelled(sqs, p))
    BY <1>1, <1>6, CancelledFacts
  <2>. QED
    BY <1>3, <1>6, <2>1 DEF Time
<1>7. ASSUME NEW p \in Object \cup {SimMain}, NEW t \in 0..MaxTime, Time(sqs) <= t,
             NEW prior \in BOOLEAN, sqs' = InsertEvent(sqs, t, p, prior)
      PROVE  Time(sqs) <= Time(sqs')
  BY <1>1, <1>4, <1>7, InsertEventOrdered
<1>8. ASSUME NEW p \in Object \cup {SimMain}, FirstOf(sqs) # p,
             sqs' = InsertEvent(Cancelled(sqs, p), Time(Cancelled(sqs, p)), p, TRUE)
      PROVE  Time(sqs) <= Time(sqs')
  <2>. DEFINE r == Cancelled(sqs, p)
              t == Time(r)
  <2>1. r \in Seq(Notice) /\ Ordered(r) /\ t \in 0..MaxTime
    BY <1>1, CancelledFacts, CancelledOrdered, TimeType
  <2>2. Cancelled(r, p) = r
    BY <1>1, <2>1, CancelledOrdered, CancelledNone
  <2>3. 1 \in 1..Len(r)
    <3>1. 1 \in Kept(sqs, p)
      BY <1>1, <1>8 DEF Kept, FirstOf
    <3>. QED
      BY <1>1, <2>1, <3>1, CancelledFacts
  <2>4. Time(sqs) <= t
    BY <1>3, <2>1, <2>3 DEF Time
  <2>5. Filed(r, sqs', t, p)
    <3>. HIDE DEF r
    <3>1. sqs' = InsertEvent(r, t, p, TRUE)
      BY <1>8 DEF r
    <3>. HIDE DEF t
    <3>. QED
      BY <2>1, <3>1, InsertEventOrdered
  <2>6. Filed(sqs, sqs', t, p)
    BY <2>2, <2>5 DEF Filed
  <2>. QED
    BY <1>4, <2>1, <2>4, <2>6
<1>9. ASSUME NEW p \in Object \cup {SimMain}, NEW other, other # p,
             IsScheduled(other), NEW before \in BOOLEAN,
             sqs' = InsertBeside(sqs, p, other, before)
      PROVE  Time(sqs) <= Time(sqs')
  <2>1. PICK o \in 1..Len(sqs) : sqs[o].process = other
    BY <1>1, <1>9 DEF IsScheduled
  <2>2. PICK y \in 1..Len(Cancelled(sqs, p)) :
          Filed(sqs, sqs', Cancelled(sqs, p)[y].evtime, p)
    BY <1>1, <1>9, <2>1, InsertBesideOrdered
  <2>3. Cancelled(sqs, p)[y].evtime \in 0..MaxTime
    <3>1. Cancelled(sqs, p)[y] \in Notice
      BY <1>1, CancelledFacts
    <3>. QED
      BY <3>1 DEF Notice
  <2>4. Time(sqs) <= Cancelled(sqs, p)[y].evtime
    BY <1>3
  <2>. QED
    BY <1>4, <2>2, <2>3, <2>4
<1>10. CASE ~active \/ ~active'
  BY <1>10
<1>. QED
  BY <1>5, <1>6, <1>7, <1>8, <1>9, <1>10, Zenon DEF SetStep

-----------------------------------------------------------------------------
(* The theorems.                                                           *)

LEMMA SqsInvariant == RuledSpec => []SqsInv
<1>1. SimInit => SqsInv
  BY SimulationAssumption DEF SimInit, SqsInv, SqsOrdered
<1>2. SqsInv /\ [RuledNext]_allVars => SqsInv'
  BY StepsOfSet, SqsStep DEF SqsInv
<1>. QED
  BY <1>1, <1>2, PTL DEF RuledSpec

\* Whatever scheduling statements a program under the rules executes, the
\* array of sim.c is in order of time and holds one notice of each process.
THEOREM SetStaysOrdered == RuledSpec => []SqsOrdered
<1>1. SqsInv => SqsOrdered
  BY DEF SqsInv
<1>. QED
  BY <1>1, SqsInvariant, PTL

\* No statement disturbs the notices of processes it is not about, whichever
\* of them run, end or are cancelled meanwhile.
THEOREM OthersStayFiled == RuledSpec => OthersKeepOrder
<1>1. SqsInv /\ [RuledNext]_allVars => [active /\ active' => OneNoticeMoves]_allVars
  BY StepsOfSet, OneMoves DEF SqsInv
<1>. QED
  BY <1>1, SqsInvariant, PTL DEF RuledSpec, OthersKeepOrder

\* Simulated time does not go back while notices remain, for all delays and
\* times, negative ones too; the rule that matters is that a process which
\* heads the set is not reactivated.
THEOREM TimeNeverGoesBack == RuledSpec => TimeForward
<1>1. SqsInv /\ [RuledNext]_allVars
        => [active /\ active' /\ sqs # <<>> /\ sqs' # <<>>
              => Time(sqs) <= Time(sqs')]_allVars
  BY StepsOfSet, TimeMoves DEF SqsInv
<1>. QED
  BY <1>1, SqsInvariant, PTL DEF RuledSpec, TimeForward
-----------------------------------------------------------------------------
(* Simulation's own transfers on the chart of coroutines.                  *)

\* A final end composed with a resume: the last object of the main component
\* goes, and the component of y is set on its end instead.
LEMMA EndIntoChart ==
  ASSUME SeqInv, HeadsInv, ChartInv, NEW x \in Object, current = x, state[x] = "resumed",
         NEW y \in Object, state[y] = "detached",
         NEW s \in System, system[x] = s, system[y] = s,
         state' = [state EXCEPT ![x] = "terminated", ![y] = "resumed"],
         park' = [park EXCEPT ![x] = None],
         operative' = [operative EXCEPT ![s] = y],
         current' = park[y],
         UNCHANGED <<mainPark, attachedTo, system, phase, open>>
  PROVE  HeadsInv' /\ ChartInv'
<1>1. PICK comp, rank : Chart(comp, rank)
  BY DEF ChartInv
<1>2. /\ Main \in Bases /\ y \in Bases /\ y # Main /\ Tops[Main] = x /\ Tops[y] = park[y]
      /\ y \in Alive /\ x \in Alive \ Bases /\ x # Main /\ x # y
  BY SequencingAssumption DEF Bases, Tops, Alive
<1>3. s \in Busy /\ Lasts[s] = x /\ phase[s] = "live"
  BY ResumedIsBusy
<1>4. HeadsInv' /\ \A t : HeadOf(t)' = HeadOf(t)
  <2>1. \A z \in Object : state'[z] = "resumed" => state[z] = "resumed" \/ z = y
    BY DEF SeqInv, TypeOK
  <2>. QED
    BY <1>3, <2>1, SameHeads
<1>. DEFINE h == Heads[s]
            d == Depths[s]
            U == Busy \ {s}
            A2 == Alive \ {x}
<1>5. /\ comp \in [Alive -> Bases] /\ rank \in [Alive -> Nat] /\ comp[x] = Main
      /\ \A c \in Alive : comp[c] = Main => rank[c] <= rank[x]
      /\ \A c, e \in Alive : comp[c] = comp[e] /\ rank[c] = rank[e] => c = e
      /\ \A t \in Busy : Lasts[t] \in Alive \ Bases /\ Heads[t] \in Alive /\ Depths[t] \in Nat
      /\ \A t \in Busy : comp[Heads[t]] = comp[Lasts[t]] /\ rank[Heads[t]] < rank[Lasts[t]]
  <2>1. /\ \A t \in Busy : Depths[t] \in Nat
        /\ \A t \in Busy : comp[Heads[t]] = comp[Lasts[t]] /\ rank[Heads[t]] < rank[Lasts[t]]
    BY <1>1 DEF Chart, Nested
  <2>. QED
    BY <1>1, <2>1, ChartFacts
<1>6. h \in A2 /\ comp[h] = Main /\ d \in Nat /\ rank[h] < rank[x]
  BY <1>3, <1>5
<1>7. ASSUME NEW t \in U, comp[Lasts[t]] = Main
      PROVE  /\ rank[Lasts[t]] < rank[x] /\ Lasts[t] # x
             /\ rank[h] < rank[Lasts[t]] =>
                  rank[h] < rank[Heads[t]] \/ (h = Heads[t] /\ d < Depths[t])
  <2>1. Lasts[t] # x
    BY <1>3, BusyFacts
  <2>2. rank[Lasts[t]] < rank[x]
    BY <1>2, <1>5, <1>7, <2>1
  <2>. QED
    BY <1>1, <1>3, <1>5, <1>7, <2>1, <2>2 DEF Chart, Nested
<1>. HIDE DEF h, d
<1>8. PICK comp1, rank1 : comp1 = CutComp(x, comp, rank) /\ rank1 = CutRank(x, comp, rank)
  OBVIOUS
<1>. DEFINE B1 == Bases \cup {x}
            P1 == CutPts(Alive, Bases, Pts, x)
            T1 == CutTops(Bases, Pts, Tops, comp, x)
<1>9. Charted(Alive, B1, P1, T1, comp1, rank1)
  BY <1>1, <1>2, <1>8, Cut DEF Chart
<1>10. Nested(Alive, U, Of(U, Lasts), Of(U, Heads), Of(U, Depths), comp1, rank1)
  <2>1. U \in SUBSET Busy
    OBVIOUS
  <2>2. \A t \in U : comp[Lasts[t]] = comp[x] /\ rank[Heads[t]] < rank[x]
                       => rank[Lasts[t]] < rank[x]
    BY <1>5, <1>7
  <2>. HIDE DEF U
  <2>. QED
    BY <1>1, <1>2, <1>8, <2>1, <2>2, CutNested DEF Chart
<1>11. \A c \in A2 : comp1[c] = comp[c] /\ rank1[c] = rank[c]
  BY <1>2, <1>5, <1>8 DEF CutComp, CutRank
<1>12. x \in B1 /\ T1[x] = x
  BY <1>2, <1>5 DEF CutTops
<1>13. B1 \ {x} = Bases
  BY <1>2
<1>. HIDE DEF B1, P1, T1
<1>14. PICK comp2, rank2 : comp2 = Of(A2, comp1) /\ rank2 = Of(A2, rank1)
  OBVIOUS
<1>. DEFINE T2 == Of(Bases, T1)
<1>15. /\ Charted(A2, Bases, P1, T2, comp2, rank2)
       /\ Nested(A2, U, Of(U, Lasts), Of(U, Heads), Of(U, Depths), comp2, rank2)
  BY <1>9, <1>10, <1>12, <1>13, <1>14, DropBase
<1>16. \A c \in A2 : comp2[c] = comp[c] /\ rank2[c] = rank[c]
  BY <1>11, <1>14 DEF Of
<1>17. ASSUME NEW t \in U, comp2[Of(U, Lasts)[t]] = Main, rank2[h] < rank2[Of(U, Lasts)[t]]
       PROVE  rank2[h] < rank2[Of(U, Heads)[t]] \/ (h = Of(U, Heads)[t] /\ d < Of(U, Depths)[t])
  <2>1. Of(U, Lasts)[t] = Lasts[t] /\ Of(U, Heads)[t] = Heads[t] /\ Of(U, Depths)[t] = Depths[t]
    BY DEF Of
  <2>2. Lasts[t] \in A2
    BY <1>3, <1>5, BusyFacts
  <2>3. comp[Lasts[t]] = Main /\ rank[h] < rank[Lasts[t]] /\ rank[Heads[t]] < rank[x]
        /\ comp[Heads[t]] = Main
    BY <1>2, <1>5, <1>6, <1>7, <1>16, <1>17, <2>1, <2>2
  <2>4. Heads[t] \in A2
    BY <1>2, <1>5, <2>3
  <2>. QED
    BY <1>6, <1>7, <1>16, <2>1, <2>3, <2>4
<1>18. PICK comp3, rank3 : /\ comp3 = JoinComp(Main, y, comp2)
                           /\ rank3 = JoinRank(Main, y, T2, comp2, rank2)
  OBVIOUS
<1>. HIDE DEF T2, U, A2
<1>19. Charted(A2, Bases \ {y}, JoinPts(A2, Bases, P1, T2, Main, y), JoinTops(Bases, T2, Main, y),
               comp3, rank3)
  BY <1>2, <1>15, <1>18, Join
<1>20. Nested(A2, U \cup {s}, With(U, Of(U, Lasts), s, y), With(U, Of(U, Heads), s, h),
              With(U, Of(U, Depths), s, d), comp3, rank3)
  <2>1. s \notin U
    BY DEF U
  <2>2. comp2[h] = Main
    BY <1>6, <1>16
  <2>. QED
    BY <1>2, <1>6, <1>15, <1>17, <1>18, <2>1, <2>2, JoinNestedNew
<1>21. Alive' = A2 /\ Bases' = Bases \ {y}
  BY <1>2 DEF Alive, Bases, A2, SeqInv, TypeOK
<1>22. Pts' = JoinPts(A2, Bases, P1, T2, Main, y)
  <2>1. T2[Main] = mainPark[s]
    <3>1. Pts[x] = mainPark[s]
      BY <1>2 DEF Pts, Point
    <3>. QED
      BY <1>2, <1>5, <3>1 DEF T1, T2, CutTops, Of
  <2>2. Point(y)' = mainPark[s]
    BY DEF Point, SeqInv, TypeOK
  <2>3. \A z \in A2 \ (Bases \ {y}) :
          z \in Object /\ z # x /\ (z # y => z \in Alive \ (Bases \cup {x}))
    BY <1>2 DEF Alive, Bases, A2
  <2>4. \A z \in Object : z # x /\ z # y => Point(z)' = Point(z)
    BY DEF Point, SeqInv, TypeOK
  <2>5. \A z \in Alive \ (Bases \cup {x}) : P1[z] = Point(z)
    BY DEF P1, CutPts, Pts
  <2>. QED
    BY <1>21, <2>1, <2>2, <2>3, <2>4, <2>5 DEF Pts, JoinPts
<1>23. Tops' = JoinTops(Bases, T2, Main, y)
  <2>1. \A k \in Bases \ {y} : k = Main \/ (k \in Object /\ k # Main /\ k # x)
    BY <1>2, SequencingAssumption DEF Bases
  <2>2. T2[y] = park[y]
    BY <1>2, <1>5 DEF T1, T2, CutTops, Of
  <2>3. \A k \in Bases \ {y} : k # Main => T2[k] = park[k] /\ park'[k] = park[k]
    BY <1>5, <2>1 DEF T1, T2, Of, CutTops, Tops, SeqInv, TypeOK
  <2>. QED
    BY <1>2, <1>21, <2>1, <2>2, <2>3 DEF Tops, JoinTops
<1>24. /\ Busy' = U \cup {s}
       /\ Lasts' = With(U, Of(U, Lasts), s, y)
       /\ Heads' = With(U, Of(U, Heads), s, h)
       /\ Depths' = With(U, Of(U, Depths), s, d)
  <2>1. Busy' = U \cup {s} /\ Busy = U \cup {s}
    BY <1>3, SequencingAssumption DEF U, Busy, SeqInv, TypeOK, Coro
  <2>2. \A t \in Busy : operative'[t] = IF t = s THEN y ELSE operative[t]
    BY DEF Busy, SeqInv, TypeOK
  <2>. QED
    BY <1>3, <1>4, <2>1, <2>2 DEF h, d, U, Of, With, Lasts, Heads, Depths
<1>25. Charted(Alive', Bases', Pts', Tops', comp3, rank3)
  BY <1>19, <1>21, <1>22, <1>23
<1>26. Nested(Alive', Busy', Lasts', Heads', Depths', comp3, rank3)
  BY <1>20, <1>21, <1>24
<1>. QED
  BY <1>4, <1>25, <1>26 DEF ChartInv, Chart

\* No object is parked on MAIN, so sim.c's lookup of the executing object by
\* parks finds nothing there.
ParkInv == \A x \in Object : park[x] # Main

\* Frames and open blocks agree: each live system has one frame, of the
\* coroutine on which its block is open.
FramesInv ==
  /\ \A i \in 1..Len(frames) :
       /\ phase[frames[i].system] = "live"
       /\ \E k \in DOMAIN open[frames[i].owner] :
            open[frames[i].owner][k] = frames[i].system
  /\ \A i, j \in 1..Len(frames) : frames[i].system = frames[j].system => i = j
  /\ \A s \in Instance :
       phase[s] = "live" => \E i \in 1..Len(frames) : frames[i].system = s

\* Generators lead back to MAIN: an object is younger than its generator.
Born(x) == state[x] \notin {"unborn", "block"}
Older(age) ==
  \A x \in Object :
    Born(x) => /\ origin[x] \in Coro
               /\ origin[x] \in Object =>
                    Born(origin[x]) /\ age[origin[x]] < age[x]
OriginInv == \E age \in [Object -> Nat] : Older(age)

CoreInv == ChainInv /\ ParkInv /\ FramesInv /\ OriginInv

\* What a program under the rules does to the sequencing runtime.
EndsInto(x, y) ==
  /\ FinalEnd(x)
  /\ x # y
  /\ state[x] = "resumed"
  /\ state[y] = "detached"
  /\ system[y] = system[x]
  /\ TerminateResuming(x, y)
OperatingStep ==
  \/ [ChainNext]_vars
  \/ Stop("error")
  \/ \E x \in Process, d \in LiveBlocks : NewProcess(x, d)
  \/ \E x, y \in Object : EndsInto(x, y)

\* The program starts with MAIN alone, and it has entered nothing.
LEMMA CoreInit == Init => CoreInv
<1> SUFFICES ASSUME Init PROVE CoreInv
  OBVIOUS
<1>1. ChainInv
  BY ChainInit
<1>2. ParkInv
  BY SequencingAssumption DEF Init, ParkInv, Coro
<1>3. FramesInv
  <2>1. frames = <<>> /\ Len(frames) = 0
    BY DEF Init
  <2>2. \A s \in Instance : phase[s] = "unused"
    BY SequencingAssumption DEF Init, System
  <2>. QED
    BY <2>1, <2>2 DEF FramesInv
<1>4. Older([x \in Object |-> 0])
  BY DEF Init, Older, Born
<1>. QED
  BY <1>1, <1>2, <1>3, <1>4 DEF CoreInv, OriginInv

\* The conclusion of a final end composed with a resume.
LEMMA EndsIntoIs ==
  ASSUME SeqInv, HeadsInv, NEW x \in Object, NEW y \in Object, EndsInto(x, y)
  PROVE  /\ current = x /\ state[x] = "resumed" /\ state[y] = "detached" /\ x # y
         /\ system[x] \in System /\ phase[system[x]] = "live"
         /\ operative[system[x]] = x /\ system[y] = system[x]
         /\ state' = [state EXCEPT ![x] = "terminated", ![y] = "resumed"]
         /\ park' = [park EXCEPT ![x] = None]
         /\ operative' = [operative EXCEPT ![system[x]] = y]
         /\ SwitchTo(park[y])
         /\ UNCHANGED <<attachedTo, system, origin, phase, mainPark, frames, programVars>>
<1>1. /\ system[x] \in Busy /\ phase[system[x]] = "live" /\ Lasts[system[x]] = x
      /\ system[x] \in System /\ system[x] # None
  BY ResumedIsBusy, SequencingAssumption DEF EndsInto, Busy, Coro
<1>2. operative[system[x]] = x
  BY <1>1, BusyFacts
<1>3. TerminateResuming(x, y) /\ system[y] = system[x] /\ state[y] = "detached"
  BY DEF EndsInto
<1>4. /\ state' = [state EXCEPT ![x] = "terminated", ![y] = "resumed"]
      /\ park' = [park EXCEPT ![x] = None]
      /\ operative' = [operative EXCEPT ![system[y]] = y]
      /\ SwitchTo(park[y])
      /\ UNCHANGED <<attachedTo, system, origin, phase, mainPark, frames, programVars>>
  BY <1>1, <1>3 DEF TerminateResuming
<1>. QED
  BY <1>1, <1>2, <1>3, <1>4 DEF EndsInto, FinalEnd

\* The system of a new object is one that was entered.
LEMMA LocalToType ==
  ASSUME SeqInv, NEW x \in Object, NEW d, LocalTo(x, d)
  PROVE  /\ system' \in [Object -> System \cup {None}]
         /\ \A y \in Object : y # x => system'[y] = system[y]
         /\ system'[x] # None => phase[system'[x]] # "unused"
<1>1. CASE d = None
  BY <1>1 DEF LocalTo, SeqInv, TypeOK, SystemsInv
<1>2. CASE d # None
  <2>1. PICK s \in System : /\ SystemForBlock(BlockOf[d], s)
                            /\ system' = [system EXCEPT ![x] = s]
    BY <1>2 DEF LocalTo
  <2>2. s = Outermost \/ \E i \in 1..Len(frames) : frames[i].system = s
    BY <2>1, SystemForBlockEntered
  <2>3. phase[s] # "unused"
    BY <2>2 DEF SeqInv, SystemsInv
  <2>. QED
    BY <2>1, <2>3 DEF SeqInv, TypeOK
<1>. QED
  BY <1>1, <1>2

\* A new process disturbs no other component.
LEMMA NewProcessSeq ==
  ASSUME SeqInv, NEW x \in Process, NEW d \in LiveBlocks, NewProcess(x, d)
  PROVE  SeqInv'
<1>. USE SequencingAssumption, SimulationAssumption DEF System, Coro
<1>1. /\ system' \in [Object -> System \cup {None}]
      /\ \A y \in Object : y # x => system'[y] = system[y]
      /\ system'[x] # None => phase[system'[x]] # "unused"
  BY LocalToType DEF NewProcess
<1>2. x \in Object /\ d \in Instance
  BY DEF LiveBlocks
<1>3. /\ state[x] = "unborn" /\ state' = [state EXCEPT ![x] = "detached"]
      /\ park' = [park EXCEPT ![x] = x]
      /\ attachedTo' = [attachedTo EXCEPT ![x] = current]
      /\ origin' = [origin EXCEPT ![x] = current]
      /\ decl' = [decl EXCEPT ![x] = d]
      /\ UNCHANGED <<current, status, phase, mainPark, operative, frames, open,
                     env, orphans>>
  BY DEF NewProcess
<1>4. TypeOK'
  BY <1>1, <1>2, <1>3 DEF SeqInv, TypeOK, State
<1>5. OperativeIsResumed'
  BY <1>1, <1>2, <1>3 DEF SeqInv, TypeOK, OperativeIsResumed
<1>6. ComponentsInv'
  BY <1>1, <1>2, <1>3 DEF SeqInv, TypeOK, ComponentsInv
<1>7. SystemsInv'
  BY <1>1, <1>2, <1>3 DEF SeqInv, TypeOK, SystemsInv
<1>. QED
  BY <1>4, <1>5, <1>6, <1>7 DEF SeqInv

\* The process that takes over is operative in the place of the one that ended.
LEMMA EndsIntoSeq ==
  ASSUME SeqInv, HeadsInv, NEW x \in Object, NEW y \in Object, EndsInto(x, y)
  PROVE  SeqInv'
<1>. USE SequencingAssumption DEF System, Coro
<1>1. /\ current = x /\ state[x] = "resumed" /\ state[y] = "detached" /\ x # y
      /\ system[x] \in System /\ phase[system[x]] = "live"
      /\ operative[system[x]] = x /\ system[y] = system[x]
      /\ state' = [state EXCEPT ![x] = "terminated", ![y] = "resumed"]
      /\ park' = [park EXCEPT ![x] = None]
      /\ operative' = [operative EXCEPT ![system[x]] = y]
      /\ SwitchTo(park[y])
      /\ UNCHANGED <<attachedTo, system, origin, phase, mainPark, frames, programVars>>
  BY EndsIntoIs
<1>2. /\ current' \in Coro
      /\ status' \in {"running", "finished", "error", "dangling", "internal"}
  BY <1>1 DEF SwitchTo, SeqInv, TypeOK, ComponentsInv
<1>3. TypeOK'
  BY <1>1, <1>2 DEF SeqInv, TypeOK, State, programVars
<1>4. OperativeIsResumed'
  BY <1>1 DEF SeqInv, TypeOK, OperativeIsResumed, programVars
<1>5. ComponentsInv'
  BY <1>1 DEF SeqInv, TypeOK, ComponentsInv, programVars
<1>6. SystemsInv'
  BY <1>1 DEF SeqInv, TypeOK, SystemsInv, programVars
<1>. QED
  BY <1>3, <1>4, <1>5, <1>6 DEF SeqInv

\* The operating chain stays charted.
LEMMA OperatingChart == ChainInv /\ OperatingStep => ChainInv'
<1> SUFFICES ASSUME ChainInv, OperatingStep PROVE ChainInv'
  OBVIOUS
<1>0. SeqInv /\ HeadsInv /\ ChartInv /\ orphans = {} /\ status # "dangling"
  BY DEF ChainInv, SystemsEndClean
<1>1. CASE [ChainNext]_vars
  BY <1>1, ChainStep
<1>2. CASE Stop("error")
  <2>1. HeadsInv' /\ ChartInv'
    BY <1>0, <1>2, SameChart DEF Stop, programVars
  <2>2. SeqInv'
    BY <1>0, <1>2 DEF Stop, SeqInv, TypeOK, OperativeIsResumed, ComponentsInv, SystemsInv,
                      programVars
  <2>. QED
    BY <1>0, <1>2, <2>1, <2>2 DEF ChainInv, SystemsEndClean, Stop, programVars
<1>3. ASSUME NEW x \in Process, NEW d \in LiveBlocks, NewProcess(x, d) PROVE ChainInv'
  <2>1. x \in Object /\ SeqInv'
    BY <1>0, <1>3, NewProcessSeq, SimulationAssumption
  <2>2. \A y \in Object : y # x => system'[y] = system[y]
    BY <1>0, <1>3, <2>1, LocalToType DEF NewProcess
  <2>3. \A y \in Object : y # x => attachedTo'[y] = attachedTo[y]
    BY <1>0, <1>3 DEF NewProcess, SeqInv, TypeOK
  <2>4. HeadsInv' /\ ChartInv'
    BY <1>0, <1>3, <2>1, <2>2, <2>3, NewBaseChart DEF NewProcess
  <2>. QED
    BY <1>0, <1>3, <2>1, <2>4 DEF ChainInv, SystemsEndClean, NewProcess
<1>4. ASSUME NEW x \in Object, NEW y \in Object, EndsInto(x, y) PROVE ChainInv'
  <2>1. SeqInv'
    BY <1>0, <1>4, EndsIntoSeq
  <2>2. /\ current = x /\ state[x] = "resumed" /\ state[y] = "detached" /\ x # y
        /\ system[x] \in System /\ system[y] = system[x]
        /\ state' = [state EXCEPT ![x] = "terminated", ![y] = "resumed"]
        /\ park' = [park EXCEPT ![x] = None]
        /\ operative' = [operative EXCEPT ![system[x]] = y]
        /\ SwitchTo(park[y])
        /\ UNCHANGED <<attachedTo, system, origin, phase, mainPark, frames, programVars>>
    BY <1>0, <1>4, EndsIntoIs
  <2>3. current' = park[y] /\ status' # "dangling" /\ orphans' = {} /\ open' = open
    BY <1>0, <2>2 DEF SwitchTo, programVars
  <2>4. HeadsInv' /\ ChartInv'
    BY <1>0, <2>2, <2>3, EndIntoChart
  <2>. QED
    BY <2>1, <2>3, <2>4 DEF ChainInv, SystemsEndClean
<1>. QED
  BY <1>1, <1>2, <1>3, <1>4 DEF OperatingStep

\* An object that is operating is farther from MAIN than MAIN.
LEMMA InsideIsNotMain ==
  ASSUME SeqInv, HeadsInv, NEW comp, NEW rank, Chart(comp, rank),
         NEW x \in Object, state[x] \in {"attached", "resumed"}, comp[x] = Main
  PROVE  current # Main
<1>1. x \in Alive \ Bases
  BY SequencingAssumption DEF Alive, Bases
<1>2. /\ rank[x] = rank[Point(x)] + 1 /\ rank[Point(x)] \in Nat /\ rank[x] <= rank[current]
      /\ rank[Main] = 0
  <2>1. rank[Main] = 0
    BY ChartFacts DEF Chart, Charted
  <2>. QED
    BY <1>1, <2>1, ChartFacts
<1>. QED
  BY <1>2

\* An object parks where it is detached or resumed away from, which is inside it.
LEMMA ParkStep == ChainInv /\ ParkInv /\ OperatingStep => ParkInv'
<1> SUFFICES ASSUME ChainInv, ParkInv, OperatingStep PROVE ParkInv'
  OBVIOUS
<1>0. SeqInv /\ HeadsInv /\ ChartInv /\ park \in [Object -> Coro \cup {None}] /\ None # Main
  BY SequencingAssumption DEF ChainInv, SeqInv, TypeOK, Coro
<1>1. PICK comp, rank : Chart(comp, rank)
  BY <1>0 DEF ChartInv
<1>same. ASSUME park' = park PROVE ParkInv'
  BY <1>same DEF ParkInv
<1>one. ASSUME NEW x \in Object, NEW c, c # Main, park' = [park EXCEPT ![x] = c]
        PROVE  ParkInv'
  BY <1>0, <1>one DEF ParkInv
<1>detach. ASSUME NEW x \in Object, Detach(x),
                  state[x] \in {"attached", "resumed"} => Inside(x)
           PROVE  ParkInv'
  <2>1. CASE Leave(x, "detached") /\ state[x] \in {"attached", "resumed"}
    <3>1. PICK p \in Chain : p.coro = x
      BY <1>detach, <2>1 DEF Inside
    <3>2. comp[x] = Main
      BY <1>0, <1>1, <3>1, ChainIsOnMain DEF OnMain
    <3>3. current # Main
      BY <1>0, <1>1, <2>1, <3>2, InsideIsNotMain
    <3>4. park' = [park EXCEPT ![x] = current]
      BY <2>1 DEF Leave
    <3>. QED
      BY <1>one, <3>3, <3>4
  <2>2. CASE park' = park
    BY <1>same, <2>2
  <2>. QED
    BY <1>detach, <2>1, <2>2
    DEF Detach, LeaveAttached, LeaveResumed, LeaveFreed, LeaveError, Stop, vars, runtimeVars
<1>terminate. ASSUME NEW x \in Object, Terminate(x) PROVE ParkInv'
  BY <1>0, <1>one, <1>same, <1>terminate
  DEF Terminate, LeaveAttached, LeaveResumed, LeaveFreed, LeaveError, Stop, Leave
<1>resume. ASSUME NEW x \in Object, ResumeDetached(x), InsideSystem(system[x])
           PROVE  ParkInv'
  <2>. DEFINE s == system[x]
              z == operative[s]
  <2>1. s \in System /\ z \in Object \cup {None}
    BY <1>0, <1>resume DEF ResumeDetached, SeqInv, TypeOK
  <2>2. CASE z = None
    BY <1>same, <1>resume, <2>2 DEF ResumeDetached
  <2>3. CASE z # None
    <3>1. s \in Busy /\ Lasts[s] = z /\ state[z] = "resumed" /\ Heads[s] = HeadOf(s).coro
          /\ z \in Object
      BY <1>0, <2>1, <2>3, BusyFacts DEF Busy
    <3>2. PICK p \in Chain : p.coro = HeadOf(s).coro
      BY <1>resume DEF InsideSystem
    <3>3. comp[Heads[s]] = Main
      BY <1>0, <1>1, <3>1, <3>2, ChainIsOnMain DEF OnMain
    <3>4. comp[z] = Main
      BY <1>1, <3>1, <3>3 DEF Chart, Nested
    <3>5. current # Main
      BY <1>0, <1>1, <3>1, <3>4, InsideIsNotMain
    <3>6. park' = [park EXCEPT ![z] = current]
      BY <1>resume, <2>3 DEF ResumeDetached
    <3>. QED
      BY <1>one, <3>1, <3>5, <3>6
  <2>. QED
    BY <2>2, <2>3
<1>statement. ASSUME ChainStatement PROVE ParkInv'
  BY <1>statement, <1>detach, <1>terminate, <1>resume, <1>same
  DEF ChainStatement, Call, Resume, ResumeError, ResumeNoEffect, ResumeFreed, ResumeDetached,
      Stop, vars, runtimeVars
<1>generate. ASSUME NEW x \in Object, park' = [park EXCEPT ![x] = x] PROVE ParkInv'
  BY <1>one, <1>generate, SequencingAssumption
<1>chain. CASE [ChainNext]_vars
  BY <1>chain, <1>same, <1>statement, <1>generate
  DEF ChainNext, SystemEnter, SystemExit, Generator, Generate, BlockInstance, Finish, Stop,
      Stopped, vars, runtimeVars
<1>process. ASSUME NEW x \in Process, NEW d, NewProcess(x, d) PROVE ParkInv'
  BY <1>generate, <1>process, SimulationAssumption DEF NewProcess
<1>ends. ASSUME NEW x \in Object, NEW y \in Object, EndsInto(x, y) PROVE ParkInv'
  BY <1>0, <1>one, <1>ends, EndsIntoIs
<1>. QED
  BY <1>chain, <1>same, <1>process, <1>ends DEF OperatingStep, Stop

\* A block that is entered gets the newest frame.
LEMMA EnterFrames ==
  ASSUME SeqInv, FramesInv, HeadsInv, NEW s \in Instance, phase[s] = "unused",
         phase' = [phase EXCEPT ![s] = "live"],
         frames' = Append(frames, [system |-> s, owner |-> current]),
         open' = [open EXCEPT ![current] = Append(@, s)]
  PROVE  FramesInv'
<1>. DEFINE f == [system |-> s, owner |-> current]
            n == Len(frames)
<1>1. /\ current \in Coro /\ open \in [Coro -> Seq(Instance)]
      /\ phase \in [System -> {"unused", "live", "freed"}]
      /\ frames \in Seq(Frame) /\ n \in Nat /\ s \in System
      /\ open[current] \in Seq(Instance)
  BY DEF SeqInv, TypeOK, System
<1>2. f \in Frame /\ f.system = s /\ f.owner = current
  BY <1>1 DEF Frame
<1>. HIDE DEF f
<1>3. /\ Len(frames') = n + 1 /\ frames'[n + 1] = f
      /\ \A i \in 1..n : frames'[i] = frames[i] /\ frames[i] \in Frame
  BY <1>1, <1>2 DEF f
<1>4. /\ \A c \in Coro : \A k \in DOMAIN open[c] :
           k \in DOMAIN open'[c] /\ open'[c][k] = open[c][k]
      /\ \E k \in DOMAIN open'[current] : open'[current][k] = s
  <2>1. /\ open'[current] = Append(open[current], s)
        /\ \A c \in Coro : c # current => open'[c] = open[c]
    BY <1>1
  <2>2. /\ Len(open[current]) \in Nat
        /\ Append(open[current], s)[Len(open[current]) + 1] = s
        /\ Len(open[current]) + 1 \in DOMAIN Append(open[current], s)
        /\ \A k \in DOMAIN open[current] : /\ k \in DOMAIN Append(open[current], s)
                                           /\ Append(open[current], s)[k] = open[current][k]
    BY <1>1
  <2>. QED
    BY <2>1, <2>2
<1>5. \A i \in 1..n : frames[i].system # s /\ frames[i].owner \in Coro
  BY <1>3 DEF FramesInv, Frame
<1>6. ASSUME NEW i \in 1..n
      PROVE  /\ phase'[frames'[i].system] = "live"
             /\ \E k \in DOMAIN open'[frames'[i].owner] :
                  open'[frames'[i].owner][k] = frames'[i].system
  <2>1. frames'[i] = frames[i] /\ frames[i] \in Frame
    BY <1>3
  <2>2. /\ phase[frames[i].system] = "live"
        /\ \E k \in DOMAIN open[frames[i].owner] : open[frames[i].owner][k] = frames[i].system
    BY DEF FramesInv
  <2>3. phase'[frames[i].system] = "live"
    BY <1>1, <1>5, <2>1, <2>2 DEF Frame, System
  <2>. QED
    BY <1>4, <1>5, <2>1, <2>2, <2>3
<1>7. \A i \in 1..(n + 1) :
        /\ phase'[frames'[i].system] = "live"
        /\ \E k \in DOMAIN open'[frames'[i].owner] :
             open'[frames'[i].owner][k] = frames'[i].system
  <2>1. /\ phase'[frames'[n + 1].system] = "live"
        /\ \E k \in DOMAIN open'[frames'[n + 1].owner] :
             open'[frames'[n + 1].owner][k] = frames'[n + 1].system
    BY <1>1, <1>2, <1>3, <1>4
  <2>2. \A i \in 1..(n + 1) : i \in 1..n \/ i = n + 1
    BY <1>1
  <2>. QED
    BY <1>6, <2>1, <2>2
<1>8. \A i, j \in 1..(n + 1) : frames'[i].system = frames'[j].system => i = j
  <2>1. \A i \in 1..(n + 1) : i \in 1..n \/ i = n + 1
    BY <1>1
  <2>2. \A i, j \in 1..n : frames[i].system = frames[j].system => i = j
    BY DEF FramesInv
  <2>. QED
    BY <1>2, <1>3, <1>5, <2>1, <2>2
<1>9. \A t \in Instance : phase'[t] = "live" =>
        \E i \in 1..(n + 1) : frames'[i].system = t
  <2>1. n + 1 \in 1..(n + 1) /\ \A i \in 1..n : i \in 1..(n + 1)
    BY <1>1
  <2>2. \A t \in Instance : t # s => phase'[t] = phase[t]
    BY <1>1 DEF System
  <2>. QED
    BY <1>2, <1>3, <2>1, <2>2 DEF FramesInv
<1>. HIDE DEF n
<1>. QED
  BY <1>3, <1>7, <1>8, <1>9 DEF FramesInv

\* A block that is left takes its own frame along, whichever that is.
LEMMA ExitFrames ==
  ASSUME SeqInv, FramesInv, HeadsInv, SystemExit
  PROVE  FramesInv'
<1>. DEFINE s == InnermostOpen
            m == Len(open[current])
<1>1. /\ current \in Coro /\ open \in [Coro -> Seq(Instance)]
      /\ phase \in [System -> {"unused", "live", "freed"}]
      /\ frames \in Seq(Frame) /\ Len(frames) \in Nat /\ Len(frames) <= MaxFrames
      /\ open[current] \in Seq(Instance) /\ m \in Nat /\ m # 0
  BY DEF SeqInv, TypeOK, SystemExit
<1>2. PICK i \in 1..Len(frames) : frames[i].system = s /\ frames' = Without(i)
  BY DEF SystemExit
<1>3. s \in Instance /\ phase' = [phase EXCEPT ![s] = "freed"]
  BY <1>1, LeaveInnermostType DEF SystemExit
<1>4. \A c \in Coro : \A k \in DOMAIN open[c] :
        open[c][k] # s => k \in DOMAIN open'[c] /\ open'[c][k] = open[c][k]
  <2>. SUFFICES ASSUME NEW c \in Coro, NEW k \in DOMAIN open[c], open[c][k] # s
                PROVE  k \in DOMAIN open'[c] /\ open'[c][k] = open[c][k]
    OBVIOUS
  <2>1. open' = [open EXCEPT ![current] = SubSeq(@, 1, Len(@) - 1)]
    BY DEF SystemExit, LeaveInnermost
  <2>2. CASE c # current
    BY <1>1, <2>1, <2>2
  <2>3. CASE c = current
    <3>1. open'[c] = SubSeq(open[current], 1, m - 1)
      BY <1>1, <2>1, <2>3
    <3>2. k \in 1..m /\ k # m
      BY <1>1, <2>3 DEF InnermostOpen
    <3>3. k \in 1..(m - 1)
      BY <1>1, <3>2
    <3>4. k \in DOMAIN SubSeq(open[current], 1, m - 1)
          /\ SubSeq(open[current], 1, m - 1)[k] = open[current][k]
      BY <1>1, <3>3
    <3>. QED
      BY <2>3, <3>1, <3>4
  <2>. QED
    BY <2>2, <2>3
<1>. HIDE DEF s, m
<1>5. /\ \A j \in 1..Len(frames') :
           \E k \in 1..Len(frames) : k # i /\ frames'[j] = frames[k]
      /\ \A k \in 1..Len(frames) : k # i =>
           \E j \in 1..Len(frames') : frames'[j] = frames[k]
      /\ \A j, k \in 1..Len(frames') : frames'[j].system = frames'[k].system => j = k
  <2>1. \A j, k \in 1..Len(frames) : frames[j].system = frames[k].system => j = k
    BY DEF FramesInv
  <2>2. /\ \A j \in 1..Len(Without(i)) :
             \E k \in 1..Len(frames) : k # i /\ Without(i)[j] = frames[k]
        /\ \A k \in 1..Len(frames) : k # i =>
             \E j \in 1..Len(Without(i)) : Without(i)[j] = frames[k]
        /\ \A j, k \in 1..Len(Without(i)) :
             Without(i)[j].system = Without(i)[k].system => j = k
    BY <1>1, <2>1, WithoutKeeps
  <2>. QED
    BY <1>2, <2>2
<1>6. \A k \in 1..Len(frames) : k # i =>
        /\ frames[k] \in Frame /\ frames[k].system # s
        /\ phase[frames[k].system] = "live"
        /\ \E l \in DOMAIN open[frames[k].owner] : open[frames[k].owner][l] = frames[k].system
  BY <1>1, <1>2 DEF FramesInv
<1>7. \A k \in 1..Len(frames) : k # i =>
        /\ phase'[frames[k].system] = "live"
        /\ \E l \in DOMAIN open'[frames[k].owner] : open'[frames[k].owner][l] = frames[k].system
  <2>. TAKE k \in 1..Len(frames)
  <2>. HAVE k # i
  <2>1. frames[k].owner \in Coro /\ frames[k].system \in System
    BY <1>6 DEF Frame, System
  <2>. QED
    BY <1>1, <1>3, <1>4, <1>6, <2>1
<1>8. \A t \in Instance : phase'[t] = "live" =>
        \E j \in 1..Len(frames') : frames'[j].system = t
  <2>. TAKE t \in Instance
  <2>. HAVE phase'[t] = "live"
  <2>1. t # s /\ phase[t] = "live"
    BY <1>1, <1>3 DEF System
  <2>2. PICK k \in 1..Len(frames) : frames[k].system = t
    BY <2>1 DEF FramesInv
  <2>. QED
    BY <1>2, <1>5, <2>1, <2>2
<1>9. ASSUME NEW j \in 1..Len(frames')
      PROVE  /\ phase'[frames'[j].system] = "live"
             /\ \E k \in DOMAIN open'[frames'[j].owner] :
                  open'[frames'[j].owner][k] = frames'[j].system
  <2>1. PICK k \in 1..Len(frames) : k # i /\ frames'[j] = frames[k]
    BY <1>5
  <2>. QED
    BY <1>7, <2>1
<1>. QED
  BY <1>5, <1>8, <1>9 DEF FramesInv

\* Frames and open blocks agree after every step.
LEMMA FramesStep == ChainInv /\ FramesInv /\ OperatingStep => FramesInv'
<1> SUFFICES ASSUME ChainInv, FramesInv, OperatingStep PROVE FramesInv'
  OBVIOUS
<1>0. SeqInv /\ HeadsInv
  BY DEF ChainInv
<1>same. ASSUME UNCHANGED <<frames, phase, open>> PROVE FramesInv'
  BY <1>same DEF FramesInv
<1>enter. ASSUME NEW s \in Instance, SystemEnter(s) PROVE FramesInv'
  BY <1>0, <1>enter, <1>same, EnterFrames DEF SystemEnter, Stop, programVars
<1>exit. ASSUME SystemExit PROVE FramesInv'
  BY <1>0, <1>exit, ExitFrames
<1>statement. ASSUME ChainStatement PROVE UNCHANGED <<frames, phase, open>>
  BY <1>statement
  DEF ChainStatement, Detach, Terminate, LeaveAttached, LeaveResumed, LeaveFreed, LeaveError,
      Leave, Call, Resume, ResumeError, ResumeNoEffect, ResumeFreed, ResumeDetached,
      Stop, vars, runtimeVars, programVars
<1>chain. CASE [ChainNext]_vars
  BY <1>chain, <1>same, <1>enter, <1>exit, <1>statement
  DEF ChainNext, Generator, Generate, BlockInstance, Finish, Stop, Stopped, vars,
      runtimeVars, programVars
<1>process. ASSUME NEW x, NEW d, NewProcess(x, d) PROVE FramesInv'
  BY <1>same, <1>process DEF NewProcess
<1>ends. ASSUME NEW x \in Object, NEW y \in Object, EndsInto(x, y) PROVE FramesInv'
  BY <1>0, <1>same, <1>ends, EndsIntoIs DEF programVars
<1>. QED
  BY <1>chain, <1>same, <1>process, <1>ends DEF OperatingStep, Stop, programVars

\* An object is born of whatever has control.
LEMMA OriginBirth ==
  ASSUME SeqInv, HeadsInv, ChartInv, OriginInv, NEW x \in Object, ~Born(x),
         NEW st \in {"attached", "detached"},
         state' = [state EXCEPT ![x] = st],
         origin' = [origin EXCEPT ![x] = current]
  PROVE  OriginInv'
<1>1. PICK age \in [Object -> Nat] : Older(age)
  BY DEF OriginInv
<1>. DEFINE Dead == {"unborn", "block"}
<1>2. current \in Coro /\ (current \in Object => state[current] \notin Dead)
  <2>1. PICK comp, rank : Chart(comp, rank)
    BY DEF ChartInv
  <2>2. current \in Alive
    BY <2>1, ChartFacts
  <2>. QED
    BY <2>2, SequencingAssumption DEF Alive, Coro
<1>3. PICK a \in Nat : current \in Object => age[current] < a
  <2>1. CASE current \in Object
    <3>1. age[current] \in Nat /\ age[current] < age[current] + 1
      BY <1>1, <2>1
    <3>. QED
      BY <3>1
  <2>. QED
    BY <2>1
<1>8. PICK birth \in [Object -> Nat] : birth = [age EXCEPT ![x] = a]
  BY <1>1, <1>3
<1>9. /\ \A y \in Object : y # x => birth[y] = age[y]
      /\ current \in Object /\ current # x => birth[current] < birth[x]
  BY <1>1, <1>3, <1>8
<1>4. /\ state \in [Object -> State] /\ origin \in [Object -> Coro \cup {None}]
      /\ state[x] \in Dead
  BY DEF SeqInv, TypeOK, Born
<1>5. /\ origin'[x] = current /\ state'[x] \notin Dead
      /\ \A y \in Object : y # x => origin'[y] = origin[y] /\ state'[y] = state[y]
  BY <1>4
<1>6. ASSUME NEW y \in Object, state'[y] \notin Dead
      PROVE  /\ origin'[y] \in Coro
             /\ origin'[y] \in Object =>
                  state'[origin'[y]] \notin Dead /\ birth[origin'[y]] < birth[y]
  <2>1. CASE y = x
    <3>1. current \in Object => current # x /\ state'[current] \notin Dead
      BY <1>2, <1>4, <1>5
    <3>. QED
      BY <1>2, <1>9, <1>5, <2>1, <3>1
  <2>2. CASE y # x
    <3>1. state[y] \notin Dead /\ origin'[y] = origin[y] /\ birth[y] = age[y]
      BY <1>9, <1>5, <1>6, <2>2
    <3>2. /\ origin[y] \in Coro
          /\ origin[y] \in Object =>
               state[origin[y]] \notin Dead /\ age[origin[y]] < age[y]
      BY <1>1, <3>1 DEF Older, Born
    <3>3. origin[y] \in Object => origin[y] # x
      BY <1>4, <3>2
    <3>. QED
      BY <1>9, <1>5, <3>1, <3>2, <3>3
  <2>. QED
    BY <2>1, <2>2
<1>7. Older(birth)'
  BY <1>6 DEF Older, Born
<1>. QED
  BY <1>8, <1>7 DEF OriginInv

\* No step but a generator changes who generated what.
LEMMA OriginStep == ChainInv /\ OriginInv /\ OperatingStep => OriginInv'
<1> SUFFICES ASSUME ChainInv, OriginInv, OperatingStep PROVE OriginInv'
  OBVIOUS
<1>0. SeqInv /\ HeadsInv /\ ChartInv /\ state \in [Object -> State]
  BY DEF ChainInv, SeqInv, TypeOK
<1>same. ASSUME origin' = origin, \A x \in Object : Born(x)' = Born(x)
         PROVE  OriginInv'
  BY <1>same DEF OriginInv, Older
<1>still. ASSUME origin' = origin, state' = state PROVE OriginInv'
  BY <1>same, <1>still DEF Born
<1>move. ASSUME NEW x \in Object, NEW st \in State \ {"unborn", "block"}, Born(x),
                origin' = origin, state' = [state EXCEPT ![x] = st]
         PROVE  OriginInv'
  BY <1>0, <1>same, <1>move DEF Born
<1>two. ASSUME NEW x \in Object, NEW y \in Object, Born(x), Born(y),
               NEW st \in {"detached", "terminated"},
               origin' = origin, state' = [state EXCEPT ![x] = st, ![y] = "resumed"]
        PROVE  OriginInv'
  BY <1>0, <1>same, <1>two DEF Born
<1>leave. ASSUME NEW x \in Object, Detach(x) \/ Terminate(x) PROVE OriginInv'
  <2>1. CASE state[x] \in {"attached", "resumed"}
             /\ (Leave(x, "detached") \/ Leave(x, "terminated"))
    BY <1>move, <2>1 DEF Leave, Born, State
  <2>2. CASE origin' = origin /\ state' = state
    BY <1>still, <2>2
  <2>. QED
    BY <1>leave, <2>1, <2>2
    DEF Detach, Terminate, LeaveAttached, LeaveResumed, LeaveFreed, LeaveError, Stop, vars,
        runtimeVars
<1>call. ASSUME NEW x \in Object, Call(x) PROVE OriginInv'
  BY <1>call, <1>move, <1>still DEF Call, Stop, Born, State
<1>resume. ASSUME NEW x \in Object, ResumeDetached(x) PROVE OriginInv'
  <2>. DEFINE s == system[x]
              z == operative[s]
  <2>1. s \in System /\ z \in Object \cup {None} /\ state[x] = "detached" /\ origin' = origin
    BY <1>0, <1>resume DEF ResumeDetached, SeqInv, TypeOK
  <2>2. CASE z = None
    BY <1>move, <1>resume, <2>1, <2>2 DEF ResumeDetached, Born, State
  <2>3. CASE z # None
    <3>1. z \in Object /\ state[z] = "resumed"
      BY <1>0, <2>1, <2>3, BusyFacts DEF Busy, Lasts
    <3>2. state' = [state EXCEPT ![z] = "detached", ![x] = "resumed"]
      BY <1>resume, <2>3 DEF ResumeDetached
    <3>. QED
      BY <1>two, <2>1, <3>1, <3>2 DEF Born
  <2>. QED
    BY <2>2, <2>3
<1>statement. ASSUME ChainStatement PROVE OriginInv'
  BY <1>statement, <1>leave, <1>call, <1>resume, <1>still
  DEF ChainStatement, Resume, ResumeError, ResumeNoEffect, ResumeFreed, Stop, vars, runtimeVars
<1>generate. ASSUME NEW x \in Object, NEW d, Generate(x, d) PROVE OriginInv'
  BY <1>0, <1>generate, OriginBirth DEF Generate, Born
<1>block. ASSUME NEW x \in Object, BlockInstance(x) PROVE OriginInv'
  BY <1>0, <1>block, <1>same DEF BlockInstance, Born
<1>chain. CASE [ChainNext]_vars
  BY <1>chain, <1>still, <1>statement, <1>generate, <1>block
  DEF ChainNext, SystemEnter, SystemExit, Generator, Finish, Stop, Stopped, vars, runtimeVars
<1>process. ASSUME NEW x \in Process, NEW d, NewProcess(x, d) PROVE OriginInv'
  BY <1>0, <1>process, OriginBirth, SimulationAssumption DEF NewProcess, Born
<1>ends. ASSUME NEW x \in Object, NEW y \in Object, EndsInto(x, y) PROVE OriginInv'
  <2>1. /\ state[x] = "resumed" /\ state[y] = "detached" /\ origin' = origin
        /\ state' = [state EXCEPT ![x] = "terminated", ![y] = "resumed"]
    BY <1>0, <1>ends, EndsIntoIs
  <2>. QED
    BY <1>two, <2>1 DEF Born
<1>. QED
  BY <1>chain, <1>still, <1>process, <1>ends DEF OperatingStep, Stop

\* What holds of the sequencing runtime under any program that keeps the rules.
LEMMA CoreStep == CoreInv /\ OperatingStep => CoreInv'
  BY OperatingChart, ParkStep, FramesStep, OriginStep DEF CoreInv

-----------------------------------------------------------------------------
(* The scheduling runtime over the sequencing runtime: what one says of the *)
(* other while a program keeps the rules. *)

\* MAIN is the only coroutine that waits at the end of a Simulation block, and
\* that block is the one it is innermost inside of.
FinishInv ==
  /\ finishing \subseteq {Main}
  /\ Main \in finishing =>
       active /\ open[Main] # <<>> /\ open[Main][Len(open[Main])] \in SimBlock

\* The runtime is active just when a Simulation block is live; there is one,
\* in the program's own stack.
BlockInv ==
  /\ active \in BOOLEAN
  /\ active => \E s \in SimBlock : phase[s] = "live"
  /\ \A s \in SimBlock : phase[s] = "live" =>
       /\ active
       /\ \E i \in DOMAIN open[Main] : open[Main][i] = s
       /\ \A t \in SimBlock : phase[t] = "live" => t = s

\* A process is a component of the Simulation block that declares it, and is
\* never attached.
ProcessInv ==
  \A p \in Process :
    /\ state[p] \in {"unborn", "detached", "resumed", "terminated"}
    /\ state[p] # "unborn" => decl[p] \in SimBlock /\ system[p] = decl[p]

\* `running` and the operative component of the block's system agree.
RunningInv ==
  /\ running \in Process \cup {SimMain}
  /\ ~active => sqs = <<>> /\ running = SimMain
  /\ active => operative[SimSystem] = IF running = SimMain THEN None ELSE running

\* Only MAIN and processes of the live block that have not ended are filed.
CanQueue(p) ==
  \/ p = SimMain
  \/ p \in Process /\ decl[p] = SimSystem /\ state[p] \in {"detached", "resumed"}
Queueable(q) == \A i \in DOMAIN q : CanQueue(q[i].process)

SimInv == FinishInv /\ BlockInv /\ ProcessInv /\ RunningInv /\ Queueable(sqs)
RuledInv == CoreInv /\ SqsInv /\ SimInv

SystemIs == \A s \in SimBlock : phase[s] = "live" => SimSystem = s
\* The live Simulation block is the only one.
LEMMA SimSystemIs == BlockInv => SystemIs
  BY DEF BlockInv, SimSystem, SystemIs

\* While the runtime is active there is such a block.
LEMMA SimSystemLive ==
  ASSUME BlockInv, active
  PROVE  /\ SimSystem \in SimBlock /\ SimSystem \in Instance /\ SimSystem \in System
         /\ phase[SimSystem] = "live" /\ SimSystem # None
         /\ \E i \in DOMAIN open[Main] : open[Main][i] = SimSystem
<1>1. PICK s \in SimBlock : phase[s] = "live"
  BY DEF BlockInv
<1>2. SimSystem = s
  BY <1>1, SimSystemIs DEF SystemIs
<1>. QED
  BY <1>1, <1>2, SequencingAssumption, SimulationAssumption DEF BlockInv, System

\* Nothing is scheduled at the start.
LEMMA RuledInitially == SimInit => RuledInv
<1> SUFFICES ASSUME SimInit PROVE RuledInv
  OBVIOUS
<1>. USE SequencingAssumption, SimulationAssumption
<1>1. Init /\ active = FALSE /\ sqs = <<>> /\ running = SimMain /\ finishing = {}
  BY DEF SimInit
<1>2. CoreInv
  BY <1>1, CoreInit
<1>3. SqsInv
  BY <1>1 DEF SqsInv, SqsOrdered
<1>4. FinishInv
  BY <1>1 DEF FinishInv
<1>5. BlockInv
  <2>1. \A s \in SimBlock : phase[s] = "unused"
    BY <1>1 DEF Init, System
  <2>. QED
    BY <1>1, <2>1 DEF BlockInv
<1>6. ProcessInv
  <2>1. \A p \in Process : state[p] = "unborn"
    BY <1>1 DEF Init
  <2>. QED
    BY <2>1 DEF ProcessInv
<1>7. RunningInv /\ Queueable(sqs)
  BY <1>1 DEF RunningInv, Queueable
<1>. QED
  BY <1>2, <1>3, <1>4, <1>5, <1>6, <1>7 DEF RuledInv, SimInv

\* A resumed process is the one that `running` names.
LEMMA ResumedRuns ==
  ASSUME SeqInv, HeadsInv, SimInv, NEW p \in Process, state[p] = "resumed"
  PROVE  /\ active /\ running = p /\ system[p] = SimSystem
         /\ operative[SimSystem] = p
<1>. USE SequencingAssumption, SimulationAssumption
<1>1. p \in Object /\ system[p] \in Busy /\ phase[system[p]] = "live" /\ Lasts[system[p]] = p
  BY ResumedIsBusy
<1>2. system[p] \in SimBlock
  BY DEF SimInv, ProcessInv
<1>3. active /\ SimSystem = system[p]
  BY <1>1, <1>2, SimSystemIs DEF SystemIs, SimInv, BlockInv
<1>4. operative[SimSystem] = p
  BY <1>1, <1>3, BusyFacts
<1>. QED
  BY <1>1, <1>3, <1>4 DEF SimInv, RunningInv, Coro

\* Conversely what `running` names is resumed, in the Simulation block's system.
LEMMA RunnerResumed ==
  ASSUME SeqInv, HeadsInv, SimInv, running # SimMain
  PROVE  /\ active /\ running \in Process /\ state[running] = "resumed"
         /\ system[running] = SimSystem /\ operative[SimSystem] = running
         /\ SimSystem \in Busy
<1>. USE SequencingAssumption, SimulationAssumption
<1>1. active /\ running \in Process /\ operative[SimSystem] = running
  BY DEF SimInv, RunningInv
<1>2. SimSystem \in System /\ phase[SimSystem] = "live"
  BY <1>1, SimSystemLive DEF SimInv
<1>. QED
  BY <1>1, <1>2 DEF SeqInv, OperativeIsResumed, Busy, Coro

\* Whatever has control is attached or resumed.
LEMMA ControlIsActive ==
  ASSUME SeqInv, HeadsInv, ChartInv, current \in Object
  PROVE  state[current] \in {"attached", "resumed"}
<1>1. PICK comp, rank : Chart(comp, rank)
  BY DEF ChartInv
<1>2. current \in Alive /\ comp[current] = Main
  BY <1>1, ChartFacts
<1>3. current \notin Bases
  BY <1>1, <1>2, SequencingAssumption DEF Chart, Charted
<1>. QED
  BY <1>2, <1>3, SequencingAssumption DEF Alive, Bases

\* A process that has control is the one that runs.
LEMMA ProcessInControl ==
  ASSUME SeqInv, HeadsInv, ChartInv, SimInv, current \in Process
  PROVE  state[current] = "resumed" /\ running = current /\ active
<1>1. state[current] \in {"attached", "resumed"}
  BY ControlIsActive, SimulationAssumption
<1>2. state[current] = "resumed"
  BY <1>1 DEF SimInv, ProcessInv
<1>. QED
  BY <1>2, ResumedRuns

\* While MAIN has control, no component of a system is operative above it.
LEMMA MainInControl ==
  ASSUME SeqInv, HeadsInv, ChartInv, SimInv, current = Main
  PROVE  running = SimMain
<1> SUFFICES ASSUME running # SimMain PROVE FALSE
  OBVIOUS
<1>1. PICK comp, rank : Chart(comp, rank)
  BY DEF ChartInv
<1>2. /\ SimSystem \in Busy /\ active /\ running \in Object /\ state[running] = "resumed"
      /\ operative[SimSystem] = running
  BY RunnerResumed, SimulationAssumption
<1>3. PICK i \in DOMAIN open[Main] : open[Main][i] = SimSystem
  BY <1>2, SimSystemLive DEF SimInv
<1>4. HeadOf(SimSystem).coro = Main
  <2>1. TypeOK /\ Main \in Coro
    BY DEF SeqInv, Coro
  <2>2. HeadOf(open[Main][i]) = Place(Main, i)
    BY <1>3, <2>1, HeadOfIs
  <2>. QED
    BY <1>3, <2>2 DEF Place
<1>5. Lasts[SimSystem] = running /\ Heads[SimSystem] = Main
  BY <1>2, <1>4, BusyFacts
<1>6. comp[running] = Main /\ rank[Main] < rank[running]
  BY <1>1, <1>2, <1>5, ChartFacts DEF Chart, Nested
<1>7. /\ rank[running] <= rank[Main]
      /\ rank[running] \in Nat /\ rank[Main] \in Nat
  <2>1. running \in Alive /\ Main \in Alive
    BY <1>2 DEF Alive
  <2>2. rank \in [Alive -> Nat] /\ \A c \in Alive : comp[c] = Main => rank[c] <= rank[Main]
    BY <1>1, ChartFacts
  <2>. QED
    BY <1>6, <2>1, <2>2
<1>. QED
  BY <1>6, <1>7

\* Control inside a system is inside its operative component.
LEMMA OperatingInside ==
  ASSUME SeqInv, HeadsInv, ChartInv, NEW s \in Busy, InsideSystem(s)
  PROVE  Inside(operative[s])
<1>. DEFINE r == operative[s]
            h == Heads[s]
<1>1. PICK comp, rank : Chart(comp, rank)
  BY DEF ChartInv
<1>2. PICK p \in Chain : p.coro = HeadOf(s).coro /\ HeadOf(s).depth <= p.depth
  BY DEF InsideSystem
<1>3. p \in Placed /\ OnMain(p, comp, rank)
  BY <1>1, ChainIsOnMain
<1>4. /\ s \in System /\ phase[s] = "live" /\ r \in Object /\ Lasts[s] = r
      /\ state[r] = "resumed" /\ system[r] = s
      /\ h = HeadOf(s).coro /\ Depths[s] = HeadOf(s).depth
  BY BusyFacts
<1>5. /\ comp[h] = comp[r] /\ rank[h] < rank[r] /\ p.coro = h /\ comp[h] = Main
      /\ h \in Alive /\ r \in Alive
  BY <1>1, <1>2, <1>3, <1>4 DEF Chart, Nested, OnMain, Alive
<1>6. p = HeadOf(s)
  <2>1. HeadOf(s) \in Placed
    BY <1>4, HeadOfType DEF SeqInv
  <2>2. ~(Depths[s] < p.depth)
    BY <1>3, <1>4, <1>5 DEF OnMain, Covers
  <2>. QED
    BY <1>2, <1>3, <1>4, <2>1, <2>2 DEF Placed
<1>. HIDE DEF r, h
<1>7. PICK n \in Nat : /\ enclosing[n] = p /\ n <= Cardinality(Object)
                       /\ \A m \in Nat : m < n => enclosing[m] # p
  <2>. DEFINE S == {m \in Nat : enclosing[m] = p}
  <2>1. PICK k \in 0..Cardinality(Object) : p = enclosing[k]
    BY <1>2 DEF Chain
  <2>2. k \in S /\ S \in SUBSET Nat
    BY <2>1
  <2>3. PICK n \in S : \A m \in S : n <= m
    <3>. HIDE DEF S
    <3>. QED
      BY <2>2, Least
  <2>4. n <= k /\ \A m \in Nat : m < n => m \notin S
    BY <2>2, <2>3
  <2>5. IsFiniteSet(Object) /\ Cardinality(Object) \in Nat
    BY SimulationAssumption, FS_CardinalityType
  <2>. QED
    BY <2>1, <2>3, <2>4, <2>5
<1>8. /\ rank \in [Alive -> Nat] /\ comp[current] = Main /\ current \in Alive
      /\ \A c \in Alive : comp[c] = Main => rank[c] <= rank[current]
      /\ \A c, d \in Alive : comp[c] = comp[d] /\ rank[c] = rank[d] => c = d
      /\ \A x \in Alive \ Bases : comp[x] = comp[Point(x)] /\ rank[x] = rank[Point(x)] + 1
  BY <1>1, ChartFacts
<1>9. CASE n = 0
  <2>1. p = Innermost(current)
    BY <1>7, <1>9, EnclosingIs
  <2>2. h = current
    BY <1>5, <2>1 DEF Innermost, Place
  <2>3. rank[h] \in Nat /\ rank[r] \in Nat /\ rank[r] <= rank[h]
    BY <1>5, <1>8, <2>2
  <2>. QED
    BY <1>5, <2>3
<1>10. CASE n # 0
  <2>1. n - 1 \in Nat /\ n - 1 < n /\ n - 1 \in 0..Cardinality(Object)
    <3>1. IsFiniteSet(Object) /\ Cardinality(Object) \in Nat
      BY SimulationAssumption, FS_CardinalityType
    <3>. QED
      BY <1>7, <1>10, <3>1
  <2>2. PICK q : q = enclosing[n - 1]
    OBVIOUS
  <2>3. q \in Chain /\ q # p /\ p = Encloser(q)
    BY <1>7, <1>10, <2>1, <2>2, EnclosingIs DEF Chain
  <2>4. q \in Placed /\ OnMain(q, comp, rank)
    BY <1>1, <2>3, ChainIsOnMain
  <2>5. PICK y : y = q.coro
    OBVIOUS
  <2>6. y \in Alive /\ comp[y] = Main /\ Inside(y)
    BY <2>3, <2>4, <2>5 DEF OnMain, Inside
  <2>7. CASE y \in Object /\ state[y] = "attached"
    <3>1. p = Innermost(attachedTo[y])
      BY <2>3, <2>5, <2>7 DEF Encloser
    <3>2. attachedTo[y] = h
      BY <1>5, <3>1 DEF Innermost, Place
    <3>3. Point(y) = h /\ y \notin Bases
      BY <2>7, <3>2, SequencingAssumption DEF Point, Bases
    <3>4. comp[y] = comp[h] /\ rank[y] = rank[h] + 1
      BY <1>8, <2>6, <3>3
    <3>5. ~(rank[h] < rank[y] /\ rank[y] < rank[r])
      BY <1>4, <1>5, <2>4, <2>5, <2>6 DEF OnMain, Covers, r, h
    <3>6. rank[y] \in Nat /\ rank[h] \in Nat /\ rank[r] \in Nat
      BY <1>5, <1>8, <2>6
    <3>7. rank[y] = rank[r]
      BY <1>5, <3>4, <3>5, <3>6
    <3>8. y = r
      BY <1>5, <1>8, <2>6, <3>4, <3>7
    <3>. QED
      BY <2>6, <3>8 DEF r
  <2>8. CASE y \in Object /\ state[y] = "resumed" /\ phase[system[y]] = "live"
    <3>1. p = HeadOf(system[y])
      BY <2>3, <2>5, <2>8 DEF Encloser
    <3>2. system[y] \in System
      BY <2>8, ResumedIsBusy DEF Busy
    <3>3. system[y] = s
      BY <1>4, <1>6, <2>8, <3>1, <3>2, HeadsDistinct DEF SeqInv
    <3>4. operative[s] = y
      BY <1>4, <2>8, <3>3 DEF SeqInv, OperativeIsResumed
    <3>. QED
      BY <2>6, <3>4
  <2>9. CASE /\ ~(y \in Object /\ state[y] = "attached")
             /\ ~(y \in Object /\ state[y] = "resumed" /\ phase[system[y]] = "live")
    <3>1. /\ ~(q.coro \in Object /\ state[q.coro] = "attached")
          /\ ~(q.coro \in Object /\ state[q.coro] = "resumed" /\ phase[system[q.coro]] = "live")
      BY <2>5, <2>9
    <3>2. Encloser(q) = q
      BY <3>1 DEF Encloser
    <3>. QED
      BY <2>3, <3>2
  <2>. QED
    BY <2>7, <2>8, <2>9
<1>. QED
  BY <1>9, <1>10

\* `outward` is what its definition says.
LEMMA OutwardIs ==
  ASSUME SeqInv
  PROVE  \A n \in Nat :
           outward[n] = IF n = 0 THEN current
                        ELSE IF outward[n - 1] \in Object THEN origin[outward[n - 1]] ELSE None
<1>. DEFINE D == Coro \cup {None}
            next(c) == IF c \in Object THEN origin[c] ELSE None
            g == [c \in D |-> next(c)]
            Is(f) == f = [n \in Nat |-> IF n = 0 THEN current ELSE
                                        IF f[n - 1] \in Object THEN origin[f[n - 1]] ELSE None]
<1>1. g \in [D -> D] /\ current \in D
  BY DEF SeqInv, TypeOK
<1>2. PICK f \in [Nat -> D] : IsIteration(f, g, current)
  <2>. HIDE DEF g, D
  <2>. QED
    BY <1>1, IterationExists
<1>3. \A n \in Nat : f[n] = IF n = 0 THEN current ELSE
                            IF f[n - 1] \in Object THEN origin[f[n - 1]] ELSE None
  <2>. TAKE n \in Nat
  <2>1. f[n] = IF n = 0 THEN current ELSE g[f[n - 1]]
    BY <1>2 DEF IsIteration
  <2>2. n # 0 => f[n - 1] \in D
    BY <1>2
  <2>. QED
    BY <2>1, <2>2
<1>4. f = [n \in Nat |-> f[n]]
  BY <1>2
<1>5. Is(f)
  BY <1>3, <1>4
<1>6. outward = CHOOSE h : Is(h)
  BY DEF outward
<1>7. Is(outward)
  <2>. HIDE DEF Is
  <2>. QED
    BY <1>5, <1>6
<1>. QED
  BY <1>7

\* The search along the generators reaches MAIN within its bound.
LEMMA MainIsOutward ==
  ASSUME SeqInv, HeadsInv, ChartInv, OriginInv
  PROVE  \E n \in 0..Cardinality(Object) : outward[n] = Main
<1>. DEFINE N == Cardinality(Object)
<1>1. IsFiniteSet(Object) /\ N \in Nat
  BY SimulationAssumption, FS_CardinalityType
<1>2. PICK age \in [Object -> Nat] : Older(age)
  BY DEF OriginInv
<1> SUFFICES ASSUME \A n \in 0..N : outward[n] # Main PROVE FALSE
  OBVIOUS
<1>3. current \in Coro /\ (current \in Object => Born(current))
  BY ControlIsActive DEF SeqInv, TypeOK, Born
<1>. HIDE DEF N
<1>4. \A n \in Nat : n <= N => outward[n] \in Object /\ Born(outward[n])
  <2>. DEFINE S == {n \in Nat : n <= N => outward[n] \in Object /\ Born(outward[n])}
  <2>1. 0 \in S
    <3>1. outward[0] = current /\ 0 \in 0..N
      BY <1>1, OutwardIs
    <3>. QED
      BY <1>3, <3>1 DEF Coro
  <2>2. ASSUME NEW n \in Nat, n \in S PROVE n + 1 \in S
    <3>. SUFFICES ASSUME n + 1 <= N
                  PROVE  outward[n + 1] \in Object /\ Born(outward[n + 1])
      OBVIOUS
    <3>1. outward[n] \in Object /\ Born(outward[n]) /\ n + 1 \in 0..N
      BY <1>1, <2>2
    <3>2. outward[n + 1] = origin[outward[n]]
      BY <3>1, OutwardIs
    <3>3. outward[n + 1] # Main
      BY <3>1
    <3>. QED
      BY <1>2, <3>1, <3>2, <3>3 DEF Older, Coro
  <2>. HIDE DEF S
  <2>3. Nat \subseteq S
    BY <2>1, <2>2, SetInduction
  <2>. QED
    BY <2>3 DEF S
<1>5. \A n \in Nat : n <= N => \A m \in 0..N : m < n => age[outward[n]] < age[outward[m]]
  <2>. DEFINE S == {n \in Nat : n <= N =>
                      \A m \in 0..N : m < n => age[outward[n]] < age[outward[m]]}
  <2>1. 0 \in S
    OBVIOUS
  <2>2. ASSUME NEW n \in Nat, n \in S PROVE n + 1 \in S
    <3>. SUFFICES ASSUME n + 1 <= N, NEW m \in 0..N, m < n + 1
                  PROVE  age[outward[n + 1]] < age[outward[m]]
      OBVIOUS
    <3>1. n <= N /\ n \in 0..N
      BY <1>1
    <3>2. /\ outward[n] \in Object /\ Born(outward[n]) /\ outward[n + 1] \in Object
          /\ outward[m] \in Object
      BY <1>1, <1>4, <3>1
    <3>3. outward[n + 1] = origin[outward[n]]
      BY <3>2, OutwardIs
    <3>4. age[outward[n + 1]] < age[outward[n]]
      BY <1>2, <3>2, <3>3 DEF Older
    <3>5. m = n \/ age[outward[n]] < age[outward[m]]
      BY <1>1, <2>2, <3>1
    <3>6. age[outward[n + 1]] \in Nat /\ age[outward[n]] \in Nat /\ age[outward[m]] \in Nat
      BY <1>2, <3>2
    <3>. QED
      BY <3>4, <3>5, <3>6
  <2>. HIDE DEF S
  <2>3. Nat \subseteq S
    BY <2>1, <2>2, SetInduction
  <2>. QED
    BY <2>3 DEF S
<1>6. PICK f \in [0..N -> Object] : \A n \in 0..N : f[n] = outward[n]
  <2>1. [n \in 0..N |-> outward[n]] \in [0..N -> Object]
    BY <1>1, <1>4
  <2>. QED
    BY <2>1
<1>7. IsFiniteSet(0..N) /\ Cardinality(Object) < Cardinality(0..N)
  <2>1. Cardinality(0..N) = N + 1 /\ IsFiniteSet(0..N)
    BY <1>1, FS_Interval
  <2>. QED
    BY <1>1, <2>1 DEF N
<1>8. PICK x, y \in 0..N : x # y /\ f[x] = f[y]
  BY <1>1, <1>6, <1>7, FS_PigeonHole
<1>9. x < y \/ y < x
  BY <1>1, <1>8
<1>10. /\ x < y => age[outward[y]] < age[outward[x]]
       /\ y < x => age[outward[x]] < age[outward[y]]
  BY <1>1, <1>5
<1>11. outward[x] = outward[y] /\ age[outward[x]] \in Nat
  BY <1>1, <1>2, <1>4, <1>6, <1>8
<1>. QED
  BY <1>9, <1>10, <1>11

\* A process is generated in the live Simulation block, and the runtime's search
\* for the system of its class finds that block's.
LEMMA ProcessSystem ==
  ASSUME CoreInv, SimInv, NEW x \in Process, NEW d \in LiveBlocks, NewProcess(x, d)
  PROVE  active /\ d = SimSystem /\ system' = [system EXCEPT ![x] = d]
<1>. USE SequencingAssumption, SimulationAssumption
<1>1. /\ SeqInv /\ TypeOK /\ HeadsInv /\ ChartInv /\ FramesInv /\ OriginInv
  BY DEF CoreInv, ChainInv, SeqInv
<1>2. d \in SimBlock /\ d \in Instance /\ phase[d] = "live" /\ d # None
  BY DEF LiveBlocks, Coro, System
<1>3. /\ active /\ d = SimSystem
      /\ \A t \in SimBlock : phase[t] = "live" => t = d
  BY <1>2, SimSystemIs DEF SystemIs, SimInv, BlockInv
<1>4. PICK k \in DOMAIN open[Main] : open[Main][k] = d
  BY <1>2 DEF SimInv, BlockInv
<1>5. \A i \in 1..Len(frames) :
        BlockOf[frames[i].system] = BlockOf[d] => frames[i].system = d /\ frames[i].owner = Main
  <2>. TAKE i \in 1..Len(frames)
  <2>. HAVE BlockOf[frames[i].system] = BlockOf[d]
  <2>. frames \in Seq(Frame)
    BY <1>1 DEF TypeOK
  <2>4. frames[i] \in Frame
    OBVIOUS
  <2>1. frames[i].system \in Instance /\ frames[i].owner \in Coro
    BY <2>4 DEF Frame
  <2>2. frames[i].system = d
    BY <1>1, <1>2, <1>3, <2>1 DEF FramesInv
  <2>3. PICK l \in DOMAIN open[frames[i].owner] : open[frames[i].owner][l] = d
    BY <1>1, <2>2 DEF FramesInv
  <2>5. Main = frames[i].owner
    BY <1>1, <1>4, <2>1, <2>3 DEF HeadsInv, Coro
  <2>. QED
    BY <2>2, <2>5
<1>6. PICK i \in 1..Len(frames) : frames[i].system = d
  BY <1>1, <1>2 DEF FramesInv
<1>7. PICK n \in 0..Cardinality(Object) : outward[n] = Main
  BY <1>1, MainIsOutward
<1>8. Owns(outward[n], BlockOf[d], i)
  BY <1>5, <1>6, <1>7 DEF Owns
<1>9. \A s \in System : SystemForBlock(BlockOf[d], s) => s = d
  <2>. TAKE s \in System
  <2>. HAVE SystemForBlock(BlockOf[d], s)
  <2>1. ASSUME NEW m \in 0..Cardinality(Object), NEW j \in 1..Len(frames),
               Owns(outward[m], BlockOf[d], j), frames[j].system = s
        PROVE  s = d
    BY <1>5, <2>1 DEF Owns
  <2>2. ~(\A m \in 0..Cardinality(Object), j \in 1..Len(frames) : ~Owns(outward[m], BlockOf[d], j))
    BY <1>8
  <2>. QED
    BY <2>1, <2>2 DEF SystemForBlock
<1>10. PICK s \in System : SystemForBlock(BlockOf[d], s) /\ system' = [system EXCEPT ![x] = s]
  BY <1>2 DEF NewProcess, LocalTo
<1>. QED
  BY <1>3, <1>9, <1>10

-----------------------------------------------------------------------------
(* Transfers between the components of the Simulation block's system. *)

\* What a transfer does to the sequencing runtime.
Moved ==
  /\ UNCHANGED <<active, phase, open, decl, system>>
  /\ running' \in Process \cup {SimMain}
  /\ operative' = [operative EXCEPT ![SimSystem] = IF running' = SimMain THEN None ELSE running']
  /\ \A x \in Object :
       \/ state'[x] = state[x]
       \/ /\ x \in Process
          /\ state[x] \in {"detached", "resumed"}
          /\ state'[x] \in {"detached", "resumed", "terminated"}
NoneEnded ==
  \A x \in Process : state[x] \in {"detached", "resumed"} => state'[x] \in {"detached", "resumed"}

\* After a transfer the two runtimes agree again.
LEMMA MovedKeeps ==
  ASSUME SeqInv, SimInv, active, Moved, FinishInv', Queueable(sqs)'
  PROVE  SimInv'
<1>. USE SimulationAssumption
<1>1. BlockInv'
  BY DEF SimInv, BlockInv, Moved
<1>2. SimSystem' = SimSystem
  BY DEF SimSystem, Moved
<1>3. ProcessInv'
  BY DEF SimInv, ProcessInv, Moved
<1>4. RunningInv'
  <2>1. operative \in [System -> Object \cup {None}] /\ SimSystem \in System
    BY SimSystemLive DEF SeqInv, TypeOK, SimInv
  <2>. QED
    BY <1>2, <2>1 DEF RunningInv, Moved
<1>. QED
  BY <1>1, <1>3, <1>4 DEF SimInv

\* A transfer that ends nobody leaves every notice a notice of one who can run.
LEMMA StillQueueable ==
  ASSUME Moved, NoneEnded, NEW q, Queueable(q)
  PROVE  \A i \in DOMAIN q : CanQueue(q[i].process)'
<1>1. SimSystem' = SimSystem /\ decl' = decl
  BY DEF SimSystem, Moved
<1>. QED
  BY <1>1 DEF Queueable, CanQueue, NoneEnded

\* When the head of the set runs already, there is nothing to transfer.
LEMMA StaysMoved ==
  ASSUME SeqInv, HeadsInv, SimInv, active, UNCHANGED <<active, running, vars>>
  PROVE  Moved /\ NoneEnded
<1>1. operative \in [System -> Object \cup {None}] /\ SimSystem \in System
  BY SimSystemLive DEF SeqInv, TypeOK, SimInv
<1>2. operative' = [operative EXCEPT ![SimSystem] = IF running = SimMain THEN None ELSE running]
  BY <1>1 DEF SimInv, RunningInv, vars, runtimeVars
<1>. QED
  BY <1>2 DEF Moved, NoneEnded, vars, runtimeVars, programVars, SimInv, RunningInv

\* The resume of the head of the set finds a detached process, and takes effect.
LEMMA ResumeMoves ==
  ASSUME SeqInv, HeadsInv, ChartInv, SimInv, active, InsideSystem(SimSystem),
         NEW p \in Process, CanQueue(p), p # running, Resume(p),
         running' = p, active' = active
  PROVE  ChainStatement /\ Moved /\ NoneEnded
<1>. USE SequencingAssumption, SimulationAssumption
<1>1. /\ SimSystem \in System /\ SimSystem # None /\ phase[SimSystem] = "live"
  BY SimSystemLive DEF SimInv
<1>2. /\ p \in Object /\ state[p] \in {"detached", "resumed"} /\ system[p] = SimSystem
  BY DEF CanQueue, SimInv, ProcessInv
<1>3. state[p] = "detached"
  BY <1>2, ResumedRuns
<1>4. ResumeDetached(p)
  BY <1>1, <1>2, <1>3 DEF Resume, ResumeError, ResumeNoEffect, ResumeFreed
<1>5. ChainStatement
  BY <1>2 DEF ChainStatement
<1>6. /\ operative' = [operative EXCEPT ![SimSystem] = p]
      /\ UNCHANGED <<phase, open, decl, system>>
  BY <1>2, <1>4 DEF ResumeDetached, programVars
<1>7. p # SimMain /\ state \in [Object -> State]
  BY <1>2 DEF SeqInv, TypeOK
<1>8. CASE operative[SimSystem] = None
  <2>1. state' = [state EXCEPT ![p] = "resumed"]
    BY <1>2, <1>4, <1>8 DEF ResumeDetached
  <2>. QED
    BY <1>2, <1>3, <1>5, <1>6, <1>7, <2>1 DEF Moved, NoneEnded
<1>9. CASE operative[SimSystem] # None
  <2>1. PICK z : z = operative[SimSystem]
    OBVIOUS
  <2>2. z = running /\ z # SimMain
    BY <1>9, <2>1 DEF SimInv, RunningInv
  <2>3. z \in Process /\ state[z] = "resumed"
    BY <2>2, RunnerResumed
  <2>4. state' = [state EXCEPT ![z] = "detached", ![p] = "resumed"]
    BY <1>2, <1>4, <1>9, <2>1 DEF ResumeDetached
  <2>5. z \in Object /\ z # p
    BY <2>2, <2>3
  <2>6. /\ state'[p] = "resumed" /\ state'[z] = "detached"
        /\ \A x \in Object : x # p /\ x # z => state'[x] = state[x]
    BY <1>2, <1>7, <2>4, <2>5
  <2>. QED
    BY <1>2, <1>3, <1>5, <1>6, <1>7, <2>3, <2>6 DEF Moved, NoneEnded
<1>. QED
  BY <1>8, <1>9

\* MAIN's turn: control is inside the running process, which can detach.
LEMMA DetachMoves ==
  ASSUME SeqInv, HeadsInv, ChartInv, SimInv, active, InsideSystem(SimSystem),
         running # SimMain, Detach(running), running' = SimMain, active' = active
  PROVE  ChainStatement /\ Moved /\ NoneEnded
<1>. USE SequencingAssumption, SimulationAssumption
<1>1. /\ running \in Process /\ running \in Object /\ state[running] = "resumed"
      /\ system[running] = SimSystem /\ operative[SimSystem] = running
      /\ SimSystem \in Busy
  BY RunnerResumed
<1>2. Inside(running)
  BY <1>1, OperatingInside
<1>3. ChainStatement
  BY <1>1, <1>2 DEF ChainStatement
<1>4. phase[SimSystem] = "live"
  BY SimSystemLive DEF SimInv
<1>5. LeaveResumed(running, "detached")
  BY <1>1, <1>4 DEF Detach, LeaveAttached, LeaveFreed, LeaveError
<1>6. /\ state' = [state EXCEPT ![running] = "detached"]
      /\ operative' = [operative EXCEPT ![SimSystem] = None]
      /\ UNCHANGED <<phase, open, decl, system>>
  BY <1>1, <1>5 DEF LeaveResumed, Leave, programVars
<1>7. state \in [Object -> State]
  BY DEF SeqInv, TypeOK
<1>. QED
  BY <1>1, <1>3, <1>6, <1>7 DEF Moved, NoneEnded

\* Whatever heads the set, the transfer is a statement the operating chain allows.
LEMMA TransferMoves ==
  ASSUME SeqInv, HeadsInv, ChartInv, SimInv, active, InsideSystem(SimSystem),
         status = "running",
         NEW q \in Seq(Notice), Queueable(q), TransferToHead(q), active' = active
  PROVE  [ChainNext]_vars /\ Moved /\ NoneEnded
<1>. USE SequencingAssumption, SimulationAssumption
<1>1. CASE FirstOf(q) = running
  <2>1. UNCHANGED <<running, vars>>
    BY <1>1 DEF TransferToHead
  <2>. QED
    BY <2>1, StaysMoved
<1>2. CASE FirstOf(q) # running /\ Runner(q) # SimMain
  <2>1. /\ q # <<>> /\ FirstOf(q) = q[1].process /\ Runner(q) = FirstOf(q)
        /\ CanQueue(q[1].process)
    BY <1>2 DEF Runner, FirstOf, Queueable
  <2>2. FirstOf(q) \in Process /\ CanQueue(FirstOf(q))
    BY <1>2, <2>1 DEF CanQueue
  <2>3. running' = FirstOf(q) /\ Resume(FirstOf(q))
    BY <1>2, <2>1 DEF TransferToHead
  <2>4. ChainStatement /\ Moved /\ NoneEnded
    BY <1>2, <2>2, <2>3, ResumeMoves
  <2>. QED
    BY <2>4 DEF ChainNext
<1>3. CASE FirstOf(q) # running /\ Runner(q) = SimMain /\ running # SimMain
  <2>1. running' = SimMain /\ Detach(running)
    BY <1>3 DEF TransferToHead
  <2>2. ChainStatement /\ Moved /\ NoneEnded
    BY <1>3, <2>1, DetachMoves
  <2>. QED
    BY <2>2 DEF ChainNext
<1>4. CASE FirstOf(q) # running /\ Runner(q) = SimMain /\ running = SimMain
  <2>1. running' = SimMain /\ UNCHANGED vars
    BY <1>4 DEF TransferToHead
  <2>. QED
    BY <1>4, <2>1, StaysMoved
<1>. QED
  BY <1>1, <1>2, <1>3, <1>4

-----------------------------------------------------------------------------
(* Scheduling statements. *)

\* Cancelling files nobody new.
LEMMA CancelledQueueable ==
  ASSUME NEW q \in Seq(Notice), Queueable(q), NEW p
  PROVE  Cancelled(q, p) \in Seq(Notice) /\ Queueable(Cancelled(q, p))
<1>1. /\ Cancelled(q, p) \in Seq(Notice)
      /\ \A k \in 1..Len(Cancelled(q, p)) :
           /\ KthKept(q, p, k) \in Kept(q, p)
           /\ Cancelled(q, p)[k] = q[KthKept(q, p, k)]
  BY CancelledFacts
<1>2. \A k \in DOMAIN Cancelled(q, p) : \E i \in DOMAIN q : Cancelled(q, p)[k] = q[i]
  BY <1>1 DEF Kept
<1>. QED
  BY <1>1, <1>2 DEF Queueable

\* Filing p files nobody else.
LEMMA FiledQueueable ==
  ASSUME NEW q \in Seq(Notice), Queueable(q), NEW p, CanQueue(p), NEW s, NEW t, Filed(q, s, t, p)
  PROVE  Queueable(s)
<1>1. PICK r \in Seq(Notice) : r = Cancelled(q, p)
  BY CancelledQueueable
<1>2. PICK n \in Notice, a \in 1..Len(r) + 1 : n.process = p /\ s = InsertAt(r, a, n)
  BY <1>1 DEF Filed
<1>3. Insertion(s, r, n, a)
  BY <1>2, InsertAtIs
<1>4. \A i \in DOMAIN s : s[i] = n \/ \E j \in DOMAIN r : s[i] = r[j]
  <2>1. DOMAIN s = 1..Len(r) + 1 /\ DOMAIN r = 1..Len(r) /\ Len(r) \in Nat
    BY <1>1, <1>3 DEF Insertion
  <2>. TAKE i \in DOMAIN s
  <2>2. s[i] = IF i < a THEN r[i] ELSE IF i = a THEN n ELSE r[i - 1]
    BY <1>3, <2>1 DEF Insertion
  <2>3. (i < a => i \in DOMAIN r) /\ (i > a => i - 1 \in DOMAIN r)
    BY <2>1
  <2>4. i < a \/ i = a \/ i > a
    BY <2>1
  <2>. QED
    BY <2>2, <2>3, <2>4
<1>5. Queueable(r)
  BY <1>1, CancelledQueueable
<1>. QED
  BY <1>2, <1>4, <1>5 DEF Queueable

\* The same of a new event notice.
LEMMA EventQueueable ==
  ASSUME NEW q \in Seq(Notice), Ordered(q), Queueable(q), NEW t \in 0..MaxTime,
         NEW p \in Object \cup {SimMain}, CanQueue(p), NEW prior \in BOOLEAN
  PROVE  /\ InsertEvent(q, t, p, prior) \in Seq(Notice)
         /\ Queueable(InsertEvent(q, t, p, prior))
  BY InsertEventOrdered, FiledQueueable

\* Whom a program under the rules schedules can run.
LEMMA NamedQueues ==
  ASSUME SimInv, active, NEW p \in Named, MayRun(p)
  PROVE  CanQueue(p) /\ p \in Object \cup {SimMain} /\ p # None
  BY SimulationAssumption, SequencingAssumption
  DEF Named, MayRun, CanQueue, SimInv, ProcessInv, Coro

\* The statements of a program that keeps the rules.
Scheduling ==
  RuledActivation \/ RuledReactivation \/ Cancellation \/ (OnOwnStack /\ Suspension)
Schedules(q) == Overflow \/ Reorder(q) \/ Refile(q)

\* Every scheduling statement files only those who can run, or stops the program.
LEMMA SchedulingFiles ==
  ASSUME SeqInv, HeadsInv, ChartInv, ParkInv, SqsInv, SimInv, active, Scheduling
  PROVE  \E q \in Seq(Notice) : Queueable(q) /\ Schedules(q)
<1>. USE SimulationAssumption, SequencingAssumption
<1>. DEFINE Goal == \E q \in Seq(Notice) : Queueable(q) /\ Schedules(q)
<1>1. sqs \in Seq(Notice) /\ Ordered(sqs) /\ Queueable(sqs)
  BY DEF SqsInv, SqsOrdered, Ordered, SimInv
<1>2. Time(sqs) \in 0..MaxTime
  BY <1>1, TimeType
<1>3. \A dt \in Timing : Larger(dt, 0) \in Nat
  BY DEF Larger
<1>over. Overflow => Goal
  BY <1>1 DEF Schedules
<1>event. ASSUME NEW q \in Seq(Notice), Ordered(q), Queueable(q), NEW t \in 0..MaxTime,
                 NEW p \in Object \cup {SimMain}, CanQueue(p), NEW prior \in BOOLEAN,
                 \/ Overflow
                 \/ Reorder(InsertEvent(q, t, p, prior))
                 \/ Refile(InsertEvent(q, t, p, prior))
          PROVE  Goal
  BY <1>event, EventQueueable DEF Schedules
<1>cancel. ASSUME NEW p, Reorder(Cancelled(sqs, p)) \/ Refile(Cancelled(sqs, p)) PROVE Goal
  BY <1>1, <1>cancel, CancelledQueueable DEF Schedules
<1>same. Reorder(sqs) \/ Refile(sqs) => Goal
  BY <1>1 DEF Schedules
<1>direct. ASSUME NEW p \in Named \cup {None}, p \in Named => MayRun(p), ActivateDirect(p)
           PROVE  Goal
  <2>1. CASE Reorder(sqs)
    BY <1>same, <2>1
  <2>2. CASE p # None /\ (Overflow \/ Reorder(InsertEvent(sqs, Time(sqs), p, TRUE)))
    <3>1. p \in Object \cup {SimMain} /\ CanQueue(p)
      BY <1>direct, <2>2, NamedQueues
    <3>. QED
      BY <1>1, <1>2, <1>event, <2>2, <3>1
  <2>. QED
    BY <1>direct, <2>1, <2>2 DEF ActivateDirect
<1>timed. ASSUME NEW p \in Named, MayRun(p), NEW t \in Timing, NEW mode \in {"delay", "at"},
                 NEW prior \in BOOLEAN, NEW reac \in BOOLEAN,
                 ActivateTimed(p, t, mode, prior, reac)
          PROVE  Goal
  <2>1. PICK at : /\ at = IF mode = "delay" THEN Time(sqs) + Larger(t, 0) ELSE Larger(t, Time(sqs))
                  /\ at <= MaxTime
                  /\ Refile(sqs) \/ Overflow \/ Refile(InsertEvent(sqs, at, p, prior))
    BY <1>timed DEF ActivateTimed
  <2>2. at \in 0..MaxTime
    BY <1>2, <1>3, <2>1 DEF Larger
  <2>3. p \in Object \cup {SimMain} /\ CanQueue(p)
    BY <1>timed, NamedQueues
  <2>. QED
    BY <1>1, <1>same, <1>event, <2>1, <2>2, <2>3
<1>relative. ASSUME NEW p \in Named, MayRun(p), NEW other \in Named, NEW before \in BOOLEAN,
                    ActivateRelative(p, other, before)
             PROVE  Goal
  <2>1. p \in Object \cup {SimMain} /\ CanQueue(p)
    BY <1>relative, NamedQueues
  <2>2. CASE Refile(sqs)
    BY <1>same, <2>2
  <2>3. CASE /\ p # other /\ IsScheduled(other)
             /\ Overflow \/ Refile(InsertBeside(sqs, p, other, before))
    <3>1. PICK o \in 1..Len(sqs) : sqs[o].process = other
      BY <1>1, <2>3 DEF IsScheduled
    <3>2. /\ InsertBeside(sqs, p, other, before) \in Seq(Notice)
          /\ \E t : Filed(sqs, InsertBeside(sqs, p, other, before), t, p)
      BY <1>1, <2>1, <2>3, <3>1, InsertBesideOrdered
    <3>3. Queueable(InsertBeside(sqs, p, other, before))
      BY <1>1, <2>1, <3>2, FiledQueueable
    <3>. QED
      BY <1>over, <2>3, <3>2, <3>3 DEF Schedules
  <2>. QED
    BY <1>relative, <2>2, <2>3 DEF ActivateRelative
<1>reactivate. ASSUME NEW p \in Named, MayRun(p), ReactivateDirect(p) PROVE Goal
  <2>1. p \in Object \cup {SimMain} /\ CanQueue(p)
    BY <1>reactivate, NamedQueues
  <2>2. PICK rest \in Seq(Notice) : rest = Cancelled(sqs, p)
    BY <1>1, CancelledQueueable
  <2>3. Queueable(rest) /\ Ordered(rest) /\ Time(rest) \in 0..MaxTime
    BY <1>1, <2>2, CancelledQueueable, CancelledOrdered, TimeType
  <2>4. Overflow \/ Reorder(InsertEvent(rest, Time(rest), p, TRUE))
    BY <1>reactivate, <2>2 DEF ReactivateDirect
  <2>. QED
    BY <1>event, <2>1, <2>3, <2>4
<1>suspend. ASSUME OnOwnStack, Suspension PROVE Goal
  <2>1. PICK p \in Object \cup {SimMain} :
          Passivate(p) \/ \E dt \in Timing : Hold(p, dt)
    BY <1>suspend DEF Suspension
  <2>2. CASE Passivate(p)
    BY <1>cancel, <2>2 DEF Passivate
  <2>3. CASE \E dt \in Timing : Hold(p, dt)
    <3>1. PICK dt \in Timing : Hold(p, dt)
      BY <2>3
    <3>2. PICK t : /\ t = Time(sqs) + Larger(dt, 0) /\ t <= MaxTime
                   /\ Self(p)
                   /\ Overflow \/ Reorder(InsertEvent(sqs, t, p, FALSE))
      BY <3>1 DEF Hold
    <3>3. t \in 0..MaxTime
      BY <1>2, <1>3, <3>2
    <3>4. p = running
      <4>1. CASE current \in Process
        <5>1. p = current
          BY <3>2, <4>1 DEF Self
        <5>. QED
          BY <4>1, <5>1, ProcessInControl
      <4>2. CASE current = Main
        BY <3>2, <4>2 DEF Self, ParkInv
      <4>. QED
        BY <1>suspend, <4>1, <4>2 DEF OnOwnStack
    <3>5. CanQueue(p)
      <4>1. CASE running = SimMain
        BY <3>4, <4>1 DEF CanQueue
      <4>2. CASE running # SimMain
        <5>1. running \in Process /\ state[running] = "resumed" /\ system[running] = SimSystem
          BY <4>2, RunnerResumed
        <5>. QED
          BY <3>4, <5>1 DEF CanQueue, SimInv, ProcessInv
      <4>. QED
        BY <4>1, <4>2
    <3>. QED
      BY <1>1, <1>event, <3>2, <3>3, <3>5
  <2>. QED
    BY <2>1, <2>2, <2>3
<1>cancellation. ASSUME Cancellation PROVE Goal
  BY <1>cancel, <1>cancellation DEF Cancellation, Cancel
<1>activation. ASSUME RuledActivation PROVE Goal
  <2>1. ASSUME NEW p \in {q \in Named : MayRun(q)} \cup {None}, ActivateDirect(p) PROVE Goal
    <3>1. p \in Named \cup {None} /\ (p \in Named => MayRun(p))
      BY NamedQueues DEF Named, Coro
    <3>. QED
      BY <1>direct, <2>1, <3>1
  <2>. QED
    BY <1>activation, <1>timed, <1>relative, <2>1 DEF RuledActivation
<1>. QED
  BY <1>activation, <1>reactivate, <1>cancellation, <1>suspend
  DEF Scheduling, RuledReactivation

-----------------------------------------------------------------------------
(* Every step of a program that keeps the rules. *)

\* What is not about scheduling leaves the Simulation block as it is.
LEMMA PlainKeeps ==
  ASSUME SimInv, UNCHANGED simVars,
         \A s \in SimBlock : phase[s] = "live" => operative'[s] = operative[s],
         \A s \in SimBlock : phase'[s] = phase[s],
         \A p \in Process : /\ state'[p] = state[p] /\ decl'[p] = decl[p]
                            /\ system'[p] = system[p],
         Main \in finishing => open'[Main] = open[Main],
         \A s \in SimBlock : phase[s] = "live" /\ (\E i \in DOMAIN open[Main] : open[Main][i] = s)
                               => \E i \in DOMAIN open'[Main] : open'[Main][i] = s
  PROVE  SimInv'
<1>1. FinishInv'
  BY DEF SimInv, FinishInv, simVars
<1>2. BlockInv'
  BY DEF SimInv, BlockInv, simVars
<1>3. ProcessInv'
  BY DEF SimInv, ProcessInv
<1>4. BlockInv' => SystemIs'
  BY SimSystemIs, PTL
<1>5. active => SimSystem' = SimSystem /\ operative'[SimSystem] = operative[SimSystem]
  BY <1>2, <1>4, SimSystemLive DEF SimInv, SystemIs
<1>6. RunningInv'
  BY <1>5 DEF SimInv, RunningInv, simVars
<1>7. Queueable(sqs)'
  <2>1. CASE active
    BY <1>5, <2>1 DEF SimInv, Queueable, CanQueue, simVars
  <2>2. CASE ~active
    BY <2>2 DEF SimInv, RunningInv, Queueable, simVars
  <2>. QED
    BY <2>1, <2>2
<1>. QED
  BY <1>1, <1>2, <1>3, <1>6, <1>7 DEF SimInv

\* Nothing but a process is operative in the Simulation block's system.
LEMMA OthersElsewhere ==
  ASSUME SeqInv, HeadsInv, SimInv, NEW x \in Object \ Process, state[x] = "resumed"
  PROVE  system[x] \notin SimBlock
<1> SUFFICES ASSUME system[x] \in SimBlock PROVE FALSE
  OBVIOUS
<1>1. system[x] \in Busy /\ phase[system[x]] = "live" /\ Lasts[system[x]] = x
  BY ResumedIsBusy
<1>2. active /\ SimSystem = system[x]
  BY <1>1, SimSystemIs DEF SystemIs, SimInv, BlockInv
<1>3. operative[SimSystem] = x
  BY <1>1, <1>2, BusyFacts
<1>. QED
  BY <1>2, <1>3, SequencingAssumption DEF SimInv, RunningInv, Coro

\* Blocks that are not Simulation blocks come and go beside it.
LEMMA PlainBlocksKeep ==
  ASSUME SeqInv, HeadsInv, SimInv, UNCHANGED simVars, current \notin finishing, PlainBlocks
  PROVE  SimInv'
<1>. USE SequencingAssumption, SimulationAssumption
<1>1. /\ current \in Coro /\ open \in [Coro -> Seq(Instance)] /\ Main \in Coro
      /\ phase \in [System -> {"unused", "live", "freed"}] /\ SimBlock \subseteq System
      /\ operative \in [System -> Object \cup {None}]
  BY DEF SeqInv, TypeOK, Coro, System
<1>2. Main \in finishing => current # Main
  OBVIOUS
<1>3. ASSUME Stop("error") PROVE SimInv'
  BY <1>3, PlainKeeps DEF Stop, programVars
<1>4. ASSUME NEW s \in Instance \ SimBlock, SystemEnter(s), ~Stop("error") PROVE SimInv'
  <2>1. /\ phase' = [phase EXCEPT ![s] = "live"]
        /\ operative' = [operative EXCEPT ![s] = None]
        /\ open' = [open EXCEPT ![current] = Append(@, s)]
        /\ UNCHANGED <<state, decl, system>>
    BY <1>4 DEF SystemEnter
  <2>2. open'[Main] = open[Main] \/ (current = Main /\ open'[Main] = Append(open[Main], s))
    BY <1>1, <2>1
  <2>3. \A t : (\E i \in DOMAIN open[Main] : open[Main][i] = t)
                 => \E i \in DOMAIN open'[Main] : open'[Main][i] = t
    <3>1. open[Main] \in Seq(Instance)
      BY <1>1
    <3>2. \A i \in DOMAIN open[Main] : /\ i \in DOMAIN Append(open[Main], s)
                                       /\ Append(open[Main], s)[i] = open[Main][i]
      BY <3>1
    <3>. QED
      BY <2>2, <3>2
  <2>. QED
    BY <1>1, <1>2, <2>1, <2>2, <2>3, PlainKeeps
<1>5. ASSUME ~AtSimulationBlock, SystemExit PROVE SimInv'
  <2>. DEFINE u == InnermostOpen
  <2>1. /\ open[current] # <<>> /\ u \notin SimBlock
        /\ phase' = [phase EXCEPT ![u] = "freed"]
        /\ operative' = [operative EXCEPT ![u] = None]
        /\ LeaveInnermost
        /\ UNCHANGED <<state, decl, system>>
    BY <1>5 DEF SystemExit, AtSimulationBlock
  <2>2. u = open[current][Len(open[current])]
    BY DEF InnermostOpen
  <2>. HIDE DEF u
  <2>3. open'[Main] = open[Main]
        \/ (current = Main /\ open'[Main] = SubSeq(open[Main], 1, Len(open[Main]) - 1))
    BY <1>1, <2>1 DEF LeaveInnermost
  <2>4. ASSUME NEW t \in SimBlock, NEW i \in DOMAIN open[Main], open[Main][i] = t
        PROVE  \E j \in DOMAIN open'[Main] : open'[Main][j] = t
    <3>1. CASE open'[Main] = open[Main]
      BY <2>4, <3>1
    <3>2. CASE /\ current = Main
               /\ open'[Main] = SubSeq(open[Main], 1, Len(open[Main]) - 1)
      <4>1. open[Main] \in Seq(Instance) /\ i \in 1..Len(open[Main]) /\ i # Len(open[Main])
        BY <1>1, <2>1, <2>2, <2>4, <3>2
      <4>2. i \in 1..(Len(open[Main]) - 1)
        BY <4>1
      <4>3. /\ i \in DOMAIN SubSeq(open[Main], 1, Len(open[Main]) - 1)
            /\ SubSeq(open[Main], 1, Len(open[Main]) - 1)[i] = open[Main][i]
        BY <4>1, <4>2
      <4>. QED
        BY <2>4, <3>2, <4>3
    <3>. QED
      BY <2>3, <3>1, <3>2
  <2>. QED
    BY <1>1, <1>2, <2>1, <2>3, <2>4, PlainKeeps
<1>. QED
  BY <1>3, <1>4, <1>5 DEF PlainBlocks

\* Objects that are no processes exchange control among themselves.
LEMMA PlainStatementKeeps ==
  ASSUME SeqInv, HeadsInv, SimInv, UNCHANGED simVars, PlainStatement
  PROVE  SimInv'
<1>. USE SequencingAssumption, SimulationAssumption
<1>1. /\ state \in [Object -> State] /\ operative \in [System -> Object \cup {None}]
      /\ SimBlock \subseteq System
  BY DEF SeqInv, TypeOK, System
<1>2. PICK x \in Object \ Process :
        \/ Detach(x)
        \/ Call(x)
        \/ system[x] \notin SimBlock /\ Resume(x)
        \/ Terminate(x)
  BY DEF PlainStatement
<1>same. ASSUME UNCHANGED <<state, operative, phase, decl, system, open>> PROVE SimInv'
  BY <1>same, PlainKeeps
<1>one. ASSUME NEW st, state' = [state EXCEPT ![x] = st],
               UNCHANGED <<operative, phase, decl, system, open>>
        PROVE  SimInv'
  BY <1>1, <1>one, PlainKeeps
<1>resumed. ASSUME NEW st, state[x] = "resumed", state' = [state EXCEPT ![x] = st],
                   operative' = [operative EXCEPT ![system[x]] = None],
                   UNCHANGED <<phase, decl, system, open>>
            PROVE  SimInv'
  <2>1. system[x] \notin SimBlock
    BY <1>resumed, OthersElsewhere
  <2>. QED
    BY <1>1, <1>resumed, <2>1, PlainKeeps
<1>leave. ASSUME Detach(x) \/ Terminate(x) PROVE SimInv'
  BY <1>leave, <1>same, <1>one, <1>resumed
  DEF Detach, Terminate, LeaveAttached, LeaveResumed, LeaveFreed, LeaveError, Leave,
      Stop, vars, runtimeVars, programVars
<1>call. ASSUME Call(x) PROVE SimInv'
  BY <1>call, <1>same, <1>one DEF Call, Stop, programVars
<1>resume. ASSUME system[x] \notin SimBlock, Resume(x) PROVE SimInv'
  <2>1. CASE ResumeDetached(x)
    <3>1. PICK s, z : s = system[x] /\ z = operative[system[x]]
      OBVIOUS
    <3>2. /\ s \in System /\ s \notin SimBlock /\ phase[s] = "live"
          /\ operative' = [operative EXCEPT ![s] = x]
          /\ UNCHANGED <<phase, decl, system, open>>
      BY <1>resume, <2>1, <3>1 DEF ResumeDetached, programVars, SeqInv, TypeOK
    <3>3. \A p \in Process : state'[p] = state[p]
      <4>1. CASE z = None
        BY <1>1, <2>1, <3>1, <4>1 DEF ResumeDetached
      <4>2. CASE z # None
        <5>1. state' = [state EXCEPT ![z] = "detached", ![x] = "resumed"]
          BY <2>1, <3>1, <4>2 DEF ResumeDetached
        <5>2. z \in Object /\ state[z] = "resumed" /\ system[z] = s
          BY <1>1, <3>1, <3>2, <4>2 DEF SeqInv, OperativeIsResumed
        <5>3. z \notin Process
          BY <3>2, <5>2 DEF SimInv, ProcessInv
        <5>. QED
          BY <1>1, <5>1, <5>3
      <4>. QED
        BY <4>1, <4>2
    <3>. QED
      BY <1>1, <3>2, <3>3, PlainKeeps
  <2>. QED
    BY <1>resume, <1>same, <2>1
    DEF Resume, ResumeError, ResumeNoEffect, ResumeFreed, Stop, vars, runtimeVars, programVars
<1>. QED
  BY <1>2, <1>leave, <1>call, <1>resume

\* All that is not about scheduling keeps the operating chain and the set apart.
LEMMA PlainStep ==
  ASSUME SeqInv, HeadsInv, SimInv, current \notin finishing, status = "running",
         UNCHANGED simVars,
         PlainBlocks \/ PlainGenerator \/ PlainStatement \/ Finish
  PROVE  SimInv' /\ OperatingStep
<1>1. CASE PlainBlocks
  <2>1. ChainNext
    BY <1>1 DEF ChainNext, PlainBlocks
  <2>. QED
    BY <1>1, <2>1, PlainBlocksKeep DEF OperatingStep
<1>2. CASE PlainGenerator
  <2>1. PICK x \in Object \ Process, d \in (Visible \cap Instance) \cup {None} : Generate(x, d)
    BY <1>2 DEF PlainGenerator
  <2>2. ChainNext
    BY <2>1 DEF ChainNext, Generator
  <2>3. \A y \in Object : y # x => system'[y] = system[y]
    BY <2>1, LocalToType DEF Generate
  <2>4. /\ state' = [state EXCEPT ![x] = "attached"] /\ decl' = [decl EXCEPT ![x] = d]
        /\ UNCHANGED <<phase, operative, open>>
    BY <2>1 DEF Generate
  <2>5. \A p \in Process : /\ state'[p] = state[p] /\ decl'[p] = decl[p]
                           /\ system'[p] = system[p]
    BY <2>3, <2>4, SimulationAssumption DEF SeqInv, TypeOK
  <2>6. SimInv'
    BY <2>4, <2>5, PlainKeeps
  <2>. QED
    BY <2>2, <2>6 DEF OperatingStep
<1>3. CASE PlainStatement
  <2>1. ChainStatement
    BY <1>3 DEF PlainStatement, ChainStatement
  <2>. QED
    BY <1>3, <2>1, PlainStatementKeeps DEF OperatingStep, ChainNext
<1>4. CASE Finish
  BY <1>4, PlainKeeps DEF Finish, Stop, programVars, OperatingStep, ChainNext
<1>. QED
  BY <1>1, <1>2, <1>3, <1>4

\* No object but a process changes state.
OthersStay == \A y \in Object \ Process : state'[y] = state[y]

\* The Simulation block is entered: its system is new and MAIN is operative in it.
LEMMA EnterStep ==
  ASSUME SeqInv, HeadsInv, SimInv, status = "running", NEW s \in SimBlock,
         current = Main, ~active, SimEnter(s)
  PROVE  SimInv' /\ OperatingStep /\ OthersStay
<1>. USE SequencingAssumption, SimulationAssumption
<1>1. CASE Stop("error") /\ UNCHANGED simVars
  <2>1. SimInv'
    BY <1>1, PlainKeeps DEF Stop, programVars
  <2>. QED
    BY <1>1, <2>1 DEF OperatingStep, OthersStay, Stop
<1>2. CASE /\ Len(frames) # MaxFrames /\ SystemEnter(s) /\ active' = TRUE
           /\ sqs' = <<NoticeOf(0, SimMain)>> /\ running' = SimMain /\ UNCHANGED finishing
  <2>1. /\ phase' = [phase EXCEPT ![s] = "live"]
        /\ operative' = [operative EXCEPT ![s] = None]
        /\ open' = [open EXCEPT ![current] = Append(@, s)]
        /\ UNCHANGED <<state, decl, system>>
    BY <1>2 DEF SystemEnter
  <2>2. /\ open \in [Coro -> Seq(Instance)] /\ Main \in Coro
        /\ phase \in [System -> {"unused", "live", "freed"}] /\ SimBlock \subseteq System
        /\ operative \in [System -> Object \cup {None}] /\ s \in Instance
    BY DEF SeqInv, TypeOK, Coro, System
  <2>3. FinishInv'
    BY <1>2 DEF SimInv, FinishInv
  <2>4. \E i \in DOMAIN open'[Main] : open'[Main][i] = s
    <3>1. open'[Main] = Append(open[Main], s) /\ open[Main] \in Seq(Instance)
      BY <2>1, <2>2
    <3>2. /\ Len(open[Main]) + 1 \in DOMAIN Append(open[Main], s)
          /\ Append(open[Main], s)[Len(open[Main]) + 1] = s
      BY <3>1
    <3>. QED
      BY <3>1, <3>2
  <2>5. \A t \in SimBlock : phase'[t] = "live" <=> t = s
    BY <2>1, <2>2 DEF SimInv, BlockInv
  <2>6. BlockInv'
    BY <1>2, <2>4, <2>5 DEF BlockInv
  <2>7. ProcessInv'
    BY <2>1 DEF SimInv, ProcessInv
  <2>8. SystemIs'
    BY <2>6, SimSystemIs, PTL
  <2>9. SimSystem' = s
    BY <2>5, <2>8 DEF SystemIs
  <2>10. RunningInv'
    BY <1>2, <2>1, <2>2, <2>9 DEF RunningInv
  <2>11. Queueable(sqs)'
    BY <1>2 DEF Queueable, CanQueue, NoticeOf
  <2>12. ChainNext
    BY <1>2, <2>2 DEF ChainNext
  <2>. QED
    BY <2>1, <2>3, <2>6, <2>7, <2>10, <2>11, <2>12 DEF SimInv, OperatingStep, OthersStay
<1>. QED
  BY <1>1, <1>2 DEF SimEnter

\* The Simulation block ends when MAIN is inside it, with nothing operative in it.
LEMMA EndStep ==
  ASSUME SeqInv, HeadsInv, SimInv, status = "running", SimEnd
  PROVE  SimInv' /\ OperatingStep /\ OthersStay
<1>. USE SequencingAssumption, SimulationAssumption
<1>1. /\ current = Main /\ SystemExit /\ active' = FALSE /\ sqs' = <<>> /\ running' = SimMain
      /\ finishing' = {}
  BY DEF SimEnd, SimInv, FinishInv
<1>2. active /\ InnermostOpen \in SimBlock
  BY <1>1 DEF SimEnd, SimInv, FinishInv, InnermostOpen
<1>3. /\ phase' = [phase EXCEPT ![InnermostOpen] = "freed"]
      /\ UNCHANGED <<state, decl, system>>
  BY <1>1 DEF SystemExit
<1>4. /\ phase \in [System -> {"unused", "live", "freed"}] /\ SimBlock \subseteq System
      /\ open[current] \in Seq(Instance)
  BY DEF SeqInv, TypeOK, System
<1>5. phase[InnermostOpen] = "live"
  <2>1. open[current] # <<>> /\ Len(open[current]) \in DOMAIN open[current]
    BY <1>1, <1>4 DEF SystemExit
  <2>. QED
    BY <1>1, <2>1 DEF HeadsInv, InnermostOpen, Coro
<1>6. \A s \in SimBlock : phase'[s] # "live"
  <2>1. \A t \in SimBlock : phase[t] = "live" => t = InnermostOpen
    BY <1>2, <1>5 DEF SimInv, BlockInv
  <2>. QED
    BY <1>2, <1>3, <1>4, <2>1
<1>7. BlockInv' /\ FinishInv'
  BY <1>1, <1>6 DEF BlockInv, FinishInv
<1>8. ProcessInv'
  BY <1>3 DEF SimInv, ProcessInv
<1>9. RunningInv' /\ Queueable(sqs)'
  BY <1>1 DEF RunningInv, Queueable
<1>10. ChainNext
  BY <1>1 DEF ChainNext
<1>. QED
  BY <1>3, <1>7, <1>8, <1>9, <1>10 DEF SimInv, OperatingStep, OthersStay

\* A process is generated detached, in the live block's system.
LEMMA ProcessStep ==
  ASSUME CoreInv, SimInv, NEW x \in Process, NEW d \in LiveBlocks, NewProcess(x, d)
  PROVE  SimInv' /\ OperatingStep /\ OthersStay
<1>. USE SequencingAssumption, SimulationAssumption
<1>1. active /\ d = SimSystem /\ system' = [system EXCEPT ![x] = d]
  BY ProcessSystem
<1>2. /\ state[x] = "unborn"
      /\ state' = [state EXCEPT ![x] = "detached"]
      /\ decl' = [decl EXCEPT ![x] = d]
      /\ UNCHANGED <<phase, operative, open, simVars>>
  BY DEF NewProcess
<1>3. /\ state \in [Object -> State] /\ decl \in [Object -> Instance \cup {None}]
      /\ system \in [Object -> System \cup {None}] /\ x \in Object
  BY DEF CoreInv, ChainInv, SeqInv, TypeOK
<1>4. SimSystem' = SimSystem
  BY <1>2 DEF SimSystem
<1>5. FinishInv' /\ BlockInv'
  BY <1>2 DEF SimInv, FinishInv, BlockInv, simVars
<1>6. ProcessInv'
  <2>1. d \in SimBlock
    BY DEF LiveBlocks
  <2>. QED
    BY <1>1, <1>2, <1>3, <2>1 DEF SimInv, ProcessInv
<1>7. RunningInv'
  BY <1>2, <1>4 DEF SimInv, RunningInv, simVars
<1>8. Queueable(sqs)'
  BY <1>2, <1>3, <1>4 DEF SimInv, Queueable, CanQueue, simVars
<1>. QED
  BY <1>2, <1>3, <1>5, <1>6, <1>7, <1>8 DEF SimInv, OperatingStep, OthersStay

\* The notices of a set from which x is gone name processes that have not ended.
LEMMA TerminateStep ==
  ASSUME SeqInv, HeadsInv, ChartInv, SqsInv, SimInv, status = "running",
         NEW x \in Process, TerminateCurrent(x)
  PROVE  SimInv' /\ OperatingStep /\ OthersStay
<1>. USE SequencingAssumption, SimulationAssumption
<1>1. /\ FinalEnd(x) /\ current = x /\ active /\ UNCHANGED <<active, finishing>>
      /\ x \in Object
  BY DEF TerminateCurrent, FinalEnd
<1>2. state[x] = "resumed" /\ running = x
  BY <1>1, ProcessInControl
<1>3. /\ system[x] = SimSystem /\ operative[SimSystem] = x /\ SimSystem \in System
      /\ phase[SimSystem] = "live" /\ SimSystem # None
  BY <1>1, <1>2, ResumedRuns, SimSystemLive DEF SimInv
<1>4. sqs \in Seq(Notice) /\ Ordered(sqs) /\ Queueable(sqs)
  BY DEF SqsInv, SqsOrdered, Ordered, SimInv
<1>5. PICK q \in Seq(Notice) : q = Cancelled(sqs, x)
  BY <1>4, CancelledQueueable
<1>6. Queueable(q) /\ \A k \in DOMAIN q : q[k].process # x
  BY <1>4, <1>5, CancelledQueueable, CancelledOrdered
<1>7. /\ sqs' = q /\ running' = Runner(q)
      /\ IF Runner(q) = SimMain THEN Terminate(x) ELSE TerminateResuming(x, FirstOf(q))
  BY <1>5 DEF TerminateCurrent
<1>8. /\ state \in [Object -> State]
      /\ operative \in [System -> Object \cup {None}]
  BY DEF SeqInv, TypeOK
<1>end. ASSUME Moved, \A y \in Object : y # x /\ state[y] \in {"detached", "resumed"}
                                           => state'[y] \in {"detached", "resumed"}
        PROVE  SimInv'
  <2>1. SimSystem' = SimSystem
    BY <1>end DEF SimSystem, Moved
  <2>2. Queueable(sqs)'
    BY <1>6, <1>7, <1>end, <2>1 DEF Queueable, CanQueue, Moved
  <2>3. FinishInv'
    BY <1>1, <1>end DEF SimInv, FinishInv, Moved
  <2>. QED
    BY <1>1, <1>end, <2>2, <2>3, MovedKeeps
<1>9. CASE Runner(q) = SimMain
  <2>1. Terminate(x)
    BY <1>7, <1>9
  <2>2. LeaveResumed(x, "terminated")
    BY <1>2, <1>3, <2>1 DEF Terminate, LeaveAttached, LeaveFreed, LeaveError
  <2>3. /\ state' = [state EXCEPT ![x] = "terminated"]
        /\ operative' = [operative EXCEPT ![SimSystem] = None]
        /\ UNCHANGED <<phase, open, decl, system>>
    BY <1>3, <2>2 DEF LeaveResumed, Leave, programVars
  <2>4. /\ Moved
        /\ \A y \in Object : y # x => state'[y] = state[y]
    BY <1>1, <1>2, <1>7, <1>8, <1>9, <2>3 DEF Moved
  <2>5. ChainStatement
    BY <1>1, <2>1 DEF ChainStatement
  <2>. QED
    BY <1>end, <2>4, <2>5 DEF OperatingStep, ChainNext, OthersStay
<1>10. CASE Runner(q) # SimMain
  <2>1. PICK y : y = FirstOf(q)
    OBVIOUS
  <2>2. q # <<>> /\ y = q[1].process /\ running' = y /\ y # SimMain /\ 1 \in DOMAIN q
    BY <1>7, <1>10, <2>1 DEF Runner, FirstOf
  <2>3. y \in Process /\ CanQueue(y) /\ y # x /\ y \in Object
    BY <1>6, <2>2 DEF Queueable, CanQueue
  <2>4. state[y] = "detached" /\ system[y] = SimSystem
    BY <1>2, <2>2, <2>3, ResumedRuns DEF CanQueue, SimInv, ProcessInv
  <2>5. EndsInto(x, y)
    BY <1>1, <1>2, <1>3, <1>7, <1>10, <2>1, <2>3, <2>4 DEF EndsInto
  <2>6. /\ state' = [state EXCEPT ![x] = "terminated", ![y] = "resumed"]
        /\ operative' = [operative EXCEPT ![SimSystem] = y]
        /\ UNCHANGED <<phase, open, decl, system>>
    BY <1>1, <1>3, <2>3, <2>5, EndsIntoIs DEF programVars
  <2>7. /\ state'[x] = "terminated" /\ state'[y] = "resumed"
        /\ \A z \in Object : z # x /\ z # y => state'[z] = state[z]
    BY <1>1, <1>8, <2>3, <2>6
  <2>8. Moved
    BY <1>1, <1>2, <2>2, <2>3, <2>4, <2>6, <2>7 DEF Moved
  <2>9. \A z \in Object : z # x /\ state[z] \in {"detached", "resumed"}
                             => state'[z] \in {"detached", "resumed"}
    BY <2>7
  <2>. QED
    BY <1>1, <1>end, <2>3, <2>5, <2>7, <2>8, <2>9 DEF OperatingStep, OthersStay
<1>. QED
  BY <1>9, <1>10

\* Control is inside the Simulation block when MAIN is.
LEMMA MainInSimulation ==
  ASSUME SeqInv, HeadsInv, SimInv, active, current = Main
  PROVE  InsideSystem(SimSystem)
<1>. USE SequencingAssumption, SimulationAssumption
<1>1. phase[SimSystem] = "live" /\ SimSystem \in Instance
  BY SimSystemLive DEF SimInv
<1>2. PICK i \in DOMAIN open[Main] : open[Main][i] = SimSystem
  BY SimSystemLive DEF SimInv
<1>3. Main \in Coro /\ TypeOK /\ open[Main] \in Seq(Instance)
  BY DEF SeqInv, TypeOK, Coro
<1>4. HeadOf(SimSystem) = Place(Main, i)
  BY <1>2, <1>3, HeadOfIs
<1>5. Innermost(Main) = Place(Main, Len(open[Main])) /\ i <= Len(open[Main])
  BY <1>2, <1>3 DEF Innermost
<1>6. Innermost(Main) \in Chain
  <2>1. 0 \in 0..Cardinality(Object)
    BY FS_CardinalityType
  <2>2. enclosing[0] = Innermost(Main)
    BY EnclosingIs
  <2>. QED
    BY <2>1, <2>2 DEF Chain
<1>. QED
  BY <1>1, <1>4, <1>5, <1>6 DEF InsideSystem, Place

\* MAIN leaves the set at the end of the block, to the first process if there is one.
LEMMA FinishStep ==
  ASSUME SeqInv, HeadsInv, ChartInv, SqsInv, SimInv, status = "running", current = Main,
         active, FinishMain
  PROVE  SimInv' /\ OperatingStep /\ OthersStay
<1>1. PICK q \in Seq(Notice) : q = Cancelled(sqs, SimMain) /\ Queueable(q)
  BY CancelledQueueable DEF SqsInv, SimInv
<1>2. /\ AtSimulationBlock /\ finishing' = finishing \cup {Main} /\ sqs' = q
      /\ TransferToHead(q) /\ active' = active
  BY <1>1 DEF FinishMain
<1>3. InsideSystem(SimSystem)
  BY MainInSimulation
<1>4. [ChainNext]_vars /\ Moved /\ NoneEnded
  BY <1>1, <1>2, <1>3, TransferMoves
<1>5. Queueable(sqs)'
  BY <1>1, <1>2, <1>4, StillQueueable DEF Queueable
<1>6. FinishInv'
  BY <1>2, <1>4 DEF SimInv, FinishInv, AtSimulationBlock, InnermostOpen, Moved
<1>. QED
  BY <1>4, <1>5, <1>6, MovedKeeps DEF OperatingStep, OthersStay, Moved

\* A scheduling statement inside the Simulation block.
LEMMA ScheduleStep ==
  ASSUME SeqInv, HeadsInv, ChartInv, ParkInv, SqsInv, SimInv, status = "running",
         InSimulation, Scheduling
  PROVE  SimInv' /\ OperatingStep /\ OthersStay
<1>1. active /\ InsideSystem(SimSystem)
  BY DEF InSimulation
<1>2. PICK q \in Seq(Notice) : Queueable(q) /\ Schedules(q)
  BY <1>1, SchedulingFiles
<1>3. CASE Overflow
  <2>1. SimInv'
    BY <1>3, PlainKeeps DEF Overflow, Stop, programVars
  <2>. QED
    BY <1>3, <2>1 DEF Overflow, OperatingStep, OthersStay, Stop
<1>moved. ASSUME Moved, NoneEnded, sqs' = q, UNCHANGED finishing PROVE SimInv'
  <2>1. Queueable(sqs)'
    BY <1>2, <1>moved, StillQueueable DEF Queueable
  <2>2. FinishInv'
    BY <1>moved DEF SimInv, FinishInv, Moved
  <2>. QED
    BY <1>1, <1>moved, <2>1, <2>2, MovedKeeps
<1>4. CASE Reorder(q)
  <2>1. sqs' = q /\ TransferToHead(q) /\ UNCHANGED <<active, finishing>>
    BY <1>4 DEF Reorder
  <2>2. [ChainNext]_vars /\ Moved /\ NoneEnded
    BY <1>1, <1>2, <2>1, TransferMoves
  <2>. QED
    BY <1>moved, <2>1, <2>2 DEF OperatingStep, OthersStay, Moved
<1>5. CASE Refile(q)
  <2>1. sqs' = q /\ UNCHANGED <<active, running, finishing, vars>>
    BY <1>5 DEF Refile
  <2>2. Moved /\ NoneEnded
    BY <1>1, <2>1, StaysMoved
  <2>. QED
    BY <1>moved, <2>1, <2>2 DEF OperatingStep, OthersStay, Moved
<1>. QED
  BY <1>2, <1>3, <1>4, <1>5 DEF Schedules

\* Every step under the rules is one the sequencing runtime is built for.
LEMMA RuledStep == RuledInv /\ [RuledNext]_allVars => SimInv' /\ OperatingStep
<1> SUFFICES ASSUME RuledInv, [RuledNext]_allVars PROVE SimInv' /\ OperatingStep
  OBVIOUS
<1>0. CoreInv /\ SeqInv /\ HeadsInv /\ ChartInv /\ ParkInv /\ SqsInv /\ SimInv
  BY DEF RuledInv, CoreInv, ChainInv
<1>1. CASE UNCHANGED <<vars, simVars>>
  <2>1. SimInv'
    BY <1>0, <1>1, PlainKeeps DEF vars, runtimeVars, programVars
  <2>. QED
    BY <1>1, <2>1 DEF OperatingStep
<1>2. CASE status = "running" /\ current \notin finishing /\ Ruled
  <2>1. ASSUME NEW s \in SimBlock, current = Main, ~active, SimEnter(s)
        PROVE  SimInv' /\ OperatingStep
    BY <1>0, <1>2, <2>1, EnterStep
  <2>2. ASSUME current = Main, active, FinishMain PROVE SimInv' /\ OperatingStep
    BY <1>0, <1>2, <2>2, FinishStep
  <2>3. ASSUME NEW x \in Process, NEW d \in LiveBlocks, NewProcess(x, d)
        PROVE  SimInv' /\ OperatingStep
    BY <1>0, <2>3, ProcessStep
  <2>4. ASSUME NEW x \in Process, TerminateCurrent(x) PROVE SimInv' /\ OperatingStep
    BY <1>0, <1>2, <2>4, TerminateStep
  <2>5. ASSUME InSimulation, Scheduling PROVE SimInv' /\ OperatingStep
    BY <1>0, <1>2, <2>5, ScheduleStep
  <2>6. ASSUME NoSimulation PROVE SimInv' /\ OperatingStep
    <3>1. SimInv'
      BY <1>0, <2>6, PlainKeeps DEF NoSimulation, Stop, programVars
    <3>. QED
      BY <2>6, <3>1 DEF NoSimulation, OperatingStep
  <2>7. ASSUME PlainBlocks \/ PlainGenerator \/ PlainStatement \/ Finish, UNCHANGED simVars
        PROVE  SimInv' /\ OperatingStep
    BY <1>0, <1>2, <2>7, PlainStep
  <2>. QED
    BY <1>2, <2>1, <2>2, <2>3, <2>4, <2>5, <2>6, <2>7 DEF Ruled, Scheduling
<1>3. CASE status = "running" /\ SimEnd
  BY <1>0, <1>3, EndStep
<1>4. CASE Stopped /\ UNCHANGED simVars
  BY <1>1, <1>4 DEF Stopped
<1>. QED
  BY <1>1, <1>2, <1>3, <1>4 DEF RuledNext, allVars

-----------------------------------------------------------------------------
(* The exchange of reactivation points, with processes. *)

\* A new process keeps its own place.
LEMMA ProcessPoints ==
  ASSUME SeqInv, NEW x \in Process, NEW d \in LiveBlocks, NewProcess(x, d)
  PROVE  Points!Next
<1>. USE SequencingAssumption, SimulationAssumption DEF System, Coro
<1>1. /\ x \in Object /\ state[x] = "unborn"
      /\ state' = [state EXCEPT ![x] = "detached"]
      /\ park' = [park EXCEPT ![x] = x]
      /\ attachedTo' = [attachedTo EXCEPT ![x] = current]
      /\ UNCHANGED <<current, phase, mainPark, orphans>>
      /\ \A y \in Object : y # x => system'[y] = system[y]
  BY LocalToType DEF NewProcess
<1>2. Waiting' = Waiting \cup {x}
  BY <1>1 DEF Waiting, SeqInv, TypeOK
<1>3. \A y \in Waiting : y # x /\ Point(y)' = Point(y)
  BY <1>1 DEF Waiting, Point, SeqInv, TypeOK
<1>4. Point(x)' = x
  BY <1>1 DEF Point, SeqInv, TypeOK
<1>5. PointOf' = [PointOf EXCEPT ![x] = x]
  BY <1>2, <1>3, <1>4 DEF PointOf
<1>6. LifeOf[x] = "unborn" /\ LifeOf' = [LifeOf EXCEPT ![x] = "alive"]
  BY <1>1 DEF LifeOf, Life, SeqInv, TypeOK
<1>7. Points!BeginDetached(x)
  BY <1>1, <1>5, <1>6 DEF Points!BeginDetached
<1>. QED
  BY <1>1, <1>7 DEF Points!Next

\* The process that takes over keeps the place the ended one kept.
LEMMA EndsIntoPoints ==
  ASSUME SeqInv, HeadsInv, NEW x \in Object, NEW y \in Object, EndsInto(x, y)
  PROVE  Points!Next
<1>. USE SequencingAssumption DEF System, Coro
<1>1. /\ current = x /\ state[x] = "resumed" /\ state[y] = "detached" /\ x # y
      /\ system[x] \in System /\ phase[system[x]] = "live"
      /\ operative[system[x]] = x /\ system[y] = system[x]
      /\ state' = [state EXCEPT ![x] = "terminated", ![y] = "resumed"]
      /\ park' = [park EXCEPT ![x] = None]
      /\ current' = park[y]
      /\ UNCHANGED <<attachedTo, system, phase, mainPark, orphans>>
  BY EndsIntoIs DEF SwitchTo, programVars
<1>2. x \in Waiting /\ y \in Waiting /\ Point(x) = mainPark[system[x]] /\ Point(y) = park[y]
  BY <1>1 DEF Waiting, Point
<1>3. /\ PointOf[x] = Point(x) /\ PointOf[x] # None
      /\ PointOf[y] = park[y] /\ PointOf[y] # None
  BY <1>2, PointIsCoro
<1>4. /\ state'[x] = "terminated" /\ state'[y] = "resumed"
      /\ \A z \in Object : z # x /\ z # y => state'[z] = state[z] /\ park'[z] = park[z]
  BY <1>1 DEF SeqInv, TypeOK
<1>5. x \notin Waiting' /\ y \in Waiting' /\ Point(y)' = Point(x)
  BY <1>1, <1>2, <1>4 DEF Waiting, Point
<1>6. \A z \in Object : z # x /\ z # y
        => Point(z)' = Point(z) /\ (z \in Waiting' <=> z \in Waiting)
  BY <1>1, <1>4 DEF Waiting, Point
<1>7. PointOf' = [PointOf EXCEPT ![y] = PointOf[x], ![x] = None]
  BY <1>1, <1>3, <1>5, <1>6 DEF PointOf
<1>8. LifeOf' = [LifeOf EXCEPT ![x] = "ended"]
  BY <1>1, <1>4 DEF LifeOf, Life
<1>9. Points!EndInto(x, y)
  BY <1>1, <1>3, <1>7, <1>8 DEF Points!EndInto
<1>. QED
  BY <1>9 DEF Points!Next

\* Every operating step is an exchange.
LEMMA OperatingPoints ==
  ASSUME SeqInv, HeadsInv, OperatingStep
  PROVE  [Points!Next]_(Points!vars)
<1>1. CASE [ChainNext]_vars
  <2>1. [Next]_vars
    BY <1>1 DEF ChainNext, ChainStatement, Next, Blocks, Statement
  <2>. QED
    BY <2>1, PointsStepwise
<1>2. CASE Stop("error")
  BY <1>2, PointsSame DEF Stop, programVars
<1>3. ASSUME NEW x \in Process, NEW d \in LiveBlocks, NewProcess(x, d)
      PROVE  [Points!Next]_(Points!vars)
  BY <1>3, ProcessPoints
<1>4. ASSUME NEW x \in Object, NEW y \in Object, EndsInto(x, y)
      PROVE  [Points!Next]_(Points!vars)
  BY <1>4, EndsIntoPoints
<1>. QED
  BY <1>1, <1>2, <1>3, <1>4 DEF OperatingStep

-----------------------------------------------------------------------------
(* Programs that keep the rules of chapter 12. *)

\* The invariant is inductive.
LEMMA RuledInvStep == RuledInv /\ [RuledNext]_allVars => RuledInv'
<1> SUFFICES ASSUME RuledInv, [RuledNext]_allVars PROVE RuledInv'
  OBVIOUS
<1>1. SimInv' /\ OperatingStep
  BY RuledStep
<1>2. CoreInv'
  BY <1>1, CoreStep DEF RuledInv
<1>3. SqsInv'
  BY StepsOfSet, SqsStep DEF RuledInv, SqsInv
<1>. QED
  BY <1>1, <1>2, <1>3 DEF RuledInv

\* Under every program that keeps the rules, the records of sim.c and those of
\* sequencing.c fit together.
THEOREM RuledInvariant == RuledSpec => []RuledInv
  BY RuledInitially, RuledInvStep, PTL DEF RuledSpec

\* `running` is what the Simulation block's system has for operative, and
\* while control is inside the block it is inside that component: the scheduler
\* and the coroutine layer never disagree on who runs.
THEOREM RunningAlwaysOperative == RuledSpec => []RunningIsOperative
<1>1. RuledInv => RunningIsOperative
  <2> SUFFICES ASSUME RuledInv, active
               PROVE  /\ operative[SimSystem] = IF running = SimMain THEN None ELSE running
                      /\ InSimulation => Inside(IF running = SimMain THEN Main ELSE running)
    BY DEF RunningIsOperative
  <2>0. SeqInv /\ HeadsInv /\ ChartInv /\ SimInv
    BY DEF RuledInv, CoreInv, ChainInv
  <2>1. operative[SimSystem] = IF running = SimMain THEN None ELSE running
    BY <2>0 DEF SimInv, RunningInv
  <2>2. ASSUME InsideSystem(SimSystem), running = SimMain PROVE Inside(Main)
    <3>1. PICK i \in DOMAIN open[Main] : open[Main][i] = SimSystem
      BY <2>0, SimSystemLive DEF SimInv
    <3>2. Main \in Coro /\ TypeOK
      BY <2>0 DEF SeqInv, Coro
    <3>3. HeadOf(SimSystem) = Place(Main, i)
      BY <2>0, <3>1, <3>2, HeadOfIs
    <3>. QED
      BY <2>2, <3>3 DEF InsideSystem, Inside, Place
  <2>3. ASSUME InsideSystem(SimSystem), running # SimMain PROVE Inside(running)
    <3>1. SimSystem \in Busy /\ operative[SimSystem] = running
      BY <2>0, <2>3, RunnerResumed
    <3>. QED
      BY <2>0, <2>3, <3>1, OperatingInside
  <2>. QED
    BY <2>1, <2>2, <2>3 DEF InSimulation
<1>. QED
  BY <1>1, RuledInvariant, PTL

\* Whoever heads the sequencing set can be given control: no notice names an
\* ended process, nor one that waits anywhere but at its own detach.
THEOREM FiledCanRun == RuledSpec => []NoticesCanRun
<1>1. RuledInv => NoticesCanRun
  <2> SUFFICES ASSUME RuledInv, NEW i \in DOMAIN sqs
               PROVE  \/ sqs[i].process \in {SimMain, running}
                      \/ state[sqs[i].process] = "detached"
    BY DEF NoticesCanRun
  <2>1. SeqInv /\ HeadsInv /\ SimInv
    BY DEF RuledInv, CoreInv, ChainInv
  <2>2. CanQueue(sqs[i].process)
    BY <2>1 DEF SimInv, Queueable
  <2>. QED
    BY <2>1, <2>2, ResumedRuns DEF CanQueue
<1>. QED
  BY <1>1, RuledInvariant, PTL

\* The fields of g_sim hold what their readers take them to hold, and the
\* notices fit in the fixed array.
THEOREM SchedulingTypes == RuledSpec => []SimTypeOK
<1>1. RuledInv => SimTypeOK
  BY SimulationAssumption
  DEF RuledInv, SqsInv, SimInv, BlockInv, RunningInv, FinishInv, SimTypeOK, Coro
<1>. QED
  BY <1>1, RuledInvariant, PTL

\* Chapter 12 included, everything the runtime does is an exchange of
\* reactivation points.
THEOREM RuledImplementsPoints == RuledSpec => ImplementsPoints
<1>1. SimInit => Points!Init
  BY PointsInitially DEF SimInit
<1>2. RuledInv /\ [RuledNext]_allVars => [Points!Next]_(Points!vars)
  BY RuledStep, OperatingPoints DEF RuledInv, CoreInv, ChainInv
<1>. QED
  BY <1>1, <1>2, RuledInvariant, PTL DEF RuledSpec, ImplementsPoints, Points!Spec

\* The way from the running coroutine leads to MAIN, every detached component
\* is closed, and no block ends under an operative component, with processes
\* and their scheduling in the program too.
THEOREM RuledKeepsChain ==
  RuledSpec => [](WayLeadsToMain /\ DetachedComponentsClosed /\ SystemsEndClean)
<1>1. RuledInv => ChainInv
  BY DEF RuledInv, CoreInv
<1>2. ChainInv => WayLeadsToMain /\ DetachedComponentsClosed /\ SystemsEndClean
  BY ChartLeadsToMain, ChartComponentsClosed DEF ChainInv
<1>. QED
  BY <1>1, <1>2, RuledInvariant, PTL

\* No place is kept twice and none is lost, with processes in the program too.
THEOREM RuledPointsSafe == RuledSpec => []PointsSafe
<1>1. Points!PointsInv => PointsSafe
  BY DEF Points!PointsInv, PointsSafe
<1>. QED
  BY <1>1, ExchangesAreSafe, RuledImplementsPoints, PTL

\* Control is not given to a process that has ended: the runtime's internal
\* fault never strikes, also when a final end goes straight to the next process.
THEOREM RuledNeverFaults == RuledSpec => []NoInternalFault
<1>1. SimInit => NoInternalFault
  BY DEF SimInit, Init, NoInternalFault
<1>2. RuledInv /\ Points!PointsInv /\ NoInternalFault /\ [RuledNext]_allVars => NoInternalFault'
  <2> SUFFICES ASSUME RuledInv, Points!PointsInv, NoInternalFault, [RuledNext]_allVars
               PROVE  NoInternalFault'
    OBVIOUS
  <2>0. SeqInv /\ HeadsInv
    BY DEF RuledInv, CoreInv, ChainInv
  <2>1. OperatingStep
    BY RuledStep
  <2>2. CASE [ChainNext]_vars
    <3>1. [Next]_vars
      BY <2>2 DEF ChainNext, ChainStatement, Next, Blocks, Statement
    <3>. QED
      BY <2>0, <3>1, NoInternalFaultStep
  <2>3. CASE Stop("error")
    BY <2>3 DEF Stop, NoInternalFault
  <2>4. ASSUME NEW x \in Process, NEW d \in LiveBlocks, NewProcess(x, d) PROVE NoInternalFault'
    BY <2>4 DEF NewProcess, NoInternalFault
  <2>5. ASSUME NEW x \in Object, NEW y \in Object, EndsInto(x, y) PROVE NoInternalFault'
    <3>1. /\ current = x /\ state[y] = "detached" /\ x # y
          /\ state' = [state EXCEPT ![x] = "terminated", ![y] = "resumed"]
          /\ SwitchTo(park[y])
      BY <2>0, <2>5, EndsIntoIs
    <3>2. y \in Waiting /\ Point(y) = park[y]
      BY <3>1 DEF Waiting, Point
    <3>3. /\ park[y] # x
          /\ park[y] \in Object => state[park[y]] \in {"attached", "detached", "resumed"}
      BY <2>0, <3>1, <3>2, PointFacts
    <3>4. park[y] \in Object => state'[park[y]] # "terminated"
      BY <2>0, <3>1, <3>3 DEF SeqInv, TypeOK
    <3>. QED
      BY <3>1, <3>4 DEF SwitchTo, NoInternalFault
  <2>. QED
    BY <2>1, <2>2, <2>3, <2>4, <2>5 DEF OperatingStep
<1>. QED
  BY <1>1, <1>2, RuledInvariant, ExchangesAreSafe, RuledImplementsPoints, PTL DEF RuledSpec

-----------------------------------------------------------------------------
(* Programs whose processes queue for their turn. *)

OnlyProcesses == \A x \in Object \ Process : state[x] = "unborn"

\* With processes alone, control is always inside the Simulation block while
\* there is one.
LEMMA QueueInSimulation ==
  ASSUME RuledInv, OnlyProcesses, active
  PROVE  InSimulation /\ OnOwnStack
<1>. USE SequencingAssumption, SimulationAssumption
<1>1. SeqInv /\ HeadsInv /\ ChartInv /\ SimInv /\ current \in Coro
  BY DEF RuledInv, CoreInv, ChainInv, SeqInv, TypeOK
<1>2. CASE current = Main
  BY <1>1, <1>2, MainInSimulation DEF InSimulation, OnOwnStack
<1>3. CASE current # Main
  <2>1. current \in Object /\ state[current] \in {"attached", "resumed"}
    BY <1>1, <1>3, ControlIsActive DEF Coro
  <2>2. current \in Process
    BY <2>1 DEF OnlyProcesses
  <2>3. state[current] = "resumed" /\ system[current] = SimSystem
    BY <1>1, <2>2, ProcessInControl, ResumedRuns
  <2>4. phase[SimSystem] = "live" /\ SimSystem \in System
    BY <1>1, SimSystemLive DEF SimInv
  <2>5. Encloser(Innermost(current)) = HeadOf(SimSystem)
    BY <2>1, <2>3, <2>4 DEF Encloser, Innermost, Place
  <2>6. enclosing[0] = Innermost(current) /\ enclosing[1] = HeadOf(SimSystem)
    BY <1>1, <2>5, EnclosingIs
  <2>7. 1 \in 0..Cardinality(Object)
    <3>1. IsFiniteSet(Object) /\ Object # {}
      BY <2>1
    <3>2. Cardinality(Object) \in Nat /\ Cardinality(Object) # 0
      BY <3>1, FS_CardinalityType, FS_EmptySet
    <3>. QED
      BY <3>2
  <2>8. HeadOf(SimSystem) \in Chain /\ HeadOf(SimSystem).depth \in Nat
    <3>1. HeadOf(SimSystem) \in Placed
      BY <1>1, <2>4, HeadOfType DEF SeqInv
    <3>. QED
      BY <2>6, <2>7, <3>1 DEF Chain, Placed
  <2>9. HeadOf(SimSystem).depth <= HeadOf(SimSystem).depth
    BY <2>8
  <2>. QED
    BY <2>2, <2>4, <2>8, <2>9 DEF InSimulation, InsideSystem, OnOwnStack
<1>. QED
  BY <1>2, <1>3

\* Each step of such a program is a step under the rules.
LEMMA QueueStepIsRuled ==
  RuledInv /\ OnlyProcesses /\ [QueueNext]_allVars => [RuledNext]_allVars /\ OnlyProcesses'
<1> SUFFICES ASSUME RuledInv, OnlyProcesses, [QueueNext]_allVars
             PROVE  [RuledNext]_allVars /\ OnlyProcesses'
  OBVIOUS
<1>0. /\ CoreInv /\ SeqInv /\ HeadsInv /\ ChartInv /\ ParkInv /\ SqsInv /\ SimInv
      /\ finishing \subseteq {Main}
  BY DEF RuledInv, CoreInv, ChainInv, SimInv, FinishInv
<1>stays. OthersStay => OnlyProcesses'
  BY DEF OthersStay, OnlyProcesses
<1>still. UNCHANGED state => OnlyProcesses'
  BY DEF OnlyProcesses
<1>1. CASE status = "running" /\ current \notin finishing /\ QueueStep
  <2>1. ASSUME NEW s \in SimBlock, current = Main, ~active, SimEnter(s)
        PROVE  Ruled /\ OnlyProcesses'
    BY <1>0, <1>1, <1>stays, <2>1, EnterStep DEF Ruled
  <2>2. ASSUME current = Main, active, FinishMain PROVE Ruled /\ OnlyProcesses'
    BY <1>0, <1>1, <1>stays, <2>2, FinishStep DEF Ruled
  <2>3. ASSUME NEW x \in Process, NEW d \in LiveBlocks, NewProcess(x, d)
        PROVE  Ruled /\ OnlyProcesses'
    BY <1>0, <1>stays, <2>3, ProcessStep DEF Ruled
  <2>4. ASSUME InSimulation, NEW p \in {q \in Named : MayRun(q)}, NEW t \in Timing,
               NEW mode \in {"delay", "at"}, ActivateTimed(p, t, mode, FALSE, FALSE)
        PROVE  Ruled /\ OnlyProcesses'
    <3>1. RuledActivation
      BY <2>4 DEF RuledActivation
    <3>. QED
      BY <1>0, <1>1, <1>stays, <2>4, <3>1, ScheduleStep DEF Ruled, Scheduling
  <2>5. ASSUME InSimulation, Cancellation PROVE Ruled /\ OnlyProcesses'
    BY <1>0, <1>1, <1>stays, <2>5, ScheduleStep DEF Ruled, Scheduling
  <2>6. ASSUME Finish, UNCHANGED simVars PROVE Ruled /\ OnlyProcesses'
    BY <1>still, <2>6 DEF Ruled, Finish, Stop
  <2>. QED
    BY <1>1, <2>1, <2>2, <2>3, <2>4, <2>5, <2>6 DEF QueueStep, RuledNext
<1>2. CASE PhaseEnds
  <2>1. ASSUME current \notin finishing, active, Suspension PROVE Ruled /\ OnlyProcesses'
    <3>1. InSimulation /\ OnOwnStack
      BY <2>1, QueueInSimulation
    <3>. QED
      BY <1>0, <1>2, <1>stays, <2>1, <3>1, ScheduleStep DEF Ruled, Scheduling, PhaseEnds
  <2>2. ASSUME NEW x \in Process, TerminateCurrent(x)
        PROVE  current \notin finishing /\ Ruled /\ OnlyProcesses'
    <3>1. current = x /\ x # Main
      BY <2>2, SequencingAssumption, SimulationAssumption DEF TerminateCurrent, FinalEnd
    <3>. QED
      BY <1>0, <1>2, <1>stays, <2>2, <3>1, TerminateStep DEF Ruled, PhaseEnds
  <2>3. ASSUME SimEnd PROVE OnlyProcesses'
    BY <1>0, <1>2, <1>stays, <2>3, EndStep DEF PhaseEnds
  <2>. QED
    BY <1>2, <2>1, <2>2, <2>3 DEF PhaseEnds, RuledNext
<1>3. CASE Stopped /\ UNCHANGED simVars
  BY <1>3, <1>still DEF RuledNext, Stopped, vars, runtimeVars
<1>4. CASE UNCHANGED allVars
  BY <1>4, <1>still DEF allVars, vars, runtimeVars
<1>. QED
  BY <1>1, <1>2, <1>3, <1>4 DEF QueueNext

\* Queueing for one's turn is a way to keep the rules: such programs have
\* everything proved of the ruled ones.
THEOREM QueueKeepsRules == QueueSpec => RuledSpec
<1>1. SimInit => OnlyProcesses
  BY DEF SimInit, Init, OnlyProcesses
<1>2. RuledInv /\ OnlyProcesses /\ [QueueNext]_allVars => RuledInv' /\ OnlyProcesses'
  BY QueueStepIsRuled, RuledInvStep
<1>. QED
  BY <1>1, <1>2, RuledInitially, QueueStepIsRuled, PTL DEF QueueSpec, RuledSpec
=============================================================================
