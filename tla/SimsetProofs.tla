----------------------------- MODULE SimsetProofs -----------------------------
(***************************************************************************)
(* Proofs about Simset, for any number of links and heads, heads of        *)
(* subclasses of Head included: the rings stay closed (RingInv), they are  *)
(* sequences of members (SetsInv, whose witness m is the layout of all     *)
(* rings at once), each operation changes that layout as the sets change,  *)
(* and a walk is a run along a line of places that ends at a head.         *)
(***************************************************************************)
EXTENDS Simset, FiniteSetTheorems, SequenceTheorems, WellFoundedInduction, TLAPS

\* RingsLinked of a ring by itself.
Linked(r) ==
  /\ r \in [suc : Field, pred : Field]
  /\ \A x \in Linkage :
       /\ r.suc[x] = None <=> r.pred[x] = None
       /\ r.suc[x] # None => r.pred[r.suc[x]] = x /\ r.suc[r.pred[x]] = x

\* A head of class Head is always on a ring, one of a subclass never is.
HeadsLinked(r) == \A h \in Heads : r.suc[h] = None <=> h \in Derived

RingInv == TypeOK /\ Linked(ring) /\ HeadsLinked(ring)

\* It begins so.
LEMMA RingInit == Init => RingInv
  BY SimsetAssumption
  DEF Init, RingInv, Linked, HeadsLinked, TypeOK, Field, Linkage, IsHead

(***************************************************************************)
(* Taking a link out leaves every ring closed, and the link on none.       *)
(***************************************************************************)
LEMMA UnlinkKeeps ==
  ASSUME NEW r, Linked(r), HeadsLinked(r), NEW x \in Links
  PROVE  /\ Linked(Unlink(r, x))
         /\ HeadsLinked(Unlink(r, x))
         /\ Unlink(r, x).suc[x] = None
<1> USE SimsetAssumption DEF Linkage, Field
<1>1. CASE r.suc[x] = None
  BY <1>1 DEF Unlink
<1>2. CASE r.suc[x] # None
  <2>. DEFINE p == r.pred[x]
              s == r.suc[x]
              u == Unlink(r, x)
  <2>1. /\ p \in Linkage /\ s \in Linkage
        /\ r.suc[p] = x /\ r.pred[s] = x
        /\ r.suc \in Field /\ r.pred \in Field
    BY <1>2 DEF Linked
  <2>2. CASE p = x
    BY <1>2, <2>1, <2>2 DEF Unlink, Linked, HeadsLinked
  <2>3. CASE p # x
    BY <1>2, <2>1, <2>3 DEF Unlink, Linked, HeadsLinked
  <2>. QED
    BY <2>2, <2>3
<1>. QED
  BY <1>1, <1>2

(***************************************************************************)
(* Putting a link that is on no ring next to something that is on one.     *)
(***************************************************************************)
LEMMA LinkBeforeKeeps ==
  ASSUME NEW r, Linked(r), HeadsLinked(r),
         NEW x \in Links, r.suc[x] = None,
         NEW y \in Linkage, CanJoin(r, y)
  PROVE  Linked(LinkBefore(r, x, y)) /\ HeadsLinked(LinkBefore(r, x, y))
<1> USE SimsetAssumption DEF Linkage, Field
<1>1. r.suc[y] # None /\ y # x /\ r.pred[y] \in Linkage /\ r.pred[y] # x
  BY DEF CanJoin, IsHead, HeadsLinked, Linked
<1>. QED
  BY <1>1 DEF LinkBefore, Linked, HeadsLinked

\* And after it.
LEMMA LinkAfterKeeps ==
  ASSUME NEW r, Linked(r), HeadsLinked(r),
         NEW x \in Links, r.suc[x] = None,
         NEW y \in Linkage, CanJoin(r, y)
  PROVE  Linked(LinkAfter(r, x, y)) /\ HeadsLinked(LinkAfter(r, x, y))
<1> USE SimsetAssumption DEF Linkage, Field
<1>1. r.suc[y] # None /\ y # x /\ r.suc[y] \in Linkage /\ r.suc[y] # x
  BY DEF CanJoin, IsHead, HeadsLinked, Linked
<1>. QED
  BY <1>1 DEF LinkAfter, Linked, HeadsLinked

(***************************************************************************)
(* One step per operation; the walks only choose whom `clear` takes out.   *)
(***************************************************************************)
LEMMA RingStep == RingInv /\ [Next]_vars => RingInv'
<1> SUFFICES ASSUME RingInv, [Next]_vars PROVE RingInv'
  OBVIOUS
<1>. DEFINE Kept == Linked(ring') /\ HeadsLinked(ring')
<1>out. ASSUME NEW x \in Links, Out(x) PROVE Kept
  BY <1>out, UnlinkKeeps DEF Out, RingInv
<1>precede. ASSUME NEW x \in Links, NEW y \in Linkage \cup {None}, Precede(x, y)
            PROVE  Kept
  <2>1. CanJoin(Unlink(ring, x), y) => y \in Linkage
    BY DEF CanJoin
  <2>. QED
    BY <1>precede, <2>1, UnlinkKeeps, LinkBeforeKeeps DEF Precede, RingInv
<1>follow. ASSUME NEW x \in Links, NEW y \in Linkage \cup {None}, Follow(x, y)
           PROVE  Kept
  <2>1. CanJoin(Unlink(ring, x), y) => y \in Linkage
    BY DEF CanJoin
  <2>. QED
    BY <1>follow, <2>1, UnlinkKeeps, LinkAfterKeeps DEF Follow, RingInv
<1>first. ASSUME NEW h \in Heads, First(h) # None, Out(First(h)) PROVE Kept
  <2>1. First(h) \in Links \/ First(h) \in Derived
    BY <1>first DEF First, SucOf, Skip, IsLink, IsHead, Linkage
  <2>2. CASE First(h) \in Links
    BY <1>first, <1>out, <2>2
  <2>3. CASE First(h) \in Derived
    BY <1>first, <2>3, SimsetAssumption DEF Out, Unlink, HeadsLinked, RingInv
  <2>. QED
    BY <2>1, <2>2, <2>3
<1>same. ring' = ring => Kept
  BY DEF RingInv
<1>kept. Kept
  <2>1. CASE Member
    BY <2>1, <1>out, <1>precede, <1>follow DEF Member
  <2>2. CASE ClearStep
    BY <2>2, <1>first, <1>same DEF ClearStep, RingInv, TypeOK
  <2>. QED
    BY <2>1, <2>2, <1>same DEF Next, ClearBegin, vars
<1>types. scheduled' \subseteq Process /\ clearing' \in Heads \cup {None}
  BY DEF Next, ClearBegin, ClearStep, Schedule, Unschedule, vars, RingInv, TypeOK
<1>. QED
  BY <1>kept, <1>types DEF RingInv, TypeOK, Linked

(***************************************************************************)
(* No member is ever half in a set, whatever is put where in whatever      *)
(* order: SUC and PRED undo one another on every object.                   *)
(***************************************************************************)
THEOREM RingsStayLinked == Spec => []RingsLinked
<1>1. RingInv => RingsLinked
  BY DEF RingInv, Linked, RingsLinked
<1>. QED
  BY <1>1, RingInit, RingStep, PTL DEF Spec

-----------------------------------------------------------------------------
(* Numbers and iteration.                                                  *)

\* A set of numbers has a least one.
LEMMA Least ==
  ASSUME NEW S \in SUBSET Nat, S # {}
  PROVE  \E n \in S : \A m \in S : n <= m
<1>1. PICK n \in S : \A m \in S : ~(<<m, n>> \in OpToRel(<, Nat))
  BY WFMin, NatLessThanWellFounded, Zenon
<1>2. ASSUME NEW m \in S PROVE n <= m
  <2>1. ~(m < n)
    BY <1>1 DEF OpToRel
  <2>. QED
    BY <2>1
<1>. QED
  BY <1>2

\* Induction, of a set.
LEMMA SetInduction ==
  ASSUME NEW S, 0 \in S, \A n \in Nat : n \in S => n + 1 \in S
  PROVE  Nat \subseteq S
<1> SUFFICES ASSUME Nat \ S # {} PROVE FALSE
  OBVIOUS
<1>1. PICK n \in Nat \ S : \A m \in Nat \ S : n <= m
  BY Least
<1>2. n - 1 \in Nat /\ n - 1 \notin Nat \ S
  BY <1>1
<1>. QED
  BY <1>1, <1>2

\* The iteration of a function from c exists.
IsIteration(f, g, c) ==
  f = [n \in Nat |-> IF n = 0 THEN c ELSE g[f[n - 1]]]

\* The first n steps of the iteration.
Start(h, n, g, c, D) ==
  /\ h \in [0..n -> D]
  /\ h[0] = c
  /\ \A i \in 1..n : h[i] = g[h[i - 1]]

\* Beginnings of the iteration agree.
LEMMA StartUnique ==
  ASSUME NEW D, NEW g, NEW c, NEW m \in Nat, NEW n \in Nat, NEW h, NEW k,
         Start(h, m, g, c, D), Start(k, n, g, c, D)
  PROVE  \A i \in 0..m \cap 0..n : h[i] = k[i]
<1>. DEFINE S == {i \in Nat : i \in 0..m \cap 0..n => h[i] = k[i]}
<1>1. 0 \in S
  BY DEF Start
<1>2. \A i \in Nat : i \in S => i + 1 \in S
  BY DEF Start
<1>3. Nat \subseteq S
  <2>. HIDE DEF S
  <2>. QED
    BY <1>1, <1>2, SetInduction
<1>. QED
  BY <1>3

\* So the iteration is a function of all the numbers.
LEMMA IterationExists ==
  ASSUME NEW D, NEW g \in [D -> D], NEW c \in D
  PROVE  \E f \in [Nat -> D] : IsIteration(f, g, c)
<1>. DEFINE S == {n \in Nat : \E h : Start(h, n, g, c, D)}
<1>1. 0 \in S
  <2>1. Start([i \in 0..0 |-> c], 0, g, c, D)
    BY DEF Start
  <2>. QED
    BY <2>1
<1>2. ASSUME NEW n \in Nat, n \in S PROVE n + 1 \in S
  <2>1. PICK h : Start(h, n, g, c, D)
    BY <1>2
  <2>. DEFINE k == [i \in 0..(n + 1) |-> IF i = n + 1 THEN g[h[n]] ELSE h[i]]
  <2>2. Start(k, n + 1, g, c, D)
    BY <2>1 DEF Start
  <2>. QED
    BY <2>2
<1>3. \A n \in Nat : \E h : Start(h, n, g, c, D)
  <2>1. Nat \subseteq S
    <3>. HIDE DEF S
    <3>. QED
      BY <1>1, <1>2, SetInduction
  <2>. QED
    BY <2>1
<1>. DEFINE H(n) == CHOOSE h : Start(h, n, g, c, D)
            f == [n \in Nat |-> H(n)[n]]
<1>4. \A n \in Nat : Start(H(n), n, g, c, D)
  BY <1>3
<1>. HIDE DEF H
<1>5. f \in [Nat -> D]
  BY <1>4 DEF Start
<1>6. \A n \in Nat : f[n] = IF n = 0 THEN c ELSE g[f[n - 1]]
  <2>. TAKE n \in Nat
  <2>1. CASE n = 0
    BY <1>4, <2>1 DEF Start
  <2>2. CASE n # 0
    <3>1. n - 1 \in Nat /\ n - 1 \in 0..n \cap 0..(n - 1)
      BY <2>2
    <3>2. H(n)[n - 1] = H(n - 1)[n - 1]
      BY <1>4, <3>1, StartUnique
    <3>3. H(n)[n] = g[H(n)[n - 1]]
      BY <1>4, <2>2 DEF Start
    <3>. QED
      BY <2>2, <3>1, <3>2, <3>3
  <2>. QED
    BY <2>1, <2>2
<1>. HIDE DEF f
<1>7. IsIteration(f, g, c)
  BY <1>5, <1>6 DEF IsIteration
<1>. QED
  BY <1>5, <1>7

-----------------------------------------------------------------------------
(* The sets that the rings are.                                            *)

\* The place after i others on the ring of h whose members are s.
Node(h, s, i) == IF i \in 1..Len(s) THEN s[i] ELSE h

\* From h through the members s and back to h.
Ring(r, h, s) == \A i \in 0..Len(s) : r.suc[Node(h, s, i)] = Node(h, s, i + 1)

\* m gives the members of every ring of r, and they are all that are linked.
Laid(r, m) ==
  /\ m \in [Heads -> Seq(Links)]
  /\ \A h \in Derived : m[h] = <<>>
  /\ \A h \in Heads \ Derived : Ring(r, h, m[h])
  /\ \A x \in Links : r.suc[x] # None => \E h \in Heads : \E i \in DOMAIN m[h] : m[h][i] = x
  /\ \A h, k \in Heads : \A i \in DOMAIN m[h], j \in DOMAIN m[k] :
       m[h][i] = m[k][j] => h = k /\ i = j

\* s without what is in place i, and with x after the first i.
Taken(s, i) == [j \in 1..(Len(s) - 1) |-> IF j < i THEN s[j] ELSE s[j + 1]]
Put(s, i, x) == [j \in 1..(Len(s) + 1) |-> IF j <= i THEN s[j] ELSE IF j = i + 1 THEN x ELSE s[j - 1]]

\* One member fewer.
LEMMA TakenType ==
  ASSUME NEW S, NEW s \in Seq(S), NEW i \in DOMAIN s
  PROVE  Taken(s, i) \in Seq(S) /\ Len(Taken(s, i)) = Len(s) - 1
<1>1. Len(s) \in Nat /\ i \in 1..Len(s) /\ Len(s) - 1 \in Nat
  OBVIOUS
<1>2. \A j \in 1..(Len(s) - 1) : (IF j < i THEN s[j] ELSE s[j + 1]) \in S
  BY <1>1
<1>. QED
  BY <1>1, <1>2 DEF Taken

\* And with x put in.
LEMMA PutType ==
  ASSUME NEW S, NEW s \in Seq(S), NEW i \in 0..Len(s), NEW x \in S
  PROVE  Put(s, i, x) \in Seq(S) /\ Len(Put(s, i, x)) = Len(s) + 1
<1>1. Len(s) \in Nat /\ Len(s) + 1 \in Nat
  OBVIOUS
<1>2. \A j \in 1..(Len(s) + 1) : (IF j <= i THEN s[j] ELSE IF j = i + 1 THEN x ELSE s[j - 1]) \in S
  BY <1>1
<1>. QED
  BY <1>1, <1>2 DEF Put

\* What the abstract specification calls these.
LEMMA RemovedIs ==
  ASSUME NEW S, NEW s \in Seq(S), NEW x
  PROVE  /\ (\A i \in DOMAIN s : s[i] # x) => Sets!Removed(s, x) = s
         /\ \A i \in DOMAIN s : s[i] = x /\ (\A j \in DOMAIN s : s[j] = x => j = i)
              => Sets!Removed(s, x) = Taken(s, i)
<1>1. (\A i \in DOMAIN s : s[i] # x) => Sets!Removed(s, x) = s
  BY DEF Sets!Removed
<1>2. ASSUME NEW i \in DOMAIN s, s[i] = x, \A j \in DOMAIN s : s[j] = x => j = i
      PROVE  Sets!Removed(s, x) = Taken(s, i)
  <2>1. (CHOOSE k \in DOMAIN s : s[k] = x) = i
    BY <1>2
  <2>2. Sets!Removed(s, x) = SubSeq(s, 1, i - 1) \o SubSeq(s, i + 1, Len(s))
    BY <1>2, <2>1 DEF Sets!Removed
  <2>3. Len(s) \in Nat /\ i \in 1..Len(s)
    OBVIOUS
  <2>4. PICK a, b : a = SubSeq(s, 1, i - 1) /\ b = SubSeq(s, i + 1, Len(s))
    OBVIOUS
  <2>5. /\ a \in Seq(S) /\ Len(a) = i - 1 /\ \A j \in 1..(i - 1) : a[j] = s[j]
        /\ b \in Seq(S) /\ Len(b) = Len(s) - i /\ \A j \in 1..(Len(s) - i) : b[j] = s[i + j]
    BY <2>3, <2>4
  <2>6. /\ a \o b \in Seq(S) /\ Len(a \o b) = Len(a) + Len(b)
        /\ \A j \in 1..(Len(a) + Len(b)) :
             (a \o b)[j] = IF j <= Len(a) THEN a[j] ELSE b[j - Len(a)]
    BY <2>5, ConcatProperties
  <2>7. PICK c : c = a \o b
    OBVIOUS
  <2>9. Len(c) = Len(s) - 1
    BY <2>3, <2>5, <2>6, <2>7
  <2>10. ASSUME NEW j \in 1..(Len(s) - 1) PROVE c[j] = Taken(s, i)[j]
    <3>1. c[j] = IF j <= i - 1 THEN a[j] ELSE b[j - (i - 1)]
      <4>1. Len(a) + Len(b) = Len(s) - 1 /\ Len(a) = i - 1
        BY <2>3, <2>5
      <4>2. j \in 1..(Len(a) + Len(b))
        BY <4>1
      <4>3. c[j] = IF j <= Len(a) THEN a[j] ELSE b[j - Len(a)]
        BY <2>6, <2>7, <4>2
      <4>. QED
        BY <4>1, <4>3
    <3>2. CASE j < i
      BY <2>3, <2>5, <3>1, <3>2 DEF Taken
    <3>3. CASE j >= i
      <4>1. j - (i - 1) \in 1..(Len(s) - i) /\ i + (j - (i - 1)) = j + 1
        BY <2>3, <3>3
      <4>. QED
        <5>1. ~(j <= i - 1) /\ ~(j < i)
          BY <2>3, <3>3
        <5>2. c[j] = b[j - (i - 1)]
          BY <3>1, <5>1
        <5>3. b[j - (i - 1)] = s[j + 1]
          BY <2>5, <4>1
        <5>. QED
          BY <5>1, <5>2, <5>3 DEF Taken
    <3>. QED
      BY <2>3, <3>2, <3>3
  <2>11. Taken(s, i) \in Seq(S) /\ Len(Taken(s, i)) = Len(s) - 1 /\ c \in Seq(S)
    BY <2>6, <2>7, TakenType
  <2>8. a \o b = Taken(s, i)
    BY <2>7, <2>9, <2>10, <2>11, SeqEqual
  <2>. QED
    BY <2>2, <2>4, <2>8
<1>. QED
  BY <1>1, <1>2

\* Put is what it calls Placed.
LEMMA PlacedIs ==
  ASSUME NEW S, NEW s \in Seq(S), NEW x \in S, NEW n \in 0..Len(s)
  PROVE  Sets!Placed(s, n, x) = Put(s, n, x)
<1>1. Len(s) \in Nat /\ n \in Nat /\ n <= Len(s)
  OBVIOUS
<1>2. PICK a, b : a = SubSeq(s, 1, n) /\ b = SubSeq(s, n + 1, Len(s))
  OBVIOUS
<1>3. /\ a \in Seq(S) /\ Len(a) = n /\ \A j \in 1..n : a[j] = s[j]
      /\ b \in Seq(S) /\ Len(b) = Len(s) - n /\ \A j \in 1..(Len(s) - n) : b[j] = s[n + j]
  BY <1>1, <1>2
<1>4. PICK c : c = Append(a, x)
  OBVIOUS
<1>5. c \in Seq(S) /\ Len(c) = n + 1 /\ \A j \in 1..(n + 1) : c[j] = IF j <= n THEN a[j] ELSE x
  BY <1>1, <1>3, <1>4
<1>6. a \o <<x>> = c
  BY <1>3, <1>4, AppendIsConcat
<1>7. /\ c \o b \in Seq(S) /\ Len(c \o b) = Len(c) + Len(b)
      /\ \A j \in 1..(Len(c) + Len(b)) :
           (c \o b)[j] = IF j <= Len(c) THEN c[j] ELSE b[j - Len(c)]
  BY <1>3, <1>5, ConcatProperties
<1>8. PICK d : d = c \o b
  OBVIOUS
<1>10. Len(d) = Len(s) + 1 /\ Len(c) + Len(b) = Len(s) + 1
  <2>1. Len(c) + Len(b) = Len(s) + 1
    BY <1>1, <1>3, <1>5
  <2>. QED
    BY <1>7, <1>8, <2>1
<1>11. ASSUME NEW j \in 1..(Len(s) + 1) PROVE d[j] = Put(s, n, x)[j]
  <2>1. d[j] = IF j <= n + 1 THEN c[j] ELSE b[j - (n + 1)]
    BY <1>5, <1>7, <1>8, <1>10
  <2>2. CASE j <= n + 1
    BY <1>1, <1>3, <1>5, <2>1, <2>2 DEF Put
  <2>3. CASE j > n + 1
    <3>1. j - (n + 1) \in 1..(Len(s) - n) /\ n + (j - (n + 1)) = j - 1 /\ ~(j <= n) /\ j # n + 1
      BY <1>1, <2>3
    <3>. QED
      <4>1. d[j] = b[j - (n + 1)]
        BY <1>1, <2>1, <2>3
      <4>2. b[j - (n + 1)] = s[j - 1]
        BY <1>3, <3>1
      <4>. QED
        BY <3>1, <4>1, <4>2 DEF Put
  <2>. QED
    BY <1>1, <2>2, <2>3
<1>12. Put(s, n, x) \in Seq(S) /\ Len(Put(s, n, x)) = Len(s) + 1 /\ d \in Seq(S)
  BY <1>7, <1>8, PutType
<1>9. c \o b = Put(s, n, x)
  BY <1>8, <1>10, <1>11, <1>12, SeqEqual
<1>. QED
  BY <1>2, <1>6, <1>9 DEF Sets!Placed

\* Members are linked, and on one ring only.
LEMMA LaidFacts ==
  ASSUME NEW r, Linked(r), HeadsLinked(r), NEW m, Laid(r, m), NEW h \in Heads \ Derived,
         NEW i \in 0..(Len(m[h]) + 1)
  PROVE  /\ m[h] \in Seq(Links) /\ Len(m[h]) \in Nat
         /\ Node(h, m[h], i) \in Linkage
         /\ Node(h, m[h], i) \in Links <=> i \in 1..Len(m[h])
         /\ r.suc[Node(h, m[h], i)] # None
         /\ i <= Len(m[h]) => r.suc[Node(h, m[h], i)] = Node(h, m[h], i + 1)
         /\ i # 0 => r.pred[Node(h, m[h], i)] = Node(h, m[h], i - 1)
<1>. USE SimsetAssumption DEF Linkage
<1>1. m[h] \in Seq(Links) /\ Len(m[h]) \in Nat
  BY DEF Laid
<1>2. \A k \in 0..(Len(m[h]) + 1) :
        /\ Node(h, m[h], k) \in Linkage
        /\ Node(h, m[h], k) \in Links <=> k \in 1..Len(m[h])
  BY <1>1 DEF Node
<1>3. \A k \in 0..Len(m[h]) :
        /\ r.suc[Node(h, m[h], k)] = Node(h, m[h], k + 1)
        /\ r.suc[Node(h, m[h], k)] # None
        /\ r.pred[Node(h, m[h], k + 1)] = Node(h, m[h], k)
  <2>1. \A k \in 0..Len(m[h]) : r.suc[Node(h, m[h], k)] = Node(h, m[h], k + 1)
    BY DEF Laid, Ring
  <2>. QED
    BY <1>1, <1>2, <2>1 DEF Linked
<1>4. Node(h, m[h], Len(m[h]) + 1) = h /\ r.suc[h] # None
  BY <1>1 DEF Node, HeadsLinked
<1>5. i <= Len(m[h]) \/ i = Len(m[h]) + 1
  BY <1>1
<1>6. i # 0 => i - 1 \in 0..Len(m[h]) /\ i - 1 + 1 = i
  BY <1>1
<1>. QED
  BY <1>1, <1>2, <1>3, <1>4, <1>5, <1>6

\* Taking out a member.
LEMMA TakeOut ==
  ASSUME NEW r, Linked(r), HeadsLinked(r), NEW m, Laid(r, m),
         NEW h \in Heads, NEW i \in DOMAIN m[h]
  PROVE  Laid(Unlink(r, m[h][i]), [m EXCEPT ![h] = Taken(@, i)])
<1>. USE SimsetAssumption
<1>. DEFINE s == m[h]
            x == s[i]
            u == Unlink(r, x)
            m2 == [m EXCEPT ![h] = Taken(s, i)]
<1>1. h \in Heads \ Derived /\ s \in Seq(Links) /\ Len(s) \in Nat /\ i \in 1..Len(s) /\ x \in Links
  BY DEF Laid
<1>2. Node(h, s, i) = x
  BY <1>1 DEF Node
<1>3. r.suc[x] = Node(h, s, i + 1) /\ r.pred[x] = Node(h, s, i - 1) /\ r.suc[x] # None
  BY <1>1, <1>2, LaidFacts
<1>4. u.suc = [r.suc EXCEPT ![Node(h, s, i - 1)] = Node(h, s, i + 1), ![x] = None]
  BY <1>3 DEF Unlink
<1>5. Taken(s, i) \in Seq(Links) /\ Len(Taken(s, i)) = Len(s) - 1
  BY <1>1, TakenType
<1>6. /\ m2 \in [Heads -> Seq(Links)]
      /\ m2[h] = Taken(s, i)
      /\ \A k \in Heads \ {h} : m2[k] = m[k]
  BY <1>5 DEF Laid
<1>7. \A k \in Heads : \A a \in DOMAIN m[k], b \in DOMAIN s : m[k][a] = s[b] => k = h /\ a = b
  BY DEF Laid
<1>8. r.suc \in Field
  BY DEF Linked
<1>9. \A k \in Heads \ Derived : Ring(u, k, m2[k])
  <2>1. ASSUME NEW k \in Heads \ Derived, k # h, NEW j \in 0..Len(m[k])
        PROVE  u.suc[Node(k, m[k], j)] = r.suc[Node(k, m[k], j)]
    <3>1. m[k] \in Seq(Links) /\ Len(m[k]) \in Nat
      BY DEF Laid
    <3>2. Node(k, m[k], j) # Node(h, s, i - 1) /\ Node(k, m[k], j) # x
      BY <1>1, <1>7, <2>1, <3>1 DEF Node
    <3>3. Node(k, m[k], j) \in Linkage
      BY <3>1 DEF Node, Linkage
    <3>. QED
      BY <1>4, <1>8, <3>2, <3>3 DEF Field
  <2>2. ASSUME NEW k \in Heads \ Derived, k # h PROVE Ring(u, k, m2[k])
    BY <1>6, <2>1, <2>2 DEF Laid, Ring
  <2>3. ASSUME NEW j \in 0..(Len(s) - 1)
        PROVE  u.suc[Node(h, Taken(s, i), j)] = Node(h, Taken(s, i), j + 1)
    <3>1. \A a \in 0..Len(s) : Node(h, Taken(s, i), a) = IF a < i THEN Node(h, s, a) ELSE Node(h, s, a + 1)
      BY <1>1, <1>5 DEF Node, Taken
    <3>2. \A a \in 0..Len(s) : Node(h, s, a) = Node(h, s, i - 1) => a = i - 1
      BY <1>1, <1>7 DEF Node
    <3>3. \A a \in 0..Len(s) : Node(h, s, a) = x => a = i
      BY <1>1, <1>7 DEF Node
    <3>4. \A a \in 0..Len(s) : Node(h, s, a) \in Linkage /\ r.suc[Node(h, s, a)] = Node(h, s, a + 1)
      BY <1>1, LaidFacts
    <3>5. CASE j < i - 1
      <4>1. j \in 0..Len(s) /\ j + 1 \in 0..Len(s) /\ j < i /\ j + 1 < i
        BY <1>1, <3>5
      <4>2. Node(h, s, j) # Node(h, s, i - 1) /\ Node(h, s, j) # x
        BY <1>1, <3>2, <3>3, <3>5, <4>1
      <4>3. u.suc[Node(h, s, j)] = r.suc[Node(h, s, j)]
        BY <1>4, <1>8, <3>4, <4>1, <4>2 DEF Field
      <4>. QED
        BY <3>1, <3>4, <4>1, <4>3
    <3>6. CASE j = i - 1
      <4>1. j \in 0..Len(s) /\ j + 1 \in 0..Len(s) /\ j < i /\ ~(j + 1 < i) /\ j + 1 = i
        BY <1>1, <3>6
      <4>2. Node(h, s, j) # x
        BY <1>1, <3>3, <3>6, <4>1
      <4>3. u.suc[Node(h, s, j)] = Node(h, s, i + 1)
        BY <1>4, <1>8, <3>4, <3>6, <4>1, <4>2 DEF Field
      <4>. QED
        BY <3>1, <4>1, <4>3
    <3>7. CASE j >= i
      <4>1. j \in 0..Len(s) /\ j + 1 \in 0..Len(s) /\ ~(j < i) /\ ~(j + 1 < i)
        BY <1>1, <3>7
      <4>2. Node(h, s, j + 1) # Node(h, s, i - 1) /\ Node(h, s, j + 1) # x
        BY <1>1, <3>2, <3>3, <3>7, <4>1
      <4>3. u.suc[Node(h, s, j + 1)] = r.suc[Node(h, s, j + 1)]
        BY <1>4, <1>8, <3>4, <4>1, <4>2 DEF Field
      <4>. QED
        BY <3>1, <3>4, <4>1, <4>3
    <3>. QED
      BY <1>1, <3>5, <3>6, <3>7
  <2>4. Ring(u, h, m2[h])
    BY <1>5, <1>6, <2>3 DEF Ring
  <2>. QED
    BY <2>2, <2>4
<1>10. ASSUME NEW y \in Links, u.suc[y] # None
       PROVE  \E k \in Heads : \E j \in DOMAIN m2[k] : m2[k][j] = y
  <2>1. y # x
    BY <1>1, <1>4, <1>8, <1>10 DEF Field, Linkage
  <2>2. r.suc[y] # None
    <3>1. CASE y = Node(h, s, i - 1)
      BY <1>1, <3>1, LaidFacts
    <3>2. CASE y # Node(h, s, i - 1)
      BY <1>4, <1>8, <1>10, <2>1, <3>2 DEF Field, Linkage
    <3>. QED
      BY <3>1, <3>2
  <2>3. PICK k \in Heads : \E j \in DOMAIN m[k] : m[k][j] = y
    BY <2>2 DEF Laid
  <2>6. PICK j \in DOMAIN m[k] : m[k][j] = y
    BY <2>3
  <2>4. CASE k # h
    BY <1>6, <2>6, <2>4
  <2>5. CASE k = h
    <3>1. j \in 1..Len(s) /\ j # i
      BY <1>1, <2>1, <2>6, <2>5
    <3>2. \E a \in 1..(Len(s) - 1) : Taken(s, i)[a] = s[j]
      <4>1. CASE j < i
        BY <1>1, <3>1, <4>1 DEF Taken
      <4>2. CASE j > i
        <5>1. j - 1 \in 1..(Len(s) - 1) /\ ~(j - 1 < i) /\ j - 1 + 1 = j
          BY <1>1, <3>1, <4>2
        <5>. QED
          BY <5>1 DEF Taken
      <4>. QED
        BY <1>1, <3>1, <4>1, <4>2
    <3>3. DOMAIN Taken(s, i) = 1..(Len(s) - 1)
      BY DEF Taken
    <3>. QED
      BY <1>6, <2>6, <2>5, <3>2, <3>3
  <2>. QED
    BY <2>4, <2>5
<1>11. \A k, l \in Heads : \A a \in DOMAIN m2[k], b \in DOMAIN m2[l] :
         m2[k][a] = m2[l][b] => k = l /\ a = b
  <2>1. DOMAIN Taken(s, i) = 1..(Len(s) - 1)
    BY DEF Taken
  <2>2. \A a \in 1..(Len(s) - 1) : LET c == IF a < i THEN a ELSE a + 1
                                   IN c \in DOMAIN s /\ Taken(s, i)[a] = s[c]
    BY <1>1 DEF Taken
  <2>3. ASSUME NEW k \in Heads \ {h}, NEW a \in DOMAIN m2[k], NEW b \in 1..(Len(s) - 1)
        PROVE  m2[k][a] # Taken(s, i)[b]
    BY <1>6, <1>7, <2>2, <2>3
  <2>4. ASSUME NEW a \in 1..(Len(s) - 1), NEW b \in 1..(Len(s) - 1),
               Taken(s, i)[a] = Taken(s, i)[b]
        PROVE  a = b
    <3>1. (IF a < i THEN a ELSE a + 1) = (IF b < i THEN b ELSE b + 1)
      BY <1>7, <2>2, <2>4
    <3>. QED
      BY <1>1, <3>1
  <2>5. ASSUME NEW k \in Heads \ {h}, NEW l \in Heads \ {h},
               NEW a \in DOMAIN m2[k], NEW b \in DOMAIN m2[l], m2[k][a] = m2[l][b]
        PROVE  k = l /\ a = b
    BY <1>6, <2>5 DEF Laid
  <2>. QED
    BY <1>6, <2>1, <2>3, <2>4, <2>5
<1>12. \A k \in Derived : m2[k] = <<>>
  BY <1>1, <1>6 DEF Laid
<1>. QED
  BY <1>6, <1>9, <1>10, <1>11, <1>12 DEF Laid

\* Putting a link in: between two neighbours of a ring.
Between(r, x, p, y) ==
  [suc |-> [r.suc EXCEPT ![x] = y, ![p] = x],
   pred |-> [r.pred EXCEPT ![x] = p, ![y] = x]]

\* Filling the gap after the first n members puts x there.
LEMMA PutIn ==
  ASSUME NEW r, Linked(r), HeadsLinked(r), NEW m, Laid(r, m),
         NEW h \in Heads \ Derived, NEW n \in 0..Len(m[h]), NEW x \in Links, r.suc[x] = None
  PROVE  Laid(Between(r, x, Node(h, m[h], n), Node(h, m[h], n + 1)),
              [m EXCEPT ![h] = Put(@, n, x)])
<1>. USE SimsetAssumption
<1>. DEFINE s == m[h]
            t == Put(s, n, x)
            p == Node(h, s, n)
            y == Node(h, s, n + 1)
            u == Between(r, x, p, y)
            m2 == [m EXCEPT ![h] = t]
<1>1. s \in Seq(Links) /\ Len(s) \in Nat /\ n \in Nat /\ n <= Len(s)
  BY DEF Laid
<1>2. \A k \in Heads : \A i \in DOMAIN m[k] : m[k][i] # x
  <2>1. ASSUME NEW k \in Heads, NEW i \in DOMAIN m[k], m[k][i] = x PROVE FALSE
    <3>1. k \in Heads \ Derived /\ m[k] \in Seq(Links) /\ i \in 1..Len(m[k]) /\ Len(m[k]) \in Nat
      BY <2>1 DEF Laid
    <3>2. Node(k, m[k], i) = x
      BY <2>1, <3>1 DEF Node
    <3>. QED
      BY <3>1, <3>2, LaidFacts
  <2>. QED
    BY <2>1
<1>3. /\ u.suc = [r.suc EXCEPT ![x] = y, ![p] = x]
      /\ r.suc \in Field
  BY DEF Between, Linked
<1>4. t \in Seq(Links) /\ Len(t) = Len(s) + 1 /\ DOMAIN t = 1..(Len(s) + 1)
  BY <1>1, PutType DEF Put
<1>5. /\ m2 \in [Heads -> Seq(Links)]
      /\ m2[h] = t
      /\ \A k \in Heads \ {h} : m2[k] = m[k]
  BY <1>4 DEF Laid
<1>6. p \in Linkage /\ p # x /\ x \in Linkage
  BY <1>1, <1>2 DEF Node, Linkage
<1>7. /\ u.suc[x] = y /\ u.suc[p] = x
      /\ \A z \in Linkage : z # x /\ z # p => u.suc[z] = r.suc[z]
  BY <1>3, <1>6 DEF Field
<1>8. \A k \in Heads : \A a \in DOMAIN m[k], b \in DOMAIN s : m[k][a] = s[b] => k = h /\ a = b
  BY DEF Laid
<1>9. \A k \in Heads \ Derived : Ring(u, k, m2[k])
  <2>1. ASSUME NEW k \in Heads \ Derived, k # h, NEW j \in 0..Len(m[k])
        PROVE  u.suc[Node(k, m[k], j)] = r.suc[Node(k, m[k], j)]
    <3>1. m[k] \in Seq(Links) /\ Len(m[k]) \in Nat
      BY DEF Laid
    <3>2. Node(k, m[k], j) # p /\ Node(k, m[k], j) # x
      BY <1>1, <1>2, <1>8, <2>1, <3>1 DEF Node
    <3>3. Node(k, m[k], j) \in Linkage
      BY <3>1 DEF Node, Linkage
    <3>. QED
      BY <1>7, <3>2, <3>3
  <2>2. ASSUME NEW k \in Heads \ Derived, k # h PROVE Ring(u, k, m2[k])
    BY <1>5, <2>1, <2>2 DEF Laid, Ring
  <2>3. ASSUME NEW j \in 0..(Len(s) + 1)
        PROVE  u.suc[Node(h, t, j)] = Node(h, t, j + 1)
    <3>1. \A a \in 0..(Len(s) + 2) :
            Node(h, t, a) = IF a <= n THEN Node(h, s, a)
                            ELSE IF a = n + 1 THEN x ELSE Node(h, s, a - 1)
      BY <1>1, <1>4 DEF Node, Put
    <3>2. \A a \in 0..Len(s) : Node(h, s, a) = p => a = n
      BY <1>1, <1>8 DEF Node
    <3>3. \A a \in 0..Len(s) : Node(h, s, a) # x
      BY <1>1, <1>2 DEF Node
    <3>4. \A a \in 0..Len(s) : Node(h, s, a) \in Linkage /\ r.suc[Node(h, s, a)] = Node(h, s, a + 1)
      BY <1>1, LaidFacts
    <3>5. CASE j < n
      <4>1. j \in 0..Len(s) /\ j <= n /\ j + 1 <= n /\ j # n
        BY <1>1, <3>5
      <4>2. u.suc[Node(h, s, j)] = Node(h, s, j + 1)
        BY <1>7, <3>2, <3>3, <3>4, <4>1
      <4>. QED
        BY <1>1, <3>1, <4>1, <4>2
    <3>6. CASE j = n
      BY <1>1, <1>7, <3>1, <3>6
    <3>7. CASE j = n + 1
      BY <1>1, <1>7, <3>1, <3>7
    <3>8. CASE j > n + 1
      <4>1. j - 1 \in 0..Len(s) /\ ~(j <= n) /\ j # n + 1 /\ ~(j + 1 <= n) /\ j + 1 # n + 1
            /\ j - 1 # n /\ (j + 1) - 1 = (j - 1) + 1 /\ j + 1 \in 0..(Len(s) + 2)
        BY <1>1, <3>8
      <4>2. u.suc[Node(h, s, j - 1)] = Node(h, s, (j - 1) + 1)
        BY <1>7, <3>2, <3>3, <3>4, <4>1
      <4>. QED
        BY <1>1, <3>1, <4>1, <4>2
    <3>. QED
      BY <1>1, <3>5, <3>6, <3>7, <3>8
  <2>4. Ring(u, h, m2[h])
    BY <1>4, <1>5, <2>3 DEF Ring
  <2>. QED
    BY <2>2, <2>4
<1>10. ASSUME NEW z \in Links, u.suc[z] # None
       PROVE  \E k \in Heads : \E j \in DOMAIN m2[k] : m2[k][j] = z
  <2>1. CASE z = x
    <3>1. n + 1 \in DOMAIN t /\ t[n + 1] = x
      BY <1>1, <1>4 DEF Put
    <3>. QED
      BY <1>5, <2>1, <3>1
  <2>2. CASE z # x
    <3>1. r.suc[z] # None
      <4>1. r.suc[p] # None
        BY <1>1, LaidFacts
      <4>. QED
        BY <1>7, <1>10, <2>2, <4>1 DEF Linkage
    <3>2. PICK k \in Heads : \E j \in DOMAIN m[k] : m[k][j] = z
      BY <3>1 DEF Laid
    <3>3. PICK j \in DOMAIN m[k] : m[k][j] = z
      BY <3>2
    <3>4. CASE k # h
      BY <1>5, <3>3, <3>4
    <3>5. CASE k = h
      <4>1. j \in 1..Len(s)
        BY <1>1, <3>3, <3>5
      <4>2. CASE j <= n
        <5>1. j \in DOMAIN t /\ t[j] = s[j]
          BY <1>1, <1>4, <4>1, <4>2 DEF Put
        <5>. QED
          BY <1>5, <3>3, <3>5, <5>1
      <4>3. CASE j > n
        <5>1. j + 1 \in DOMAIN t /\ t[j + 1] = s[j]
          BY <1>1, <1>4, <4>1, <4>3 DEF Put
        <5>. QED
          BY <1>5, <3>3, <3>5, <5>1
      <4>. QED
        BY <1>1, <4>1, <4>2, <4>3
    <3>. QED
      BY <3>4, <3>5
  <2>. QED
    BY <2>1, <2>2
<1>11. \A k, l \in Heads : \A a \in DOMAIN m2[k], b \in DOMAIN m2[l] :
         m2[k][a] = m2[l][b] => k = l /\ a = b
  <2>1. \A a \in 1..(Len(s) + 1) :
          \/ a = n + 1 /\ t[a] = x
          \/ a <= n /\ a \in DOMAIN s /\ t[a] = s[a]
          \/ a > n + 1 /\ a - 1 \in DOMAIN s /\ t[a] = s[a - 1]
    BY <1>1 DEF Put
  <2>2. ASSUME NEW k \in Heads \ {h}, NEW a \in DOMAIN m2[k], NEW b \in 1..(Len(s) + 1)
        PROVE  m2[k][a] # t[b]
    BY <1>2, <1>5, <1>8, <2>1, <2>2
  <2>3. ASSUME NEW a \in 1..(Len(s) + 1), NEW b \in 1..(Len(s) + 1), t[a] = t[b]
        PROVE  a = b
    BY <1>1, <1>2, <1>8, <2>1, <2>3
  <2>4. ASSUME NEW k \in Heads \ {h}, NEW l \in Heads \ {h},
               NEW a \in DOMAIN m2[k], NEW b \in DOMAIN m2[l], m2[k][a] = m2[l][b]
        PROVE  k = l /\ a = b
    BY <1>5, <2>4 DEF Laid
  <2>. QED
    BY <1>4, <1>5, <2>2, <2>3, <2>4
<1>12. \A k \in Derived : m2[k] = <<>>
  BY <1>5 DEF Laid
<1>. QED
  BY <1>5, <1>9, <1>10, <1>11, <1>12 DEF Laid

\* What a loop goes through.
LEMMA StepsAre ==
  ASSUME NEW D, NEW g \in [D -> D], NEW c \in D
  PROVE  /\ Steps(g, c, 0) = c
         /\ \A n \in Nat : Steps(g, c, n) \in D /\ Steps(g, c, n + 1) = g[Steps(g, c, n)]
<1>. DEFINE e == CHOOSE f : IsIteration(f, g, c)
<1>1. PICK k \in [Nat -> D] : IsIteration(k, g, c)
  BY IterationExists
<1>2. IsIteration(e, g, c)
  BY <1>1
<1>3. \A n : Steps(g, c, n) = e[n]
  BY DEF Steps, IsIteration
<1>. HIDE DEF e
<1>4. \A n \in Nat : e[n] = IF n = 0 THEN c ELSE g[e[n - 1]]
  BY <1>2 DEF IsIteration
<1>5. e[0] = c
  BY <1>4
<1>6. ASSUME NEW n \in Nat PROVE e[n + 1] = g[e[n]]
  <2>1. n + 1 \in Nat /\ n + 1 # 0 /\ (n + 1) - 1 = n
    OBVIOUS
  <2>. QED
    BY <1>4, <2>1
<1>7. \A n \in Nat : e[n] \in D
  <2>. DEFINE S == {n \in Nat : e[n] \in D}
  <2>1. 0 \in S
    BY <1>5
  <2>2. \A n \in Nat : n \in S => n + 1 \in S
    BY <1>6
  <2>3. Nat \subseteq S
    <3>. HIDE DEF S
    <3>. QED
      BY <2>1, <2>2, SetInduction
  <2>. QED
    BY <2>3
<1>. QED
  BY <1>3, <1>5, <1>6, <1>7

\* Where a loop can be.
Spot == Linkage \cup {None}

\* No ring is longer than there are links.
LEMMA RingFits ==
  ASSUME NEW s \in Seq(Links), \A i, j \in DOMAIN s : s[i] = s[j] => i = j
  PROVE  Cardinality(Links) \in Nat /\ Len(s) \in Nat /\ Len(s) <= Cardinality(Links)
<1>1. IsFiniteSet(Links) /\ Cardinality(Links) \in Nat
  BY SimsetAssumption, FS_CardinalityType
<1>2. Len(s) \in Nat /\ DOMAIN s = 1..Len(s)
  OBVIOUS
<1>3. IsFiniteSet(1..Len(s)) /\ Cardinality(1..Len(s)) = Len(s)
  BY <1>2, FS_Interval
<1>4. s \in Injection(1..Len(s), Links)
  BY <1>2 DEF Injection, IsInjective
<1>5. Cardinality(1..Len(s)) <= Cardinality(Links)
  BY <1>1, <1>3, <1>4, FS_Injection
<1>. QED
  BY <1>1, <1>2, <1>3, <1>5

\* The walk round the ring of h meets its members and no others.
LEMMA MembersAre ==
  ASSUME NEW r, Linked(r), HeadsLinked(r), NEW m, Laid(r, m), NEW h \in Heads
  PROVE  MembersIn(r, h) = m[h]
<1>. USE SimsetAssumption
<1>. DEFINE s == m[h]
            go == [y \in Linkage \cup {None} |-> IF y \in Links THEN r.suc[y] ELSE None]
            from(n) == Steps(go, r.suc[h], n)
            K == Cardinality(Links)
<1>1. s \in Seq(Links) /\ Len(s) \in Nat /\ \A i, j \in DOMAIN s : s[i] = s[j] => i = j
  BY DEF Laid
<1>2. K \in Nat /\ Len(s) <= K
  BY <1>1, RingFits
<1>3. /\ from(0) = r.suc[h] /\ from(0) \in Spot
      /\ \A n \in Nat : /\ from(n) \in Spot
                        /\ from(n + 1) = IF from(n) \in Links THEN r.suc[from(n)] ELSE None
  <2>1. go \in [Spot -> Spot] /\ r.suc[h] \in Spot
    BY DEF Linked, Field, Linkage, Spot
  <2>2. \A y \in Spot : go[y] = IF y \in Links THEN r.suc[y] ELSE None
    BY DEF Spot
  <2>. HIDE DEF go
  <2>. QED
    BY <2>1, <2>2, StepsAre
<1>. HIDE DEF from
<1>. DEFINE f == [n \in Nat |-> from(n)]
<1>f. /\ f[0] = r.suc[h] /\ f[0] \in Spot
      /\ \A n \in Nat : /\ f[n] \in Spot
                        /\ f[n + 1] = IF f[n] \in Links THEN r.suc[f[n]] ELSE None
  BY <1>3
<1>g. \A n \in Nat : f[n] = from(n)
  OBVIOUS
<1>. HIDE DEF f
<1>l. \A i \in 1..Len(s) : s[i] \in Links
  BY <1>1
<1>4. \A n \in Nat : n < Len(s) => f[n] = s[n + 1]
  <2>1. CASE h \in Derived
    BY <1>1, <2>1 DEF Laid
  <2>2. CASE h \notin Derived
    <3>. DEFINE S == {n \in Nat : n < Len(s) => f[n] = s[n + 1]}
    <3>1. 0 \in S
      <4>1. Len(s) > 0 => r.suc[Node(h, s, 0)] = Node(h, s, 1)
        BY <1>1, <2>2 DEF Laid, Ring
      <4>. QED
        BY <1>1, <1>f, <4>1 DEF Node
    <3>2. ASSUME NEW n \in Nat, n \in S PROVE n + 1 \in S
      <4>1. n + 1 < Len(s) => r.suc[Node(h, s, n + 1)] = Node(h, s, n + 2)
        BY <1>1, <2>2 DEF Laid, Ring
      <4>2. n + 1 < Len(s) => f[n + 1] = r.suc[s[n + 1]]
        <5>1. n + 1 < Len(s) => n + 1 \in 1..Len(s) /\ n < Len(s)
          BY <1>1
        <5>. QED
          BY <1>l, <1>f, <3>2, <5>1
      <4>. QED
        BY <1>1, <4>1, <4>2 DEF Node
    <3>3. Nat \subseteq S
      <4>. HIDE DEF S
      <4>. QED
        BY <3>1, <3>2, SetInduction
    <3>. QED
      BY <3>3
  <2>. QED
    BY <2>1, <2>2
<1>5. f[Len(s)] \notin Links
  <2>1. CASE h \in Derived
    <3>1. Len(s) = 0 /\ r.suc[h] = None
      BY <2>1 DEF Laid, HeadsLinked
    <3>. QED
      BY <1>f, <3>1 DEF Linkage
  <2>2. CASE h \notin Derived
    <3>1. r.suc[Node(h, s, Len(s))] = h
      BY <1>1, <2>2 DEF Laid, Ring, Node
    <3>2. CASE Len(s) = 0
      BY <1>f, <3>1, <3>2 DEF Node
    <3>3. CASE Len(s) # 0
      <4>1. Len(s) - 1 \in Nat /\ Len(s) - 1 < Len(s) /\ (Len(s) - 1) + 1 = Len(s)
        BY <1>1, <3>3
      <4>2. f[Len(s)] = r.suc[s[Len(s)]]
        <5>1. f[Len(s) - 1] = s[Len(s)] /\ Len(s) \in 1..Len(s)
          BY <1>1, <1>4, <3>3, <4>1
        <5>. QED
          BY <1>l, <1>f, <4>1, <5>1
      <4>. QED
        BY <1>1, <3>1, <3>3, <4>2 DEF Node
    <3>. QED
      BY <3>2, <3>3
  <2>. QED
    BY <2>1, <2>2
<1>6. \A n \in Nat : n >= Len(s) => f[n] \notin Links
  <2>. DEFINE S == {n \in Nat : f[Len(s) + n] \notin Links}
  <2>1. 0 \in S
    BY <1>1, <1>5
  <2>2. ASSUME NEW n \in Nat, n \in S PROVE n + 1 \in S
    <3>1. f[(Len(s) + n) + 1] = None
      <4>1. Len(s) + n \in Nat
        BY <1>1
      <4>. QED
        BY <1>f, <2>2, <4>1
    <3>. QED
      BY <1>1, <3>1 DEF Linkage
  <2>3. Nat \subseteq S
    <3>. HIDE DEF S
    <3>. QED
      BY <2>1, <2>2, SetInduction
  <2>4. ASSUME NEW n \in Nat, n >= Len(s) PROVE f[n] \notin Links
    <3>0. n - Len(s) \in Nat /\ Len(s) + (n - Len(s)) = n
      BY <1>1, <2>4
    <3>1. n - Len(s) \in S /\ Len(s) + (n - Len(s)) = n
      BY <2>3, <3>0
    <3>. QED
      BY <3>1
  <2>. QED
    BY <2>4
<1>7. {n \in 0..K : f[n] \in Links} = 0..(Len(s) - 1)
  <2>1. \A n \in Nat : n < Len(s) => f[n] \in Links
    BY <1>1, <1>4
  <2>. QED
    BY <1>1, <1>2, <1>6, <2>1
<1>8. Cardinality(0..(Len(s) - 1)) = Len(s)
  BY <1>1, FS_Interval
<1>h. {n \in 0..K : from(n) \in Links} = 0..(Len(s) - 1)
  BY <1>2, <1>7, <1>g
<1>9. MembersIn(r, h) = [i \in 1..Len(s) |-> from(i - 1)]
  BY <1>7, <1>8, <1>h DEF MembersIn, from
<1>10. \A i \in 1..Len(s) : from(i - 1) = s[i]
  <2>. TAKE i \in 1..Len(s)
  <2>1. i - 1 \in Nat /\ i - 1 < Len(s) /\ (i - 1) + 1 = i
    BY <1>1
  <2>. QED
    BY <1>4, <1>g, <2>1
<1>11. s = [i \in 1..Len(s) |-> s[i]]
  BY <1>1
<1>. QED
  BY <1>9, <1>10, <1>11

-----------------------------------------------------------------------------
(* The operations on rings are those on sets.                              *)

\* The inductive invariant: the rings are closed, and are a layout of sets.
SetsInv == RingInv /\ \E m : Laid(ring, m)

\* m without x, in the words of the abstract specification.
OutOf(m, x) == [h \in Heads |-> Sets!Removed(m[h], x)]

\* Members, of a ring by itself.
MembersOf(r) == [h \in Heads |-> MembersIn(r, h)]

\* So the layout of the rings is unique: Members computes it.
LEMMA MembersAreAll ==
  ASSUME NEW r, Linked(r), HeadsLinked(r), NEW m, Laid(r, m)
  PROVE  MembersOf(r) = m
<1>1. m = [h \in Heads |-> m[h]]
  BY DEF Laid
<1>2. \A h \in Heads : MembersIn(r, h) = m[h]
  BY MembersAre
<1>. QED
  BY <1>1, <1>2 DEF MembersOf

\* Every ring begins empty.
LEMMA SetsInitially == Init => SetsInv /\ Sets!Init
<1> SUFFICES ASSUME Init PROVE SetsInv /\ Sets!Init
  OBVIOUS
<1>. USE SimsetAssumption
<1>. DEFINE m == [h \in Heads |-> <<>>]
<1>1. RingInv
  BY RingInit
<1>2. Laid(ring, m)
  <2>1. \A h \in Heads : m[h] = <<>> /\ DOMAIN m[h] = {} /\ Len(m[h]) = 0
    OBVIOUS
  <2>2. \A x \in Links : ring.suc[x] = None
    BY DEF Init, Linkage, IsHead
  <2>3. \A h \in Heads \ Derived : Ring(ring, h, m[h])
    <3>1. \A h \in Heads \ Derived : ring.suc[h] = h
      BY DEF Init, Linkage, IsHead
    <3>. QED
      BY <2>1, <3>1 DEF Ring, Node
  <2>4. m \in [Heads -> Seq(Links)]
    OBVIOUS
  <2>. HIDE DEF m
  <2>. QED
    BY <2>1, <2>2, <2>3, <2>4 DEF Laid
<1>3. MembersOf(ring) = m
  BY <1>1, <1>2, MembersAreAll DEF RingInv
<1>. QED
  BY <1>1, <1>2, <1>3 DEF SetsInv, Sets!Init, MembersOf, Members

\* Out.
LEMMA OutLaid ==
  ASSUME NEW r, Linked(r), HeadsLinked(r), NEW m, Laid(r, m), NEW x \in Links
  PROVE  /\ Laid(Unlink(r, x), OutOf(m, x))
         /\ Linked(Unlink(r, x)) /\ HeadsLinked(Unlink(r, x)) /\ Unlink(r, x).suc[x] = None
<1>1. \A h \in Heads : m[h] \in Seq(Links)
  BY DEF Laid
<1>2. ASSUME NEW h \in Heads, NEW i \in DOMAIN m[h], m[h][i] = x
      PROVE  Laid(Unlink(r, x), OutOf(m, x))
  <2>1. Laid(Unlink(r, x), [m EXCEPT ![h] = Taken(@, i)])
    BY <1>2, TakeOut
  <2>2. Sets!Removed(m[h], x) = Taken(m[h], i)
    <3>1. \A j \in DOMAIN m[h] : m[h][j] = x => j = i
      BY <1>2 DEF Laid
    <3>. QED
      BY <1>1, <1>2, <3>1, RemovedIs
  <2>3. ASSUME NEW k \in Heads \ {h} PROVE Sets!Removed(m[k], x) = m[k]
    <3>1. \A j \in DOMAIN m[k] : m[k][j] # x
      BY <1>2 DEF Laid
    <3>. QED
      BY <1>1, <3>1, RemovedIs
  <2>4. OutOf(m, x) = [m EXCEPT ![h] = Taken(@, i)]
    BY <2>2, <2>3 DEF OutOf, Laid
  <2>. QED
    BY <2>1, <2>4
<1>3. ASSUME \A h \in Heads : \A i \in DOMAIN m[h] : m[h][i] # x
      PROVE  Laid(Unlink(r, x), OutOf(m, x))
  <2>1. r.suc[x] = None
    BY <1>3 DEF Laid
  <2>2. \A h \in Heads : Sets!Removed(m[h], x) = m[h]
    BY <1>1, <1>3, RemovedIs
  <2>3. OutOf(m, x) = m
    BY <2>2 DEF OutOf, Laid
  <2>. QED
    BY <2>1, <2>3 DEF Unlink
<1>. QED
  BY <1>2, <1>3, UnlinkKeeps

\* Where a link can be put next to y.
LEMMA JoinPlace ==
  ASSUME NEW r, Linked(r), HeadsLinked(r), NEW m, Laid(r, m), NEW y \in Linkage, CanJoin(r, y)
  PROVE  \/ y \in Heads \ Derived
         \/ \E h \in Heads \ Derived : \E j \in DOMAIN m[h] : y \in Links /\ m[h][j] = y
<1>1. r.suc[y] # None
  BY SimsetAssumption DEF CanJoin, IsHead, HeadsLinked
<1>2. CASE y \in Heads
  BY <1>1, <1>2, SimsetAssumption DEF HeadsLinked
<1>3. CASE y \in Links
  <2>1. PICK h \in Heads : \E j \in DOMAIN m[h] : m[h][j] = y
    BY <1>1, <1>3 DEF Laid
  <2>2. h \notin Derived
    BY <2>1 DEF Laid
  <2>. QED
    BY <1>3, <2>1, <2>2
<1>. QED
  BY <1>2, <1>3 DEF Linkage

\* A link x that is on no ring is put between places n and n + 1 of h.
Joins(m, x, h, n, m2) ==
  /\ h \in Heads \ Derived /\ n \in 0..Len(m[h])
  /\ m2 = [m EXCEPT ![h] = Sets!Placed(@, n, x)]

\* link_before puts x in the place before y; before a head, that is the last.
LEMMA BeforeLaid ==
  ASSUME NEW r, Linked(r), HeadsLinked(r), NEW m, Laid(r, m), NEW x \in Links, r.suc[x] = None,
         NEW y \in Linkage, CanJoin(r, y)
  PROVE  \E h \in Heads, n \in Nat : \E m2 :
           /\ Joins(m, x, h, n, m2) /\ Laid(LinkBefore(r, x, y), m2)
           /\ \/ y = h /\ n = Len(m[h])
              \/ y \in Links /\ n + 1 \in DOMAIN m[h] /\ m[h][n + 1] = y
<1>1. \A h \in Heads : m[h] \in Seq(Links)
  BY DEF Laid
<1>2. ASSUME NEW h \in Heads \ Derived, NEW n \in 0..Len(m[h]), y = Node(h, m[h], n + 1),
             \/ y = h /\ n = Len(m[h])
             \/ y \in Links /\ n + 1 \in DOMAIN m[h] /\ m[h][n + 1] = y
      PROVE  \E k \in Heads, i \in Nat : \E m2 :
               /\ Joins(m, x, k, i, m2) /\ Laid(LinkBefore(r, x, y), m2)
               /\ \/ y = k /\ i = Len(m[k])
                  \/ y \in Links /\ i + 1 \in DOMAIN m[k] /\ m[k][i + 1] = y
  <2>1. n + 1 \in 0..(Len(m[h]) + 1) /\ (n + 1) - 1 = n /\ n + 1 # 0 /\ n \in Nat
    BY <1>1
  <2>2. r.pred[y] = Node(h, m[h], n)
    BY <1>2, <2>1, LaidFacts
  <2>3. LinkBefore(r, x, y) = Between(r, x, Node(h, m[h], n), y)
    BY <2>2 DEF LinkBefore, Between
  <2>4. PICK m2 : m2 = [m EXCEPT ![h] = Put(@, n, x)]
    OBVIOUS
  <2>8. Laid(Between(r, x, Node(h, m[h], n), Node(h, m[h], n + 1)), [m EXCEPT ![h] = Put(@, n, x)])
    BY PutIn
  <2>5. Laid(LinkBefore(r, x, y), m2)
    BY <1>2, <2>3, <2>4, <2>8
  <2>6. Sets!Placed(m[h], n, x) = Put(m[h], n, x)
    BY <1>1, PlacedIs
  <2>7. Joins(m, x, h, n, m2)
    BY <2>4, <2>6 DEF Joins, Laid
  <2>. QED
    BY <1>2, <2>1, <2>5, <2>7
<1>3. CASE y \in Heads \ Derived
  <2>1. Len(m[y]) \in 0..Len(m[y]) /\ Node(y, m[y], Len(m[y]) + 1) = y
    BY <1>1, <1>3 DEF Node
  <2>. QED
    BY <1>2, <1>3, <2>1
<1>4. ASSUME NEW h \in Heads \ Derived, NEW j \in DOMAIN m[h], y \in Links, m[h][j] = y
      PROVE  \E k \in Heads, i \in Nat : \E m2 :
               /\ Joins(m, x, k, i, m2) /\ Laid(LinkBefore(r, x, y), m2)
               /\ \/ y = k /\ i = Len(m[k])
                  \/ y \in Links /\ i + 1 \in DOMAIN m[k] /\ m[k][i + 1] = y
  <2>1. j - 1 \in 0..Len(m[h]) /\ (j - 1) + 1 = j /\ Node(h, m[h], j) = y
    BY <1>1, <1>4 DEF Node
  <2>. QED
    BY <1>2, <1>4, <2>1
<1>. QED
  BY <1>3, <1>4, JoinPlace

\* link_after puts it in the place after y; after a head, that is the first.
LEMMA AfterLaid ==
  ASSUME NEW r, Linked(r), HeadsLinked(r), NEW m, Laid(r, m), NEW x \in Links, r.suc[x] = None,
         NEW y \in Linkage, CanJoin(r, y)
  PROVE  \E h \in Heads, n \in Nat : \E m2 :
           /\ Joins(m, x, h, n, m2) /\ Laid(LinkAfter(r, x, y), m2)
           /\ \/ y = h /\ n = 0
              \/ y \in Links /\ n \in DOMAIN m[h] /\ m[h][n] = y
<1>1. \A h \in Heads : m[h] \in Seq(Links)
  BY DEF Laid
<1>2. ASSUME NEW h \in Heads \ Derived, NEW n \in 0..Len(m[h]), y = Node(h, m[h], n),
             \/ y = h /\ n = 0
             \/ y \in Links /\ n \in DOMAIN m[h] /\ m[h][n] = y
      PROVE  \E k \in Heads, i \in Nat : \E m2 :
               /\ Joins(m, x, k, i, m2) /\ Laid(LinkAfter(r, x, y), m2)
               /\ \/ y = k /\ i = 0
                  \/ y \in Links /\ i \in DOMAIN m[k] /\ m[k][i] = y
  <2>1. n \in 0..(Len(m[h]) + 1) /\ n <= Len(m[h]) /\ n \in Nat
    BY <1>1
  <2>2. r.suc[y] = Node(h, m[h], n + 1)
    BY <1>2, <2>1, LaidFacts
  <2>3. LinkAfter(r, x, y) = Between(r, x, y, Node(h, m[h], n + 1))
    BY <2>2 DEF LinkAfter, Between
  <2>4. PICK m2 : m2 = [m EXCEPT ![h] = Put(@, n, x)]
    OBVIOUS
  <2>8. Laid(Between(r, x, Node(h, m[h], n), Node(h, m[h], n + 1)), [m EXCEPT ![h] = Put(@, n, x)])
    BY PutIn
  <2>5. Laid(LinkAfter(r, x, y), m2)
    BY <1>2, <2>3, <2>4, <2>8
  <2>6. Sets!Placed(m[h], n, x) = Put(m[h], n, x)
    BY <1>1, PlacedIs
  <2>7. Joins(m, x, h, n, m2)
    BY <2>4, <2>6 DEF Joins, Laid
  <2>. QED
    BY <1>2, <2>1, <2>5, <2>7
<1>3. CASE y \in Heads \ Derived
  <2>1. 0 \in 0..Len(m[y]) /\ Node(y, m[y], 0) = y
    BY <1>1, <1>3 DEF Node
  <2>. QED
    BY <1>2, <1>3, <2>1
<1>4. ASSUME NEW h \in Heads \ Derived, NEW j \in DOMAIN m[h], y \in Links, m[h][j] = y
      PROVE  \E k \in Heads, i \in Nat : \E m2 :
               /\ Joins(m, x, k, i, m2) /\ Laid(LinkAfter(r, x, y), m2)
               /\ \/ y = k /\ i = 0
                  \/ y \in Links /\ i \in DOMAIN m[k] /\ m[k][i] = y
  <2>1. j \in 0..Len(m[h]) /\ Node(h, m[h], j) = y
    BY <1>1, <1>4 DEF Node
  <2>. QED
    BY <1>2, <1>4, <2>1
<1>. QED
  BY <1>3, <1>4, JoinPlace

\* An operation, seen on the sets.
LEMMA OutStep ==
  ASSUME SetsInv, NEW x \in Links, Out(x)
  PROVE  Sets!Out(x) /\ \E m : Laid(ring', m)
<1>1. Linked(ring) /\ HeadsLinked(ring)
  BY DEF SetsInv, RingInv
<1>2. PICK m : Laid(ring, m)
  BY DEF SetsInv
<1>3. /\ Laid(ring', OutOf(m, x)) /\ Linked(ring') /\ HeadsLinked(ring')
  BY <1>1, <1>2, OutLaid DEF Out
<1>4. MembersOf(ring) = m /\ MembersOf(ring') = OutOf(m, x)
  BY <1>1, <1>2, <1>3, MembersAreAll
<1>. QED
  BY <1>3, <1>4 DEF Sets!Out, Sets!Without, OutOf, MembersOf, Members

\* Joining is what the sets call putting x in, once it is out of any.
LEMMA JoinsIs ==
  ASSUME SetsInv, RingInv', NEW m, Laid(ring, m), NEW x \in Links, NEW h, NEW n, NEW m2,
         Joins(OutOf(m, x), x, h, n, m2), Laid(ring', m2)
  PROVE  /\ [k \in Heads |-> Members(k)'] = [Sets!Without(x) EXCEPT ![h] = Sets!Placed(@, n, x)]
         /\ Sets!Without(x) = OutOf(m, x)
<1>1. MembersOf(ring) = m /\ MembersOf(ring') = m2
  BY MembersAreAll DEF SetsInv, RingInv
<1>2. Sets!Without(x) = OutOf(m, x)
  BY <1>1 DEF Sets!Without, OutOf, MembersOf, Members
<1>3. [k \in Heads |-> Members(k)'] = m2
  BY <1>1 DEF MembersOf, Members
<1>. QED
  BY <1>2, <1>3 DEF Joins

\* precede, and into, on the rings is the operation on the sets.
LEMMA PrecedeStep ==
  ASSUME SetsInv, RingInv', NEW x \in Links, NEW y \in Linkage \cup {None}, Precede(x, y)
  PROVE  /\ \E m : Laid(ring', m)
         /\ \/ Sets!Out(x)
            \/ \E h \in Heads : Sets!IntoLast(x, h)
            \/ y \in Links /\ Sets!Precede(x, y)
<1>1. Linked(ring) /\ HeadsLinked(ring)
  BY DEF SetsInv, RingInv
<1>2. PICK m : Laid(ring, m)
  BY DEF SetsInv
<1>3. PICK r : r = Unlink(ring, x)
  OBVIOUS
<1>4. Laid(r, OutOf(m, x)) /\ Linked(r) /\ HeadsLinked(r) /\ r.suc[x] = None
  BY <1>1, <1>2, <1>3, OutLaid
<1>5. CASE ~CanJoin(r, y)
  <2>1. Out(x)
    BY <1>3, <1>5 DEF Precede, Out
  <2>. QED
    BY <2>1, OutStep
<1>6. CASE CanJoin(r, y)
  <2>1. y \in Linkage
    BY <1>6 DEF CanJoin
  <2>2. ring' = LinkBefore(r, x, y)
    BY <1>3, <1>6 DEF Precede
  <2>3. PICK w : w = OutOf(m, x)
    OBVIOUS
  <2>found. PICK h \in Heads, n \in Nat : \E m2 :
          /\ Joins(w, x, h, n, m2) /\ Laid(ring', m2)
          /\ \/ y = h /\ n = Len(w[h])
             \/ y \in Links /\ n + 1 \in DOMAIN w[h] /\ w[h][n + 1] = y
    BY <1>4, <1>6, <2>1, <2>2, <2>3, BeforeLaid
  <2>4. PICK m2 :
          /\ Joins(w, x, h, n, m2) /\ Laid(ring', m2)
          /\ \/ y = h /\ n = Len(w[h])
             \/ y \in Links /\ n + 1 \in DOMAIN w[h] /\ w[h][n + 1] = y
    BY <2>found
  <2>5. /\ [k \in Heads |-> Members(k)'] = [Sets!Without(x) EXCEPT ![h] = Sets!Placed(@, n, x)]
        /\ Sets!Without(x) = w
    BY <1>2, <2>3, <2>4, JoinsIs
  <2>6. w \in [Heads -> Seq(Links)]
    BY <1>4, <2>3 DEF Laid
  <2>7. CASE y = h /\ n = Len(w[h])
    <3>1. Sets!IntoLast(x, h)
      BY <2>5, <2>6, <2>7 DEF Sets!IntoLast
    <3>. QED
      BY <2>4, <3>1
  <2>8. CASE y \in Links /\ n + 1 \in DOMAIN w[h] /\ w[h][n + 1] = y
    <3>1. (n + 1) - 1 = n
      OBVIOUS
    <3>2. Sets!Precede(x, y)
      BY <2>5, <2>8, <3>1 DEF Sets!Precede
    <3>. QED
      BY <2>4, <2>8, <3>2
  <2>. QED
    BY <2>4, <2>7, <2>8
<1>. QED
  BY <1>5, <1>6

\* And so is follow.
LEMMA FollowStep ==
  ASSUME SetsInv, RingInv', NEW x \in Links, NEW y \in Linkage \cup {None}, Follow(x, y)
  PROVE  /\ \E m : Laid(ring', m)
         /\ \/ Sets!Out(x)
            \/ \E h \in Heads : Sets!IntoFirst(x, h)
            \/ y \in Links /\ Sets!Follow(x, y)
<1>1. Linked(ring) /\ HeadsLinked(ring)
  BY DEF SetsInv, RingInv
<1>2. PICK m : Laid(ring, m)
  BY DEF SetsInv
<1>3. PICK r : r = Unlink(ring, x)
  OBVIOUS
<1>4. Laid(r, OutOf(m, x)) /\ Linked(r) /\ HeadsLinked(r) /\ r.suc[x] = None
  BY <1>1, <1>2, <1>3, OutLaid
<1>5. CASE ~CanJoin(r, y)
  <2>1. Out(x)
    BY <1>3, <1>5 DEF Follow, Out
  <2>. QED
    BY <2>1, OutStep
<1>6. CASE CanJoin(r, y)
  <2>1. y \in Linkage
    BY <1>6 DEF CanJoin
  <2>2. ring' = LinkAfter(r, x, y)
    BY <1>3, <1>6 DEF Follow
  <2>3. PICK w : w = OutOf(m, x)
    OBVIOUS
  <2>found. PICK h \in Heads, n \in Nat : \E m2 :
          /\ Joins(w, x, h, n, m2) /\ Laid(ring', m2)
          /\ \/ y = h /\ n = 0
             \/ y \in Links /\ n \in DOMAIN w[h] /\ w[h][n] = y
    BY <1>4, <1>6, <2>1, <2>2, <2>3, AfterLaid
  <2>4. PICK m2 :
          /\ Joins(w, x, h, n, m2) /\ Laid(ring', m2)
          /\ \/ y = h /\ n = 0
             \/ y \in Links /\ n \in DOMAIN w[h] /\ w[h][n] = y
    BY <2>found
  <2>5. /\ [k \in Heads |-> Members(k)'] = [Sets!Without(x) EXCEPT ![h] = Sets!Placed(@, n, x)]
        /\ Sets!Without(x) = w
    BY <1>2, <2>3, <2>4, JoinsIs
  <2>6. CASE y = h /\ n = 0
    <3>1. Sets!IntoFirst(x, h)
      BY <2>5, <2>6 DEF Sets!IntoFirst
    <3>. QED
      BY <2>4, <3>1
  <2>7. CASE y \in Links /\ n \in DOMAIN w[h] /\ w[h][n] = y
    <3>1. Sets!Follow(x, y)
      BY <2>5, <2>7 DEF Sets!Follow
    <3>. QED
      BY <2>4, <2>7, <3>1
  <2>. QED
    BY <2>4, <2>6, <2>7
<1>. QED
  BY <1>5, <1>6

\* A step as the sets see it.
SetsNext == [Sets!Next]_([h \in Heads |-> Members(h)])

\* Every step of the runtime is a step of the sets or leaves them.
LEMMA SetsStep == SetsInv /\ [Next]_vars => SetsInv' /\ SetsNext
<1> SUFFICES ASSUME SetsInv, [Next]_vars PROVE SetsInv' /\ SetsNext
  OBVIOUS
<1>0. RingInv'
  BY RingStep DEF SetsInv
<1>. DEFINE Good == (\E m : Laid(ring', m)) /\ SetsNext
<1>out. ASSUME NEW x \in Links, Out(x) PROVE Good
  BY <1>out, OutStep DEF SetsNext, Sets!Next
<1>same. ring' = ring => Good
  BY DEF SetsInv, SetsNext, Members
<1>1. ASSUME Member PROVE Good
  <2>1. ASSUME NEW x \in Links, NEW y \in Linkage \cup {None}, Precede(x, y) PROVE Good
    BY <1>0, <2>1, PrecedeStep DEF SetsNext, Sets!Next
  <2>2. ASSUME NEW x \in Links, NEW y \in Linkage \cup {None}, Follow(x, y) PROVE Good
    BY <1>0, <2>2, FollowStep DEF SetsNext, Sets!Next
  <2>. QED
    BY <1>1, <1>out, <2>1, <2>2 DEF Member
<1>2. ASSUME ClearStep PROVE Good
  <2>1. UNCHANGED ring => Good
    BY <1>same
  <2>2. ASSUME First(clearing) # None, Out(First(clearing)) PROVE Good
    <3>1. First(clearing) \in Links \/ First(clearing) \in Derived
      BY <2>2 DEF First, SucOf, Skip, IsLink, IsHead, Linkage
    <3>2. CASE First(clearing) \in Links
      BY <1>out, <2>2, <3>2
    <3>3. CASE First(clearing) \in Derived
      <4>1. ring' = ring
        BY <2>2, <3>3, SimsetAssumption DEF Out, Unlink, HeadsLinked, RingInv, SetsInv
      <4>. QED
        BY <1>same, <4>1
    <3>. QED
      BY <3>1, <3>2, <3>3
  <2>. QED
    BY <1>2, <2>1, <2>2 DEF ClearStep
<1>3. Good
  BY <1>1, <1>2, <1>same DEF Next, ClearBegin, vars
<1>. QED
  BY <1>0, <1>3 DEF SetsInv

(***************************************************************************)
(* The rings of SUC and PRED fields that sim.c splices are the sets of the *)
(* Standard: each into, precede, follow, out and turn of clear does to the *)
(* sequences of members what it promises, and to nothing else, for any     *)
(* number of links and heads and whatever it is given.                     *)
(***************************************************************************)
THEOREM RingsImplementSets == Spec => ImplementsSets
<1>1. SetsInv /\ [Next]_vars => [Sets!Next]_([h \in Heads |-> Members(h)])
  BY SetsStep DEF SetsNext
<1>. QED
  BY <1>1, SetsInitially, SetsStep, PTL DEF Spec, ImplementsSets, Sets!Spec

-----------------------------------------------------------------------------
(* Walks.                                                                  *)

\* A line of places ends at a head, all others but the first are links, and
\* step leads from each to the next.
Line(step, N, n) ==
  /\ n \in Nat /\ n <= Cardinality(Links)
  /\ N \in [0..(n + 1) -> Linkage]
  /\ step \in Field
  /\ \A j \in 0..n : step[N[j]] = N[j + 1]
  /\ \A j \in 1..n : N[j] \in Links
  /\ N[n + 1] \in Heads \ Derived

\* A walk along it stops at the first link that is not scheduled.
LEMMA SkipIs ==
  ASSUME NEW step, NEW N, NEW n, Line(step, N, n), NEW i \in 0..n
  PROVE  \E j \in (i + 1)..(n + 1) :
           /\ \A k \in (i + 1)..(j - 1) : Busy(N[k])
           /\ j = n + 1 => Skip(step, N[i]) = None
           /\ j # n + 1 => Skip(step, N[i]) = N[j] /\ ~Busy(N[j])
<1>. USE SimsetAssumption
<1>. DEFINE pass == [y \in Linkage \cup {None} |-> IF IsLink(y) /\ Busy(y) THEN step[y] ELSE y]
            K == Cardinality(Links)
            at == [k \in Nat |-> Steps(pass, step[N[i]], k)]
            Seen(k, j) == /\ j \in (i + 1)..(n + 1)
                          /\ at[k] = N[j]
                          /\ \A l \in (i + 1)..(j - 1) : Busy(N[l])
                          /\ \/ j = i + 1 + k
                             \/ j # n + 1 => ~Busy(N[j])
<1>1. K \in Nat /\ n \in Nat /\ i \in Nat /\ i <= n /\ n <= K
  <2>1. K \in Nat
    BY FS_CardinalityType
  <2>. QED
    BY <2>1 DEF Line
<1>2. /\ \A j \in 0..(n + 1) : N[j] \in Linkage
      /\ \A j \in 1..n : IsLink(N[j])
      /\ ~IsLink(N[n + 1])
      /\ \A j \in 0..n : step[N[j]] = N[j + 1]
  BY <1>1 DEF Line, IsLink, IsHead, Linkage
<1>3. /\ at[0] = step[N[i]]
      /\ \A k \in Nat : at[k + 1] = pass[at[k]]
  <2>1. pass \in [Spot -> Spot] /\ step[N[i]] \in Spot
    BY <1>1, <1>2 DEF Line, Field, Spot, IsLink
  <2>. HIDE DEF pass
  <2>. QED
    BY <2>1, StepsAre
<1>4. Skip(step, N[i]) = IF IsLink(at[K]) THEN at[K] ELSE None
  BY <1>1 DEF Skip
<1>5. \A y \in Linkage : pass[y] = IF IsLink(y) /\ Busy(y) THEN step[y] ELSE y
  OBVIOUS
<1>. HIDE DEF at, pass, K
<1>6. \A k \in Nat : \E j : Seen(k, j)
  <2>. DEFINE S == {k \in Nat : \E j : Seen(k, j)}
  <2>1. 0 \in S
    <3>1. Seen(0, i + 1)
      BY <1>1, <1>2, <1>3
    <3>. QED
      BY <3>1
  <2>2. ASSUME NEW k \in Nat, k \in S PROVE k + 1 \in S
    <3>1. PICK j : Seen(k, j)
      BY <2>2
    <3>2. j \in 0..(n + 1) /\ j \in Nat /\ N[j] \in Linkage
      BY <1>1, <1>2, <3>1
    <3>3. at[k + 1] = IF IsLink(N[j]) /\ Busy(N[j]) THEN step[N[j]] ELSE N[j]
      BY <1>3, <1>5, <3>1, <3>2
    <3>4. CASE j # n + 1 /\ Busy(N[j])
      <4>1. j \in 1..n /\ j = i + 1 + k /\ j + 1 \in (i + 1)..(n + 1)
        BY <1>1, <3>1, <3>2, <3>4
      <4>2. at[k + 1] = N[j + 1]
        BY <1>1, <1>2, <3>3, <3>4, <4>1
      <4>3. \A l \in (i + 1)..((j + 1) - 1) : Busy(N[l])
        <5>. TAKE l \in (i + 1)..((j + 1) - 1)
        <5>1. l = j \/ l \in (i + 1)..(j - 1)
          BY <1>1, <3>2
        <5>. QED
          BY <3>1, <3>4, <5>1
      <4>4. Seen(k + 1, j + 1)
        BY <1>1, <4>1, <4>2, <4>3
      <4>. QED
        BY <4>4
    <3>5. CASE j = n + 1
      <4>1. Seen(k + 1, j)
        BY <1>2, <3>1, <3>3, <3>5
      <4>. QED
        BY <4>1
    <3>6. CASE j # n + 1 /\ ~Busy(N[j])
      <4>1. Seen(k + 1, j)
        BY <3>1, <3>3, <3>6
      <4>. QED
        BY <4>1
    <3>. QED
      BY <3>4, <3>5, <3>6
  <2>3. Nat \subseteq S
    <3>. HIDE DEF S
    <3>. QED
      BY <2>1, <2>2, SetInduction
  <2>. QED
    BY <2>3
<1>7. PICK j : Seen(K, j)
  BY <1>1, <1>6
<1>8. j \in (i + 1)..(n + 1) /\ j \in Nat
  BY <1>1, <1>7
<1>9. CASE j = n + 1
  BY <1>2, <1>4, <1>7, <1>8, <1>9
<1>10. CASE j # n + 1
  <2>1. j \in 1..n /\ j # i + 1 + K
    BY <1>1, <1>8, <1>10
  <2>. QED
    BY <1>2, <1>4, <1>7, <1>8, <1>10, <2>1
<1>. QED
  BY <1>9, <1>10

\* The two lines of the ring of h.
Onwards(h, s) == [j \in 0..(Len(s) + 1) |-> Node(h, s, j)]
Backwards(h, s) == [j \in 0..(Len(s) + 1) |-> Node(h, s, Len(s) + 1 - j)]

\* Both directions of a ring are lines.
LEMMA RingLines ==
  ASSUME NEW r, Linked(r), HeadsLinked(r), NEW m, Laid(r, m), NEW h \in Heads \ Derived
  PROVE  Line(r.suc, Onwards(h, m[h]), Len(m[h])) /\ Line(r.pred, Backwards(h, m[h]), Len(m[h]))
<1>. DEFINE s == m[h]
            n == Len(m[h])
<1>1. s \in Seq(Links) /\ n \in Nat /\ \A i, j \in DOMAIN s : s[i] = s[j] => i = j
  BY DEF Laid
<1>2. n <= Cardinality(Links)
  BY <1>1, RingFits
<1>3. r.suc \in Field /\ r.pred \in Field
  BY DEF Linked
<1>4. \A j \in 0..(n + 1) : Node(h, s, j) \in Linkage
  BY <1>1 DEF Node, Linkage
<1>5. \A j \in 1..n : Node(h, s, j) \in Links
  BY <1>1 DEF Node
<1>6. Node(h, s, 0) = h /\ Node(h, s, n + 1) = h
  BY <1>1 DEF Node
<1>7. \A j \in 0..n : r.suc[Node(h, s, j)] = Node(h, s, j + 1)
  BY <1>1, LaidFacts
<1>8. \A j \in 1..(n + 1) : r.pred[Node(h, s, j)] = Node(h, s, j - 1)
  BY <1>1, LaidFacts
<1>9. Line(r.suc, Onwards(h, s), n)
  <2>1. \A j \in 0..(n + 1) : Onwards(h, s)[j] = Node(h, s, j)
    BY DEF Onwards
  <2>2. Onwards(h, s) \in [0..(n + 1) -> Linkage]
    BY <1>4 DEF Onwards
  <2>3. \A j \in 0..n : j \in 0..(n + 1) /\ j + 1 \in 0..(n + 1)
    BY <1>1
  <2>4. \A j \in 0..n : r.suc[Onwards(h, s)[j]] = Onwards(h, s)[j + 1]
    BY <1>7, <2>1, <2>3
  <2>5. \A j \in 1..n : j \in 0..(n + 1)
    BY <1>1
  <2>6. \A j \in 1..n : Onwards(h, s)[j] \in Links
    BY <1>5, <2>1, <2>5
  <2>7. n + 1 \in 0..(n + 1)
    BY <1>1
  <2>8. Onwards(h, s)[n + 1] \in Heads \ Derived
    BY <1>6, <2>1, <2>7
  <2>. QED
    BY <1>1, <1>2, <1>3, <2>2, <2>4, <2>6, <2>8 DEF Line
<1>10. Line(r.pred, Backwards(h, s), n)
  <2>1. \A j \in 0..(n + 1) : Backwards(h, s)[j] = Node(h, s, n + 1 - j)
    BY DEF Backwards
  <2>2. \A j \in 0..(n + 1) : n + 1 - j \in 0..(n + 1)
    BY <1>1
  <2>3. Backwards(h, s) \in [0..(n + 1) -> Linkage]
    BY <1>4, <2>2 DEF Backwards
  <2>4. \A j \in 0..n : n + 1 - j \in 1..(n + 1) /\ (n + 1 - j) - 1 = n + 1 - (j + 1) /\ j + 1 \in 0..(n + 1)
    <3>. HIDE DEF n
    <3>1. \A j \in 0..n : j \in 0..(n + 1)
      BY <1>1
    <3>2. \A j \in 0..n : n + 1 - j \in 1..(n + 1)
      BY <1>1
    <3>3. \A j \in 0..n : (n + 1 - j) - 1 = n + 1 - (j + 1)
      BY <1>1
    <3>4. \A j \in 0..n : j + 1 \in 0..(n + 1)
      BY <1>1
    <3>. QED
      BY <3>1, <3>2, <3>3, <3>4
  <2>5. \A j \in 0..n : r.pred[Backwards(h, s)[j]] = Backwards(h, s)[j + 1]
    <3>. TAKE j \in 0..n
    <3>1. r.pred[Node(h, s, n + 1 - j)] = Node(h, s, (n + 1 - j) - 1)
      BY <1>8, <2>4
    <3>2. j \in 0..(n + 1)
      BY <1>1
    <3>. QED
      BY <2>1, <2>4, <3>1, <3>2
  <2>6. \A j \in 1..n : n + 1 - j \in 1..n /\ j \in 0..(n + 1)
    BY <1>1
  <2>7. \A j \in 1..n : Backwards(h, s)[j] \in Links
    BY <1>5, <2>1, <2>6
  <2>8. Backwards(h, s)[n + 1] = h
    <3>1. n + 1 \in 0..(n + 1) /\ n + 1 - (n + 1) = 0
      BY <1>1
    <3>. QED
      BY <1>6, <2>1, <3>1
  <2>. QED
    BY <1>1, <1>2, <1>3, <2>3, <2>5, <2>7, <2>8 DEF Line
<1>. QED
  BY <1>9, <1>10

\* The members of a set that are not scheduled, by place.
Idle(s) == {i \in DOMAIN s : ~Busy(s[i])}

\* From a place on the ring of h, the walk onwards gives the next of them.
LEMMA SucOfIs ==
  ASSUME RingInv, NEW m, Laid(ring, m), NEW h \in Heads \ Derived, NEW i \in 0..Len(m[h])
  PROVE  IsFirst(SucOf(Node(h, m[h], i)), m[h], {j \in Idle(m[h]) : j > i})
<1>. DEFINE s == m[h]
            n == Len(s)
            N == Onwards(h, s)
            P == {j \in Idle(s) : j > i}
            y == SucOf(Node(h, s, i))
<1>1. s \in Seq(Links) /\ n \in Nat /\ i \in Nat /\ i <= n /\ DOMAIN s = 1..n
  BY DEF Laid
<1>2. \A j \in 0..(n + 1) : N[j] = Node(h, s, j)
  BY DEF Onwards
<1>3. \A j \in 1..n : j \in 0..(n + 1) /\ N[j] = s[j]
  <2>1. \A j \in 1..n : j \in 0..(n + 1) /\ Node(h, s, j) = s[j]
    BY <1>1 DEF Node
  <2>. QED
    BY <1>2, <2>1
<1>4. Line(ring.suc, N, n)
  BY RingLines DEF RingInv
<1>5. y = Skip(ring.suc, N[i])
  BY <1>1, <1>2 DEF SucOf
<1>. HIDE DEF N, n, y
<1>6. PICK j \in (i + 1)..(n + 1) :
        /\ \A k \in (i + 1)..(j - 1) : Busy(N[k])
        /\ j = n + 1 => Skip(ring.suc, N[i]) = None
        /\ j # n + 1 => Skip(ring.suc, N[i]) = N[j] /\ ~Busy(N[j])
  BY <1>1, <1>4, SkipIs
<1>7. \A k \in P : k \in 1..n /\ k >= j
  <2>. SUFFICES ASSUME NEW k \in P PROVE k \in 1..n /\ k >= j
    OBVIOUS
  <2>1. k \in 1..n /\ k > i /\ ~Busy(s[k])
    BY <1>1 DEF Idle
  <2>2. k < j => k \in (i + 1)..(j - 1)
    BY <1>1, <2>1
  <2>3. Busy(N[k]) => FALSE
    BY <1>3, <2>1
  <2>. QED
    BY <1>1, <1>6, <2>1, <2>2, <2>3
<1>8. CASE j = n + 1
  <2>1. P = {}
    BY <1>1, <1>7, <1>8
  <2>. QED
    BY <1>5, <1>6, <1>8, <2>1 DEF IsFirst, n, y
<1>9. CASE j # n + 1
  <2>1. j \in 1..n /\ j > i
    BY <1>1, <1>9
  <2>2. j \in P /\ y = s[j]
    BY <1>1, <1>3, <1>5, <1>6, <1>9, <2>1 DEF Idle
  <2>. QED
    BY <1>7, <2>1, <2>2 DEF IsFirst, y
<1>. QED
  BY <1>8, <1>9

\* And the walk back gives the one before.
LEMMA PredOfIs ==
  ASSUME RingInv, NEW m, Laid(ring, m), NEW h \in Heads \ Derived, NEW i \in 1..(Len(m[h]) + 1)
  PROVE  IsLast(PredOf(Node(h, m[h], i)), m[h], {j \in Idle(m[h]) : j < i})
<1>. DEFINE s == m[h]
            n == Len(s)
            N == Backwards(h, s)
            P == {j \in Idle(s) : j < i}
            y == PredOf(Node(h, s, i))
            a == n + 1 - i
<1>1. s \in Seq(Links) /\ n \in Nat /\ i \in Nat /\ i >= 1 /\ i <= n + 1 /\ DOMAIN s = 1..n
  BY DEF Laid
<1>2. \A j \in 0..(n + 1) : N[j] = Node(h, s, n + 1 - j)
  BY DEF Backwards
<1>3. \A j \in 1..n : n + 1 - j \in 0..(n + 1) /\ n + 1 - (n + 1 - j) = j /\ Node(h, s, j) = s[j]
  BY <1>1 DEF Node
<1>4. \A j \in 1..n : N[n + 1 - j] = s[j]
  BY <1>2, <1>3
<1>5. Line(ring.pred, N, n)
  BY RingLines DEF RingInv
<1>6. a \in 0..n /\ a \in 0..(n + 1) /\ n + 1 - a = i
  BY <1>1
<1>7. y = Skip(ring.pred, N[a])
  BY <1>2, <1>6 DEF PredOf
<1>. HIDE DEF N, n, y
<1>8. PICK b \in (a + 1)..(n + 1) :
        /\ \A k \in (a + 1)..(b - 1) : Busy(N[k])
        /\ b = n + 1 => Skip(ring.pred, N[a]) = None
        /\ b # n + 1 => Skip(ring.pred, N[a]) = N[b] /\ ~Busy(N[b])
  BY <1>5, <1>6, SkipIs
<1>. DEFINE j == n + 1 - b
<1>9. j \in 0..n /\ j < i /\ b = n + 1 - j /\ (b = n + 1 <=> j = 0)
  BY <1>1, <1>6, <1>8
<1>10. \A k \in P : k \in 1..n /\ k <= j
  <2>. SUFFICES ASSUME NEW k \in P PROVE k \in 1..n /\ k <= j
    OBVIOUS
  <2>1. k \in 1..n /\ k < i /\ ~Busy(s[k])
    BY <1>1 DEF Idle
  <2>2. k > j => n + 1 - k \in (a + 1)..(b - 1)
    BY <1>1, <1>6, <1>9, <2>1
  <2>3. Busy(N[n + 1 - k]) => FALSE
    BY <1>4, <2>1
  <2>4. ~(k > j)
    BY <1>8, <2>2, <2>3
  <2>. QED
    BY <1>1, <1>9, <2>1, <2>4
<1>11. CASE b = n + 1
  <2>1. P = {}
    BY <1>1, <1>9, <1>10, <1>11
  <2>. QED
    BY <1>7, <1>8, <1>11, <2>1 DEF IsLast, n, y
<1>12. CASE b # n + 1
  <2>1. j \in 1..n
    BY <1>1, <1>9, <1>12
  <2>2. N[b] = s[j]
    BY <1>4, <1>9, <2>1
  <2>3. j \in P /\ y = s[j]
    BY <1>1, <1>7, <1>8, <1>9, <1>12, <2>1, <2>2 DEF Idle
  <2>. HIDE DEF j
  <2>. QED
    BY <1>10, <2>3 DEF IsLast, y
<1>. QED
  BY <1>11, <1>12

\* A head of a subclass is on no ring, and nothing is found from it.
LEMMA NoWalk ==
  ASSUME NEW step \in Field, NEW x \in Linkage, step[x] = None
  PROVE  Skip(step, x) = None
<1>. USE SimsetAssumption
<1>. DEFINE pass == [y \in Linkage \cup {None} |-> IF IsLink(y) /\ Busy(y) THEN step[y] ELSE y]
            K == Cardinality(Links)
            at == [k \in Nat |-> Steps(pass, None, k)]
<1>1. K \in Nat
  BY FS_CardinalityType
<1>2. ~IsLink(None)
  BY DEF IsLink
<1>3. /\ at[0] = None
      /\ \A k \in Nat : at[k + 1] = pass[at[k]]
  <2>1. pass \in [Spot -> Spot] /\ None \in Spot
    BY DEF Field, Spot, IsLink
  <2>. HIDE DEF pass
  <2>. QED
    BY <2>1, StepsAre
<1>4. pass[None] = None
  BY <1>2
<1>5. Skip(step, x) = IF IsLink(at[K]) THEN at[K] ELSE None
  BY <1>1 DEF Skip
<1>. HIDE DEF at, pass, K
<1>6. \A k \in Nat : at[k] = None
  <2>. DEFINE S == {k \in Nat : at[k] = None}
  <2>1. 0 \in S
    BY <1>3
  <2>2. \A k \in Nat : k \in S => k + 1 \in S
    BY <1>3, <1>4
  <2>3. Nat \subseteq S
    <3>. HIDE DEF S
    <3>. QED
      BY <2>1, <2>2, SetInduction
  <2>. QED
    BY <2>3
<1>. QED
  BY <1>1, <1>2, <1>5, <1>6

\* One more than the places before j.
LEMMA OneMore ==
  ASSUME NEW S, IsFiniteSet(S), NEW T, NEW j, j \notin T, T \cup {j} \subseteq S
  PROVE  /\ IsFiniteSet(T) /\ Cardinality(T) \in Nat /\ Cardinality(S) \in Nat
         /\ Cardinality(T \cup {j}) = Cardinality(T) + 1
         /\ Cardinality(T) + 1 <= Cardinality(S)
<1>1. IsFiniteSet(T) /\ IsFiniteSet(T \cup {j})
  BY FS_Subset
<1>2. Cardinality(T \cup {j}) = Cardinality(T) + 1
  BY <1>1, FS_AddElement
<1>3. Cardinality(T \cup {j}) <= Cardinality(S)
  BY FS_Subset
<1>. QED
  BY <1>1, <1>2, <1>3, FS_CardinalityType

\* cardinal counts what the walk finds.
LEMMA CountIs ==
  ASSUME RingInv, NEW h \in Heads, NEW s \in Seq(Links), Len(s) <= Cardinality(Links),
         IsFirst(First(h), s, Idle(s)),
         \A i \in DOMAIN s : IsFirst(SucOf(s[i]), s, {j \in Idle(s) : j > i})
  PROVE  Count(h) = Cardinality(Idle(s))
<1>. USE SimsetAssumption
<1>. DEFINE turn == [y \in Linkage \cup {None} |-> IF IsLink(y) THEN SucOf(y) ELSE None]
            K == Cardinality(Links)
            at == [k \in Nat |-> Steps(turn, First(h), k)]
            I == Idle(s)
            c == Cardinality(I)
            Before(j) == {i \in I : i < j}
            Here(k) == \/ \E j \in I : at[k] = s[j] /\ Cardinality(Before(j)) = k
                       \/ at[k] = None /\ c <= k
<1>1. K \in Nat /\ Len(s) \in Nat /\ DOMAIN s = 1..Len(s)
  BY FS_CardinalityType
<1>2. I \subseteq 1..Len(s) /\ I \subseteq Nat
  BY <1>1 DEF Idle
<1>3. IsFiniteSet(I) /\ c \in Nat /\ c <= K
  <2>1. IsFiniteSet(1..Len(s)) /\ Cardinality(1..Len(s)) = Len(s)
    <3>1. 1 \in Int /\ Len(s) \in Int /\ (IF 1 > Len(s) THEN 0 ELSE Len(s) - 1 + 1) = Len(s)
      BY <1>1
    <3>. QED
      BY <3>1, FS_Interval
  <2>2. IsFiniteSet(I) /\ Cardinality(I) <= Len(s)
    BY <1>2, <2>1, FS_Subset
  <2>. QED
    BY <1>1, <2>2, FS_CardinalityType
<1>4. (\A j \in I : IsLink(s[j]) /\ s[j] \in Linkage) /\ ~IsLink(None)
  BY <1>1, <1>2 DEF IsLink, IsHead, Linkage
<1>5. /\ at[0] = First(h)
      /\ \A k \in Nat : at[k + 1] = turn[at[k]]
  <2>1. turn \in [Spot -> Spot] /\ First(h) \in Spot
    BY DEF First, SucOf, Skip, Spot, IsLink
  <2>. HIDE DEF turn
  <2>. QED
    BY <2>1, StepsAre
<1>6. \A y \in Linkage \cup {None} : turn[y] = IF IsLink(y) THEN SucOf(y) ELSE None
  OBVIOUS
<1>7. Count(h) = Cardinality({k \in 0..K : IsLink(at[k])})
  <2>1. \A k \in 0..K : at[k] = Steps(turn, First(h), k)
    BY <1>1
  <2>2. {k \in 0..K : IsLink(at[k])} = {k \in 0..K : IsLink(Steps(turn, First(h), k))}
    BY <2>1
  <2>. HIDE DEF at
  <2>. QED
    BY <2>2 DEF Count
<1>. HIDE DEF at, turn, K, I
<1>8. \A j \in I : Cardinality(Before(j)) \in Nat /\ Cardinality(Before(j)) + 1 <= c
                     /\ Cardinality(Before(j) \cup {j}) = Cardinality(Before(j)) + 1
  <2>. TAKE j \in I
  <2>1. j \notin Before(j) /\ Before(j) \cup {j} \subseteq I
    BY <1>2
  <2>. HIDE DEF Before
  <2>. QED
    BY <1>3, <2>1, OneMore
<1>9. \A k \in Nat : Here(k)
  <2>1. Here(0)
    <3>1. CASE I = {}
      <4>1. at[0] = None
        BY <1>5, <3>1 DEF IsFirst, I
      <4>2. c = 0
        BY <3>1, FS_EmptySet
      <4>. QED
        BY <4>1, <4>2
    <3>2. CASE I # {}
      <4>1. PICK j \in I : at[0] = s[j] /\ \A i \in I : j <= i
        BY <1>5, <3>2 DEF IsFirst, I
      <4>2. \A i \in I : ~(i < j)
        BY <1>2, <4>1
      <4>3. Before(j) = {}
        BY <4>2
      <4>4. Cardinality(Before(j)) = 0
        BY <4>3, FS_EmptySet
      <4>. QED
        BY <4>1, <4>4
    <3>. QED
      BY <3>1, <3>2
  <2>2. ASSUME NEW k \in Nat, Here(k) PROVE Here(k + 1)
    <3>1. ASSUME NEW j \in I, at[k] = s[j], Cardinality(Before(j)) = k PROVE Here(k + 1)
      <4>. DEFINE P == {i \in I : i > j}
      <4>1. at[k + 1] = SucOf(s[j])
        BY <1>4, <1>5, <1>6, <3>1
      <4>2. IsFirst(at[k + 1], s, P)
        BY <1>1, <1>2, <4>1 DEF I
      <4>3. CASE P = {}
        <5>1. at[k + 1] = None
          BY <4>2, <4>3 DEF IsFirst
        <5>2. \A l \in I : l < j \/ l = j
          BY <1>2, <4>3
        <5>3. I = Before(j) \cup {j}
          BY <5>2
        <5>4. c = k + 1
          BY <1>8, <3>1, <5>3
        <5>. QED
          BY <5>1, <5>4
      <4>4. CASE P # {}
        <5>1. PICK i \in P : at[k + 1] = s[i] /\ \A l \in P : i <= l
          BY <4>2, <4>4 DEF IsFirst
        <5>2. \A l \in I : l < i <=> (l < j \/ l = j)
          BY <1>2, <5>1
        <5>3. Before(i) = Before(j) \cup {j}
          BY <5>2
        <5>4. Cardinality(Before(i)) = k + 1
          BY <1>8, <3>1, <5>3
        <5>. QED
          BY <5>1, <5>4
      <4>. QED
        BY <4>3, <4>4
    <3>2. ASSUME at[k] = None, c <= k PROVE Here(k + 1)
      <4>1. at[k + 1] = None
        BY <1>4, <1>5, <1>6, <3>2
      <4>. QED
        BY <1>3, <3>2, <4>1
    <3>. QED
      BY <2>2, <3>1, <3>2
  <2>. DEFINE S == {k \in Nat : Here(k)}
  <2>3. 0 \in S /\ \A k \in Nat : k \in S => k + 1 \in S
    <3>. HIDE DEF Here
    <3>. QED
      BY <2>1, <2>2
  <2>4. Nat \subseteq S
    <3>. HIDE DEF S
    <3>. QED
      BY <2>3, SetInduction
  <2>. QED
    BY <2>4
<1>10. \A k \in Nat : IsLink(at[k]) <=> k < c
  <2>. TAKE k \in Nat
  <2>1. ASSUME NEW j \in I, at[k] = s[j], Cardinality(Before(j)) = k PROVE IsLink(at[k]) /\ k < c
    <3>1. IsLink(at[k])
      BY <1>4, <2>1
    <3>2. k + 1 <= c
      <4>. HIDE DEF Before, c
      <4>. QED
        BY <1>8, <2>1
    <3>3. k < c
      <4>. HIDE DEF c
      <4>. QED
        BY <1>3, <3>2
    <3>. QED
      BY <3>1, <3>3
  <2>2. ASSUME at[k] = None, c <= k PROVE ~IsLink(at[k]) /\ ~(k < c)
    BY <1>3, <1>4, <2>2
  <2>. QED
    BY <1>9, <2>1, <2>2
<1>11. {k \in 0..K : IsLink(at[k])} = 0..(c - 1)
  BY <1>1, <1>3, <1>10
<1>12. Cardinality(0..(c - 1)) = c
  <2>1. CASE c = 0
    <3>1. 0..(c - 1) = {}
      BY <2>1
    <3>. QED
      BY <2>1, <3>1, FS_EmptySet
  <2>2. CASE c # 0
    <3>. HIDE DEF c
    <3>1. 0 \in Int /\ c - 1 \in Int /\ 0 <= c - 1
      BY <1>3, <2>2
    <3>2. Cardinality(0..(c - 1)) = (c - 1) - 0 + 1
      BY <3>1, FS_Interval
    <3>. QED
      BY <1>3, <3>2
  <2>. QED
    BY <2>1, <2>2
<1>. QED
  BY <1>7, <1>11, <1>12 DEF I

\* So the walks agree with the members wherever the rings are laid out.
LEMMA WalksHold == SetsInv => WalksAgree
<1>. USE SimsetAssumption
<1>. SUFFICES ASSUME SetsInv, NEW h \in Heads
       PROVE  LET s == Members(h)
                  idle == {i \in DOMAIN s : ~Busy(s[i])}
              IN /\ IsFirst(First(h), s, idle) /\ IsLast(Last(h), s, idle)
                 /\ \A i \in DOMAIN s :
                      /\ IsFirst(SucOf(s[i]), s, {j \in idle : j > i})
                      /\ IsLast(PredOf(s[i]), s, {j \in idle : j < i})
                 /\ Count(h) = Cardinality(idle)
                 /\ Empty(h) <=> s = <<>>
  BY DEF WalksAgree
<1>1. RingInv
  BY DEF SetsInv
<1>2. PICK m : Laid(ring, m)
  BY DEF SetsInv
<1>. DEFINE s == m[h]
            n == Len(s)
<1>3. s \in Seq(Links) /\ n \in Nat /\ DOMAIN s = 1..n /\ \A i, j \in DOMAIN s : s[i] = s[j] => i = j
  BY <1>2 DEF Laid
<1>4. Members(h) = s
  BY <1>1, <1>2, MembersAre DEF RingInv, Members
<1>5. n <= Cardinality(Links)
  BY <1>3, RingFits
<1>6. ring.suc \in Field /\ ring.pred \in Field /\ h \in Linkage
  BY <1>1 DEF RingInv, Linked, Linkage
<1>7. Idle(s) \subseteq 1..n
  BY <1>3 DEF Idle
<1>. DEFINE Walks == /\ IsFirst(First(h), s, Idle(s)) /\ IsLast(Last(h), s, Idle(s))
                     /\ \A i \in DOMAIN s :
                          /\ IsFirst(SucOf(s[i]), s, {j \in Idle(s) : j > i})
                          /\ IsLast(PredOf(s[i]), s, {j \in Idle(s) : j < i})
                     /\ Empty(h) <=> s = <<>>
<1>8. CASE h \in Derived
  <2>1. s = <<>> /\ DOMAIN s = {} /\ Idle(s) = {}
    BY <1>2, <1>8 DEF Laid, Idle
  <2>2. ring.suc[h] = None /\ ring.pred[h] = None
    BY <1>1, <1>6, <1>8 DEF RingInv, HeadsLinked, Linked
  <2>3. First(h) = None /\ Last(h) = None
    BY <1>6, <2>2, NoWalk DEF First, Last, SucOf, PredOf
  <2>4. Walks
    BY <2>1, <2>2, <2>3 DEF IsFirst, IsLast, Empty
  <2>5. Count(h) = Cardinality(Idle(s))
    <3>. HIDE DEF s
    <3>. QED
      BY <1>1, <1>3, <1>5, <2>4, CountIs
  <2>. QED
    BY <1>4, <2>4, <2>5 DEF Idle
<1>9. CASE h \notin Derived
  <2>1. Node(h, s, 0) = h /\ Node(h, s, n + 1) = h /\ \A i \in 1..n : Node(h, s, i) = s[i]
    BY <1>3 DEF Node
  <2>2. IsFirst(First(h), s, {j \in Idle(s) : j > 0})
    <3>1. 0 \in 0..n /\ h \in Heads \ Derived
      BY <1>3, <1>9
    <3>2. IsFirst(SucOf(Node(h, s, 0)), s, {j \in Idle(s) : j > 0})
      BY <1>1, <1>2, <3>1, SucOfIs
    <3>. QED
      BY <2>1, <3>2 DEF First
  <2>3. IsLast(Last(h), s, {j \in Idle(s) : j < n + 1})
    <3>1. n + 1 \in 1..(n + 1) /\ h \in Heads \ Derived
      BY <1>3, <1>9
    <3>2. IsLast(PredOf(Node(h, s, n + 1)), s, {j \in Idle(s) : j < n + 1})
      BY <1>1, <1>2, <3>1, PredOfIs
    <3>. QED
      BY <2>1, <3>2 DEF Last
  <2>4. {j \in Idle(s) : j > 0} = Idle(s) /\ {j \in Idle(s) : j < n + 1} = Idle(s)
    BY <1>3, <1>7
  <2>5. ASSUME NEW i \in DOMAIN s
        PROVE  /\ IsFirst(SucOf(s[i]), s, {j \in Idle(s) : j > i})
               /\ IsLast(PredOf(s[i]), s, {j \in Idle(s) : j < i})
    <3>1. i \in 0..n /\ i \in 1..(n + 1) /\ Node(h, s, i) = s[i]
      BY <1>3, <2>1
    <3>2. IsFirst(SucOf(Node(h, s, i)), s, {j \in Idle(s) : j > i})
      BY <1>1, <1>2, <1>9, <3>1, SucOfIs
    <3>3. IsLast(PredOf(Node(h, s, i)), s, {j \in Idle(s) : j < i})
      BY <1>1, <1>2, <1>9, <3>1, PredOfIs
    <3>. QED
      BY <3>1, <3>2, <3>3
  <2>6. Empty(h) <=> s = <<>>
    <3>1. ring.suc[h] = Node(h, s, 1)
      BY <1>2, <1>3, <1>9, <2>1 DEF Laid, Ring
    <3>2. CASE n = 0
      <4>1. s = <<>>
        BY <1>3, <3>2, EmptySeq
      <4>. QED
        BY <2>1, <3>1, <3>2, <4>1 DEF Empty
    <3>3. CASE n # 0
      <4>1. s # <<>> /\ Node(h, s, 1) \in Links
        BY <1>3, <2>1, <3>3
      <4>. QED
        BY <3>1, <4>1 DEF Empty, Linkage
    <3>. QED
      BY <3>2, <3>3
  <2>7. Walks
    BY <2>2, <2>3, <2>4, <2>5, <2>6
  <2>8. Count(h) = Cardinality(Idle(s))
    <3>. HIDE DEF s
    <3>. QED
      BY <1>1, <1>3, <1>5, <2>7, CountIs
  <2>. QED
    BY <1>4, <2>7, <2>8 DEF Idle
<1>. QED
  BY <1>8, <1>9

(***************************************************************************)
(* suc, pred, first, last, cardinal and empty tell of the same members, in *)
(* the same order, whichever of them are scheduled and wherever a walk     *)
(* begins; no walk runs past its ring or comes back to where it was.       *)
(***************************************************************************)
THEOREM WalksAlwaysAgree == Spec => []WalksAgree
<1>1. SetsInv /\ [Next]_vars => SetsInv'
  BY SetsStep
<1>. QED
  BY <1>1, SetsInitially, WalksHold, PTL DEF Spec
===============================================================================
