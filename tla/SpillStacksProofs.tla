----------------------------- MODULE SpillStacksProofs ------------------------
(***************************************************************************)
(* Proofs about SpillStacks, for any number of coroutines, functions,      *)
(* references and values and stacks of any depth. SpillInv(v) says that v  *)
(* is the stack of each live coroutine: its outer part is on the physical  *)
(* stack while the coroutine is current, the rest is in its buffers from   *)
(* the other end. Each action changes v as CallStacks changes its stacks,  *)
(* or leaves it.                                                           *)
(***************************************************************************)
EXTENDS SpillStacks, SequenceTheorems, WellFoundedInduction, TLAPS

(***************************************************************************)
(* The invariant: a stack for each live coroutine, of which the physical   *)
(* stack and the two buffers each hold a part.                             *)
(***************************************************************************)

\* References, told apart by the activation they belong to.
Word == Coroutines \X Nat \X Nat

\* What is on each stack: which functions, and where each is.
Spot == [fn : Functions, at : Sites]

\* How many activations of c are on the physical stack.
Held(c) == IF c = current THEN Len(phys) ELSE 0

Live(c) == started[c] /\ ~over[c]

Typed ==
    /\ phys \in Seq(Activations)
    /\ frames \in [Coroutines -> Seq(Frames)]
    /\ spine \in [Coroutines -> Seq(Word)]
    /\ cells \in [Coroutines -> Seq(Values)]
    /\ phase \in Phases
    /\ current \in Coroutines
    /\ next \in Coroutines
    /\ started \in [Coroutines -> BOOLEAN]
    /\ over \in [Coroutines -> BOOLEAN]
    /\ unread \in BOOLEAN

\* The two buffers of c are of one length, and there is nothing in them and no
\* cell before c begins, and but the frame of its body after it ended.
Counted(c) ==
    /\ Len(spine[c]) = Words(frames[c], Len(frames[c]))
    /\ \A i \in DOMAIN frames[c] : frames[c][i].refCount = RefSlots[frames[c][i].fn]
    /\ Len(cells[c]) <= MaxDepth
    /\ over[c] => Len(frames[c]) + Held(c) <= 1
    /\ ~Live(c) => cells[c] = <<>>
    /\ ~started[c] => ~over[c] /\ c # current /\ frames[c] = <<>> /\ spine[c] = <<>>

\* What each phase may rely on.
Phased ==
    /\ started[current]
    /\ phase = "normal" => phys # <<>> /\ ~over[current] /\ frames[current] = <<>>
    /\ phase = "rewinding" => ~over[current] /\ frames[current] # <<>>
    /\ phase = "unwinding" => next # current /\ ~over[next]
    /\ phase = "done" => over[current]

\* Each activation on the physical stack knows its home and its references.
Homed ==
    \A d \in DOMAIN phys :
        phys[d].home = <<current, d>> /\ phys[d].refs = RefsOf(current, d, phys[d].fn)

\* s is a stack: the body, called functions, and the point of a transfer.
Stacked(s) ==
    /\ s \in Seq(Spot)
    /\ s # <<>>
    /\ s[1].fn = Body
    /\ \A d \in 1 .. Len(s) - 1 : s[d].at = s[d + 1].fn
    /\ s[Len(s)].at = Transfer

\* The buffers of c hold the inner part of the stack s, innermost first.
Spilled(c, s) ==
    \A i \in DOMAIN frames[c] :
        /\ frames[c][i].fn = s[Len(s) + 1 - i].fn
        /\ frames[c][i].resume = s[Len(s) + 1 - i].at
        /\ frames[c][i].home = <<c, Len(s) + 1 - i>>
        /\ \A k \in 1 .. RefSlots[frames[c][i].fn] :
             spine[c][Words(frames[c], i - 1) + k] = <<c, Len(s) + 1 - i, k>>

\* v is the stack of each live coroutine: the outer part is on the physical
\* stack if it is current, the rest in its buffers.
Stand(c, s) ==
    /\ Stacked(s)
    /\ Len(s) = Len(cells[c])
    /\ Len(s) = Held(c) + Len(frames[c])
    /\ c = current => \A d \in DOMAIN phys : phys[d].fn = s[d].fn /\ phys[d].site = s[d].at
    /\ Spilled(c, s)

SpillInv(v) ==
    /\ v \in [Coroutines -> Seq(Spot)]
    /\ Typed
    /\ \A c \in Coroutines : Counted(c)
    /\ Phased
    /\ Homed
    /\ LocalsAreFresh
    /\ \A c \in Coroutines : Live(c) => Stand(c, v[c])

\* What the program believes of c, whose stack is s.
View(c, s) ==
    IF over[c] THEN <<>>
    ELSE IF ~started[c] THEN <<Stacks!Entered(c, 1, Body)>>
    ELSE [d \in 1 .. Len(s) |->
            [fn |-> s[d].fn, value |-> cells[c][d], refs |-> RefsOf(c, d, s[d].fn)]]

Views(v) == [c \in Coroutines |-> View(c, v[c])]

(***************************************************************************)
(* The words of a buffer: Words adds up the references that the frames     *)
(* own. Its function is shown to be unique, since a recursive definition   *)
(* can only be read where one exists.                                      *)
(***************************************************************************)

\* A set of numbers has a least one.
LEMMA Least ==
  ASSUME NEW S \in SUBSET Nat, S # {}
  PROVE  \E n \in S : \A m \in S : n <= m
<1>1. PICK n \in S : \A m \in S : ~(<<m, n>> \in OpToRel(<, Nat))
  BY WFMin, NatLessThanWellFounded, Zenon
<1>2. ASSUME NEW m \in S PROVE n <= m
  <2>1. ~(m < n)
    BY <1>1 DEF OpToRel
  <2>. QED
    BY <2>1
<1>. QED
  BY <1>2

\* Induction, of a set.
LEMMA SetInduction ==
  ASSUME NEW S, 0 \in S, \A n \in Nat : n \in S => n + 1 \in S
  PROVE  Nat \subseteq S
<1> SUFFICES ASSUME Nat \ S # {} PROVE FALSE
  OBVIOUS
<1>1. PICK n \in Nat \ S : \A m \in Nat \ S : n <= m
  BY Least
<1>2. n - 1 \in Nat /\ n - 1 \notin Nat \ S
  BY <1>1
<1>. QED
  BY <1>1, <1>2

\* Words is a function that adds up, on the places from 0 to n.
Adds(f, fs, n) == f = [i \in 0 .. n |-> IF i = 0 THEN 0 ELSE f[i - 1] + fs[i].refCount]

\* There is one such function, and more places do not change it.
LEMMA AddsUnique ==
  ASSUME NEW fs, NEW m \in Nat, NEW n \in Nat, NEW f, NEW g, Adds(f, fs, m), Adds(g, fs, n)
  PROVE  \A i \in 0 .. m \cap 0 .. n : f[i] = g[i]
<1>. DEFINE S == {i \in Nat : i \in 0 .. m /\ i \in 0 .. n => f[i] = g[i]}
<1>1. 0 \in S
  BY DEF Adds
<1>2. ASSUME NEW i \in Nat, i \in S PROVE i + 1 \in S
  <2>1. SUFFICES ASSUME i + 1 \in 0 .. m, i + 1 \in 0 .. n PROVE f[i + 1] = g[i + 1]
    OBVIOUS
  <2>2. i \in 0 .. m /\ i \in 0 .. n /\ i + 1 # 0 /\ (i + 1) - 1 = i
    BY <2>1
  <2>3. f[i + 1] = f[i] + fs[i + 1].refCount /\ g[i + 1] = g[i] + fs[i + 1].refCount
    BY <2>1, <2>2 DEF Adds
  <2>. QED
    BY <1>2, <2>2, <2>3
<1>3. Nat \subseteq S
  <2>. HIDE DEF S
  <2>. QED
    BY <1>1, <1>2, SetInduction
<1>. QED
  BY <1>3

\* And there is always one.
LEMMA AddsExists == ASSUME NEW fs, NEW n \in Nat PROVE \E f : Adds(f, fs, n)
<1>. DEFINE S == {k \in Nat : \E f : Adds(f, fs, k)}
<1>1. 0 \in S
  <2>1. Adds([i \in 0 .. 0 |-> 0], fs, 0)
    BY DEF Adds
  <2>. QED
    BY <2>1
<1>2. ASSUME NEW k \in Nat, k \in S PROVE k + 1 \in S
  <2>1. PICK f : Adds(f, fs, k)
    BY <1>2
  <2>. DEFINE g == [i \in 0 .. k + 1 |-> IF i = k + 1 THEN f[k] + fs[k + 1].refCount ELSE f[i]]
  <2>2. f[0] = 0 /\ \A i \in 0 .. k : i # 0 => f[i] = f[i - 1] + fs[i].refCount
    BY <2>1 DEF Adds
  <2>3. ASSUME NEW i \in 0 .. k + 1 PROVE g[i] = IF i = 0 THEN 0 ELSE g[i - 1] + fs[i].refCount
    <3>1. CASE i = k + 1
      <4>1. i # 0 /\ i - 1 = k /\ k # k + 1 /\ k \in 0 .. k + 1
        BY <3>1
      <4>. QED
        BY <3>1, <4>1
    <3>2. CASE i # k + 1 /\ i # 0
      <4>1. i \in 0 .. k /\ i - 1 # k + 1 /\ i - 1 \in 0 .. k + 1
        BY <3>2
      <4>. QED
        BY <2>2, <3>2, <4>1
    <3>3. CASE i = 0
      <4>1. g[0] = f[0]
        BY <3>3
      <4>. QED
        BY <2>2, <3>3, <4>1
    <3>. QED
      BY <3>1, <3>2, <3>3
  <2>4. g = [i \in 0 .. k + 1 |-> g[i]]
    OBVIOUS
  <2>5. Adds(g, fs, k + 1)
    <3>. HIDE DEF g
    <3>. QED
      BY <2>3, <2>4 DEF Adds
  <2>. QED
    BY <2>5
<1>3. Nat \subseteq S
  <2>. HIDE DEF S
  <2>. QED
    BY <1>1, <1>2, SetInduction
<1>. QED
  BY <1>3

\* Each frame adds the words it owns.
LEMMA WordsAre ==
  ASSUME NEW fs
  PROVE  /\ Words(fs, 0) = 0
         /\ \A n \in Nat : Words(fs, n + 1) = Words(fs, n) + fs[n + 1].refCount
<1>. DEFINE up(n) == CHOOSE f : Adds(f, fs, n)
<1>1. \A n \in Nat : Words(fs, n) = up(n)[n]
  BY DEF Words, Adds
<1>2. \A n \in Nat : Adds(up(n), fs, n)
  BY AddsExists
<1>. HIDE DEF up
<1>3. Words(fs, 0) = 0
  BY <1>1, <1>2 DEF Adds
<1>4. ASSUME NEW n \in Nat PROVE Words(fs, n + 1) = Words(fs, n) + fs[n + 1].refCount
  <2>1. n + 1 \in Nat /\ n + 1 \in 0 .. n + 1 /\ n \in 0 .. n /\ n \in 0 .. n + 1 /\ n + 1 # 0 /\ (n + 1) - 1 = n
    OBVIOUS
  <2>2. Adds(up(n), fs, n) /\ Adds(up(n + 1), fs, n + 1)
    BY <1>2, <2>1
  <2>3. up(n)[n] = up(n + 1)[n]
    BY <2>1, <2>2, AddsUnique
  <2>4. up(n + 1)[n + 1] = up(n + 1)[n] + fs[n + 1].refCount
    BY <2>1, <2>2 DEF Adds
  <2>. QED
    BY <1>1, <2>1, <2>3, <2>4
<1>. QED
  BY <1>3, <1>4

\* Words are numbers, and a longer part of a buffer has no fewer.
LEMMA WordsGrow ==
  ASSUME NEW fs, NEW n \in Nat, \A i \in 1 .. n : fs[i].refCount \in Nat
  PROVE  \A k \in 0 .. n : Words(fs, k) \in Nat /\ Words(fs, k) <= Words(fs, n)
<1>. DEFINE S == {k \in Nat : k <= n => /\ Words(fs, k) \in Nat
                                        /\ \A j \in 0 .. k : Words(fs, j) \in Nat /\ Words(fs, j) <= Words(fs, k)}
<1>1. 0 \in S
  BY WordsAre
<1>2. ASSUME NEW k \in Nat, k \in S PROVE k + 1 \in S
  <2>1. SUFFICES ASSUME k + 1 <= n
                 PROVE  /\ Words(fs, k + 1) \in Nat
                        /\ \A j \in 0 .. k + 1 : Words(fs, j) \in Nat /\ Words(fs, j) <= Words(fs, k + 1)
    OBVIOUS
  <2>2. k <= n /\ k + 1 \in 1 .. n
    BY <2>1
  <2>3. Words(fs, k) \in Nat /\ \A j \in 0 .. k : Words(fs, j) \in Nat /\ Words(fs, j) <= Words(fs, k)
    BY <1>2, <2>2
  <2>4. fs[k + 1].refCount \in Nat /\ Words(fs, k + 1) = Words(fs, k) + fs[k + 1].refCount
    BY <2>2, WordsAre
  <2>5. Words(fs, k + 1) \in Nat /\ Words(fs, k) <= Words(fs, k + 1)
    BY <2>3, <2>4
  <2>6. \A j \in 0 .. k + 1 : j \in 0 .. k \/ j = k + 1
    OBVIOUS
  <2>. QED
    BY <2>3, <2>5, <2>6
<1>3. Nat \subseteq S
  <2>. HIDE DEF S
  <2>. QED
    BY <1>1, <1>2, SetInduction
<1>. QED
  BY <1>3

\* They depend on the frames counted only.
LEMMA WordsSame ==
  ASSUME NEW fs, NEW gs, NEW n \in Nat, \A i \in 1 .. n : fs[i] = gs[i]
  PROVE  \A k \in 0 .. n : Words(fs, k) = Words(gs, k)
<1>. DEFINE S == {k \in Nat : k <= n => Words(fs, k) = Words(gs, k)}
<1>1. 0 \in S
  BY WordsAre
<1>2. ASSUME NEW k \in Nat, k \in S PROVE k + 1 \in S
  <2>1. SUFFICES ASSUME k + 1 <= n PROVE Words(fs, k + 1) = Words(gs, k + 1)
    OBVIOUS
  <2>2. k <= n /\ fs[k + 1] = gs[k + 1]
    BY <2>1
  <2>3. /\ Words(fs, k + 1) = Words(fs, k) + fs[k + 1].refCount
        /\ Words(gs, k + 1) = Words(gs, k) + gs[k + 1].refCount
    BY WordsAre
  <2>. QED
    BY <1>2, <2>2, <2>3
<1>3. Nat \subseteq S
  <2>. HIDE DEF S
  <2>. QED
    BY <1>1, <1>2, SetInduction
<1>. QED
  BY <1>3

(***************************************************************************)
(* The program runs: calls, returns and stores are on the physical stack   *)
(* alone.                                                                  *)
(***************************************************************************)

\* A coroutine that a step leaves alone, and that is not on the physical stack
\* before or after, is as it was.
LEMMA Elsewhere ==
  ASSUME NEW v, SpillInv(v), NEW c \in Coroutines, c # current, c # current',
         frames'[c] = frames[c], spine'[c] = spine[c], cells'[c] = cells[c],
         over'[c] = over[c], started'[c] = started[c]
  PROVE  Counted(c)' /\ (Live(c)' => Stand(c, v[c])') /\ View(c, v[c])' = View(c, v[c])
<1>1. Counted(c) /\ (Live(c) => Stand(c, v[c]))
  BY DEF SpillInv
<1>2. Counted(c)'
  BY <1>1 DEF Counted, Held, Live
<1>3. Live(c)' => Stand(c, v[c])'
  BY <1>1 DEF Live, Stand, Held, Spilled
<1>4. View(c, v[c])' = View(c, v[c])
  BY DEF View
<1>. QED
  BY <1>2, <1>3, <1>4

\* While the program runs, the stack of the current coroutine is the physical
\* one.
LEMMA Running ==
  ASSUME NEW v, SpillInv(v), phase = "normal"
  PROVE  /\ Live(current) /\ frames[current] = <<>>
         /\ phys \in Seq(Activations) /\ Len(phys) \in Nat /\ Len(phys) >= 1 /\ DOMAIN phys = 1 .. Len(phys)
         /\ Stacked(v[current]) /\ v[current] \in Seq(Spot)
         /\ Len(v[current]) = Len(phys) /\ Len(cells[current]) = Len(phys) /\ Len(phys) <= MaxDepth
         /\ cells[current] \in Seq(Values)
         /\ \A d \in 1 .. Len(phys) : phys[d].fn = v[current][d].fn /\ phys[d].site = v[current][d].at
         /\ \A d \in 1 .. Len(phys) :
              phys[d].home = <<current, d>> /\ phys[d].refs = RefsOf(current, d, phys[d].fn)
         /\ Words(frames[current], Len(frames[current])) = 0 /\ Len(spine[current]) = 0
<1>1. /\ phys \in Seq(Activations) /\ Len(phys) \in Nat /\ DOMAIN phys = 1 .. Len(phys)
      /\ cells[current] \in Seq(Values) /\ current \in Coroutines
  BY DEF SpillInv, Typed
<1>2. Live(current) /\ frames[current] = <<>> /\ phys # <<>>
  BY DEF SpillInv, Phased, Live
<1>3. Stand(current, v[current]) /\ Counted(current)
  BY <1>1, <1>2 DEF SpillInv
<1>4. Len(phys) >= 1 /\ Len(frames[current]) = 0
  BY <1>1, <1>2
<1>5. /\ Stacked(v[current]) /\ v[current] \in Seq(Spot)
      /\ Len(v[current]) = Len(phys) /\ Len(cells[current]) = Len(phys)
      /\ \A d \in 1 .. Len(phys) : phys[d].fn = v[current][d].fn /\ phys[d].site = v[current][d].at
  BY <1>1, <1>3, <1>4 DEF Stand, Held, Stacked
<1>6. Words(frames[current], Len(frames[current])) = 0
  BY <1>4, WordsAre
<1>. QED
  BY <1>1, <1>2, <1>3, <1>4, <1>5, <1>6 DEF Counted, SpillInv, Homed

\* A coroutine that runs has the stack s if its activations are there.
Runs(s) ==
    /\ Stacked(s)
    /\ current \in Coroutines
    /\ phys \in Seq(Activations)
    /\ frames[current] = <<>>
    /\ Len(s) = Len(cells[current]) /\ Len(s) = Len(phys)
    /\ \A d \in 1 .. Len(s) : phys[d].fn = s[d].fn /\ phys[d].site = s[d].at

\* It stands if it runs.
LEMMA RunningStands ==
  ASSUME NEW s, Runs(s)' PROVE Stand(current, s)'
<1>1. /\ DOMAIN frames'[current'] = {} /\ Len(frames'[current']) = 0
      /\ Len(phys') \in Nat /\ DOMAIN phys' = 1 .. Len(phys')
  BY DEF Runs
<1>. QED
  BY <1>1 DEF Stand, Spilled, Held, Runs

\* What the program believes of all stacks but one.
LEMMA OneSeen ==
  ASSUME NEW v, v \in [Coroutines -> Seq(Spot)], NEW w, w \in [Coroutines -> Seq(Spot)], NEW c \in Coroutines, NEW x,
         \A d \in Coroutines \ {c} : View(d, w[d])' = View(d, v[d]),
         View(c, w[c])' = x
  PROVE  Views(w)' = [Views(v) EXCEPT ![c] = x]
  BY DEF Views

\* A value written into a stack as the program sees it.
LEMMA ValueWritten ==
  ASSUME NEW n \in Nat, NEW k \in 1 .. n, NEW a, NEW V, NEW W,
         V = [d \in 1 .. n |-> V[d]], W = [d \in 1 .. n |-> W[d]],
         \A d \in 1 .. n : d # k => W[d] = V[d],
         W[k] = [V[k] EXCEPT !.value = a]
  PROVE  W = [V EXCEPT ![k].value = a]
<1>1. [V EXCEPT ![k].value = a] = [d \in 1 .. n |-> IF d = k THEN [V[k] EXCEPT !.value = a] ELSE V[d]]
  OBVIOUS
<1>2. \A d \in 1 .. n : W[d] = IF d = k THEN [V[k] EXCEPT !.value = a] ELSE V[d]
  OBVIOUS
<1>. QED
  BY <1>1, <1>2

\* An assignment to the running activation's local.
LEMMA AssignKeeps ==
  ASSUME NEW v, SpillInv(v), NEW a \in Values, Assign(a)
  PROVE  SpillInv(v)' /\ Views(v)' = [Views(v) EXCEPT ![current][Len(phys)].value = a]
<1>0. PICK s, n, top : s = v[current] /\ n = Len(phys) /\ top = [phys[n] EXCEPT !.copy = a]
  OBVIOUS
<1>1. /\ phase = "normal"
      /\ phys' = [phys EXCEPT ![n] = top]
      /\ cells' = [cells EXCEPT ![current] = [@ EXCEPT ![n] = a]]
      /\ unread' = FALSE
      /\ UNCHANGED <<frames, spine, phase, current, next, started, over>>
  BY <1>0 DEF Assign
<1>2. /\ Live(current) /\ frames[current] = <<>>
      /\ phys \in Seq(Activations) /\ n \in Nat /\ n >= 1 /\ n \in 1 .. n /\ DOMAIN phys = 1 .. n
      /\ Stacked(s) /\ Len(s) = n /\ Len(cells[current]) = n /\ n <= MaxDepth
      /\ cells[current] \in Seq(Values)
      /\ \A d \in 1 .. n : phys[d].fn = s[d].fn /\ phys[d].site = s[d].at
      /\ \A d \in 1 .. n : phys[d].home = <<current, d>> /\ phys[d].refs = RefsOf(current, d, phys[d].fn)
  BY <1>0, <1>1, Running
<1>3. v \in [Coroutines -> Seq(Spot)] /\ Typed /\ Phased
  BY DEF SpillInv
<1>4. top \in Activations /\ top.copy = a /\ top.fn = phys[n].fn /\ top.site = phys[n].site
      /\ top.home = phys[n].home /\ top.refs = phys[n].refs
  <2>1. phys[n] \in Activations
    BY <1>2
  <2>. QED
    BY <1>0, <2>1 DEF Activations
<1>5. /\ phys' \in Seq(Activations) /\ Len(phys') = n /\ DOMAIN phys' = 1 .. n
      /\ \A d \in 1 .. n : phys'[d] = IF d = n THEN top ELSE phys[d]
  BY <1>0, <1>1, <1>2, <1>4
<1>6. /\ cells'[current] \in Seq(Values) /\ Len(cells'[current]) = n
      /\ \A d \in 1 .. n : cells'[current][d] = IF d = n THEN a ELSE cells[current][d]
      /\ \A c \in Coroutines : c # current => cells'[c] = cells[c]
      /\ cells' \in [Coroutines -> Seq(Values)]
  <2>1. current \in Coroutines /\ cells \in [Coroutines -> Seq(Values)]
    BY <1>3 DEF Typed
  <2>2. cells'[current] = [cells[current] EXCEPT ![n] = a] /\ \A c \in Coroutines : c # current => cells'[c] = cells[c]
    BY <1>1, <2>1
  <2>3. /\ cells'[current] \in Seq(Values) /\ Len(cells'[current]) = n
        /\ \A d \in 1 .. n : cells'[current][d] = IF d = n THEN a ELSE cells[current][d]
    BY <1>2, <2>2, ExceptSeq
  <2>4. cells' \in [Coroutines -> Seq(Values)]
    BY <1>1, <2>1, <2>2, <2>3
  <2>. QED
    BY <2>2, <2>3, <2>4
<1>7. Typed'
  BY <1>1, <1>3, <1>5, <1>6 DEF Typed
<1>8. Phased'
  <2>1. phys' # <<>>
    BY <1>2, <1>5
  <2>. QED
    BY <1>1, <1>3, <2>1 DEF Phased
<1>9. Homed'
  BY <1>1, <1>2, <1>4, <1>5 DEF Homed
<1>10. LocalsAreFresh'
  <2>1. Top' = top
    BY <1>2, <1>5 DEF Top
  <2>2. top.home = <<current, n>>
    BY <1>2, <1>4
  <2>3. cells'[top.home[1]][top.home[2]] = a
    BY <1>2, <1>6, <2>2
  <2>. QED
    BY <1>4, <2>1, <2>3 DEF LocalsAreFresh, Cell
<1>11. ASSUME NEW c \in Coroutines, c # current
       PROVE  Counted(c)' /\ (Live(c)' => Stand(c, v[c])') /\ View(c, v[c])' = View(c, v[c])
  BY <1>1, <1>6, <1>11, Elsewhere
<1>12. Counted(current)'
  BY <1>1, <1>2, <1>6 DEF Counted, SpillInv, Live, Typed, Held
<1>13. Stand(current, s)'
  <2>1. Runs(s)'
    BY <1>1, <1>2, <1>3, <1>4, <1>5, <1>6 DEF Runs, Typed
  <2>. QED
    BY <2>1, RunningStands
<1>14. SpillInv(v)'
  BY <1>0, <1>1, <1>3, <1>7, <1>8, <1>9, <1>10, <1>11, <1>12, <1>13 DEF SpillInv, Live
<1>15. View(current, s)' = [View(current, s) EXCEPT ![n].value = a]
  <2>1. PICK V, W : V = View(current, s) /\ W = View(current, s)'
    OBVIOUS
  <2>2. V = [d \in 1 .. n |-> [fn |-> s[d].fn, value |-> cells[current][d], refs |-> RefsOf(current, d, s[d].fn)]]
    BY <1>2, <2>1 DEF View, Live
  <2>3. W = [d \in 1 .. n |-> [fn |-> s[d].fn, value |-> cells'[current][d], refs |-> RefsOf(current, d, s[d].fn)]]
    BY <1>1, <1>2, <2>1 DEF View, Live
  <2>4. V = [d \in 1 .. n |-> V[d]] /\ W = [d \in 1 .. n |-> W[d]]
    BY <2>2, <2>3
  <2>5. \A d \in 1 .. n : d # n => W[d] = V[d]
    BY <1>6, <2>2, <2>3
  <2>6. /\ V[n] = [fn |-> s[n].fn, value |-> cells[current][n], refs |-> RefsOf(current, n, s[n].fn)]
        /\ W[n] = [fn |-> s[n].fn, value |-> a, refs |-> RefsOf(current, n, s[n].fn)]
    BY <1>2, <1>6, <2>2, <2>3
  <2>7. W[n] = [V[n] EXCEPT !.value = a]
    BY <2>6
  <2>8. W = [V EXCEPT ![n].value = a]
    BY <1>2, <2>4, <2>5, <2>7, ValueWritten
  <2>. QED
    BY <2>1, <2>8
<1>16. View(current, v[current])' = View(current, s)'
  BY <1>0, <1>1
<1>. QED
  BY <1>0, <1>1, <1>3, <1>11, <1>14, <1>15, <1>16, OneSeen DEF Views, Typed

\* A store through a captured pointer, to a variable of any live activation.
LEMMA AssignCapturedKeeps ==
  ASSUME NEW v, SpillInv(v), NEW k \in Coroutines, NEW i \in 1 .. MaxDepth, NEW a \in Values,
         AssignCaptured(k, i, a)
  PROVE  /\ SpillInv(v)' /\ Live(k) /\ i \in 1 .. Len(v[k])
         /\ Views(v)' = [Views(v) EXCEPT ![k][i].value = a]
<1>0. PICK s, n : s = v[k] /\ n = Len(cells[k])
  OBVIOUS
<1>1. /\ phase = "normal"
      /\ i \in DOMAIN cells[k]
      /\ cells' = [cells EXCEPT ![k] = [@ EXCEPT ![i] = a]]
      /\ unread' = (unread \/ <<k, i>> = Top.home)
      /\ UNCHANGED <<phys, frames, spine, phase, current, next, started, over>>
  BY DEF AssignCaptured
<1>2. v \in [Coroutines -> Seq(Spot)] /\ Typed /\ Phased /\ Homed
  BY DEF SpillInv
<1>3. cells[k] \in Seq(Values) /\ n \in Nat /\ i \in 1 .. n
  BY <1>0, <1>1, <1>2 DEF Typed
<1>4. Live(k)
  <2>1. cells[k] # <<>>
    BY <1>0, <1>3
  <2>. QED
    BY <2>1 DEF SpillInv, Counted
<1>5. Stand(k, s) /\ Len(s) = n
  BY <1>0, <1>4 DEF SpillInv, Stand
<1>6. /\ cells'[k] \in Seq(Values) /\ Len(cells'[k]) = n
      /\ \A d \in 1 .. n : cells'[k][d] = IF d = i THEN a ELSE cells[k][d]
      /\ \A c \in Coroutines : c # k => cells'[c] = cells[c]
      /\ cells' \in [Coroutines -> Seq(Values)]
  <2>1. cells \in [Coroutines -> Seq(Values)]
    BY <1>2 DEF Typed
  <2>2. cells'[k] = [cells[k] EXCEPT ![i] = a] /\ \A c \in Coroutines : c # k => cells'[c] = cells[c]
    BY <1>1, <2>1
  <2>3. /\ cells'[k] \in Seq(Values) /\ Len(cells'[k]) = n
        /\ \A d \in 1 .. n : cells'[k][d] = IF d = i THEN a ELSE cells[k][d]
    BY <1>0, <1>3, <2>2, ExceptSeq
  <2>4. cells' \in [Coroutines -> Seq(Values)]
    BY <1>1, <2>1, <2>2, <2>3
  <2>. QED
    BY <2>2, <2>3, <2>4
<1>7. Typed'
  <2>1. unread' \in BOOLEAN
    BY <1>1
  <2>. QED
    BY <1>1, <1>2, <1>6, <2>1 DEF Typed
<1>8. Phased' /\ Homed'
  BY <1>1, <1>2 DEF Phased, Homed
<1>9. LocalsAreFresh'
  <2>1. PICK m : m = Len(phys)
    OBVIOUS
  <2>2. /\ m \in Nat /\ m >= 1 /\ Len(cells[current]) = m /\ current \in Coroutines
        /\ m \in 1 .. m /\ Top = phys[m] /\ Top.home = <<current, m>>
    <3>1. /\ m \in Nat /\ m >= 1 /\ Len(cells[current]) = m
          /\ \A d \in 1 .. m : phys[d].home = <<current, d>>
      BY <1>1, <2>1, Running
    <3>2. m \in 1 .. m /\ Top = phys[m]
      BY <2>1, <3>1 DEF Top
    <3>. QED
      BY <1>2, <3>1, <3>2 DEF Typed
  <2>3. Top' = Top
    BY <1>1 DEF Top
  <2>4. Top.copy = cells[current][m] \/ unread
    BY <1>1, <2>2 DEF SpillInv, LocalsAreFresh, Cell
  <2>5. CASE <<k, i>> = <<current, m>>
    BY <1>1, <2>2, <2>5 DEF LocalsAreFresh
  <2>6. CASE <<k, i>> # <<current, m>>
    <3>1. cells'[current][m] = cells[current][m]
      BY <1>0, <1>6, <2>2, <2>6
    <3>2. CASE unread
      BY <1>1, <3>2 DEF LocalsAreFresh
    <3>3. CASE Top.copy = cells[current][m]
      BY <2>2, <2>3, <3>1, <3>3 DEF LocalsAreFresh, Cell
    <3>. QED
      BY <2>4, <3>2, <3>3
  <2>. QED
    BY <2>5, <2>6
<1>10. \A c \in Coroutines : Len(cells'[c]) = Len(cells[c]) /\ (cells[c] = <<>> => cells'[c] = <<>>)
  BY <1>0, <1>3, <1>6
<1>11. ASSUME NEW c \in Coroutines
       PROVE  Counted(c)' /\ (Live(c)' => Stand(c, v[c])')
  <2>1. Counted(c) /\ (Live(c) => Stand(c, v[c]))
    BY DEF SpillInv
  <2>2. Counted(c)'
    BY <1>1, <1>10, <2>1 DEF Counted, Held, Live
  <2>3. Live(c)' => Stand(c, v[c])'
    BY <1>1, <1>10, <2>1 DEF Live, Stand, Held, Spilled
  <2>. QED
    BY <2>2, <2>3
<1>12. SpillInv(v)'
  BY <1>2, <1>7, <1>8, <1>9, <1>11 DEF SpillInv
<1>13. \A c \in Coroutines \ {k} : View(c, v[c])' = View(c, v[c])
  BY <1>1, <1>6 DEF View
<1>14. View(k, s)' = [View(k, s) EXCEPT ![i].value = a]
  <2>1. PICK V, W : V = View(k, s) /\ W = View(k, s)'
    OBVIOUS
  <2>2. V = [d \in 1 .. n |-> [fn |-> s[d].fn, value |-> cells[k][d], refs |-> RefsOf(k, d, s[d].fn)]]
    BY <1>4, <1>5, <2>1 DEF View, Live
  <2>3. W = [d \in 1 .. n |-> [fn |-> s[d].fn, value |-> cells'[k][d], refs |-> RefsOf(k, d, s[d].fn)]]
    BY <1>1, <1>4, <1>5, <2>1 DEF View, Live
  <2>4. V = [d \in 1 .. n |-> V[d]] /\ W = [d \in 1 .. n |-> W[d]]
    BY <2>2, <2>3
  <2>5. \A d \in 1 .. n : d # i => W[d] = V[d]
    BY <1>6, <2>2, <2>3
  <2>6. /\ V[i] = [fn |-> s[i].fn, value |-> cells[k][i], refs |-> RefsOf(k, i, s[i].fn)]
        /\ W[i] = [fn |-> s[i].fn, value |-> a, refs |-> RefsOf(k, i, s[i].fn)]
    BY <1>3, <1>6, <2>2, <2>3
  <2>7. W[i] = [V[i] EXCEPT !.value = a]
    BY <2>6
  <2>8. W = [V EXCEPT ![i].value = a]
    BY <1>3, <2>4, <2>5, <2>7, ValueWritten
  <2>. QED
    BY <2>1, <2>8
<1>15. Views(v)' = [Views(v) EXCEPT ![k][i].value = a]
  BY <1>0, <1>2, <1>13, <1>14, OneSeen DEF Views
<1>. QED
  BY <1>0, <1>3, <1>4, <1>5, <1>12, <1>15

(***************************************************************************)
(* A call or a return, on the stack and as the program sees it.            *)
(***************************************************************************)

\* s with an activation of f called from its innermost one.
Called(s, f) ==
    [d \in 1 .. Len(s) + 1 |->
       IF d = Len(s) + 1 THEN [fn |-> f, at |-> Transfer]
       ELSE IF d = Len(s) THEN [fn |-> s[d].fn, at |-> f] ELSE s[d]]

\* s without its innermost activation, which was called.
Returned(s) ==
    [d \in 1 .. Len(s) - 1 |->
       IF d = Len(s) - 1 THEN [fn |-> s[d].fn, at |-> Transfer] ELSE s[d]]

\* A call leaves a stack, one deeper, whose caller is at the call.
LEMMA CalledIs ==
  ASSUME NEW s, Stacked(s), NEW f \in Functions
  PROVE  /\ Stacked(Called(s, f)) /\ Len(Called(s, f)) = Len(s) + 1
         /\ \A d \in 1 .. Len(s) : Called(s, f)[d].fn = s[d].fn
         /\ \A d \in 1 .. Len(s) - 1 : Called(s, f)[d].at = s[d].at
         /\ Called(s, f)[Len(s)].at = f
         /\ Called(s, f)[Len(s) + 1].fn = f
         /\ Called(s, f)[Len(s) + 1].at = Transfer
<1>0. PICK n, t : n = Len(s) /\ t = Called(s, f)
  OBVIOUS
<1>1. /\ s \in Seq(Spot) /\ n \in Nat /\ n >= 1 /\ DOMAIN s = 1 .. n
      /\ s[1].fn = Body /\ s[n].at = Transfer /\ \A d \in 1 .. n - 1 : s[d].at = s[d + 1].fn
  BY <1>0 DEF Stacked
<1>2. \A d \in 1 .. n : s[d] \in Spot
  BY <1>0, <1>1
<1>3. \A d \in 1 .. n : s[d].fn \in Functions /\ s[d].at \in Sites
  BY <1>2 DEF Spot
<1>4. /\ t = [d \in 1 .. n + 1 |-> t[d]]
      /\ t[n + 1] = [fn |-> f, at |-> Transfer]
      /\ t[n] = [fn |-> s[n].fn, at |-> f]
      /\ \A d \in 1 .. n - 1 : t[d] = s[d]
  <2>1. n \in 1 .. n + 1 /\ n + 1 \in 1 .. n + 1 /\ n # n + 1
    BY <1>1
  <2>2. \A d \in 1 .. n - 1 : d \in 1 .. n + 1 /\ d # n /\ d # n + 1
    BY <1>1
  <2>. QED
    BY <1>0, <2>1, <2>2 DEF Called
<1>5. \A d \in 1 .. n + 1 : d = n + 1 \/ d = n \/ d \in 1 .. n - 1
  BY <1>1
<1>6. \A d \in 1 .. n + 1 : t[d] \in Spot
  <2>1. t[n + 1] \in Spot
    BY <1>4 DEF Spot, Sites
  <2>2. t[n] \in Spot
    BY <1>1, <1>3, <1>4 DEF Spot, Sites
  <2>3. \A d \in 1 .. n - 1 : d \in 1 .. n
    BY <1>1
  <2>. QED
    BY <1>2, <1>4, <1>5, <2>1, <2>2, <2>3
<1>7. t \in Seq(Spot) /\ Len(t) = n + 1
  <2>1. n + 1 \in Nat
    BY <1>1
  <2>2. t \in [1 .. n + 1 -> Spot]
    BY <1>4, <1>6
  <2>. QED
    BY <2>1, <2>2
<1>8. /\ \A d \in 1 .. n : t[d].fn = s[d].fn
      /\ \A d \in 1 .. n - 1 : t[d].at = s[d].at
      /\ t[n].at = f /\ t[n + 1].fn = f /\ t[n + 1].at = Transfer
  <2>1. \A d \in 1 .. n : d = n \/ d \in 1 .. n - 1
    BY <1>1
  <2>2. t[n].fn = s[n].fn /\ t[n].at = f /\ t[n + 1].fn = f /\ t[n + 1].at = Transfer
    BY <1>4
  <2>3. \A d \in 1 .. n - 1 : t[d].fn = s[d].fn /\ t[d].at = s[d].at
    BY <1>4
  <2>. QED
    BY <2>1, <2>2, <2>3
<1>9. t # <<>> /\ t[1].fn = Body
  BY <1>1, <1>7, <1>8
<1>10. ASSUME NEW d \in 1 .. n PROVE t[d].at = t[d + 1].fn
  <2>1. CASE d = n
    BY <1>8, <2>1
  <2>2. CASE d # n
    <3>1. d \in 1 .. n - 1 /\ d + 1 \in 1 .. n
      BY <1>1, <2>2
    <3>. QED
      BY <1>1, <1>8, <3>1
  <2>. QED
    BY <2>1, <2>2
<1>11. Len(t) - 1 = n /\ t[Len(t)].at = Transfer
  BY <1>1, <1>7, <1>8
<1>12. Stacked(t)
  BY <1>7, <1>9, <1>10, <1>11 DEF Stacked
<1>. QED
  BY <1>0, <1>7, <1>8, <1>12

\* A return leaves a stack, one less deep, whose caller goes on.
LEMMA ReturnedIs ==
  ASSUME NEW s, Stacked(s), Len(s) > 1
  PROVE  /\ Stacked(Returned(s)) /\ Len(Returned(s)) = Len(s) - 1
         /\ \A d \in 1 .. Len(s) - 1 : Returned(s)[d].fn = s[d].fn
         /\ \A d \in 1 .. Len(s) - 2 : Returned(s)[d].at = s[d].at
         /\ Returned(s)[Len(s) - 1].at = Transfer
<1>0. PICK n, t : n = Len(s) - 1 /\ t = Returned(s)
  OBVIOUS
<1>1. /\ s \in Seq(Spot) /\ n \in Nat /\ n >= 1 /\ DOMAIN s = 1 .. n + 1 /\ Len(s) = n + 1
      /\ s[1].fn = Body /\ \A d \in 1 .. n : s[d].at = s[d + 1].fn
  BY <1>0 DEF Stacked
<1>2. \A d \in 1 .. n : s[d] \in Spot
  <2>1. \A d \in 1 .. n : d \in 1 .. n + 1
    BY <1>1
  <2>. QED
    BY <1>1, <2>1
<1>3. \A d \in 1 .. n : s[d].fn \in Functions /\ s[d].at \in Sites
  BY <1>2 DEF Spot
<1>4. /\ t = [d \in 1 .. n |-> t[d]]
      /\ t[n] = [fn |-> s[n].fn, at |-> Transfer]
      /\ \A d \in 1 .. n - 1 : t[d] = s[d]
  <2>1. n \in 1 .. n
    BY <1>1
  <2>2. \A d \in 1 .. n - 1 : d \in 1 .. n /\ d # n
    BY <1>1
  <2>. QED
    BY <1>0, <2>1, <2>2 DEF Returned
<1>5. \A d \in 1 .. n : d = n \/ d \in 1 .. n - 1
  BY <1>1
<1>6. \A d \in 1 .. n : t[d] \in Spot
  <2>1. t[n] \in Spot
    BY <1>1, <1>3, <1>4 DEF Spot, Sites
  <2>. QED
    BY <1>2, <1>4, <1>5, <2>1
<1>7. t \in Seq(Spot) /\ Len(t) = n
  <2>1. t \in [1 .. n -> Spot]
    BY <1>4, <1>6
  <2>. QED
    BY <1>1, <2>1
<1>8. /\ \A d \in 1 .. n : t[d].fn = s[d].fn
      /\ \A d \in 1 .. n - 1 : t[d].at = s[d].at
      /\ t[n].at = Transfer
  <2>1. t[n].fn = s[n].fn /\ t[n].at = Transfer
    BY <1>4
  <2>2. \A d \in 1 .. n - 1 : t[d].fn = s[d].fn /\ t[d].at = s[d].at
    BY <1>4
  <2>. QED
    BY <1>5, <2>1, <2>2
<1>9. t # <<>> /\ t[1].fn = Body
  BY <1>1, <1>7, <1>8
<1>10. ASSUME NEW d \in 1 .. n - 1 PROVE t[d].at = t[d + 1].fn
  <2>1. d + 1 \in 1 .. n /\ d \in 1 .. n
    BY <1>1
  <2>. QED
    BY <1>1, <1>8, <2>1
<1>11. Stacked(t)
  BY <1>7, <1>8, <1>9, <1>10 DEF Stacked
<1>12. Len(s) - 2 = n - 1
  BY <1>0, <1>1
<1>. QED
  BY <1>0, <1>7, <1>8, <1>11, <1>12

\* V is a sequence of n things.
Upto(V, n) == V = [d \in 1 .. n |-> V[d]]

\* One more.
LEMMA Longer ==
  ASSUME NEW n \in Nat, NEW m, m = n + 1, NEW V, NEW W, NEW x,
         Upto(V, n), Upto(W, m), \A d \in 1 .. n : W[d] = V[d], W[m] = x
  PROVE  W = Append(V, x) /\ Len(V) = n
<1>1. PICK S : S = {V[d] : d \in 1 .. n} \cup {x}
  OBVIOUS
<1>2. V \in [1 .. n -> S] /\ x \in S
  BY <1>1 DEF Upto
<1>3. V \in Seq(S) /\ Len(V) = n
  BY <1>2
<1>4. \A d \in 1 .. n + 1 : d = n + 1 \/ d \in 1 .. n
  OBVIOUS
<1>5. W \in [1 .. n + 1 -> S]
  <2>1. \A d \in 1 .. n + 1 : W[d] \in S
    BY <1>2, <1>4
  <2>. QED
    BY <2>1 DEF Upto
<1>6. W \in Seq(S) /\ Len(W) = n + 1
  BY <1>5
<1>7. PICK A : A = Append(V, x)
  OBVIOUS
<1>8. A \in Seq(S) /\ Len(A) = n + 1 /\ A[n + 1] = x /\ \A d \in 1 .. n : A[d] = V[d]
  BY <1>2, <1>3, <1>7
<1>9. \A d \in 1 .. Len(W) : W[d] = A[d]
  BY <1>4, <1>6, <1>8
<1>10. W = A
  BY <1>6, <1>8, <1>9, SeqEqual
<1>. QED
  BY <1>3, <1>7, <1>10

\* And one fewer.
LEMMA Shorter ==
  ASSUME NEW m \in Nat, NEW n, n = m + 1, NEW V, NEW W,
         Upto(V, n), Upto(W, m), \A d \in 1 .. m : W[d] = V[d]
  PROVE  W = SubSeq(V, 1, m) /\ Len(V) = n
<1>1. PICK S : S = {V[d] : d \in 1 .. n}
  OBVIOUS
<1>2. V \in [1 .. n -> S]
  BY <1>1 DEF Upto
<1>3. n \in Nat /\ \A d \in 1 .. m : d \in 1 .. n
  OBVIOUS
<1>4. V \in Seq(S) /\ Len(V) = n
  BY <1>2, <1>3
<1>5. W \in [1 .. m -> S]
  <2>1. \A d \in 1 .. m : W[d] \in S
    BY <1>1, <1>3
  <2>. QED
    BY <2>1 DEF Upto
<1>6. W \in Seq(S) /\ Len(W) = m
  BY <1>3, <1>5
<1>7. PICK A : A = SubSeq(V, 1, m)
  OBVIOUS
<1>8. A \in Seq(S) /\ Len(A) = m /\ \A d \in 1 .. m : A[d] = V[d]
  BY <1>4, <1>3, <1>7
<1>9. W = A
  BY <1>6, <1>8, SeqEqual
<1>. QED
  BY <1>4, <1>7, <1>9

\* An activation as it is entered.
LEMMA EnteredIs ==
  ASSUME NEW c \in Coroutines, NEW d \in 1 .. MaxDepth, NEW f \in Functions, NEW e, e = Enter(c, d, f)
  PROVE  /\ e \in Activations
         /\ e.fn = f /\ e.copy = Initial /\ e.home = <<c, d>> /\ e.refs = RefsOf(c, d, f) /\ e.site = Transfer
<1>1. RefsOf(c, d, f) \in {RefsOf(k, i, g) : k \in Coroutines, i \in 1 .. MaxDepth, g \in Functions}
  OBVIOUS
<1>2. <<c, d>> \in Coroutines \X (1 .. MaxDepth)
  OBVIOUS
<1>3. Transfer \in Sites /\ Initial \in Values
  BY SpillStacksAssumption DEF Sites
<1>. HIDE DEF Transfer
<1>. QED
  BY <1>1, <1>2, <1>3 DEF Enter, Activations

\* A function is entered.
LEMMA CallKeeps ==
  ASSUME NEW v, SpillInv(v), NEW f \in Functions, Call(f)
  PROVE  \E w : /\ SpillInv(w)'
                /\ Views(w)' = [Views(v) EXCEPT ![current] = Append(@, Stacks!Entered(current, Len(phys) + 1, f))]
<1>0. PICK s, n, top, e, t, w :
        /\ s = v[current] /\ n = Len(phys) /\ top = [phys[n] EXCEPT !.site = f]
        /\ e = Enter(current, n + 1, f) /\ t = Called(s, f) /\ w = [v EXCEPT ![current] = t]
  OBVIOUS
<1>1. /\ phase = "normal"
      /\ n < MaxDepth
      /\ phys' = Append([phys EXCEPT ![n] = top], e)
      /\ cells' = [cells EXCEPT ![current] = Append(@, Initial)]
      /\ unread' = FALSE
      /\ UNCHANGED <<frames, spine, phase, current, next, started, over>>
  BY <1>0 DEF Call
<1>2. /\ Live(current) /\ frames[current] = <<>>
      /\ phys \in Seq(Activations) /\ n \in Nat /\ n >= 1 /\ n \in 1 .. n /\ DOMAIN phys = 1 .. n
      /\ Stacked(s) /\ Len(s) = n /\ Len(cells[current]) = n /\ n <= MaxDepth
      /\ cells[current] \in Seq(Values)
      /\ \A d \in 1 .. n : phys[d].fn = s[d].fn /\ phys[d].site = s[d].at
      /\ \A d \in 1 .. n : phys[d].home = <<current, d>> /\ phys[d].refs = RefsOf(current, d, phys[d].fn)
  BY <1>0, <1>1, Running
<1>3. v \in [Coroutines -> Seq(Spot)] /\ Typed /\ Phased /\ current \in Coroutines
  BY DEF SpillInv, Typed
<1>4. top \in Activations /\ top.fn = phys[n].fn /\ top.site = f
      /\ top.home = phys[n].home /\ top.refs = phys[n].refs
  <2>1. phys[n] \in Activations /\ f \in Sites
    BY <1>2 DEF Sites
  <2>. QED
    BY <1>0, <2>1 DEF Activations
<1>5. /\ e \in Activations /\ e.fn = f /\ e.copy = Initial /\ e.home = <<current, n + 1>>
      /\ e.refs = RefsOf(current, n + 1, f) /\ e.site = Transfer
  <2>1. n + 1 \in 1 .. MaxDepth
    BY <1>1, <1>2, SpillStacksAssumption
  <2>. QED
    BY <1>0, <1>3, <2>1, EnteredIs
<1>6. /\ phys' \in Seq(Activations) /\ Len(phys') = n + 1 /\ DOMAIN phys' = 1 .. n + 1
      /\ phys'[n + 1] = e /\ phys'[n] = top
      /\ \A d \in 1 .. n - 1 : phys'[d] = phys[d]
  <2>1. PICK q : q = [phys EXCEPT ![n] = top]
    OBVIOUS
  <2>2. q \in Seq(Activations) /\ Len(q) = n /\ q[n] = top /\ \A d \in 1 .. n - 1 : q[d] = phys[d]
    <3>1. q \in Seq(Activations) /\ Len(q) = n /\ \A d \in 1 .. n : q[d] = IF d = n THEN top ELSE phys[d]
      BY <1>0, <1>2, <1>4, <2>1, ExceptSeq
    <3>2. \A d \in 1 .. n - 1 : d \in 1 .. n /\ d # n
      BY <1>2
    <3>. QED
      BY <1>2, <3>1, <3>2
  <2>3. phys' = Append(q, e)
    BY <1>1, <2>1
  <2>4. \A d \in 1 .. n - 1 : d \in 1 .. n
    BY <1>2
  <2>. QED
    BY <1>2, <1>5, <2>2, <2>3, <2>4
<1>7. /\ Stacked(t) /\ Len(t) = n + 1 /\ t \in Seq(Spot)
      /\ \A d \in 1 .. n : t[d].fn = s[d].fn
      /\ \A d \in 1 .. n - 1 : t[d].at = s[d].at
      /\ t[n].at = f /\ t[n + 1].fn = f /\ t[n + 1].at = Transfer
  <2>1. /\ Stacked(t) /\ Len(t) = n + 1
        /\ \A d \in 1 .. n : t[d].fn = s[d].fn
        /\ \A d \in 1 .. n - 1 : t[d].at = s[d].at
        /\ t[n].at = f /\ t[n + 1].fn = f /\ t[n + 1].at = Transfer
    BY <1>0, <1>2, CalledIs
  <2>2. t \in Seq(Spot)
    BY <2>1 DEF Stacked
  <2>. QED
    BY <2>1, <2>2
<1>8. \A d \in 1 .. n + 1 : d = n + 1 \/ d = n \/ (d \in 1 .. n - 1 /\ d \in 1 .. n)
  BY <1>2
<1>9. \A d \in 1 .. n + 1 : phys'[d].fn = t[d].fn /\ phys'[d].site = t[d].at
  <2>1. phys'[n + 1].fn = t[n + 1].fn /\ phys'[n + 1].site = t[n + 1].at
    BY <1>5, <1>6, <1>7
  <2>2. phys'[n].fn = t[n].fn /\ phys'[n].site = t[n].at
    BY <1>2, <1>4, <1>6, <1>7
  <2>3. \A d \in 1 .. n - 1 : phys'[d].fn = t[d].fn /\ phys'[d].site = t[d].at
    BY <1>2, <1>6, <1>7, <1>8
  <2>. QED
    BY <1>8, <2>1, <2>2, <2>3
<1>10. \A d \in 1 .. n + 1 : phys'[d].home = <<current, d>> /\ phys'[d].refs = RefsOf(current, d, phys'[d].fn)
  <2>1. phys'[n + 1].home = <<current, n + 1>> /\ phys'[n + 1].refs = RefsOf(current, n + 1, phys'[n + 1].fn)
    BY <1>5, <1>6
  <2>2. phys'[n].home = <<current, n>> /\ phys'[n].refs = RefsOf(current, n, phys'[n].fn)
    BY <1>2, <1>4, <1>6
  <2>3. \A d \in 1 .. n - 1 : phys'[d].home = <<current, d>> /\ phys'[d].refs = RefsOf(current, d, phys'[d].fn)
    BY <1>2, <1>6, <1>8
  <2>. QED
    BY <1>8, <2>1, <2>2, <2>3
<1>11. /\ cells'[current] = Append(cells[current], Initial)
       /\ cells'[current] \in Seq(Values) /\ Len(cells'[current]) = n + 1
       /\ cells'[current][n + 1] = Initial
       /\ \A d \in 1 .. n : cells'[current][d] = cells[current][d]
       /\ \A c \in Coroutines : c # current => cells'[c] = cells[c]
       /\ cells' \in [Coroutines -> Seq(Values)]
  <2>1. cells \in [Coroutines -> Seq(Values)] /\ Initial \in Values
    BY <1>3, SpillStacksAssumption DEF Typed
  <2>2. cells'[current] = Append(cells[current], Initial) /\ \A c \in Coroutines : c # current => cells'[c] = cells[c]
    BY <1>1, <1>3, <2>1
  <2>3. /\ cells'[current] \in Seq(Values) /\ Len(cells'[current]) = n + 1
        /\ cells'[current][n + 1] = Initial
        /\ \A d \in 1 .. n : cells'[current][d] = cells[current][d]
    BY <1>2, <2>1, <2>2
  <2>4. cells' \in [Coroutines -> Seq(Values)]
    BY <1>1, <2>1, <2>2, <2>3
  <2>. QED
    BY <2>2, <2>3, <2>4
<1>12. Typed'
  BY <1>1, <1>3, <1>6, <1>11 DEF Typed
<1>13. Phased'
  <2>1. phys' # <<>>
    BY <1>2, <1>6
  <2>. QED
    BY <1>1, <1>3, <2>1 DEF Phased
<1>14. Homed'
  BY <1>1, <1>6, <1>10 DEF Homed
<1>15. LocalsAreFresh'
  <2>1. Top' = e
    BY <1>6 DEF Top
  <2>2. cells'[e.home[1]][e.home[2]] = Initial
    BY <1>5, <1>11
  <2>. QED
    BY <1>5, <2>1, <2>2 DEF LocalsAreFresh, Cell
<1>16. w \in [Coroutines -> Seq(Spot)] /\ w[current] = t /\ \A c \in Coroutines : c # current => w[c] = v[c]
  BY <1>0, <1>3, <1>7
<1>17. ASSUME NEW c \in Coroutines, c # current
       PROVE  Counted(c)' /\ (Live(c)' => Stand(c, w[c])') /\ View(c, w[c])' = View(c, v[c])
  <2>1. Counted(c)' /\ (Live(c)' => Stand(c, v[c])') /\ View(c, v[c])' = View(c, v[c])
    BY <1>1, <1>11, <1>17, Elsewhere
  <2>. QED
    BY <1>16, <1>17, <2>1
<1>18. Counted(current)'
  <2>1. Counted(current) /\ n + 1 <= MaxDepth
    BY <1>1, <1>2, <1>3, SpillStacksAssumption DEF SpillInv
  <2>. QED
    BY <1>1, <1>2, <1>11, <2>1 DEF Counted, Live, Held
<1>19. Stand(current, t)'
  <2>1. Runs(t)'
    BY <1>1, <1>2, <1>3, <1>6, <1>7, <1>9, <1>11 DEF Runs
  <2>. QED
    BY <2>1, RunningStands
<1>20. SpillInv(w)'
  BY <1>1, <1>12, <1>13, <1>14, <1>15, <1>16, <1>17, <1>18, <1>19 DEF SpillInv, Live
<1>21. View(current, t)' = Append(View(current, s), Stacks!Entered(current, n + 1, f))
  <2>1. PICK V, W, x : V = View(current, s) /\ W = View(current, t)' /\ x = Stacks!Entered(current, n + 1, f)
    OBVIOUS
  <2>2. V = [d \in 1 .. n |-> [fn |-> s[d].fn, value |-> cells[current][d], refs |-> RefsOf(current, d, s[d].fn)]]
    BY <1>2, <2>1 DEF View, Live
  <2>3. W = [d \in 1 .. n + 1 |-> [fn |-> t[d].fn, value |-> cells'[current][d], refs |-> RefsOf(current, d, t[d].fn)]]
    BY <1>1, <1>2, <1>7, <2>1 DEF View, Live
  <2>4. Upto(V, n) /\ Upto(W, n + 1)
    BY <2>2, <2>3 DEF Upto
  <2>5. \A d \in 1 .. n : W[d] = V[d]
    <3>1. \A d \in 1 .. n : d \in 1 .. n + 1
      BY <1>2
    <3>. QED
      BY <1>7, <1>11, <2>2, <2>3, <3>1
  <2>6. W[n + 1] = x
    <3>1. n + 1 \in 1 .. n + 1
      BY <1>2
    <3>2. W[n + 1] = [fn |-> f, value |-> Initial, refs |-> RefsOf(current, n + 1, f)]
      BY <1>7, <1>11, <2>3, <3>1
    <3>. QED
      BY <2>1, <3>2 DEF Stacks!Entered, Stacks!RefsOf, RefsOf
  <2>7. PICK m : m = n + 1
    OBVIOUS
  <2>8. n \in Nat /\ Upto(W, m) /\ W[m] = x
    BY <1>2, <2>4, <2>6, <2>7
  <2>9. W = Append(V, x)
    BY <2>4, <2>5, <2>7, <2>8, Longer
  <2>. QED
    BY <2>1, <2>9
<1>22. Views(w)' = [Views(v) EXCEPT ![current] = Append(View(current, s), Stacks!Entered(current, n + 1, f))]
  <2>1. View(current, w[current])' = View(current, t)'
    BY <1>1, <1>16
  <2>2. PICK k, x : k = current /\ x = Append(View(current, s), Stacks!Entered(current, n + 1, f))
    OBVIOUS
  <2>3. \A c \in Coroutines \ {k} : View(c, w[c])' = View(c, v[c])
    BY <1>17, <2>2
  <2>4. View(k, w[k])' = x
    BY <1>1, <1>21, <2>1, <2>2
  <2>5. k \in Coroutines
    BY <1>3, <2>2
  <2>6. Views(w)' = [Views(v) EXCEPT ![k] = x]
    BY <1>3, <1>16, <2>3, <2>4, <2>5, OneSeen DEF Views
  <2>. QED
    BY <2>2, <2>6
<1>. QED
  BY <1>0, <1>3, <1>20, <1>22 DEF Views

\* A sequence without its last element.
LEMMA FrontIs ==
  ASSUME NEW S, NEW q \in Seq(S), NEW m \in Nat, Len(q) = m + 1
  PROVE  /\ Front(q) = SubSeq(q, 1, m) /\ Front(q) \in Seq(S) /\ Len(Front(q)) = m
         /\ \A d \in 1 .. m : Front(q)[d] = q[d] /\ d \in 1 .. m + 1
         /\ Last(q) = q[m + 1] /\ Last(q) \in S
<1>1. Front(q) = SubSeq(q, 1, m) /\ Last(q) = q[m + 1]
  BY DEF Front, Last
<1>2. /\ SubSeq(q, 1, m) \in Seq(S) /\ Len(SubSeq(q, 1, m)) = m
      /\ \A d \in 1 .. m : SubSeq(q, 1, m)[d] = q[d]
  OBVIOUS
<1>3. \A d \in 1 .. m : d \in 1 .. m + 1
  OBVIOUS
<1>4. q[m + 1] \in S
  OBVIOUS
<1>. QED
  BY <1>1, <1>2, <1>3, <1>4

\* A function returns, and its caller goes on.
LEMMA ReturnKeeps ==
  ASSUME NEW v, SpillInv(v), Return
  PROVE  \E w : /\ SpillInv(w)'
                /\ Views(w)' = [Views(v) EXCEPT ![current] = SubSeq(@, 1, Len(phys) - 1)]
<1>0. PICK s, n, m, back, t, w :
        /\ s = v[current] /\ n = Len(phys) /\ m = n - 1
        /\ back = [Reload(phys[m]) EXCEPT !.site = Transfer]
        /\ t = Returned(s) /\ w = [v EXCEPT ![current] = t]
  OBVIOUS
<1>1. /\ phase = "normal"
      /\ n > 1
      /\ phys' = [SubSeq(phys, 1, m) EXCEPT ![m] = [Reload(@) EXCEPT !.site = Transfer]]
      /\ cells' = [cells EXCEPT ![current] = Front(@)]
      /\ unread' = FALSE
      /\ UNCHANGED <<frames, spine, phase, current, next, started, over>>
  BY <1>0 DEF Return
<1>2. /\ Live(current) /\ frames[current] = <<>>
      /\ phys \in Seq(Activations) /\ DOMAIN phys = 1 .. n
      /\ Stacked(s) /\ Len(s) = n /\ Len(cells[current]) = n /\ n <= MaxDepth
      /\ cells[current] \in Seq(Values)
      /\ \A d \in 1 .. n : phys[d].fn = s[d].fn /\ phys[d].site = s[d].at
      /\ \A d \in 1 .. n : phys[d].home = <<current, d>> /\ phys[d].refs = RefsOf(current, d, phys[d].fn)
      /\ n \in Nat
  BY <1>0, <1>1, Running
<1>3. v \in [Coroutines -> Seq(Spot)] /\ Typed /\ Phased /\ current \in Coroutines
  BY DEF SpillInv, Typed
<1>4. /\ m \in Nat /\ m >= 1 /\ m \in 1 .. m /\ m \in 1 .. n /\ n = m + 1 /\ m + 1 = n /\ m < MaxDepth
      /\ \A d \in 1 .. m : d \in 1 .. n
      /\ \A d \in 1 .. m : d = m \/ d \in 1 .. m - 1
      /\ \A d \in 1 .. m - 1 : d \in 1 .. m /\ d \in 1 .. n /\ d # m
  <2>1. m \in Nat /\ m >= 1 /\ n = m + 1 /\ m < MaxDepth
    BY <1>0, <1>1, <1>2, SpillStacksAssumption
  <2>2. \A d \in 1 .. m : d \in 1 .. n
    BY <2>1
  <2>3. \A d \in 1 .. m - 1 : d \in 1 .. m /\ d # m
    BY <2>1
  <2>4. \A d \in 1 .. m : d = m \/ d \in 1 .. m - 1
    BY <2>1
  <2>. QED
    BY <2>1, <2>2, <2>3, <2>4
<1>5. /\ cells'[current] \in Seq(Values) /\ Len(cells'[current]) = m
      /\ \A d \in 1 .. m : cells'[current][d] = cells[current][d]
      /\ \A c \in Coroutines : c # current => cells'[c] = cells[c]
      /\ cells' \in [Coroutines -> Seq(Values)]
  <2>1. cells \in [Coroutines -> Seq(Values)]
    BY <1>3 DEF Typed
  <2>2. cells'[current] = Front(cells[current]) /\ \A c \in Coroutines : c # current => cells'[c] = cells[c]
    BY <1>1, <1>3, <2>1
  <2>3. Len(cells[current]) = m + 1
    BY <1>2, <1>4
  <2>4. /\ cells'[current] \in Seq(Values) /\ Len(cells'[current]) = m
        /\ \A d \in 1 .. m : cells'[current][d] = cells[current][d]
    <3>1. PICK q : q = cells[current]
      OBVIOUS
    <3>2. q \in Seq(Values) /\ Len(q) = m + 1 /\ m \in Nat
      BY <1>2, <1>4, <2>3, <3>1
    <3>3. Front(q) \in Seq(Values) /\ Len(Front(q)) = m /\ \A d \in 1 .. m : Front(q)[d] = q[d]
      BY <3>2, FrontIs
    <3>. QED
      BY <2>2, <3>1, <3>3
  <2>5. cells' \in [Coroutines -> Seq(Values)]
    BY <1>1, <2>1, <2>2, <2>4
  <2>. QED
    BY <2>2, <2>4, <2>5
<1>6. /\ back \in Activations /\ back.fn = phys[m].fn /\ back.site = Transfer
      /\ back.home = phys[m].home /\ back.refs = phys[m].refs
      /\ back.copy = cells[current][m]
  <2>1. phys[m] \in Activations /\ Transfer \in Sites /\ phys[m].home = <<current, m>>
    BY <1>2, <1>4 DEF Sites
  <2>2. cells[current][m] \in Values
    BY <1>2, <1>4
  <2>3. PICK a, at : a = [phys[m] EXCEPT !.copy = cells[current][m]] /\ at = Transfer
    OBVIOUS
  <2>4. back = [a EXCEPT !.site = at]
    BY <1>0, <2>1, <2>3 DEF Reload, Cell
  <2>5. /\ a \in Activations /\ a.fn = phys[m].fn /\ a.copy = cells[current][m]
        /\ a.home = phys[m].home /\ a.refs = phys[m].refs
    BY <2>1, <2>2, <2>3 DEF Activations
  <2>6. /\ back \in Activations /\ back.fn = a.fn /\ back.copy = a.copy /\ back.site = at
        /\ back.home = a.home /\ back.refs = a.refs
    <3>1. a \in Activations /\ at \in Sites
      BY <2>1, <2>3, <2>5
    <3>. QED
      BY <2>4, <3>1 DEF Activations
  <2>. QED
    BY <2>3, <2>5, <2>6
<1>7. /\ phys' \in Seq(Activations) /\ Len(phys') = m /\ DOMAIN phys' = 1 .. m
      /\ phys'[m] = back /\ \A d \in 1 .. m - 1 : phys'[d] = phys[d]
  <2>1. PICK q : q = SubSeq(phys, 1, m)
    OBVIOUS
  <2>2. q \in Seq(Activations) /\ Len(q) = m /\ \A d \in 1 .. m : q[d] = phys[d]
    BY <1>2, <1>4, <2>1
  <2>3. phys' = [q EXCEPT ![m] = back]
    BY <1>0, <1>1, <1>4, <2>1, <2>2
  <2>4. phys' \in Seq(Activations) /\ Len(phys') = m /\ \A d \in 1 .. m : phys'[d] = IF d = m THEN back ELSE q[d]
    BY <1>4, <1>6, <2>2, <2>3, ExceptSeq
  <2>. QED
    BY <1>4, <2>2, <2>4
<1>8. /\ Stacked(t) /\ Len(t) = m /\ t \in Seq(Spot)
      /\ \A d \in 1 .. m : t[d].fn = s[d].fn
      /\ \A d \in 1 .. m - 1 : t[d].at = s[d].at
      /\ t[m].at = Transfer
  <2>1. Len(s) > 1 /\ Len(s) - 1 = m /\ Len(s) - 2 = m - 1
    BY <1>1, <1>2, <1>4
  <2>2. /\ Stacked(t) /\ Len(t) = m
        /\ \A d \in 1 .. m : t[d].fn = s[d].fn
        /\ \A d \in 1 .. m - 1 : t[d].at = s[d].at
        /\ t[m].at = Transfer
    BY <1>0, <1>2, <2>1, ReturnedIs
  <2>3. t \in Seq(Spot)
    BY <2>2 DEF Stacked
  <2>. QED
    BY <2>2, <2>3
<1>9. \A d \in 1 .. m : phys'[d].fn = t[d].fn /\ phys'[d].site = t[d].at
  <2>1. phys'[m].fn = t[m].fn /\ phys'[m].site = t[m].at
    BY <1>2, <1>4, <1>6, <1>7, <1>8
  <2>2. \A d \in 1 .. m - 1 : phys'[d].fn = t[d].fn /\ phys'[d].site = t[d].at
    BY <1>2, <1>4, <1>7, <1>8
  <2>. QED
    BY <1>4, <2>1, <2>2
<1>10. \A d \in 1 .. m : phys'[d].home = <<current, d>> /\ phys'[d].refs = RefsOf(current, d, phys'[d].fn)
  <2>1. phys'[m].home = <<current, m>> /\ phys'[m].refs = RefsOf(current, m, phys'[m].fn)
    BY <1>2, <1>4, <1>6, <1>7
  <2>2. \A d \in 1 .. m - 1 : phys'[d].home = <<current, d>> /\ phys'[d].refs = RefsOf(current, d, phys'[d].fn)
    BY <1>2, <1>4, <1>7
  <2>. QED
    BY <1>4, <2>1, <2>2
<1>12. Typed'
  BY <1>1, <1>3, <1>5, <1>7 DEF Typed
<1>13. Phased'
  <2>1. phys' # <<>>
    BY <1>4, <1>7
  <2>. QED
    BY <1>1, <1>3, <2>1 DEF Phased
<1>14. Homed'
  BY <1>1, <1>7, <1>10 DEF Homed
<1>15. LocalsAreFresh'
  <2>1. Top' = back
    BY <1>7 DEF Top
  <2>2. back.home = <<current, m>>
    BY <1>2, <1>4, <1>6
  <2>3. cells'[back.home[1]][back.home[2]] = back.copy
    BY <1>4, <1>5, <1>6, <2>2
  <2>. QED
    BY <2>1, <2>3 DEF LocalsAreFresh, Cell
<1>16. w \in [Coroutines -> Seq(Spot)] /\ w[current] = t /\ \A c \in Coroutines : c # current => w[c] = v[c]
  BY <1>0, <1>3, <1>8
<1>17. ASSUME NEW c \in Coroutines, c # current
       PROVE  Counted(c)' /\ (Live(c)' => Stand(c, w[c])') /\ View(c, w[c])' = View(c, v[c])
  <2>1. Counted(c)' /\ (Live(c)' => Stand(c, v[c])') /\ View(c, v[c])' = View(c, v[c])
    BY <1>1, <1>5, <1>17, Elsewhere
  <2>. QED
    BY <1>16, <1>17, <2>1
<1>18. Counted(current)'
  <2>1. Counted(current) /\ m <= MaxDepth
    BY <1>3, <1>4, SpillStacksAssumption DEF SpillInv
  <2>. QED
    BY <1>1, <1>2, <1>5, <2>1 DEF Counted, Live, Held
<1>19. Stand(current, t)'
  <2>1. Runs(t)'
    BY <1>1, <1>2, <1>3, <1>5, <1>7, <1>8, <1>9 DEF Runs
  <2>. QED
    BY <2>1, RunningStands
<1>20. SpillInv(w)'
  BY <1>1, <1>12, <1>13, <1>14, <1>15, <1>16, <1>17, <1>18, <1>19 DEF SpillInv, Live
<1>21. View(current, t)' = SubSeq(View(current, s), 1, m)
  <2>1. PICK V, W : V = View(current, s) /\ W = View(current, t)'
    OBVIOUS
  <2>2. V = [d \in 1 .. n |-> [fn |-> s[d].fn, value |-> cells[current][d], refs |-> RefsOf(current, d, s[d].fn)]]
    BY <1>2, <2>1 DEF View, Live
  <2>3. W = [d \in 1 .. m |-> [fn |-> t[d].fn, value |-> cells'[current][d], refs |-> RefsOf(current, d, t[d].fn)]]
    BY <1>1, <1>2, <1>8, <2>1 DEF View, Live
  <2>4. Upto(V, n) /\ Upto(W, m)
    BY <2>2, <2>3 DEF Upto
  <2>5. \A d \in 1 .. m : W[d] = V[d]
    BY <1>4, <1>5, <1>8, <2>2, <2>3
  <2>6. W = SubSeq(V, 1, m)
    BY <1>4, <2>4, <2>5, Shorter
  <2>. QED
    BY <2>1, <2>6
<1>22. Views(w)' = [Views(v) EXCEPT ![current] = SubSeq(View(current, s), 1, m)]
  <2>1. View(current, w[current])' = View(current, t)'
    BY <1>1, <1>16
  <2>2. PICK k, x : k = current /\ x = SubSeq(View(current, s), 1, m)
    OBVIOUS
  <2>3. \A c \in Coroutines \ {k} : View(c, w[c])' = View(c, v[c])
    BY <1>17, <2>2
  <2>4. View(k, w[k])' = x
    BY <1>1, <1>21, <2>1, <2>2
  <2>5. k \in Coroutines
    BY <1>3, <2>2
  <2>6. Views(w)' = [Views(v) EXCEPT ![k] = x]
    BY <1>3, <1>16, <2>3, <2>4, <2>5, OneSeen DEF Views
  <2>. QED
    BY <2>2, <2>6
<1>. QED
  BY <1>0, <1>3, <1>20, <1>22 DEF Views

(***************************************************************************)
(* A transfer is asked for, or a body ends.                                *)
(***************************************************************************)

\* A transfer is asked for, and nothing has happened yet.
LEMMA SwitchKeeps ==
  ASSUME NEW v, SpillInv(v), NEW to \in Coroutines, SwitchTo(to)
  PROVE  SpillInv(v)' /\ Views(v)' = Views(v)
<1>1. /\ phase = "normal" /\ to # current /\ ~over[to]
      /\ next' = to /\ phase' = "unwinding" /\ unread' = FALSE
      /\ UNCHANGED <<phys, frames, spine, cells, current, started, over>>
  BY DEF SwitchTo, CoroSwitch
<1>2. v \in [Coroutines -> Seq(Spot)] /\ Typed /\ Phased /\ Homed
  BY DEF SpillInv
<1>3. Typed'
  BY <1>1, <1>2 DEF Typed, Phases
<1>4. Phased' /\ Homed' /\ LocalsAreFresh'
  BY <1>1, <1>2 DEF Phased, Homed, LocalsAreFresh
<1>5. ASSUME NEW c \in Coroutines
      PROVE  Counted(c)' /\ (Live(c)' => Stand(c, v[c])') /\ View(c, v[c])' = View(c, v[c])
  <2>1. Counted(c) /\ (Live(c) => Stand(c, v[c]))
    BY DEF SpillInv
  <2>. QED
    BY <1>1, <2>1 DEF Counted, Held, Live, Stand, Spilled, View
<1>6. SpillInv(v)'
  BY <1>2, <1>3, <1>4, <1>5 DEF SpillInv
<1>. QED
  BY <1>5, <1>6 DEF Views

\* A body ends, and control goes elsewhere.
LEMMA EndKeeps ==
  ASSUME NEW v, SpillInv(v), NEW to \in Coroutines, End(to)
  PROVE  SpillInv(v)' /\ Views(v)' = [Views(v) EXCEPT ![current] = <<>>]
<1>0. PICK k : k = current
  OBVIOUS
<1>1. /\ phase = "normal" /\ to # current /\ ~over[to] /\ current # Main /\ Len(phys) = 1
      /\ next' = to /\ phase' = "unwinding" /\ unread' = FALSE
      /\ over' = [over EXCEPT ![current] = TRUE]
      /\ cells' = [cells EXCEPT ![current] = <<>>]
      /\ UNCHANGED <<phys, frames, spine, current, started>>
  BY DEF End, CoroSwitch
<1>2. v \in [Coroutines -> Seq(Spot)] /\ Typed /\ Phased /\ Homed /\ k \in Coroutines
  BY <1>0 DEF SpillInv, Typed
<1>3. /\ over \in [Coroutines -> BOOLEAN] /\ cells \in [Coroutines -> Seq(Values)]
      /\ started[k] /\ frames[k] = <<>>
  BY <1>0, <1>1, <1>2 DEF Typed, Phased
<1>4. over'[k] = TRUE /\ cells'[k] = <<>> /\ \A c \in Coroutines : c # k => over'[c] = over[c] /\ cells'[c] = cells[c]
  BY <1>0, <1>1, <1>2, <1>3
<1>5. Typed'
  <2>1. over' \in [Coroutines -> BOOLEAN]
    BY <1>1, <1>3
  <2>2. <<>> \in Seq(Values)
    OBVIOUS
  <2>3. cells' \in [Coroutines -> Seq(Values)]
    BY <1>1, <1>3, <2>2
  <2>. QED
    BY <1>1, <1>2, <2>1, <2>3 DEF Typed, Phases
<1>6. Phased' /\ Homed' /\ LocalsAreFresh'
  BY <1>0, <1>1, <1>2, <1>4 DEF Phased, Homed, LocalsAreFresh
<1>7. ASSUME NEW c \in Coroutines, c # k
      PROVE  Counted(c)' /\ (Live(c)' => Stand(c, v[c])') /\ View(c, v[c])' = View(c, v[c])
  BY <1>0, <1>1, <1>4, <1>7, Elsewhere
<1>8. Counted(k)' /\ ~Live(k)'
  <2>1. Counted(k)
    BY <1>2 DEF SpillInv
  <2>2. Len(frames'[k]) = 0 /\ frames'[k] = <<>> /\ Held(k)' = 1 /\ started'[k] /\ over'[k] /\ spine'[k] = spine[k]
    BY <1>0, <1>1, <1>3, <1>4 DEF Held
  <2>3. Len(cells'[k]) = 0 /\ 0 <= MaxDepth
    BY <1>4, SpillStacksAssumption
  <2>. QED
    BY <1>1, <1>3, <1>4, <2>1, <2>2, <2>3 DEF Counted, Live
<1>9. SpillInv(v)'
  BY <1>2, <1>5, <1>6, <1>7, <1>8 DEF SpillInv
<1>10. View(k, v[k])' = <<>>
  BY <1>4 DEF View
<1>11. Views(v)' = [Views(v) EXCEPT ![k] = <<>>]
  <2>1. \A d \in Coroutines \ {k} : View(d, v[d])' = View(d, v[d])
    BY <1>7
  <2>. QED
    BY <1>2, <1>10, <2>1, OneSeen DEF Views
<1>. QED
  BY <1>0, <1>9, <1>11

\* `main` returns.
LEMMA FinishKeeps ==
  ASSUME NEW v, SpillInv(v), Finish
  PROVE  SpillInv(v)' /\ Views(v)' = [Views(v) EXCEPT ![Main] = <<>>]
<1>1. /\ phase = "normal" /\ current = Main /\ phys' = <<>> /\ phase' = "done" /\ unread' = FALSE
      /\ over' = [over EXCEPT ![Main] = TRUE]
      /\ cells' = [cells EXCEPT ![Main] = <<>>]
      /\ UNCHANGED <<frames, spine, current, next, started>>
  BY DEF Finish
<1>2. v \in [Coroutines -> Seq(Spot)] /\ Typed /\ Phased /\ Main \in Coroutines
  BY SpillStacksAssumption DEF SpillInv
<1>3. /\ over \in [Coroutines -> BOOLEAN] /\ cells \in [Coroutines -> Seq(Values)]
      /\ started[Main] /\ frames[Main] = <<>>
  BY <1>1, <1>2 DEF Typed, Phased
<1>4. over'[Main] = TRUE /\ cells'[Main] = <<>> /\ \A c \in Coroutines : c # Main => over'[c] = over[c] /\ cells'[c] = cells[c]
  BY <1>1, <1>2, <1>3
<1>5. Typed'
  <2>1. over' \in [Coroutines -> BOOLEAN]
    BY <1>1, <1>3
  <2>2. <<>> \in Seq(Values) /\ <<>> \in Seq(Activations)
    OBVIOUS
  <2>3. cells' \in [Coroutines -> Seq(Values)]
    BY <1>1, <1>3, <2>2
  <2>. QED
    BY <1>1, <1>2, <2>1, <2>2, <2>3 DEF Typed, Phases
<1>6. Phased' /\ Homed' /\ LocalsAreFresh'
  <2>1. DOMAIN phys' = {}
    BY <1>1
  <2>. QED
    BY <1>1, <1>2, <1>4, <2>1 DEF Phased, Homed, LocalsAreFresh
<1>7. ASSUME NEW c \in Coroutines, c # Main
      PROVE  Counted(c)' /\ (Live(c)' => Stand(c, v[c])') /\ View(c, v[c])' = View(c, v[c])
  BY <1>1, <1>4, <1>7, Elsewhere
<1>8. Counted(Main)' /\ ~Live(Main)'
  <2>1. Counted(Main)
    BY <1>2 DEF SpillInv
  <2>2. Len(frames'[Main]) = 0 /\ frames'[Main] = <<>> /\ Held(Main)' = 0 /\ started'[Main] /\ over'[Main] /\ spine'[Main] = spine[Main]
    BY <1>1, <1>3, <1>4 DEF Held
  <2>3. Len(cells'[Main]) = 0 /\ 0 <= MaxDepth
    BY <1>4, SpillStacksAssumption
  <2>. QED
    BY <1>1, <1>3, <1>4, <2>1, <2>2, <2>3 DEF Counted, Live
<1>9. SpillInv(v)'
  BY <1>2, <1>5, <1>6, <1>7, <1>8 DEF SpillInv
<1>10. View(Main, v[Main])' = <<>>
  BY <1>4 DEF View
<1>11. Views(v)' = [Views(v) EXCEPT ![Main] = <<>>]
  <2>1. \A d \in Coroutines \ {Main} : View(d, v[d])' = View(d, v[d])
    BY <1>7
  <2>. QED
    BY <1>2, <1>10, <2>1, OneSeen DEF Views
<1>. QED
  BY <1>9, <1>11

(***************************************************************************)
(* Unwinding and rewinding: one frame, and its words, at a time.           *)
(***************************************************************************)

\* The words of a frame are among those of the frames up to any later one.
LEMMA WordsWithin ==
  ASSUME NEW fs, NEW n \in Nat, \A i \in 1 .. n : fs[i].refCount \in Nat,
         NEW i \in 1 .. n, NEW k \in 1 .. fs[i].refCount
  PROVE  Words(fs, i - 1) \in Nat /\ Words(fs, i - 1) + k \in 1 .. Words(fs, n)
<1>1. PICK j : j = i - 1
  OBVIOUS
<1>2. j \in Nat /\ j \in 0 .. n /\ i \in 0 .. n /\ j + 1 = i
  BY <1>1
<1>3. /\ Words(fs, j) \in Nat /\ Words(fs, i) \in Nat /\ Words(fs, n) \in Nat
      /\ Words(fs, i) <= Words(fs, n)
  <2>1. n \in 0 .. n
    OBVIOUS
  <2>. QED
    BY <1>2, <2>1, WordsGrow
<1>4. Words(fs, i) = Words(fs, j) + fs[i].refCount
  BY <1>2, WordsAre
<1>5. fs[i].refCount \in Nat
  OBVIOUS
<1>. QED
  BY <1>1, <1>3, <1>4, <1>5

\* A frame is pushed, and its words.
Pushes(fs, sp, n, fr, rf, gs, tp) ==
    /\ gs \in Seq(Frames) /\ Len(gs) = n + 1 /\ gs[n + 1] = fr /\ \A i \in 1 .. n : gs[i] = fs[i]
    /\ tp \in Seq(Word) /\ Len(tp) = Words(gs, n + 1)
    /\ \A i \in 1 .. n : \A k \in 1 .. fs[i].refCount :
         tp[Words(gs, i - 1) + k] = sp[Words(fs, i - 1) + k]
    /\ \A k \in 1 .. fr.refCount : tp[Words(gs, (n + 1) - 1) + k] = rf[k]

\* frame_push keeps the two buffers of one length, and every word where it was.
LEMMA Pushed ==
  ASSUME NEW fs \in Seq(Frames), NEW sp \in Seq(Word), NEW fr \in Frames, NEW rf \in Seq(Word),
         NEW n \in Nat, n = Len(fs), \A i \in 1 .. n : fs[i].refCount \in Nat,
         Len(sp) = Words(fs, n), Len(rf) = fr.refCount,
         NEW gs, gs = Append(fs, fr), NEW tp, tp = sp \o rf
  PROVE  Pushes(fs, sp, n, fr, rf, gs, tp)
<1>1. gs \in Seq(Frames) /\ Len(gs) = n + 1 /\ gs[n + 1] = fr /\ \A i \in 1 .. n : gs[i] = fs[i]
  OBVIOUS
<1>2. \A k \in 0 .. n : Words(gs, k) = Words(fs, k)
  <2>1. \A i \in 1 .. n : gs[i] = fs[i]
    BY <1>1
  <2>. QED
    BY <2>1, WordsSame
<1>3. /\ tp \in Seq(Word) /\ Len(tp) = Len(sp) + Len(rf)
      /\ \A j \in 1 .. Len(sp) : tp[j] = sp[j]
      /\ \A j \in 1 .. Len(rf) : tp[Len(sp) + j] = rf[j]
  <2>1. /\ tp \in Seq(Word) /\ Len(tp) = Len(sp) + Len(rf)
        /\ \A j \in 1 .. Len(sp) + Len(rf) : tp[j] = IF j <= Len(sp) THEN sp[j] ELSE rf[j - Len(sp)]
    BY ConcatProperties
  <2>2. PICK l, r : l = Len(sp) /\ r = Len(rf)
    OBVIOUS
  <2>3. l \in Nat /\ r \in Nat
    BY <2>2
  <2>4. \A j \in 1 .. l : tp[j] = sp[j]
    <3>1. \A j \in 1 .. l : j \in 1 .. l + r /\ j <= l
      BY <2>3
    <3>. QED
      BY <2>1, <2>2, <3>1
  <2>5. \A j \in 1 .. r : tp[l + j] = rf[j]
    <3>1. \A j \in 1 .. r : l + j \in 1 .. l + r /\ ~(l + j <= l) /\ (l + j) - l = j
      BY <2>3
    <3>. QED
      BY <2>1, <2>2, <3>1
  <2>. QED
    BY <2>1, <2>2, <2>4, <2>5
<1>4. Words(gs, n) = Words(fs, n) /\ Words(gs, n + 1) = Words(gs, n) + fr.refCount
  <2>1. n \in 0 .. n
    OBVIOUS
  <2>2. Words(gs, n + 1) = Words(gs, n) + gs[n + 1].refCount
    BY WordsAre
  <2>. QED
    BY <1>1, <1>2, <2>1, <2>2
<1>5. Len(tp) = Words(gs, n + 1)
  BY <1>3, <1>4
<1>6. ASSUME NEW i \in 1 .. n, NEW k \in 1 .. fs[i].refCount
      PROVE  tp[Words(gs, i - 1) + k] = sp[Words(fs, i - 1) + k]
  <2>1. i - 1 \in 0 .. n
    OBVIOUS
  <2>2. Words(gs, i - 1) = Words(fs, i - 1)
    BY <1>2, <2>1
  <2>3. Words(fs, i - 1) + k \in 1 .. Words(fs, n)
    BY WordsWithin
  <2>. QED
    BY <1>3, <2>2, <2>3
<1>7. \A k \in 1 .. fr.refCount : tp[Words(gs, (n + 1) - 1) + k] = rf[k]
  <2>1. (n + 1) - 1 = n
    OBVIOUS
  <2>. QED
    BY <1>3, <1>4, <2>1
<1>. QED
  BY <1>1, <1>3, <1>5, <1>6, <1>7 DEF Pushes

\* A sequence cut in two.
Cut(q, S, b, r) ==
    /\ SubSeq(q, 1, b) \in Seq(S)
    /\ Len(SubSeq(q, 1, b)) = b
    /\ \A j \in 1 .. b : SubSeq(q, 1, b)[j] = q[j]
    /\ SubSeq(q, b + 1, b + r) \in Seq(S)
    /\ Len(SubSeq(q, b + 1, b + r)) = r
    /\ \A k \in 1 .. r : SubSeq(q, b + 1, b + r)[k] = q[b + k]

\* Both parts are sequences of what the whole one is.
LEMMA CutInTwo ==
  ASSUME NEW S, NEW q, q \in Seq(S), NEW b \in Nat, NEW r \in Nat, Len(q) = b + r
  PROVE  Cut(q, S, b, r)
<1>1. SubSeq(q, 1, b) \in Seq(S) /\ Len(SubSeq(q, 1, b)) = b /\ \A j \in 1 .. b : SubSeq(q, 1, b)[j] = q[j]
  OBVIOUS
<1>2. PICK m, n : m = b + 1 /\ n = b + r
  OBVIOUS
<1>3. m \in Int /\ n \in Int /\ n - m + 1 = r /\ \A k \in 1 .. r : m + k - 1 = b + k
  BY <1>2
<1>4. \A i \in m .. n : q[i] \in S
  <2>1. \A i \in m .. n : i \in 1 .. Len(q)
    BY <1>2
  <2>. QED
    BY <2>1
<1>5. (IF m <= n THEN n - m + 1 ELSE 0) = r
  BY <1>2
<1>6. /\ SubSeq(q, m, n) \in Seq(S) /\ Len(SubSeq(q, m, n)) = IF m <= n THEN n - m + 1 ELSE 0
      /\ \A i \in 1 .. n - m + 1 : SubSeq(q, m, n)[i] = q[m + i - 1]
  BY <1>3, <1>4, SubSeqProperties
<1>7. SubSeq(q, m, n) \in Seq(S) /\ Len(SubSeq(q, m, n)) = r /\ \A k \in 1 .. r : SubSeq(q, m, n)[k] = q[b + k]
  BY <1>3, <1>5, <1>6
<1>. QED
  BY <1>1, <1>2, <1>7 DEF Cut

\* The last frame is popped, and its words.
Pops(fs, sp, n, gs, tp, rf) ==
    /\ gs \in Seq(Frames) /\ Len(gs) = n /\ \A i \in 1 .. n : gs[i] = fs[i] /\ i \in 1 .. n + 1
    /\ tp \in Seq(Word) /\ Len(tp) = Words(gs, n)
    /\ \A i \in 1 .. n : \A k \in 1 .. fs[i].refCount :
         tp[Words(gs, i - 1) + k] = sp[Words(fs, i - 1) + k]
    /\ rf = [k \in 1 .. fs[n + 1].refCount |-> sp[Words(fs, (n + 1) - 1) + k]]

\* frame_pop keeps the two buffers of one length, and gives the words of its frame.
LEMMA Popped ==
  ASSUME NEW fs \in Seq(Frames), NEW sp \in Seq(Word),
         NEW n \in Nat, Len(fs) = n + 1, \A i \in 1 .. n + 1 : fs[i].refCount \in Nat,
         Len(sp) = Words(fs, n + 1),
         NEW base, base = Len(sp) - fs[n + 1].refCount,
         NEW gs, gs = Front(fs), NEW tp, tp = SubSeq(sp, 1, base),
         NEW rf, rf = SubSeq(sp, base + 1, base + fs[n + 1].refCount)
  PROVE  Pops(fs, sp, n, gs, tp, rf)
<1>1. gs \in Seq(Frames) /\ Len(gs) = n /\ \A i \in 1 .. n : gs[i] = fs[i] /\ i \in 1 .. n + 1
  BY FrontIs
<1>2. \A k \in 0 .. n : Words(gs, k) = Words(fs, k)
  <2>1. \A i \in 1 .. n : gs[i] = fs[i]
    BY <1>1
  <2>. QED
    BY <2>1, WordsSame
<1>3. /\ n \in 0 .. n /\ n + 1 \in 1 .. n + 1 /\ n \in 0 .. n + 1 /\ (n + 1) - 1 = n
      /\ n + 1 \in Nat
  OBVIOUS
<1>4. PICK r : r = fs[n + 1].refCount
  OBVIOUS
<1>5. r \in Nat
  BY <1>3, <1>4
<1>6. Words(fs, n) \in Nat /\ Words(fs, n + 1) = Words(fs, n) + r
  <2>1. Words(fs, n) \in Nat
    BY <1>3, WordsGrow
  <2>. QED
    BY <1>4, <2>1, WordsAre
<1>7. base = Words(fs, n) /\ base \in Nat /\ Len(sp) = base + r
  BY <1>4, <1>5, <1>6
<1>A. Len(sp) = base + r /\ base \in Nat
  BY <1>7
<1>B. Cut(sp, Word, base, r)
  BY <1>5, <1>A, CutInTwo
<1>8. tp \in Seq(Word) /\ Len(tp) = base /\ \A j \in 1 .. base : tp[j] = sp[j]
  BY <1>B DEF Cut
<1>9. Len(tp) = Words(gs, n)
  BY <1>2, <1>3, <1>7, <1>8
<1>10. ASSUME NEW i \in 1 .. n, NEW k \in 1 .. fs[i].refCount
       PROVE  tp[Words(gs, i - 1) + k] = sp[Words(fs, i - 1) + k]
  <2>1. i - 1 \in 0 .. n
    OBVIOUS
  <2>2. Words(gs, i - 1) = Words(fs, i - 1)
    BY <1>2, <2>1
  <2>3. \A d \in 1 .. n : fs[d].refCount \in Nat
    BY <1>1
  <2>4. Words(fs, i - 1) + k \in 1 .. Words(fs, n)
    BY <2>3, WordsWithin
  <2>. QED
    BY <1>7, <1>8, <2>2, <2>4
<1>11. rf = [k \in 1 .. r |-> sp[base + k]]
  <2>1. rf = SubSeq(sp, base + 1, base + r)
    BY <1>4
  <2>2. rf \in Seq(Word) /\ Len(rf) = r /\ \A k \in 1 .. r : rf[k] = sp[base + k]
    BY <1>B, <2>1 DEF Cut
  <2>3. rf \in [1 .. r -> Word]
    BY <2>2, LenProperties
  <2>4. rf = [k \in 1 .. r |-> rf[k]]
    BY <2>3
  <2>. QED
    BY <2>2, <2>4
<1>12. rf = [k \in 1 .. fs[n + 1].refCount |-> sp[Words(fs, (n + 1) - 1) + k]]
  BY <1>3, <1>4, <1>7, <1>11
<1>. QED
  BY <1>1, <1>8, <1>9, <1>10, <1>12 DEF Pops

\* The innermost activation goes to the buffers.
LEMMA SpillKeeps ==
  ASSUME NEW v, SpillInv(v), Spill
  PROVE  SpillInv(v)' /\ Views(v)' = Views(v)
<1>0. PICK k, n, m, fs, n0, sp, top, fr, gs, tp :
        /\ k = current /\ n = Len(phys) /\ m = n - 1 /\ top = phys[n]
        /\ fs = frames[k] /\ n0 = Len(fs) /\ sp = spine[k]
        /\ fr = [fn |-> top.fn, resume |-> top.site, copy |-> top.copy, home |-> top.home, refCount |-> Len(top.refs)]
        /\ gs = Append(fs, fr) /\ tp = sp \o top.refs
  OBVIOUS
<1>1. /\ phase = "unwinding" /\ phys # <<>> /\ phys' = Front(phys)
      /\ frames' = [frames EXCEPT ![k] = gs] /\ spine' = [spine EXCEPT ![k] = tp]
      /\ UNCHANGED <<cells, phase, current, next, started, over, unread>>
  BY <1>0 DEF Spill, Top, ResumePoint
<1>2. /\ v \in [Coroutines -> Seq(Spot)] /\ Typed /\ Phased /\ Homed /\ k \in Coroutines
      /\ Counted(k) /\ started[k]
  BY <1>0 DEF SpillInv, Typed, Phased
<1>3. /\ frames \in [Coroutines -> Seq(Frames)] /\ spine \in [Coroutines -> Seq(Word)]
      /\ fs \in Seq(Frames) /\ sp \in Seq(Word) /\ n0 \in Nat /\ DOMAIN fs = 1 .. n0
  BY <1>0, <1>2 DEF Typed
<1>4. /\ phys \in Seq(Activations) /\ n \in Nat /\ n >= 1 /\ m \in Nat /\ n = m + 1 /\ n \in 1 .. n
      /\ DOMAIN phys = 1 .. n
  <2>1. phys \in Seq(Activations)
    BY <1>2 DEF Typed
  <2>2. n \in Nat /\ n >= 1
    BY <1>0, <1>1, <2>1
  <2>. QED
    BY <1>0, <2>1, <2>2
<1>5. /\ top \in Activations /\ top.home = <<k, n>> /\ top.refs = RefsOf(k, n, top.fn)
  BY <1>0, <1>2, <1>4 DEF Homed
<1>6. /\ top.fn \in Functions /\ top.site \in Sites /\ top.copy \in Values
      /\ top.home \in Coroutines \X (1 .. MaxDepth) /\ RefSlots[top.fn] \in Nat
  BY <1>5, SpillStacksAssumption DEF Activations
<1>7. /\ top.refs \in Seq(Word) /\ Len(top.refs) = RefSlots[top.fn]
      /\ \A i \in 1 .. RefSlots[top.fn] : top.refs[i] = <<k, n, i>>
  <2>1. \A i \in 1 .. RefSlots[top.fn] : top.refs[i] = <<k, n, i>> /\ <<k, n, i>> \in Word
    BY <1>2, <1>4, <1>5, <1>6 DEF RefsOf, Word
  <2>2. top.refs \in [1 .. RefSlots[top.fn] -> Word]
    <3>1. top.refs = [i \in 1 .. RefSlots[top.fn] |-> top.refs[i]]
      BY <1>5 DEF RefsOf
    <3>. QED
      BY <2>1, <3>1
  <2>3. PICK r, rf : r = RefSlots[top.fn] /\ rf = top.refs
    OBVIOUS
  <2>4. r \in Nat /\ rf \in [1 .. r -> Word]
    BY <1>6, <2>2, <2>3
  <2>5. rf \in Seq(Word) /\ Len(rf) = r
    BY <2>4
  <2>. QED
    BY <2>1, <2>3, <2>5
<1>8. /\ fr \in Frames /\ fr.fn = top.fn /\ fr.resume = top.site /\ fr.home = <<k, n>>
      /\ fr.refCount = RefSlots[top.fn]
  <2>1. RefSlots[top.fn] \in {RefSlots[fn] : fn \in Functions}
    BY <1>6
  <2>. QED
    BY <1>0, <1>5, <1>6, <1>7, <2>1 DEF Frames
<1>9. \A i \in 1 .. n0 : fs[i].refCount = RefSlots[fs[i].fn] /\ fs[i].refCount \in Nat
  <2>1. \A i \in 1 .. n0 : fs[i] \in Frames
    BY <1>0, <1>3
  <2>2. \A i \in 1 .. n0 : fs[i].fn \in Functions
    BY <2>1 DEF Frames
  <2>3. \A i \in 1 .. n0 : fs[i].refCount = RefSlots[fs[i].fn]
    BY <1>0, <1>2, <1>3 DEF Counted
  <2>. QED
    BY <2>2, <2>3, SpillStacksAssumption
<1>10. Len(sp) = Words(fs, n0)
  BY <1>0, <1>2 DEF Counted
<1>11. /\ gs \in Seq(Frames) /\ Len(gs) = n0 + 1 /\ gs[n0 + 1] = fr /\ \A i \in 1 .. n0 : gs[i] = fs[i]
       /\ tp \in Seq(Word) /\ Len(tp) = Words(gs, n0 + 1)
       /\ \A i \in 1 .. n0 : \A j \in 1 .. fs[i].refCount :
            tp[Words(gs, i - 1) + j] = sp[Words(fs, i - 1) + j]
       /\ \A j \in 1 .. fr.refCount : tp[Words(gs, (n0 + 1) - 1) + j] = top.refs[j]
  <2>1. PICK rf : rf = top.refs
    OBVIOUS
  <2>2. rf \in Seq(Word) /\ Len(rf) = fr.refCount /\ tp = sp \o rf
    BY <1>0, <1>7, <1>8, <2>1
  <2>3. \A i \in 1 .. n0 : fs[i].refCount \in Nat
    BY <1>9
  <2>. QED
    <3>1. gs = Append(fs, fr) /\ n0 = Len(fs)
      BY <1>0
    <3>2. Pushes(fs, sp, n0, fr, rf, gs, tp)
      BY <1>3, <1>8, <1>10, <2>2, <2>3, <3>1, Pushed
    <3>. QED
      BY <2>1, <3>2 DEF Pushes
<1>12. /\ frames'[k] = gs /\ spine'[k] = tp
       /\ \A c \in Coroutines : c # k => frames'[c] = frames[c] /\ spine'[c] = spine[c]
       /\ frames' \in [Coroutines -> Seq(Frames)] /\ spine' \in [Coroutines -> Seq(Word)]
  BY <1>1, <1>2, <1>3, <1>11
<1>13. /\ phys' \in Seq(Activations) /\ Len(phys') = m /\ DOMAIN phys' = 1 .. m
       /\ \A d \in 1 .. m : phys'[d] = phys[d] /\ d \in 1 .. n
  <2>1. PICK q : q = phys
    OBVIOUS
  <2>2. q \in Seq(Activations) /\ Len(q) = m + 1 /\ m \in Nat
    BY <1>0, <1>4, <2>1
  <2>3. Front(q) \in Seq(Activations) /\ Len(Front(q)) = m /\ \A d \in 1 .. m : Front(q)[d] = q[d] /\ d \in 1 .. m + 1
    BY <2>2, FrontIs
  <2>. QED
    BY <1>1, <1>4, <2>1, <2>3
<1>14. Typed'
  BY <1>1, <1>2, <1>12, <1>13 DEF Typed
<1>15. Phased' /\ Homed' /\ LocalsAreFresh'
  <2>1. Phased' /\ LocalsAreFresh'
    BY <1>1, <1>2 DEF Phased, LocalsAreFresh
  <2>2. Homed'
    BY <1>0, <1>1, <1>2, <1>4, <1>13 DEF Homed
  <2>. QED
    BY <2>1, <2>2
<1>16. ASSUME NEW c \in Coroutines, c # k
       PROVE  Counted(c)' /\ (Live(c)' => Stand(c, v[c])')
  BY <1>0, <1>1, <1>12, <1>16, Elsewhere
<1>17. \A i \in 1 .. n0 + 1 : i \in 1 .. n0 \/ i = n0 + 1
  BY <1>3
<1>18. Counted(k)'
  <2>1. Len(spine'[k]) = Words(frames'[k], Len(frames'[k]))
    BY <1>11, <1>12
  <2>2. DOMAIN frames'[k] = 1 .. n0 + 1
    BY <1>11, <1>12
  <2>3. \A i \in 1 .. n0 + 1 : gs[i].refCount = RefSlots[gs[i].fn]
    BY <1>8, <1>9, <1>11, <1>17
  <2>4. over[k] => Len(frames'[k]) + Held(k)' <= 1
    <3>1. over[k] => n0 + n <= 1
      BY <1>0, <1>2 DEF Counted, Held
    <3>2. Held(k)' = m /\ Len(frames'[k]) = n0 + 1
      BY <1>0, <1>1, <1>11, <1>12, <1>13 DEF Held
    <3>. QED
      BY <1>3, <1>4, <3>1, <3>2
  <2>. QED
    BY <1>1, <1>2, <1>12, <2>1, <2>2, <2>3, <2>4 DEF Counted, Live
<1>19. ASSUME Live(k) PROVE Stand(k, v[k])'
  <2>1. PICK s : s = v[k]
    OBVIOUS
  <2>2. Stand(k, s)
    BY <1>2, <1>19, <2>1 DEF SpillInv
  <2>3. /\ Stacked(s) /\ Len(s) = Len(cells[k]) /\ Len(s) = n + n0 /\ Len(s) \in Nat
        /\ \A d \in 1 .. n : phys[d].fn = s[d].fn /\ phys[d].site = s[d].at
    BY <1>0, <1>3, <1>4, <2>2 DEF Stand, Held
  <2>4. Len(s) = m + (n0 + 1) /\ (Len(s) + 1) - (n0 + 1) = n
    BY <1>3, <1>4, <2>3
  <2>5. Held(k)' = m /\ Len(frames'[k]) = n0 + 1 /\ DOMAIN frames'[k] = 1 .. n0 + 1
    <3>1. k = current' /\ Len(phys') = m
      BY <1>0, <1>1, <1>13
    <3>2. Held(k)' = m
      BY <3>1 DEF Held
    <3>3. gs \in Seq(Frames) /\ Len(gs) = n0 + 1 /\ frames'[k] = gs
      BY <1>11, <1>12
    <3>. QED
      BY <3>2, <3>3
  <2>6. \A d \in 1 .. m : phys'[d].fn = s[d].fn /\ phys'[d].site = s[d].at
    BY <1>13, <2>3
  <2>7. \A i \in 1 .. n0 :
          /\ fs[i].fn = s[Len(s) + 1 - i].fn
          /\ fs[i].resume = s[Len(s) + 1 - i].at
          /\ fs[i].home = <<k, Len(s) + 1 - i>>
          /\ \A j \in 1 .. RefSlots[fs[i].fn] : sp[Words(fs, i - 1) + j] = <<k, Len(s) + 1 - i, j>>
    <3>1. Spilled(k, s)
      BY <2>2 DEF Stand
    <3>2. fs = frames[k] /\ sp = spine[k] /\ DOMAIN frames[k] = 1 .. n0
      BY <1>0, <1>3
    <3>. QED
      BY <3>1, <3>2 DEF Spilled
  <2>8. ASSUME NEW i \in 1 .. n0 + 1
        PROVE  /\ gs[i].fn = s[Len(s) + 1 - i].fn
               /\ gs[i].resume = s[Len(s) + 1 - i].at
               /\ gs[i].home = <<k, Len(s) + 1 - i>>
               /\ \A j \in 1 .. RefSlots[gs[i].fn] : tp[Words(gs, i - 1) + j] = <<k, Len(s) + 1 - i, j>>
    <3>1. CASE i \in 1 .. n0
      BY <1>9, <1>11, <2>7, <3>1
    <3>2. CASE i = n0 + 1
      <4>1. fr.fn = s[n].fn /\ fr.resume = s[n].at /\ fr.home = <<k, n>>
        BY <1>0, <1>4, <1>8, <2>3
      <4>2. \A j \in 1 .. RefSlots[fr.fn] : tp[Words(gs, (n0 + 1) - 1) + j] = <<k, n, j>>
        BY <1>7, <1>8, <1>11
      <4>. QED
        BY <1>11, <2>4, <3>2, <4>1, <4>2
    <3>. QED
      BY <1>17, <3>1, <3>2
  <2>9. Spilled(k, s)'
    BY <1>12, <2>5, <2>8 DEF Spilled
  <2>10. Len(s) = Len(cells'[k]) /\ Len(s) = Held(k)' + Len(frames'[k])
    BY <1>1, <2>3, <2>4, <2>5
  <2>. QED
    BY <1>13, <2>1, <2>3, <2>6, <2>9, <2>10 DEF Stand
<1>20. SpillInv(v)'
  <2>1. Live(k)' => Live(k)
    BY <1>1 DEF Live
  <2>. QED
    BY <1>2, <1>14, <1>15, <1>16, <1>18, <1>19, <2>1 DEF SpillInv
<1>21. Views(v)' = Views(v)
  BY <1>1 DEF Views, View
<1>. QED
  BY <1>20, <1>21

\* What there is to rewind.
RewindsFrom(k, s, n, fs, l, sp) ==
    /\ k \in Coroutines /\ Live(k) /\ Stacked(s)
    /\ n \in Nat /\ l \in Nat /\ n + 1 \in Nat /\ n + 1 <= MaxDepth /\ Len(fs) = l + 1
    /\ fs \in Seq(Frames) /\ sp \in Seq(Word) /\ phys \in Seq(Activations) /\ DOMAIN phys = 1 .. n
    /\ Len(s) = (n + 1) + l /\ Len(cells[k]) = (n + 1) + l /\ cells[k] \in Seq(Values)
    /\ \A d \in 1 .. n : phys[d].fn = s[d].fn /\ phys[d].site = s[d].at
    /\ \A d \in 1 .. n : phys[d].home = <<k, d>> /\ phys[d].refs = RefsOf(k, d, phys[d].fn)
    /\ \A i \in 1 .. l + 1 : fs[i].refCount = RefSlots[fs[i].fn] /\ fs[i].refCount \in Nat
    /\ Len(sp) = Words(fs, l + 1)
    /\ \A i \in 1 .. l + 1 :
         /\ fs[i].fn = s[Len(s) + 1 - i].fn
         /\ fs[i].resume = s[Len(s) + 1 - i].at
         /\ fs[i].home = <<k, Len(s) + 1 - i>>
         /\ \A j \in 1 .. RefSlots[fs[i].fn] : sp[Words(fs, i - 1) + j] = <<k, Len(s) + 1 - i, j>>
    /\ (Len(s) + 1) - (l + 1) = n + 1

\* A rewind finds its place on the stack of the current coroutine.
LEMMA Rewinding ==
  ASSUME NEW v, SpillInv(v), phase = "rewinding", NEW s, s = v[current],
         NEW n, n = Len(phys), NEW fs, fs = frames[current], NEW l, l = Len(fs) - 1,
         NEW sp, sp = spine[current]
  PROVE  RewindsFrom(current, s, n, fs, l, sp)
<1>1. /\ v \in [Coroutines -> Seq(Spot)] /\ Typed /\ Phased /\ Homed /\ current \in Coroutines
      /\ Counted(current) /\ started[current] /\ ~over[current] /\ fs # <<>>
  BY DEF SpillInv, Typed, Phased
<1>2. Live(current) /\ Stand(current, s)
  BY <1>1 DEF SpillInv, Live
<1>3. /\ fs \in Seq(Frames) /\ sp \in Seq(Word) /\ phys \in Seq(Activations) /\ cells[current] \in Seq(Values)
  BY <1>1 DEF Typed
<1>4. n \in Nat /\ l \in Nat /\ Len(fs) = l + 1 /\ DOMAIN phys = 1 .. n /\ DOMAIN fs = 1 .. l + 1
  <2>1. Len(fs) \in Nat /\ Len(fs) # 0
    BY <1>1, <1>3
  <2>. QED
    BY <1>3, <2>1
<1>5. /\ Stacked(s) /\ Len(s) = n + (l + 1) /\ Len(s) = Len(cells[current])
      /\ \A d \in 1 .. n : phys[d].fn = s[d].fn /\ phys[d].site = s[d].at
  BY <1>2, <1>4 DEF Stand, Held
<1>6. n + 1 \in Nat /\ n + (l + 1) = (n + 1) + l /\ n + 1 <= (n + 1) + l /\ (((n + 1) + l) + 1) - (l + 1) = n + 1
  <2>1. PICK a, b : a = n /\ b = l
    OBVIOUS
  <2>2. a \in Nat /\ b \in Nat
    BY <1>4, <2>1
  <2>3. a + 1 \in Nat /\ a + (b + 1) = (a + 1) + b /\ a + 1 <= (a + 1) + b /\ (((a + 1) + b) + 1) - (b + 1) = a + 1
    BY <2>2
  <2>. QED
    BY <2>1, <2>3
<1>7. Len(cells[current]) <= MaxDepth
  BY <1>1 DEF Counted
<1>8. n + 1 <= MaxDepth
  BY <1>4, <1>5, <1>6, <1>7, SpillStacksAssumption
<1>9. \A i \in 1 .. l + 1 : fs[i].refCount = RefSlots[fs[i].fn] /\ fs[i].refCount \in Nat
  <2>1. \A i \in 1 .. l + 1 : fs[i] \in Frames
    BY <1>3, <1>4
  <2>2. \A i \in 1 .. l + 1 : fs[i].fn \in Functions
    BY <2>1 DEF Frames
  <2>3. \A i \in 1 .. l + 1 : fs[i].refCount = RefSlots[fs[i].fn]
    BY <1>1, <1>4 DEF Counted
  <2>. QED
    BY <2>2, <2>3, SpillStacksAssumption
<1>10. Len(sp) = Words(fs, l + 1)
  BY <1>1, <1>4 DEF Counted
<1>11. \A i \in 1 .. l + 1 :
         /\ fs[i].fn = s[Len(s) + 1 - i].fn
         /\ fs[i].resume = s[Len(s) + 1 - i].at
         /\ fs[i].home = <<current, Len(s) + 1 - i>>
         /\ \A j \in 1 .. RefSlots[fs[i].fn] : sp[Words(fs, i - 1) + j] = <<current, Len(s) + 1 - i, j>>
  BY <1>2, <1>4 DEF Stand, Spilled
<1>12. \A d \in 1 .. n :
         phys[d].home = <<current, d>> /\ phys[d].refs = RefsOf(current, d, phys[d].fn)
  BY <1>1, <1>4 DEF Homed
<1>. QED
  BY <1>1, <1>2, <1>3, <1>4, <1>5, <1>6, <1>8, <1>9, <1>10, <1>11, <1>12 DEF RewindsFrom

\* The next frame is of the function that is entered.
LEMMA EntersItsFrame ==
  ASSUME NEW v, SpillInv(v), phase = "rewinding"
  PROVE  frames[current] # <<>> /\ Last(frames[current]).fn = Entering
<1>0. PICK s, n, fs, l, sp :
        /\ s = v[current] /\ n = Len(phys) /\ fs = frames[current] /\ l = Len(fs) - 1 /\ sp = spine[current]
  OBVIOUS
<1>1. /\ Stacked(s) /\ n \in Nat /\ l \in Nat /\ Len(fs) = l + 1 /\ Len(s) = (n + 1) + l
      /\ phys \in Seq(Activations)
      /\ \A d \in 1 .. n : phys[d].fn = s[d].fn /\ phys[d].site = s[d].at
      /\ \A i \in 1 .. l + 1 : fs[i].fn = s[Len(s) + 1 - i].fn
      /\ (Len(s) + 1) - (l + 1) = n + 1
  <2>1. RewindsFrom(current, s, n, fs, l, sp)
    BY <1>0, Rewinding
  <2>. QED
    BY <2>1 DEF RewindsFrom
<1>2. fs # <<>> /\ Last(fs).fn = s[n + 1].fn
  <2>1. PICK i : i = l + 1
    OBVIOUS
  <2>2. i \in 1 .. l + 1 /\ i # 0 /\ (Len(s) + 1) - i = n + 1 /\ Len(fs) = i
    <3>1. l \in Nat /\ (Len(s) + 1) - i = n + 1 /\ Len(fs) = i
      BY <1>1, <2>1
    <3>2. i \in 1 .. l + 1 /\ i # 0
      BY <2>1, <3>1
    <3>. QED
      BY <3>1, <3>2
  <2>3. fs[i].fn = s[n + 1].fn
    <3>1. \A j \in 1 .. l + 1 : fs[j].fn = s[Len(s) + 1 - j].fn
      BY <1>1
    <3>2. fs[i].fn = s[(Len(s) + 1) - i].fn
      BY <2>2, <3>1
    <3>. QED
      BY <2>2, <3>2
  <2>4. fs # <<>> /\ Last(fs) = fs[i]
    BY <2>2 DEF Last
  <2>. QED
    BY <2>3, <2>4
<1>3. CASE phys = <<>>
  <2>1. n = 0
    BY <1>0, <1>3
  <2>. QED
    BY <1>0, <1>1, <1>2, <1>3, <2>1 DEF Entering, Stacked
<1>4. CASE phys # <<>>
  <2>1. n \in 1 .. n /\ n \in 1 .. Len(s) - 1
    <3>1. n # 0
      BY <1>0, <1>1, <1>4
    <3>. QED
      BY <1>1, <3>1
  <2>2. Top = phys[n]
    BY <1>0 DEF Top
  <2>3. s[n].at = s[n + 1].fn
    BY <1>1, <2>1 DEF Stacked
  <2>. QED
    BY <1>0, <1>1, <1>2, <1>4, <2>1, <2>2, <2>3 DEF Entering
<1>. QED
  BY <1>3, <1>4

\* A function entered takes its frame back.
LEMMA RewindKeeps ==
  ASSUME NEW v, SpillInv(v), Rewind
  PROVE  SpillInv(v)' /\ Views(v)' = Views(v)
<1>0. PICK k, s, n, fs, l, sp, fr, base, rf, back, gs, tp :
        /\ k = current /\ s = v[k] /\ n = Len(phys) /\ fs = frames[k] /\ l = Len(fs) - 1 /\ sp = spine[k]
        /\ fr = fs[l + 1] /\ base = Len(sp) - fr.refCount
        /\ rf = SubSeq(sp, base + 1, base + fr.refCount)
        /\ back = Reload([fn |-> fr.fn, copy |-> fr.copy, home |-> fr.home, refs |-> rf, site |-> fr.resume])
        /\ gs = Front(fs) /\ tp = SubSeq(sp, 1, base)
  OBVIOUS
<1>1. phase = "rewinding"
  BY DEF Rewind
<1>2. /\ k \in Coroutines /\ Live(k) /\ Stacked(s)
      /\ n \in Nat /\ l \in Nat /\ n + 1 \in Nat /\ n + 1 <= MaxDepth /\ Len(fs) = l + 1
      /\ fs \in Seq(Frames) /\ sp \in Seq(Word) /\ phys \in Seq(Activations) /\ DOMAIN phys = 1 .. n
      /\ Len(s) = (n + 1) + l /\ Len(cells[k]) = (n + 1) + l /\ cells[k] \in Seq(Values)
      /\ \A d \in 1 .. n : phys[d].fn = s[d].fn /\ phys[d].site = s[d].at
      /\ \A d \in 1 .. n : phys[d].home = <<k, d>> /\ phys[d].refs = RefsOf(k, d, phys[d].fn)
      /\ \A i \in 1 .. l + 1 : fs[i].refCount = RefSlots[fs[i].fn] /\ fs[i].refCount \in Nat
      /\ Len(sp) = Words(fs, l + 1)
      /\ \A i \in 1 .. l + 1 :
           /\ fs[i].fn = s[Len(s) + 1 - i].fn
           /\ fs[i].resume = s[Len(s) + 1 - i].at
           /\ fs[i].home = <<k, Len(s) + 1 - i>>
           /\ \A j \in 1 .. RefSlots[fs[i].fn] : sp[Words(fs, i - 1) + j] = <<k, Len(s) + 1 - i, j>>
      /\ (Len(s) + 1) - (l + 1) = n + 1
  <2>1. RewindsFrom(current, s, n, fs, l, sp)
    BY <1>0, <1>1, Rewinding
  <2>. QED
    BY <1>0, <2>1 DEF RewindsFrom
<1>3. v \in [Coroutines -> Seq(Spot)] /\ Typed /\ Phased /\ Homed /\ Counted(k)
  BY <1>2 DEF SpillInv
<1>4. /\ frames' = [frames EXCEPT ![k] = gs] /\ spine' = [spine EXCEPT ![k] = tp]
      /\ phys' = Append(phys, back)
      /\ phase' = IF gs = <<>> THEN "normal" ELSE "rewinding"
      /\ UNCHANGED <<cells, current, next, started, over, unread>>
  <2>1. Last(fs) = fr
    BY <1>0, <1>2 DEF Last
  <2>. QED
    BY <1>0, <2>1 DEF Rewind, SpineAfterPop, PhaseAfterPop
<1>5. Pops(fs, sp, l, gs, tp, rf)
  <2>1. base = Len(sp) - fs[l + 1].refCount /\ rf = SubSeq(sp, base + 1, base + fs[l + 1].refCount)
    BY <1>0
  <2>2. \A i \in 1 .. l + 1 : fs[i].refCount \in Nat
    BY <1>2
  <2>3. /\ fs \in Seq(Frames) /\ sp \in Seq(Word) /\ l \in Nat /\ Len(fs) = l + 1
        /\ Len(sp) = Words(fs, l + 1) /\ gs = Front(fs) /\ tp = SubSeq(sp, 1, base)
    BY <1>0, <1>2
  <2>. QED
    BY <2>1, <2>2, <2>3, Popped
<1>6. /\ gs \in Seq(Frames) /\ Len(gs) = l /\ \A i \in 1 .. l : gs[i] = fs[i] /\ i \in 1 .. l + 1
      /\ tp \in Seq(Word) /\ Len(tp) = Words(gs, l)
      /\ \A i \in 1 .. l : \A j \in 1 .. fs[i].refCount :
           tp[Words(gs, i - 1) + j] = sp[Words(fs, i - 1) + j]
      /\ rf = [j \in 1 .. fs[l + 1].refCount |-> sp[Words(fs, (l + 1) - 1) + j]]
  BY <1>5 DEF Pops
<1>7. l + 1 \in 1 .. l + 1 /\ n + 1 \in 1 .. MaxDepth /\ n + 1 \in 1 .. (n + 1) + l
  BY <1>2, SpillStacksAssumption
<1>8. /\ fr \in Frames /\ fr.fn = s[n + 1].fn /\ fr.resume = s[n + 1].at /\ fr.home = <<k, n + 1>>
      /\ fr.refCount = RefSlots[fr.fn]
      /\ \A j \in 1 .. RefSlots[fr.fn] : sp[Words(fs, (l + 1) - 1) + j] = <<k, n + 1, j>>
  <2>1. PICK i : i = l + 1
    OBVIOUS
  <2>2. i \in 1 .. l + 1 /\ (Len(s) + 1) - i = n + 1 /\ fr = fs[i]
    BY <1>0, <1>2, <1>7, <2>1
  <2>3. fr \in Frames
    BY <1>2, <1>7, <2>1, <2>2
  <2>4. /\ fs[i].fn = s[n + 1].fn /\ fs[i].resume = s[n + 1].at /\ fs[i].home = <<k, n + 1>>
        /\ \A j \in 1 .. RefSlots[fs[i].fn] : sp[Words(fs, i - 1) + j] = <<k, n + 1, j>>
        /\ fs[i].refCount = RefSlots[fs[i].fn]
    BY <1>2, <2>2
  <2>. QED
    BY <2>1, <2>2, <2>3, <2>4
<1>9. rf = RefsOf(k, n + 1, fr.fn)
  <2>1. rf = [j \in 1 .. RefSlots[fr.fn] |-> sp[Words(fs, (l + 1) - 1) + j]]
    BY <1>0, <1>6, <1>8
  <2>. QED
    BY <1>8, <2>1 DEF RefsOf
<1>10. /\ back \in Activations /\ back.fn = fr.fn /\ back.site = fr.resume /\ back.home = <<k, n + 1>>
       /\ back.refs = RefsOf(k, n + 1, fr.fn) /\ back.copy = cells[k][n + 1]
  <2>1. /\ fr.fn \in Functions /\ fr.resume \in Sites /\ cells[k][n + 1] \in Values
        /\ <<k, n + 1>> \in Coroutines \X (1 .. MaxDepth)
    <3>1. fr.fn \in Functions /\ fr.resume \in Sites
      BY <1>8 DEF Frames
    <3>2. cells[k][n + 1] \in Values
      <4>1. n + 1 \in 1 .. Len(cells[k]) /\ cells[k] \in Seq(Values)
        BY <1>2, <1>7
      <4>. QED
        BY <4>1, ElementOfSeq
    <3>3. <<k, n + 1>> \in Coroutines \X (1 .. MaxDepth)
      BY <1>2, <1>7
    <3>. QED
      BY <3>1, <3>2, <3>3
  <2>2. rf \in {RefsOf(c, d, fn) : c \in Coroutines, d \in 1 .. MaxDepth, fn \in Functions}
    <3>1. PICK d, g : d = n + 1 /\ g = fr.fn
      OBVIOUS
    <3>2. d \in 1 .. MaxDepth /\ g \in Functions /\ k \in Coroutines /\ rf = RefsOf(k, d, g)
      BY <1>2, <1>7, <1>9, <2>1, <3>1
    <3>. QED
      BY <3>2
  <2>3. Cell(fr.home) = cells[k][n + 1]
    BY <1>8 DEF Cell
  <2>4. back = [fn |-> fr.fn, copy |-> cells[k][n + 1], home |-> fr.home, refs |-> rf, site |-> fr.resume]
    BY <1>0, <2>3 DEF Reload
  <2>. QED
    BY <1>8, <1>9, <2>1, <2>2, <2>4 DEF Activations
<1>11. /\ frames'[k] = gs /\ spine'[k] = tp
       /\ \A c \in Coroutines : c # k => frames'[c] = frames[c] /\ spine'[c] = spine[c]
       /\ frames' \in [Coroutines -> Seq(Frames)] /\ spine' \in [Coroutines -> Seq(Word)]
  <2>1. frames \in [Coroutines -> Seq(Frames)] /\ spine \in [Coroutines -> Seq(Word)]
    BY <1>3 DEF Typed
  <2>. QED
    BY <1>2, <1>4, <1>6, <2>1
<1>12. /\ phys' \in Seq(Activations) /\ Len(phys') = n + 1 /\ DOMAIN phys' = 1 .. n + 1
       /\ phys'[n + 1] = back /\ \A d \in 1 .. n : phys'[d] = phys[d]
  <2>1. PICK q : q = phys
    OBVIOUS
  <2>2. q \in Seq(Activations) /\ Len(q) = n /\ n \in Nat /\ back \in Activations /\ phys' = Append(q, back)
    BY <1>0, <1>2, <1>4, <1>10, <2>1
  <2>3. /\ Append(q, back) \in Seq(Activations) /\ Len(Append(q, back)) = n + 1
        /\ Append(q, back)[n + 1] = back /\ \A d \in 1 .. n : Append(q, back)[d] = q[d]
    BY <2>2
  <2>. QED
    BY <2>1, <2>2, <2>3
<1>13. \A d \in 1 .. n + 1 : d = n + 1 \/ d \in 1 .. n
  BY <1>2
<1>14. Typed'
  <2>1. phase' \in Phases
    BY <1>4 DEF Phases
  <2>. QED
    BY <1>3, <1>4, <1>11, <1>12, <2>1 DEF Typed
<1>15. Phased'
  <2>1. phys' # <<>>
    BY <1>2, <1>12
  <2>2. started[k] /\ ~over[k]
    BY <1>2 DEF Live
  <2>. QED
    BY <1>0, <1>4, <1>11, <2>1, <2>2 DEF Phased
<1>16. Homed'
  <2>1. phys'[n + 1].home = <<k, n + 1>> /\ phys'[n + 1].refs = RefsOf(k, n + 1, phys'[n + 1].fn)
    BY <1>10, <1>12
  <2>2. \A d \in 1 .. n : phys'[d].home = <<k, d>> /\ phys'[d].refs = RefsOf(k, d, phys'[d].fn)
    BY <1>2, <1>12
  <2>3. \A d \in 1 .. n + 1 : phys'[d].home = <<k, d>> /\ phys'[d].refs = RefsOf(k, d, phys'[d].fn)
    BY <1>13, <2>1, <2>2
  <2>4. current' = k /\ DOMAIN phys' = 1 .. n + 1
    BY <1>0, <1>4, <1>12
  <2>. QED
    BY <2>3, <2>4 DEF Homed
<1>17. LocalsAreFresh'
  <2>1. Top' = back
    BY <1>12 DEF Top
  <2>2. cells'[back.home[1]][back.home[2]] = back.copy
    BY <1>4, <1>10
  <2>. QED
    BY <2>1, <2>2 DEF LocalsAreFresh, Cell
<1>18. ASSUME NEW c \in Coroutines, c # k
       PROVE  Counted(c)' /\ (Live(c)' => Stand(c, v[c])')
  BY <1>0, <1>4, <1>11, <1>18, Elsewhere
<1>19. Counted(k)'
  <2>1. Len(spine'[k]) = Words(frames'[k], Len(frames'[k])) /\ DOMAIN frames'[k] = 1 .. l
    BY <1>6, <1>11
  <2>2. \A i \in 1 .. l : gs[i].refCount = RefSlots[gs[i].fn]
    BY <1>2, <1>6
  <2>. QED
    BY <1>2, <1>3, <1>4, <1>11, <2>1, <2>2 DEF Counted, Live
<1>20. Stand(k, s)'
  <2>1. Held(k)' = n + 1 /\ Len(frames'[k]) = l /\ DOMAIN frames'[k] = 1 .. l
    <3>1. k = current' /\ Len(phys') = n + 1
      BY <1>0, <1>4, <1>12
    <3>2. Held(k)' = n + 1
      BY <3>1 DEF Held
    <3>3. gs \in Seq(Frames) /\ Len(gs) = l /\ frames'[k] = gs
      BY <1>6, <1>11
    <3>. QED
      BY <3>2, <3>3
  <2>2. \A d \in 1 .. n + 1 : phys'[d].fn = s[d].fn /\ phys'[d].site = s[d].at
    BY <1>2, <1>8, <1>10, <1>12, <1>13
  <2>3. ASSUME NEW i \in 1 .. l
        PROVE  /\ gs[i].fn = s[Len(s) + 1 - i].fn
               /\ gs[i].resume = s[Len(s) + 1 - i].at
               /\ gs[i].home = <<k, Len(s) + 1 - i>>
               /\ \A j \in 1 .. RefSlots[gs[i].fn] : tp[Words(gs, i - 1) + j] = <<k, Len(s) + 1 - i, j>>
    <3>1. gs[i] = fs[i] /\ i \in 1 .. l + 1 /\ fs[i].refCount = RefSlots[fs[i].fn]
      BY <1>2, <1>6
    <3>2. \A j \in 1 .. fs[i].refCount : tp[Words(gs, i - 1) + j] = sp[Words(fs, i - 1) + j]
      BY <1>6
    <3>3. /\ fs[i].fn = s[Len(s) + 1 - i].fn
          /\ fs[i].resume = s[Len(s) + 1 - i].at
          /\ fs[i].home = <<k, Len(s) + 1 - i>>
          /\ \A j \in 1 .. RefSlots[fs[i].fn] : sp[Words(fs, i - 1) + j] = <<k, Len(s) + 1 - i, j>>
      BY <1>2, <3>1
    <3>. QED
      BY <3>1, <3>2, <3>3
  <2>4. Spilled(k, s)'
    BY <1>11, <2>1, <2>3 DEF Spilled
  <2>. QED
    BY <1>2, <1>4, <1>12, <2>1, <2>2, <2>4 DEF Stand
<1>21. SpillInv(v)'
  BY <1>0, <1>3, <1>14, <1>15, <1>16, <1>17, <1>18, <1>19, <1>20 DEF SpillInv
<1>22. Views(v)' = Views(v)
  BY <1>4 DEF Views, View
<1>. QED
  BY <1>21, <1>22

\* The trampoline goes back to a coroutine.
LEMMA ReenterKeeps ==
  ASSUME NEW v, SpillInv(v), Trampoline, started[next]
  PROVE  SpillInv(v)' /\ Views(v)' = Views(v) /\ phase' = "rewinding"
<1>1. /\ phase = "unwinding" /\ phys = <<>> /\ current' = next /\ phase' = "rewinding"
      /\ UNCHANGED <<phys, cells, started, frames, spine, next, over, unread>>
  BY DEF Trampoline
<1>2. v \in [Coroutines -> Seq(Spot)] /\ Typed /\ Phased /\ next \in Coroutines /\ Len(phys) = 0 /\ DOMAIN phys = {}
  BY <1>1 DEF SpillInv, Typed
<1>3. \A c : Held(c) = 0 /\ Held(c)' = 0
  BY <1>1, <1>2 DEF Held
<1>4. ~over[next] /\ Live(next)
  BY <1>1, <1>2 DEF Phased, Live
<1>5. frames[next] # <<>>
  <2>1. Stand(next, v[next])
    BY <1>2, <1>4 DEF SpillInv
  <2>2. PICK s, fs : s = v[next] /\ fs = frames[next]
    OBVIOUS
  <2>3. s \in Seq(Spot) /\ s # <<>> /\ Len(s) = 0 + Len(fs) /\ fs \in Seq(Frames)
    BY <1>2, <1>3, <2>1, <2>2 DEF Stand, Stacked, Typed
  <2>4. Len(s) # 0
    BY <2>3
  <2>5. fs # <<>>
    BY <2>3, <2>4
  <2>. QED
    BY <2>2, <2>5
<1>6. Typed'
  BY <1>1, <1>2 DEF Typed, Phases
<1>7. Phased' /\ Homed' /\ LocalsAreFresh'
  BY <1>1, <1>2, <1>4, <1>5 DEF Phased, Homed, LocalsAreFresh
<1>8. ASSUME NEW c \in Coroutines PROVE Counted(c)' /\ (Live(c)' => Stand(c, v[c])')
  <2>1. Counted(c) /\ (Live(c) => Stand(c, v[c]))
    BY DEF SpillInv
  <2>2. Counted(c)'
    <3>1. ~started[c] => c # next
      OBVIOUS
    <3>. QED
      BY <1>1, <1>3, <2>1, <3>1 DEF Counted, Live
  <2>3. Live(c)' => Stand(c, v[c])'
    BY <1>1, <1>2, <1>3, <2>1 DEF Live, Stand, Spilled
  <2>. QED
    BY <2>2, <2>3
<1>9. SpillInv(v)'
  BY <1>2, <1>6, <1>7, <1>8 DEF SpillInv
<1>. QED
  BY <1>1, <1>9 DEF Views, View

\* The stack a coroutine begins with.
First == <<[fn |-> Body, at |-> Transfer]>>

\* It is a stack.
LEMMA FirstIs ==
  /\ Stacked(First) /\ First \in Seq(Spot) /\ Len(First) = 1
  /\ First[1].fn = Body /\ First[1].at = Transfer
<1>1. PICK at : at = Transfer
  OBVIOUS
<1>2. [fn |-> Body, at |-> at] \in Spot
  BY <1>1, SpillStacksAssumption DEF Spot, Sites
<1>3. PICK s : s = <<[fn |-> Body, at |-> at]>>
  OBVIOUS
<1>4. s \in Seq(Spot) /\ Len(s) = 1 /\ s # <<>> /\ s[1].fn = Body /\ s[1].at = at
  BY <1>2, <1>3
<1>5. First = s
  BY <1>1, <1>3 DEF First
<1>6. \A d \in 1 .. Len(s) - 1 : FALSE
  BY <1>4
<1>7. Stacked(s)
  BY <1>1, <1>4, <1>6 DEF Stacked
<1>. QED
  BY <1>1, <1>4, <1>5, <1>7

\* What the program believes of it.
LEMMA FirstSeen ==
  ASSUME NEW c, NEW x, x = Initial
  PROVE  [d \in 1 .. Len(First) |-> [fn |-> First[d].fn, value |-> <<x>>[d], refs |-> RefsOf(c, d, First[d].fn)]]
           = <<Stacks!Entered(c, 1, Body)>>
<1>1. PICK e : e = Stacks!Entered(c, 1, Body)
  OBVIOUS
<1>2. e = [fn |-> Body, value |-> Initial, refs |-> RefsOf(c, 1, Body)]
  BY <1>1 DEF Stacks!Entered, Stacks!RefsOf, RefsOf
<1>3. PICK g : g = [d \in 1 .. 1 |-> [fn |-> First[d].fn, value |-> <<x>>[d], refs |-> RefsOf(c, d, First[d].fn)]]
  OBVIOUS
<1>4. g[1] = e
  BY <1>2, <1>3, FirstIs
<1>5. g \in [1 .. 1 -> {e}]
  BY <1>3, <1>4
<1>6. g \in Seq({e}) /\ Len(g) = 1
  <2>1. PICK n : n = 1
    OBVIOUS
  <2>2. n \in Nat /\ g \in [1 .. n -> {e}]
    BY <1>5, <2>1
  <2>3. g \in Seq({e}) /\ Len(g) = n
    BY <2>2
  <2>. QED
    BY <2>1, <2>3
<1>7. <<e>> \in Seq({e}) /\ Len(<<e>>) = 1 /\ <<e>>[1] = e
  OBVIOUS
<1>8. \A i \in 1 .. Len(g) : g[i] = <<e>>[i]
  BY <1>4, <1>6, <1>7
<1>9. g = <<e>>
  BY <1>6, <1>7, <1>8, SeqEqual
<1>. QED
  BY <1>1, <1>3, <1>9, FirstIs

\* The trampoline enters a coroutine afresh.
LEMMA EnterKeeps ==
  ASSUME NEW v, SpillInv(v), Trampoline, ~started[next]
  PROVE  /\ phase' = "normal"
         /\ \E w : SpillInv(w)' /\ Views(w)' = Views(v)
<1>0. PICK k, e, w : k = next /\ e = Enter(k, 1, Body) /\ w = [v EXCEPT ![k] = First]
  OBVIOUS
<1>1. /\ phase = "unwinding" /\ phys = <<>> /\ current' = k /\ phase' = "normal" /\ phys' = <<e>>
      /\ cells' = [cells EXCEPT ![k] = <<Initial>>] /\ started' = [started EXCEPT ![k] = TRUE]
      /\ UNCHANGED <<frames, spine, next, over, unread>>
  BY <1>0 DEF Trampoline
<1>2. v \in [Coroutines -> Seq(Spot)] /\ Typed /\ Phased /\ k \in Coroutines /\ Len(phys) = 0
  BY <1>0, <1>1 DEF SpillInv, Typed
<1>3. /\ started \in [Coroutines -> BOOLEAN] /\ cells \in [Coroutines -> Seq(Values)]
      /\ Counted(k) /\ ~over[k] /\ ~started[k] /\ frames[k] = <<>> /\ spine[k] = <<>>
  BY <1>0, <1>1, <1>2 DEF Typed, SpillInv, Counted, Phased
<1>4. /\ started'[k] = TRUE /\ cells'[k] = <<Initial>>
      /\ \A c \in Coroutines : c # k => started'[c] = started[c] /\ cells'[c] = cells[c]
  BY <1>1, <1>2, <1>3
<1>5. <<Initial>> \in Seq(Values) /\ Len(<<Initial>>) = 1 /\ <<Initial>>[1] = Initial /\ 1 \in 1 .. MaxDepth
  BY SpillStacksAssumption
<1>6. /\ e \in Activations /\ e.fn = Body /\ e.copy = Initial /\ e.home = <<k, 1>>
      /\ e.refs = RefsOf(k, 1, Body) /\ e.site = Transfer
  <2>1. k \in Coroutines /\ 1 \in 1 .. MaxDepth /\ Body \in Functions
    BY <1>2, SpillStacksAssumption
  <2>. QED
    BY <1>0, <2>1, EnteredIs
<1>7. phys' \in Seq(Activations) /\ Len(phys') = 1 /\ DOMAIN phys' = 1 .. 1 /\ phys'[1] = e /\ phys' # <<>>
  <2>1. <<e>> \in Seq(Activations) /\ Len(<<e>>) = 1 /\ <<e>>[1] = e /\ <<e>> # <<>> /\ DOMAIN <<e>> = 1 .. 1
    BY <1>6
  <2>. QED
    BY <1>1, <2>1
<1>8. Typed'
  <2>1. started' \in [Coroutines -> BOOLEAN] /\ cells' \in [Coroutines -> Seq(Values)]
    BY <1>1, <1>3, <1>5
  <2>. QED
    BY <1>1, <1>2, <1>7, <2>1 DEF Typed, Phases
<1>9. Phased'
  BY <1>1, <1>3, <1>4, <1>7 DEF Phased
<1>10. Homed'
  BY <1>1, <1>6, <1>7 DEF Homed
<1>11. LocalsAreFresh'
  <2>1. Top' = e
    BY <1>7 DEF Top
  <2>2. cells'[e.home[1]][e.home[2]] = e.copy
    BY <1>4, <1>5, <1>6
  <2>. QED
    BY <2>1, <2>2 DEF LocalsAreFresh, Cell
<1>12. w \in [Coroutines -> Seq(Spot)] /\ w[k] = First /\ \A c \in Coroutines : c # k => w[c] = v[c]
  BY <1>0, <1>2, FirstIs
<1>13. ASSUME NEW c \in Coroutines, c # k
       PROVE  Counted(c)' /\ (Live(c)' => Stand(c, w[c])') /\ View(c, w[c])' = View(c, v[c])
  <2>1. Counted(c) /\ (Live(c) => Stand(c, v[c]))
    BY DEF SpillInv
  <2>2. Held(c) = 0 /\ Held(c)' = 0
    BY <1>1, <1>2, <1>13 DEF Held
  <2>3. started'[c] = started[c] /\ cells'[c] = cells[c] /\ w[c] = v[c]
    BY <1>4, <1>12, <1>13
  <2>4. Counted(c)'
    BY <1>1, <1>13, <2>1, <2>2, <2>3 DEF Counted, Live
  <2>5. Live(c)' => Stand(c, w[c])'
    BY <1>1, <1>13, <2>1, <2>2, <2>3 DEF Live, Stand, Spilled
  <2>6. View(c, w[c])' = View(c, v[c])
    BY <1>1, <2>3 DEF View
  <2>. QED
    BY <2>4, <2>5, <2>6
<1>14. Counted(k)'
  <2>1. Len(cells'[k]) <= MaxDepth
    BY <1>4, <1>5, SpillStacksAssumption
  <2>2. frames'[k] = <<>> /\ spine'[k] = <<>> /\ over'[k] = over[k]
    BY <1>1, <1>3
  <2>. QED
    BY <1>3, <1>4, <2>1, <2>2 DEF Counted, Live
<1>15. Stand(k, First)'
  <2>1. Len(frames'[k]) = 0 /\ frames'[k] = <<>> /\ current' = k
    BY <1>1, <1>3
  <2>2. \A d \in 1 .. 1 : phys'[d].fn = First[d].fn /\ phys'[d].site = First[d].at
    BY <1>6, <1>7, FirstIs
  <2>3. Len(cells'[k]) = 1
    BY <1>4, <1>5
  <2>4. Runs(First)'
    BY <1>2, <1>7, <2>1, <2>2, <2>3, FirstIs DEF Runs
  <2>5. Stand(current, First)'
    BY <2>4, RunningStands
  <2>. QED
    BY <1>1, <2>5
<1>16. SpillInv(w)'
  BY <1>8, <1>9, <1>10, <1>11, <1>12, <1>13, <1>14, <1>15 DEF SpillInv
<1>17. View(k, w[k])' = View(k, v[k])
  <2>1. View(k, v[k]) = <<Stacks!Entered(k, 1, Body)>>
    BY <1>3 DEF View
  <2>2. View(k, First)' = [d \in 1 .. Len(First) |-> [fn |-> First[d].fn, value |-> <<Initial>>[d], refs |-> RefsOf(k, d, First[d].fn)]]
    BY <1>1, <1>3, <1>4 DEF View
  <2>. QED
    BY <1>12, <2>1, <2>2, FirstSeen
<1>18. Views(w)' = Views(v)
  BY <1>13, <1>17 DEF Views
<1>. QED
  BY <1>1, <1>16, <1>18

\* `main` begins.
LEMMA InitStands ==
  ASSUME Init
  PROVE  \E v : SpillInv(v) /\ Views(v) = [c \in Coroutines |-> <<Stacks!Entered(c, 1, Body)>>]
<1>0. PICK e, v : e = Enter(Main, 1, Body) /\ v = [c \in Coroutines |-> First]
  OBVIOUS
<1>1. Main \in Coroutines /\ Body \in Functions /\ Initial \in Values /\ 1 \in 1 .. MaxDepth /\ 1 <= MaxDepth /\ 0 <= MaxDepth
  BY SpillStacksAssumption
<1>2. /\ phys = <<e>> /\ phase = "normal" /\ current = Main /\ next = Main /\ unread = FALSE
      /\ \A c \in Coroutines : /\ frames[c] = <<>> /\ spine[c] = <<>> /\ over[c] = FALSE
                               /\ started[c] = (c = Main)
                               /\ cells[c] = IF c = Main THEN <<Initial>> ELSE <<>>
  BY <1>0 DEF Init
<1>3. /\ e \in Activations /\ e.fn = Body /\ e.copy = Initial /\ e.home = <<Main, 1>>
      /\ e.refs = RefsOf(Main, 1, Body) /\ e.site = Transfer
  BY <1>0, <1>1, EnteredIs
<1>4. phys \in Seq(Activations) /\ Len(phys) = 1 /\ DOMAIN phys = 1 .. 1 /\ phys[1] = e /\ phys # <<>>
  <2>1. <<e>> \in Seq(Activations) /\ Len(<<e>>) = 1 /\ <<e>>[1] = e /\ <<e>> # <<>> /\ DOMAIN <<e>> = 1 .. 1
    BY <1>3
  <2>. QED
    BY <1>2, <2>1
<1>5. <<Initial>> \in Seq(Values) /\ Len(<<Initial>>) = 1 /\ <<Initial>>[1] = Initial /\ <<>> \in Seq(Values)
  BY <1>1
<1>6. Typed
  <2>1. <<>> \in Seq(Frames) /\ <<>> \in Seq(Word)
    OBVIOUS
  <2>2. frames \in [Coroutines -> Seq(Frames)] /\ spine \in [Coroutines -> Seq(Word)]
    BY <2>1 DEF Init
  <2>3. cells \in [Coroutines -> Seq(Values)]
    BY <1>5 DEF Init
  <2>4. started \in [Coroutines -> BOOLEAN] /\ over \in [Coroutines -> BOOLEAN]
    BY DEF Init
  <2>. QED
    BY <1>1, <1>2, <1>4, <2>2, <2>3, <2>4 DEF Typed, Phases
<1>7. Phased
  BY <1>1, <1>2, <1>4 DEF Phased
<1>8. Homed
  BY <1>2, <1>3, <1>4 DEF Homed
<1>9. LocalsAreFresh
  <2>1. Top = e
    BY <1>4 DEF Top
  <2>2. cells[e.home[1]][e.home[2]] = e.copy
    BY <1>1, <1>2, <1>3, <1>5
  <2>. QED
    BY <2>1, <2>2 DEF LocalsAreFresh, Cell
<1>10. ASSUME NEW c \in Coroutines PROVE Counted(c)
  <2>1. Words(frames[c], Len(frames[c])) = 0 /\ Len(frames[c]) = 0 /\ Len(spine[c]) = 0 /\ DOMAIN frames[c] = {}
    <3>1. Len(frames[c]) = 0 /\ Len(spine[c]) = 0 /\ DOMAIN frames[c] = {}
      BY <1>2
    <3>. QED
      BY <3>1, WordsAre
  <2>2. Len(cells[c]) <= MaxDepth
    BY <1>1, <1>2, <1>5
  <2>3. over[c] = FALSE /\ frames[c] = <<>> /\ spine[c] = <<>> /\ started[c] = (c = Main)
    BY <1>2
  <2>4. ~Live(c) => cells[c] = <<>>
    BY <1>2 DEF Live
  <2>5. ~started[c] => c # current
    BY <1>2
  <2>. QED
    BY <2>1, <2>2, <2>3, <2>4, <2>5 DEF Counted
<1>11. Stand(Main, First)
  <2>1. frames[Main] = <<>> /\ Len(frames[Main]) = 0 /\ DOMAIN frames[Main] = {} /\ Held(Main) = 1 /\ Len(cells[Main]) = 1
    BY <1>1, <1>2, <1>4, <1>5 DEF Held
  <2>2. \A d \in 1 .. 1 : phys[d].fn = First[d].fn /\ phys[d].site = First[d].at
    BY <1>3, <1>4, FirstIs
  <2>. QED
    BY <1>4, <2>1, <2>2, FirstIs DEF Stand, Spilled
<1>12. v \in [Coroutines -> Seq(Spot)] /\ \A c \in Coroutines : v[c] = First
  BY <1>0, FirstIs
<1>13. \A c \in Coroutines : Live(c) => c = Main
  BY <1>2 DEF Live
<1>14. SpillInv(v)
  BY <1>1, <1>6, <1>7, <1>8, <1>9, <1>10, <1>11, <1>12, <1>13 DEF SpillInv
<1>15. ASSUME NEW c \in Coroutines PROVE View(c, v[c]) = <<Stacks!Entered(c, 1, Body)>>
  <2>1. CASE c = Main
    <3>1. View(c, First) = [d \in 1 .. Len(First) |-> [fn |-> First[d].fn, value |-> <<Initial>>[d], refs |-> RefsOf(c, d, First[d].fn)]]
      BY <1>2, <2>1 DEF View
    <3>. QED
      BY <1>12, <3>1, FirstSeen
  <2>2. CASE c # Main
    BY <1>2, <2>2 DEF View
  <2>. QED
    BY <2>1, <2>2
<1>. QED
  BY <1>14, <1>15 DEF Views

(***************************************************************************)
(* What the program believes of the coroutines is what stands: the places  *)
(* of the buffers, innermost first, are those of the stack from its other  *)
(* end.                                                                    *)
(***************************************************************************)

\* A part of a sequence, from after a on.
LEMMA Slice ==
  ASSUME NEW S, NEW q, q \in Seq(S), NEW a \in Nat, NEW r \in Nat, a + r <= Len(q)
  PROVE  SubSeq(q, a + 1, a + r) = [k \in 1 .. r |-> q[a + k]]
<1>1. PICK m, n, z : m = a + 1 /\ n = a + r /\ z = SubSeq(q, m, n)
  OBVIOUS
<1>2. m \in Int /\ n \in Int /\ n - m + 1 = r /\ \A k \in 1 .. r : m + k - 1 = a + k
  BY <1>1
<1>3. \A i \in m .. n : q[i] \in S
  <2>1. \A i \in m .. n : i \in 1 .. Len(q)
    BY <1>1
  <2>. QED
    BY <2>1
<1>4. (IF m <= n THEN n - m + 1 ELSE 0) = r
  BY <1>1
<1>5. /\ SubSeq(q, m, n) \in Seq(S) /\ Len(SubSeq(q, m, n)) = IF m <= n THEN n - m + 1 ELSE 0
      /\ \A i \in 1 .. n - m + 1 : SubSeq(q, m, n)[i] = q[m + i - 1]
  BY <1>2, <1>3, SubSeqProperties
<1>6. z \in Seq(S) /\ Len(z) = r /\ \A k \in 1 .. r : z[k] = q[a + k]
  BY <1>1, <1>2, <1>4, <1>5
<1>7. z \in [1 .. r -> S]
  BY <1>6, LenProperties
<1>8. z = [k \in 1 .. r |-> z[k]]
  BY <1>7
<1>. QED
  BY <1>1, <1>6, <1>8

\* The references of a spilled activation.
SpilledAt(c, fs, p, s, d) ==
    /\ fs[p].fn = s[d].fn
    /\ fs[p].home = <<c, d>>
    /\ SubSeq(spine[c], Words(fs, p - 1) + 1, Words(fs, p - 1) + fs[p].refCount) = RefsOf(c, d, s[d].fn)

\* They are those of its place in the stack.
LEMMA RefsSpilled ==
  ASSUME NEW v, SpillInv(v), NEW c \in Coroutines, Live(c),
         NEW fs, fs = frames[c], NEW p \in 1 .. Len(fs), NEW s, s = v[c], NEW d, d = Len(s) + 1 - p
  PROVE  SpilledAt(c, fs, p, s, d)
<1>0. PICK sp, r, a, F : sp = spine[c] /\ r = fs[p].refCount /\ a = Words(fs, p - 1) /\ F = Len(fs)
  OBVIOUS
<1>1. /\ Counted(c) /\ Stand(c, s) /\ Typed
  BY DEF SpillInv
<1>2. sp \in Seq(Word) /\ fs \in Seq(Frames) /\ DOMAIN fs = 1 .. F /\ F \in Nat
  BY <1>0, <1>1 DEF Typed
<1>3. \A i \in 1 .. F : fs[i].refCount = RefSlots[fs[i].fn] /\ fs[i].refCount \in Nat
  <2>1. \A i \in 1 .. F : fs[i] \in Frames
    BY <1>0, <1>2
  <2>2. \A i \in 1 .. F : fs[i].fn \in Functions
    BY <2>1 DEF Frames
  <2>3. \A i \in 1 .. F : fs[i].refCount = RefSlots[fs[i].fn]
    BY <1>1, <1>2 DEF Counted
  <2>. QED
    BY <2>2, <2>3, SpillStacksAssumption
<1>4. Len(sp) = Words(fs, F)
  BY <1>0, <1>1 DEF Counted
<1>5. /\ fs[p].fn = s[d].fn /\ fs[p].home = <<c, d>>
      /\ \A k \in 1 .. RefSlots[fs[p].fn] : sp[a + k] = <<c, d, k>>
  BY <1>0, <1>1, <1>2 DEF Stand, Spilled
<1>6. a \in Nat /\ r \in Nat /\ a + r <= Len(sp) /\ r = RefSlots[s[d].fn]
  <2>1. r \in Nat /\ r = RefSlots[s[d].fn]
    BY <1>0, <1>3, <1>5
  <2>2. PICK j : j = p - 1
    OBVIOUS
  <2>3. j \in Nat /\ j \in 0 .. F /\ p \in 0 .. F /\ j + 1 = p
    BY <1>0, <1>2, <2>2
  <2>4. Words(fs, j) \in Nat /\ Words(fs, p) <= Words(fs, F)
    <3>1. \A i \in 1 .. F : fs[i].refCount \in Nat
      BY <1>3
    <3>. QED
      BY <1>2, <2>3, <3>1, WordsGrow
  <2>5. Words(fs, p) = Words(fs, j) + r
    BY <1>0, <2>3, WordsAre
  <2>. QED
    BY <1>0, <1>4, <2>1, <2>2, <2>4, <2>5
<1>7. SubSeq(sp, a + 1, a + r) = [k \in 1 .. r |-> sp[a + k]]
  <2>1. a \in Nat /\ r \in Nat /\ a + r <= Len(sp) /\ sp \in Seq(Word)
    BY <1>2, <1>6
  <2>. QED
    BY <2>1, Slice
<1>8. [k \in 1 .. r |-> sp[a + k]] = RefsOf(c, d, s[d].fn)
  BY <1>5, <1>6 DEF RefsOf
<1>. QED
  BY <1>0, <1>5, <1>7, <1>8 DEF SpilledAt

\* The activations, on the stack or spilled, are as the program believes.
LEMMA BelievedLive ==
  ASSUME NEW v, SpillInv(v), NEW c \in Coroutines, Live(c)
  PROVE  Believed(c) = View(c, v[c])
<1>0. PICK s, fs, F, h, inner, outer, n :
        /\ s = v[c] /\ fs = frames[c] /\ F = Len(fs) /\ h = Held(c) /\ n = Len(s)
        /\ inner = Reverse(fs) /\ outer = IF c = current THEN phys ELSE <<>>
  OBVIOUS
<1>1. Stand(c, s) /\ Typed /\ Homed
  BY <1>0 DEF SpillInv
<1>2. /\ fs \in Seq(Frames) /\ F \in Nat /\ phys \in Seq(Activations) /\ DOMAIN phys = 1 .. Len(phys) /\ Len(phys) \in Nat
  BY <1>0, <1>1 DEF Typed
<1>3. h = Len(outer) /\ h \in Nat /\ n = h + F
  <2>1. h = Len(outer) /\ h \in Nat
    BY <1>0, <1>2 DEF Held
  <2>. QED
    BY <1>0, <1>1, <2>1 DEF Stand
<1>4. Len(inner) = F /\ \A j \in 1 .. F : inner[j] = fs[(F - j) + 1]
  BY <1>0, <1>2 DEF Reverse
<1>5. PICK B : B = [i \in 1 .. n |->
                      IF i <= h
                      THEN [fn |-> outer[i].fn, value |-> Cell(outer[i].home), refs |-> outer[i].refs]
                      ELSE [fn |-> inner[i - h].fn, value |-> Cell(inner[i - h].home),
                            refs |-> LET above == Words(fs, F - (i - h))
                                     IN  SubSeq(spine[c], above + 1, above + inner[i - h].refCount)]]
  OBVIOUS
<1>6. Believed(c) = B
  <2>1. ~over[c] /\ started[c]
    BY DEF Live
  <2>2. Len(outer) = h /\ Len(inner) = F /\ h + F = n
    BY <1>3, <1>4
  <2>. QED
    BY <1>0, <1>5, <2>1, <2>2 DEF Believed
<1>7. PICK W : W = View(c, s)
  OBVIOUS
<1>8. W = [i \in 1 .. n |-> [fn |-> s[i].fn, value |-> cells[c][i], refs |-> RefsOf(c, i, s[i].fn)]]
  BY <1>0, <1>7 DEF View, Live
<1>9. ASSUME NEW i \in 1 .. n PROVE B[i] = W[i]
  <2>1. W[i] = [fn |-> s[i].fn, value |-> cells[c][i], refs |-> RefsOf(c, i, s[i].fn)]
    BY <1>8
  <2>2. CASE i <= h
    <3>1. c = current /\ outer = phys /\ h = Len(phys)
      <4>1. h # 0
        BY <1>3, <2>2
      <4>. QED
        BY <1>0, <4>1 DEF Held
    <3>2. i \in DOMAIN phys
      BY <1>2, <2>2, <3>1
    <3>3. phys[i].fn = s[i].fn /\ phys[i].home = <<c, i>> /\ phys[i].refs = RefsOf(c, i, s[i].fn)
      BY <1>0, <1>1, <3>1, <3>2 DEF Stand, Homed
    <3>4. B[i] = [fn |-> phys[i].fn, value |-> Cell(phys[i].home), refs |-> phys[i].refs]
      BY <1>5, <2>2, <3>1
    <3>. QED
      BY <2>1, <3>3, <3>4 DEF Cell
  <2>3. CASE ~(i <= h)
    <3>1. PICK j, p : j = i - h /\ p = (F - j) + 1
      OBVIOUS
    <3>2. j \in 1 .. F /\ p \in 1 .. F /\ (n + 1) - p = i /\ F - j = p - 1
      BY <1>2, <1>3, <2>3, <3>1
    <3>3. inner[j] = fs[p]
      BY <1>4, <3>1, <3>2
    <3>4. /\ fs[p].fn = s[i].fn /\ fs[p].home = <<c, i>>
          /\ SubSeq(spine[c], Words(fs, p - 1) + 1, Words(fs, p - 1) + fs[p].refCount) = RefsOf(c, i, s[i].fn)
      <4>1. p \in 1 .. Len(fs) /\ i = Len(s) + 1 - p /\ s = v[c] /\ fs = frames[c]
        BY <1>0, <3>2
      <4>2. SpilledAt(c, fs, p, s, i)
        BY <4>1, RefsSpilled
      <4>. QED
        BY <4>2 DEF SpilledAt
    <3>5. B[i] = [fn |-> inner[j].fn, value |-> Cell(inner[j].home),
                  refs |-> SubSeq(spine[c], Words(fs, F - j) + 1, Words(fs, F - j) + inner[j].refCount)]
      BY <1>5, <2>3, <3>1
    <3>6. Cell(inner[j].home) = cells[c][i]
      BY <3>3, <3>4 DEF Cell
    <3>7. B[i] = [fn |-> s[i].fn, value |-> cells[c][i], refs |-> RefsOf(c, i, s[i].fn)]
      BY <3>2, <3>3, <3>4, <3>5, <3>6
    <3>. QED
      BY <2>1, <3>7
  <2>. QED
    BY <2>2, <2>3
<1>10. B = W
  <2>1. B = [i \in 1 .. n |-> B[i]] /\ W = [i \in 1 .. n |-> W[i]]
    BY <1>5, <1>8
  <2>. QED
    BY <1>9, <2>1
<1>. QED
  BY <1>0, <1>6, <1>7, <1>10

\* Spilled or not, begun or ended, what the program believes of the coroutines are
\* the stacks that stand.
LEMMA BelievedIs ==
  \A v : SpillInv(v) => [c \in Coroutines |-> Believed(c)] = Views(v)
<1>1. SUFFICES ASSUME NEW v, SpillInv(v), NEW c \in Coroutines PROVE Believed(c) = View(c, v[c])
  BY DEF Views
<1>2. CASE over[c]
  <2>1. started[c]
    BY <1>1, <1>2 DEF SpillInv, Counted
  <2>. HIDE DEF Cell
  <2>3. Believed(c) = <<>>
    BY <1>2, <2>1 DEF Believed
  <2>2. View(c, v[c]) = <<>>
    BY <1>2 DEF View
  <2>. QED
    BY <2>2, <2>3
<1>3. CASE ~over[c] /\ ~started[c]
  BY <1>3 DEF Believed, View, Stacks!Entered, Stacks!RefsOf, RefsOf
<1>4. CASE ~over[c] /\ started[c]
  BY <1>1, <1>4, BelievedLive DEF Live
<1>. QED
  BY <1>2, <1>3, <1>4

(***************************************************************************)
(* Every step keeps the invariant, and is a step of CallStacks or none.    *)
(***************************************************************************)

Seen == [c \in Coroutines |-> Believed(c)]

SpillInvariant == \E v : SpillInv(v)

\* Whatever stacks stand, they are those believed in.
Faithful == \A v : SpillInv(v) => Seen = Views(v)

\* They always are.
LEMMA AlwaysFaithful == Faithful
BY BelievedIs DEF Faithful, Seen

\* The stack of a live coroutine is as deep as it is believed to be.
LEMMA ViewIs ==
  ASSUME NEW v, SpillInv(v), NEW c \in Coroutines, Live(c)
  PROVE  Len(Views(v)[c]) = Len(v[c]) /\ DOMAIN Views(v)[c] = 1 .. Len(v[c]) /\ Len(v[c]) \in Nat
<1>0. PICK s, n, V : s = v[c] /\ n = Len(s) /\ V = View(c, s)
  OBVIOUS
<1>1. n \in Nat
  BY <1>0 DEF SpillInv
<1>2. V = [d \in 1 .. n |-> [fn |-> s[d].fn, value |-> cells[c][d], refs |-> RefsOf(c, d, s[d].fn)]]
  BY <1>0 DEF View, Live
<1>3. DOMAIN V = 1 .. n
  BY <1>2
<1>4. Len(V) = n
  <2>1. PICK S : S = {V[d] : d \in 1 .. n}
    OBVIOUS
  <2>2. V \in [1 .. n -> S]
    BY <1>2, <2>1
  <2>. QED
    BY <1>1, <2>2
<1>. QED
  BY <1>0, <1>1, <1>3, <1>4 DEF Views

\* While the program runs, the abstract program does.
LEMMA RunsSeen ==
  ASSUME NEW v, SpillInv(v), phase = "normal", Faithful
  PROVE  /\ Stacks!Live /\ Stacks!Depth = Len(phys) /\ Seen = Views(v) /\ Live(current) /\ current \in Coroutines
         /\ (IF phase = "unwinding" THEN next ELSE current) = current
<1>1. Seen = Views(v)
  BY DEF Faithful
<1>2. Live(current) /\ Len(v[current]) = Len(phys) /\ current \in Coroutines
  BY Running DEF SpillInv, Typed
<1>3. Len(Seen[current]) = Len(phys)
  BY <1>1, <1>2, ViewIs
<1>4. Stacks!Live
  BY <1>2 DEF Stacks!Live, Live
<1>5. Stacks!Depth = Len(phys)
  BY <1>3 DEF Stacks!Depth, Seen
<1>. QED
  BY <1>1, <1>2, <1>4, <1>5

\* Every step keeps the invariant, and is one of the abstract program or none.
LEMMA SpillStep ==
  ASSUME SpillInvariant, Faithful, Faithful', [Next]_vars
  PROVE  SpillInvariant' /\ [Stacks!Next]_(Stacks!vars)
<1>0. PICK v : SpillInv(v)
  BY DEF SpillInvariant
<1>1. Seen = Views(v) /\ \A w : SpillInv(w)' => Seen' = Views(w)'
  BY <1>0 DEF Faithful
<1>2. v \in [Coroutines -> Seq(Spot)] /\ Typed /\ Phased
  BY <1>0 DEF SpillInv
<1>3. ASSUME NEW f \in Functions, Call(f) PROVE SpillInvariant' /\ Stacks!Next
  <2>1. PICK w : SpillInv(w)' /\ Views(w)' = [Views(v) EXCEPT ![current] = Append(@, Stacks!Entered(current, Len(phys) + 1, f))]
    BY <1>0, <1>3, CallKeeps
  <2>2. phase = "normal" /\ f # Body /\ Len(phys) < MaxDepth /\ UNCHANGED <<phase, current, next, over>>
    BY <1>3 DEF Call
  <2>3. Seen' = [Seen EXCEPT ![current] = Append(@, Stacks!Entered(current, Len(phys) + 1, f))]
    BY <1>1, <2>1
  <2>4. Stacks!Live /\ Stacks!Depth = Len(phys) /\ (IF phase = "unwinding" THEN next ELSE current) = current
    BY <1>0, <2>2, RunsSeen
  <2>5. Stacks!Call(f)
    BY <2>2, <2>3, <2>4 DEF Stacks!Call, Seen
  <2>. QED
    BY <2>1, <2>5 DEF SpillInvariant, Stacks!Next
<1>4. ASSUME Return PROVE SpillInvariant' /\ Stacks!Next
  <2>1. PICK w : SpillInv(w)' /\ Views(w)' = [Views(v) EXCEPT ![current] = SubSeq(@, 1, Len(phys) - 1)]
    BY <1>0, <1>4, ReturnKeeps
  <2>2. phase = "normal" /\ Len(phys) > 1 /\ UNCHANGED <<phase, current, next, over>>
    BY <1>4 DEF Return
  <2>3. Seen' = [Seen EXCEPT ![current] = SubSeq(@, 1, Len(phys) - 1)]
    BY <1>1, <2>1
  <2>4. Stacks!Live /\ Stacks!Depth = Len(phys) /\ (IF phase = "unwinding" THEN next ELSE current) = current
    BY <1>0, <2>2, RunsSeen
  <2>5. Stacks!Return
    BY <2>2, <2>3, <2>4 DEF Stacks!Return, Seen
  <2>. QED
    BY <2>1, <2>5 DEF SpillInvariant, Stacks!Next
<1>5. ASSUME NEW a \in Values, Assign(a) PROVE SpillInvariant' /\ Stacks!Next
  <2>0. PICK n : n = Len(phys)
    OBVIOUS
  <2>1. SpillInv(v)' /\ Views(v)' = [Views(v) EXCEPT ![current][n].value = a]
    BY <1>0, <1>5, <2>0, AssignKeeps
  <2>2. phase = "normal" /\ UNCHANGED <<phase, current, next, over>>
    BY <1>5 DEF Assign
  <2>3. Seen' = [Seen EXCEPT ![current][n].value = a]
    BY <1>1, <2>1
  <2>4. Stacks!Live /\ Live(current) /\ current \in Coroutines
    BY <1>0, <2>2, RunsSeen
  <2>5. n \in DOMAIN Seen[current]
    <3>1. DOMAIN Seen[current] = 1 .. Len(v[current])
      BY <1>0, <1>1, <2>4, ViewIs
    <3>2. Len(v[current]) = n /\ n \in Nat /\ n >= 1
      BY <1>0, <2>0, <2>2, Running
    <3>. QED
      BY <3>1, <3>2
  <2>6. Stacks!Write(current, a)
    BY <2>2, <2>3, <2>4, <2>5 DEF Stacks!Write, Seen, Live
  <2>. QED
    BY <2>1, <2>4, <2>6 DEF SpillInvariant, Stacks!Next
<1>6. ASSUME NEW c \in Coroutines, NEW i \in 1 .. MaxDepth, NEW a \in Values, AssignCaptured(c, i, a)
      PROVE  SpillInvariant' /\ Stacks!Next
  <2>1. SpillInv(v)' /\ Live(c) /\ i \in 1 .. Len(v[c]) /\ Views(v)' = [Views(v) EXCEPT ![c][i].value = a]
    BY <1>0, <1>6, AssignCapturedKeeps
  <2>2. phase = "normal" /\ UNCHANGED <<phase, current, next, over>>
    BY <1>6 DEF AssignCaptured
  <2>3. Seen' = [Seen EXCEPT ![c][i].value = a]
    BY <1>1, <2>1
  <2>4. Stacks!Live
    BY <1>0, <2>2, RunsSeen
  <2>5. i \in DOMAIN Seen[c]
    BY <1>0, <1>1, <2>1, ViewIs
  <2>6. Stacks!Write(c, a)
    BY <2>1, <2>2, <2>3, <2>4, <2>5 DEF Stacks!Write, Seen, Live
  <2>. QED
    BY <2>1, <2>6 DEF SpillInvariant, Stacks!Next
<1>7. ASSUME NEW to \in Coroutines, SwitchTo(to) PROVE SpillInvariant' /\ Stacks!Next
  <2>1. SpillInv(v)' /\ Views(v)' = Views(v)
    BY <1>0, <1>7, SwitchKeeps
  <2>2. /\ phase = "normal" /\ to # current /\ ~over[to] /\ next' = to /\ phase' = "unwinding"
        /\ UNCHANGED <<current, over>>
    BY <1>7 DEF SwitchTo, CoroSwitch
  <2>3. Seen' = Seen
    BY <1>1, <2>1
  <2>4. Stacks!Live
    BY <1>0, <2>2, RunsSeen
  <2>5. Stacks!Switch(to)
    BY <2>2, <2>3, <2>4 DEF Stacks!Switch, Seen
  <2>. QED
    BY <2>1, <2>5 DEF SpillInvariant, Stacks!Next
<1>8. ASSUME NEW to \in Coroutines, End(to) PROVE SpillInvariant' /\ Stacks!Next
  <2>1. SpillInv(v)' /\ Views(v)' = [Views(v) EXCEPT ![current] = <<>>]
    BY <1>0, <1>8, EndKeeps
  <2>2. /\ phase = "normal" /\ to # current /\ ~over[to] /\ current # Main /\ Len(phys) = 1
        /\ next' = to /\ phase' = "unwinding" /\ over' = [over EXCEPT ![current] = TRUE]
    BY <1>8 DEF End, CoroSwitch
  <2>3. Seen' = [Seen EXCEPT ![current] = <<>>]
    BY <1>1, <2>1
  <2>4. Stacks!Live /\ Stacks!Depth = Len(phys)
    BY <1>0, <2>2, RunsSeen
  <2>5. Stacks!End(to)
    BY <2>2, <2>3, <2>4 DEF Stacks!End, Seen
  <2>. QED
    BY <2>1, <2>5 DEF SpillInvariant, Stacks!Next
<1>9. ASSUME Finish PROVE SpillInvariant' /\ Stacks!Next
  <2>1. SpillInv(v)' /\ Views(v)' = [Views(v) EXCEPT ![Main] = <<>>]
    BY <1>0, <1>9, FinishKeeps
  <2>2. /\ phase = "normal" /\ current = Main /\ Len(phys) = 1 /\ phase' = "done"
        /\ over' = [over EXCEPT ![Main] = TRUE] /\ UNCHANGED <<current, next>>
    BY <1>9 DEF Finish
  <2>3. Seen' = [Seen EXCEPT ![Main] = <<>>]
    BY <1>1, <2>1
  <2>4. Stacks!Live /\ Stacks!Depth = Len(phys)
    BY <1>0, <2>2, RunsSeen
  <2>5. Stacks!Finish
    BY <2>2, <2>3, <2>4 DEF Stacks!Finish, Seen
  <2>. QED
    BY <2>1, <2>5 DEF SpillInvariant, Stacks!Next
<1>10. ASSUME Spill PROVE SpillInvariant' /\ UNCHANGED Stacks!vars
  <2>1. SpillInv(v)' /\ Views(v)' = Views(v)
    BY <1>0, <1>10, SpillKeeps
  <2>2. UNCHANGED <<phase, current, next, over>>
    BY <1>10 DEF Spill
  <2>3. Seen' = Seen
    BY <1>1, <2>1
  <2>. QED
    BY <2>1, <2>2, <2>3 DEF SpillInvariant, Stacks!vars, Seen
<1>11. ASSUME Trampoline, started[next] PROVE SpillInvariant' /\ UNCHANGED Stacks!vars
  <2>1. SpillInv(v)' /\ Views(v)' = Views(v) /\ phase' = "rewinding"
    BY <1>0, <1>11, ReenterKeeps
  <2>2. phase = "unwinding" /\ current' = next /\ UNCHANGED <<next, over>>
    BY <1>11 DEF Trampoline
  <2>3. Seen' = Seen
    BY <1>1, <2>1
  <2>. QED
    BY <2>1, <2>2, <2>3 DEF SpillInvariant, Stacks!vars, Seen
<1>12. ASSUME Trampoline, ~started[next] PROVE SpillInvariant' /\ Stacks!Next
  <2>1. phase' = "normal" /\ \E w : SpillInv(w)' /\ Views(w)' = Views(v)
    BY <1>0, <1>12, EnterKeeps
  <2>2. PICK w : SpillInv(w)' /\ Views(w)' = Views(v)
    BY <2>1
  <2>3. phase = "unwinding" /\ current' = next /\ UNCHANGED <<next, over>>
    BY <1>12 DEF Trampoline
  <2>4. Seen' = Seen
    BY <1>1, <2>2
  <2>5. Stacks!Arrive
    BY <2>1, <2>3, <2>4 DEF Stacks!Arrive, Seen
  <2>. QED
    BY <2>2, <2>5 DEF SpillInvariant, Stacks!Next
<1>13. ASSUME Rewind PROVE SpillInvariant' /\ (Stacks!Next \/ UNCHANGED Stacks!vars)
  <2>1. SpillInv(v)' /\ Views(v)' = Views(v)
    BY <1>0, <1>13, RewindKeeps
  <2>2. /\ phase = "rewinding" /\ phase' \in {"normal", "rewinding"}
        /\ UNCHANGED <<current, next, over>>
    BY <1>13 DEF Rewind, PhaseAfterPop
  <2>3. Seen' = Seen
    BY <1>1, <2>1
  <2>4. CASE phase' = "normal"
    <3>1. Stacks!Arrive
      BY <2>2, <2>3, <2>4 DEF Stacks!Arrive, Seen
    <3>. QED
      BY <2>1, <3>1 DEF SpillInvariant, Stacks!Next
  <2>5. CASE phase' = "rewinding"
    BY <2>1, <2>2, <2>3, <2>5 DEF SpillInvariant, Stacks!vars, Seen
  <2>. QED
    BY <2>2, <2>4, <2>5
<1>14. ASSUME UNCHANGED vars PROVE SpillInvariant' /\ UNCHANGED Stacks!vars
  <2>1. SpillInv(v)'
    <3>1. UNCHANGED <<phys, frames, spine, cells, phase, current, next, started, over, unread>>
      BY <1>14 DEF vars
    <3>2. Typed' /\ Phased' /\ Homed'
      BY <1>0, <3>1 DEF SpillInv, Typed, Phased, Homed
    <3>3. LocalsAreFresh'
      BY <1>0, <3>1 DEF SpillInv, LocalsAreFresh, Top, Cell
    <3>4. ASSUME NEW c \in Coroutines PROVE Counted(c)' /\ (Live(c)' => Stand(c, v[c])')
      <4>1. Counted(c) /\ (Live(c) => Stand(c, v[c]))
        BY <1>0 DEF SpillInv
      <4>2. Counted(c)'
        BY <3>1, <4>1 DEF Counted, Held, Live
      <4>3. Live(c)' => Stand(c, v[c])'
        BY <3>1, <4>1 DEF Live, Stand, Held, Spilled
      <4>. QED
        BY <4>2, <4>3
    <3>. QED
      BY <1>2, <3>2, <3>3, <3>4 DEF SpillInv
  <2>2. Views(v)' = Views(v)
    BY <1>14 DEF vars, Views, View
  <2>3. Seen' = Seen
    BY <1>1, <2>1, <2>2
  <2>4. UNCHANGED <<phase, current, next, over>>
    BY <1>14 DEF vars
  <2>. QED
    BY <2>1, <2>3, <2>4 DEF SpillInvariant, Stacks!vars, Seen
<1>. QED
  BY <1>3, <1>4, <1>5, <1>6, <1>7, <1>8, <1>9, <1>10, <1>11, <1>12, <1>13, <1>14 DEF Next

\* It starts as the abstract program does.
LEMMA SpillStart ==
  ASSUME Init, Faithful
  PROVE  SpillInvariant /\ Stacks!Init
<1>1. PICK v : SpillInv(v) /\ Views(v) = [c \in Coroutines |-> <<Stacks!Entered(c, 1, Body)>>]
  BY InitStands
<1>2. Seen = [c \in Coroutines |-> <<Stacks!Entered(c, 1, Body)>>]
  BY <1>1 DEF Faithful
<1>3. Stacks!Init
  BY <1>2 DEF Stacks!Init, Seen, Init
<1>. QED
  BY <1>1, <1>3 DEF SpillInvariant

\* The invariant holds always.
LEMMA SpillAlways == Spec => []SpillInvariant
<1>1. Faithful /\ Faithful'
  BY AlwaysFaithful, PTL
<1>2. Init => SpillInvariant
  BY AlwaysFaithful, SpillStart
<1>3. SpillInvariant /\ [Next]_vars => SpillInvariant'
  BY <1>1, SpillStep
<1>. QED
  BY <1>2, <1>3, PTL DEF Spec

(***************************************************************************)
(* However calls, transfers, captured writes, unwinding and rewinding      *)
(* alternate, the one physical stack and the buffers of asyncify.rs and    *)
(* seq_runtime.rs are a stack for each coroutine: no activation, reference *)
(* or variable is lost, exchanged or changed.                              *)
(***************************************************************************)
THEOREM SpillingImplementsStacks == Spec => ImplementsStacks
<1>1. Faithful /\ Faithful'
  BY AlwaysFaithful, PTL
<1>2. Init => Stacks!Init
  BY AlwaysFaithful, SpillStart
<1>3. SpillInvariant /\ [Next]_vars => [Stacks!Next]_(Stacks!vars)
  BY <1>1, SpillStep
<1>. QED
  BY <1>2, <1>3, SpillAlways, PTL DEF Spec, ImplementsStacks, Stacks!Spec

\* The buffers match.
LEMMA SpillMatches == SpillInvariant => BuffersMatch
<1> SUFFICES ASSUME NEW v, SpillInv(v) PROVE BuffersMatch
  BY DEF SpillInvariant
<1>1. Typed /\ Phased /\ v \in [Coroutines -> Seq(Spot)]
  BY DEF SpillInv
<1>2. ASSUME NEW c \in Coroutines
      PROVE  /\ \A i \in DOMAIN frames[c] : frames[c][i] \in Frames
             /\ Len(frames[c]) <= MaxDepth
             /\ \A i \in DOMAIN cells[c] : cells[c][i] \in Values
             /\ Len(spine[c]) = Words(frames[c], Len(frames[c]))
  <2>1. Counted(c) /\ (Live(c) => Stand(c, v[c]))
    BY DEF SpillInv
  <2>2. PICK F, H : F = Len(frames[c]) /\ H = Held(c)
    OBVIOUS
  <2>3. frames[c] \in Seq(Frames) /\ cells[c] \in Seq(Values) /\ F \in Nat /\ H \in Nat
    BY <1>1, <2>2 DEF Typed, Held
  <2>4. F <= MaxDepth
    <3>1. CASE Live(c)
      <4>1. F + H = Len(cells[c]) /\ Len(cells[c]) <= MaxDepth
        BY <2>1, <2>2, <2>3, <3>1 DEF Stand, Counted
      <4>. QED
        BY <2>3, <4>1, SpillStacksAssumption
    <3>2. CASE ~started[c]
      <4>1. frames[c] = <<>>
        BY <2>1, <3>2 DEF Counted
      <4>2. F = 0
        BY <2>2, <4>1
      <4>. QED
        BY <4>2, SpillStacksAssumption
    <3>3. CASE over[c]
      <4>1. F + H <= 1
        BY <2>1, <2>2, <3>3 DEF Counted
      <4>. QED
        BY <2>3, <4>1, SpillStacksAssumption
    <3>. QED
      BY <3>1, <3>2, <3>3 DEF Live
  <2>. QED
    BY <2>1, <2>2, <2>3, <2>4 DEF Counted
<1>3. \A i \in DOMAIN phys : phys[i] \in Activations
  BY <1>1 DEF Typed
<1>4. TypeOK
  BY <1>1, <1>2, <1>3 DEF TypeOK, Typed
<1>5. phase = "rewinding" => frames[current] # <<>> /\ Last(frames[current]).fn = Entering
  BY EntersItsFrame
<1>. QED
  BY <1>2, <1>4, <1>5 DEF BuffersMatch

(***************************************************************************)
(* frame_push and frame_pop keep the two buffers of a coroutine of one     *)
(* length, and a rewind only ever takes back the frame of the function it  *)
(* enters, at a point that function has.                                   *)
(***************************************************************************)
THEOREM BuffersAlwaysMatch == Spec => []BuffersMatch
BY SpillAlways, SpillMatches, PTL

(***************************************************************************)
(* While a program runs, the local it computes with is its home cell's     *)
(* value, whatever captures wrote while it was a caller or spilled; only a *)
(* helper's store in the running activation goes unseen.                   *)
(***************************************************************************)
THEOREM LocalsStayFresh == Spec => []LocalsAreFresh
<1>1. SpillInvariant => LocalsAreFresh
  BY DEF SpillInvariant, SpillInv
<1>. QED
  BY <1>1, SpillAlways, PTL
===============================================================================
