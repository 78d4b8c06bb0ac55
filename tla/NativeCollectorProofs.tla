------------------------ MODULE NativeCollectorProofs ------------------------
(***************************************************************************)
(* Proofs about NativeCollector, for any heap, any number of coroutines    *)
(* and activations and any sequence of failures to grow the gray stack.    *)
(*                                                                         *)
(* CollectorInv has three parts: what the program has in hand are managed  *)
(* blocks (HeapSafe), the chains of root frames are those of the stacks,   *)
(* and, during a collection, the marking invariant (MarkInv): a marked     *)
(* block whose referents are not all marked is one that will be traced.    *)
(***************************************************************************)
EXTENDS NativeCollector, TLAPS

HeapSafe ==
  /\ \A b \in blocks : ref[b] \subseteq blocks
  /\ \A b \in Block \ blocks : ref[b] = {}
  /\ \A c \in Coroutine : life[c] # "none" =>
        \A f \in Range(stack[c]) : slot[f] \subseteq blocks
  /\ \A c \in Coroutine : object[c] # None => object[c] \in blocks
  /\ \A p \in Pin : pins[p] # None => pins[p] \in blocks
  /\ held \subseteq blocks
  /\ defer = 0 => held = {}
  /\ life[current] = "live"
  /\ \A c \in Coroutine : life[c] = "none" => stack[c] = <<>>
  /\ defer # 0 => stack[current] # <<>>

\* Every marked block is, or will be, traced.
Pending(b) == b \in gray \/ b \in walk \/ overflow

MarkInv ==
  status = "marking" =>
    /\ defer = 0
    /\ marked \subseteq blocks /\ gray \subseteq marked
    /\ Roots \cap blocks \subseteq marked
    /\ \A b \in marked : ref[b] \subseteq marked \/ Pending(b)
    /\ \A S \in SUBSET blocks : Roots \cap blocks \subseteq S /\ Closed(S) => marked \subseteq S

CollectorInv == TypeOK /\ HeapSafe /\ ChainsMatchStacks /\ MarkInv

(***************************************************************************)
(* A root frame pushed on a chain, and the innermost one popped.           *)
(***************************************************************************)
LEMMA PushRange ==
  ASSUME NEW s \in Seq(Frame), NEW f \in Frame
  PROVE  /\ Append(s, f) \in Seq(Frame)
         /\ Range(Append(s, f)) = Range(s) \cup {f}
<1>1. /\ Append(s, f) \in Seq(Frame)
      /\ Len(Append(s, f)) = Len(s) + 1 /\ Len(s) \in Nat
      /\ \A i \in 1..Len(s) : Append(s, f)[i] = s[i]
      /\ Append(s, f)[Len(s) + 1] = f
  OBVIOUS
<1>2. DOMAIN s = 1..Len(s) /\ DOMAIN Append(s, f) = 1..(Len(s) + 1)
  BY <1>1
<1>3. Range(Append(s, f)) \subseteq Range(s) \cup {f}
  <2>1. ASSUME NEW i \in 1..(Len(s) + 1) PROVE i \in 1..Len(s) \/ i = Len(s) + 1
    BY <1>1
  <2>. QED
    BY <1>1, <1>2, <2>1 DEF Range
<1>4. Range(s) \cup {f} \subseteq Range(Append(s, f))
  <2>1. 1..Len(s) \subseteq 1..(Len(s) + 1) /\ Len(s) + 1 \in 1..(Len(s) + 1)
    BY <1>1
  <2>. QED
    BY <1>1, <1>2, <2>1 DEF Range
<1>. QED
  BY <1>1, <1>3, <1>4

LEMMA PopRange ==
  ASSUME NEW s \in Seq(Frame), s # <<>>
  PROVE  /\ SubSeq(s, 1, Len(s) - 1) \in Seq(Frame)
         /\ Range(SubSeq(s, 1, Len(s) - 1)) \subseteq Range(s)
         /\ s[Len(s)] \in Range(s) /\ s[Len(s)] \in Frame
<1>1. Len(s) \in Nat \ {0} /\ DOMAIN s = 1..Len(s) /\ s \in [1..Len(s) -> Frame]
  OBVIOUS
<1>. DEFINE t == SubSeq(s, 1, Len(s) - 1)
<1>2. t \in Seq(Frame) /\ Len(t) = Len(s) - 1
  BY <1>1
<1>3. DOMAIN t = 1..(Len(s) - 1) /\ \A i \in 1..(Len(s) - 1) : t[i] = s[i]
  BY <1>1, <1>2
<1>4. 1..(Len(s) - 1) \subseteq 1..Len(s) /\ Len(s) \in 1..Len(s)
  BY <1>1
<1>5. Range(t) \subseteq Range(s)
  BY <1>1, <1>3, <1>4 DEF Range
<1>6. s[Len(s)] \in Range(s) /\ s[Len(s)] \in Frame
  BY <1>1, <1>4 DEF Range
<1>. QED
  BY <1>2, <1>5, <1>6

(***************************************************************************)
(* The innermost activation of a stack in use, and what it may be given.   *)
(***************************************************************************)
LEMMA MineSafe ==
  ASSUME TypeOK, HeapSafe, stack[current] # <<>>
  PROVE  /\ Top(current) \in Frame /\ Top(current) \in Range(stack[current])
         /\ Mine \subseteq blocks
<1>1. stack[current] \in Seq(Frame)
  BY DEF TypeOK
<1>2. Top(current) \in Frame /\ Top(current) \in Range(stack[current])
  BY <1>1, PopRange DEF Top
<1>. QED
  BY <1>2 DEF HeapSafe, Mine, TypeOK

LEMMA PutSafe ==
  ASSUME TypeOK, HeapSafe, stack[current] # <<>>, NEW y, Put(y),
         NEW B, blocks \subseteq B, B \subseteq Block, y \in B
  PROVE  /\ slot' \in [Frame -> SUBSET Block]
         /\ \A c \in Coroutine : life[c] # "none" =>
              \A f \in Range(stack[c]) : slot'[f] \subseteq B
<1>1. Top(current) \in Frame /\ Mine \subseteq blocks
  BY MineSafe
<1>2. PICK kept \in SUBSET Mine : slot' = [slot EXCEPT ![Top(current)] = kept \cup {y}]
  BY DEF Put
<1>3. kept \cup {y} \subseteq B
  BY <1>1
<1>4. slot' \in [Frame -> SUBSET Block]
  BY <1>1, <1>2, <1>3 DEF TypeOK
<1>5. ASSUME NEW c \in Coroutine, life[c] # "none", NEW f \in Range(stack[c])
      PROVE  slot'[f] \subseteq B
  <2>1. f \in Frame
    BY DEF TypeOK, Range
  <2>2. slot[f] \subseteq B
    BY <1>5 DEF HeapSafe
  <2>. QED
    BY <1>2, <1>3, <2>1, <2>2 DEF TypeOK
<1>. QED
  BY <1>4, <1>5

LEMMA CollectorInit == Init => CollectorInv
<1> SUFFICES ASSUME Init PROVE CollectorInv
  OBVIOUS
<1>1. TypeOK
  <2>1. <<>> \in Seq(Frame)
    OBVIOUS
  <2>2. stack \in [Coroutine -> Seq(Frame)] /\ parked \in [Coroutine -> Seq(Frame)]
    BY <2>1 DEF Init
  <2>3. roots \in Seq(Frame) /\ defer \in 0..MaxDefer
    BY <2>1, CollectorAssumption DEF Init
  <2>. QED
    BY <2>2, <2>3, CollectorAssumption DEF Init, TypeOK
<1>2. HeapSafe
  BY CollectorAssumption DEF Init, HeapSafe, Range
<1>3. ChainsMatchStacks
  BY CollectorAssumption DEF Init, ChainsMatchStacks
<1>4. MarkInv
  BY DEF Init, MarkInv
<1>. QED
  BY <1>1, <1>2, <1>3, <1>4 DEF CollectorInv

(***************************************************************************)
(* Steps of the program: activations and stacks.                           *)
(***************************************************************************)
LEMMA CallStep ==
  ASSUME CollectorInv, NEW f \in Frame, NEW args \in SUBSET Block, Call(f, args)
  PROVE  CollectorInv'
<1> USE DEF CollectorInv
<1>1. /\ roots \in Seq(Frame) /\ stack[current] \in Seq(Frame) /\ current \in Coroutine
      /\ roots = stack[current]
  BY DEF TypeOK, ChainsMatchStacks
<1>2. args \subseteq blocks
  <2>1. CASE stack[current] # <<>>
    BY <2>1, MineSafe DEF Call
  <2>2. CASE stack[current] = <<>>
    BY <2>2, <1>1 DEF Call, HeapSafe
  <2>. QED
    BY <2>1, <2>2
<1>3. /\ roots' = Append(roots, f)
      /\ slot' = [slot EXCEPT ![f] = args]
      /\ stack' = [stack EXCEPT ![current] = Append(stack[current], f)]
      /\ Append(roots, f) \in Seq(Frame)
      /\ Range(Append(stack[current], f)) = Range(stack[current]) \cup {f}
  BY <1>1, PushRange DEF Call, RootPush
<1>4. TypeOK'
  BY <1>1, <1>3 DEF Call, Quiet, trace, TypeOK
<1>5. ASSUME NEW c \in Coroutine, life[c] # "none", NEW g \in Range(stack'[c])
      PROVE  slot'[g] \subseteq blocks
  <2>1. g \in Range(stack[c]) \/ g = f
    BY <1>3, <1>5 DEF TypeOK
  <2>2. g \in Frame
    BY <2>1 DEF TypeOK, Range
  <2>. QED
    BY <1>2, <1>3, <1>5, <2>1, <2>2 DEF HeapSafe, TypeOK
<1>6. HeapSafe'
  BY <1>5 DEF Call, Quiet, HeapSafe
<1>7. ChainsMatchStacks'
  BY <1>1, <1>3 DEF Call, ChainsMatchStacks, TypeOK
<1>8. MarkInv'
  BY DEF Call, InCode, Running, Quiet, MarkInv
<1>. QED
  BY <1>4, <1>6, <1>7, <1>8

LEMMA ReturnStep ==
  ASSUME CollectorInv, NEW results \in SUBSET Block, Return(results)
  PROVE  CollectorInv'
<1> USE DEF CollectorInv
<1>. DEFINE rest == SubSeq(stack[current], 1, Len(stack[current]) - 1)
            f == Top(current)
            left == [slot EXCEPT ![f] = {}]
            caller == stack[current][Len(stack[current]) - 1]
<1>1. /\ stack[current] \in Seq(Frame) /\ current \in Coroutine /\ stack[current] # <<>>
      /\ roots = stack[current] /\ life[current] = "live" /\ defer = 0
      /\ status = "mutator"
  BY DEF Return, InFrame, InCode, Running, TypeOK, ChainsMatchStacks, HeapSafe
<1>2. rest \in Seq(Frame) /\ Range(rest) \subseteq Range(stack[current]) /\ f \in Frame
  BY <1>1, PopRange DEF Top
<1>3. roots' = rest /\ stack' = [stack EXCEPT ![current] = rest] /\ status' = status
  BY <1>1 DEF Return, RootPop, Top
<1>4. results \subseteq blocks
  BY <1>1, MineSafe DEF Return
<1>5. /\ slot' \in [Frame -> SUBSET Block]
      /\ \A c \in Coroutine : life[c] # "none" =>
           \A g \in Range(stack[c]) : slot'[g] \subseteq blocks
  <2>1. left \in [Frame -> SUBSET Block] /\ \A g \in Frame : left[g] \subseteq slot[g]
    BY <1>2 DEF TypeOK
  <2>2. \A c \in Coroutine : \A g \in Range(stack[c]) : g \in Frame
    BY DEF TypeOK, Range
  <2>3. CASE results = {}
    <3>1. slot' = left
      BY <2>3 DEF Return
    <3>. QED
      BY <2>1, <2>2, <3>1 DEF HeapSafe
  <2>4. CASE results # {}
    <3>1. PICK kept \in SUBSET slot[caller] : slot' = [left EXCEPT ![caller] = kept \cup results]
      BY <2>4 DEF Return
    <3>2. Len(stack[current]) \in Nat \ {0, 1}
      BY <1>1, <2>4 DEF Return
    <3>3. caller \in Range(stack[current]) /\ caller \in Frame
      <4>0. \A n \in Nat \ {0, 1} : n - 1 \in 1..n
        OBVIOUS
      <4>1. Len(stack[current]) - 1 \in 1..Len(stack[current])
        BY <3>2, <4>0
      <4>2. /\ DOMAIN stack[current] = 1..Len(stack[current])
            /\ stack[current] \in [1..Len(stack[current]) -> Frame]
        BY <1>1
      <4>. QED
        BY <4>1, <4>2 DEF Range
    <3>4. kept \cup results \subseteq blocks
      BY <1>1, <1>4, <3>3 DEF HeapSafe
    <3>5. blocks \subseteq Block
      BY DEF TypeOK
    <3>. QED
      BY <2>1, <2>2, <3>1, <3>3, <3>4, <3>5 DEF HeapSafe
  <2>. QED
    BY <2>3, <2>4
<1>6. TypeOK'
  BY <1>1, <1>2, <1>3, <1>5 DEF Return, trace, TypeOK
<1>7. ASSUME NEW c \in Coroutine PROVE Range(stack'[c]) \subseteq Range(stack[c])
  BY <1>1, <1>2, <1>3 DEF TypeOK
<1>8. HeapSafe'
  BY <1>1, <1>3, <1>5, <1>7 DEF Return, HeapSafe, TypeOK
<1>9. ChainsMatchStacks'
  BY <1>1, <1>3 DEF Return, ChainsMatchStacks, TypeOK
<1>10. MarkInv'
  BY <1>1, <1>3 DEF MarkInv
<1>. QED
  BY <1>6, <1>8, <1>9, <1>10

LEMMA SwitchStep ==
  ASSUME CollectorInv, NEW to \in Coroutine, Switch(to) \/ Finish(to)
  PROVE  CollectorInv'
<1> USE DEF CollectorInv
<1>1. /\ current' = to /\ to # current /\ life[to] = "live" /\ status = "mutator"
      /\ parked' = [parked EXCEPT ![current] = roots] /\ roots' = parked[to]
      /\ UNCHANGED <<ref, slot, stack, object, pins, held, defer>> /\ Quiet
  BY DEF Switch, Finish, InFrame, InCode, Running, ExchangeRoots
<1>2. life' = life \/ life' = [life EXCEPT ![current] = "done"]
  BY DEF Switch, Finish
<1>3. life' \in [Coroutine -> {"none", "live", "done"}]
  BY <1>2 DEF TypeOK
<1>4. TypeOK'
  BY <1>1, <1>3 DEF Quiet, trace, TypeOK
<1>5. /\ \A c \in Coroutine : life'[c] = "none" <=> life[c] = "none"
      /\ life'[to] = "live"
  BY <1>1, <1>2 DEF TypeOK, HeapSafe
<1>6. HeapSafe'
  BY <1>1, <1>5 DEF Quiet, HeapSafe, Switch, Finish, InFrame, InCode
<1>7. ChainsMatchStacks'
  BY <1>1, <1>5 DEF ChainsMatchStacks, TypeOK
<1>8. MarkInv'
  BY <1>1 DEF Quiet, MarkInv
<1>. QED
  BY <1>4, <1>6, <1>7, <1>8

LEMMA CreateStep ==
  ASSUME CollectorInv, NEW c \in Coroutine, NEW x \in Block, Create(c, x)
  PROVE  CollectorInv'
<1> USE DEF CollectorInv
<1>1. x \in blocks
  BY MineSafe DEF Create, InFrame
<1>2. status = "mutator" /\ life[c] = "none" /\ c # current
  BY DEF Create, InFrame, InCode, Running, HeapSafe
<1>3. <<>> \in Seq(Frame)
  OBVIOUS
<1>4. TypeOK'
  BY <1>1, <1>3 DEF Create, Quiet, trace, TypeOK
<1>5. HeapSafe'
  <2>1. Range(stack[c]) = {}
    BY <1>2 DEF HeapSafe, Range
  <2>. QED
    BY <1>1, <1>2, <2>1 DEF Create, Quiet, HeapSafe, TypeOK
<1>6. ChainsMatchStacks'
  BY <1>2 DEF Create, ChainsMatchStacks, HeapSafe, TypeOK
<1>7. MarkInv'
  BY <1>2 DEF Create, Quiet, MarkInv
<1>. QED
  BY <1>4, <1>5, <1>6, <1>7

LEMMA DestroyStep ==
  ASSUME CollectorInv, NEW c \in Coroutine, Destroy(c)
  PROVE  CollectorInv'
<1> USE DEF CollectorInv
<1>1. /\ status = "mutator" /\ c # current /\ Range(<<>>) = {} /\ <<>> \in Seq(Frame)
      /\ life' = [life EXCEPT ![c] = "none"] /\ stack' = [stack EXCEPT ![c] = <<>>]
  BY DEF Destroy, InCode, Running, Range
<1>2. /\ slot' \in [Frame -> SUBSET Block]
      /\ \A f \in Frame : slot'[f] \subseteq slot[f]
  BY DEF Destroy, TypeOK
<1>3. TypeOK'
  BY <1>1, <1>2 DEF Destroy, Quiet, trace, TypeOK
<1>4. \A d \in Coroutine : \A f \in Range(stack[d]) : f \in Frame
  BY DEF TypeOK, Range
<1>5. HeapSafe'
  BY <1>1, <1>2, <1>4 DEF Destroy, Quiet, HeapSafe, TypeOK
<1>6. ChainsMatchStacks'
  BY <1>1 DEF Destroy, ChainsMatchStacks, TypeOK
<1>7. MarkInv'
  BY <1>1 DEF Destroy, Quiet, MarkInv
<1>. QED
  BY <1>3, <1>5, <1>6, <1>7

(***************************************************************************)
(* Steps of the program: the heap, the helpers and the pins.               *)
(***************************************************************************)
LEMMA PutStep ==
  ASSUME CollectorInv, stack[current] # <<>>, status = "mutator",
         NEW y \in blocks, Put(y),
         UNCHANGED <<ref, stack, life, object, current, roots, parked, pins, blocks,
                     status, marked, gray, overflow, walk>>,
         held' \subseteq held, defer' \in 0..MaxDefer, defer' = 0 => held' = {}
  PROVE  CollectorInv'
<1> USE DEF CollectorInv
<1>1. blocks \subseteq Block /\ held \subseteq blocks
  BY DEF TypeOK, HeapSafe
<1>2. /\ slot' \in [Frame -> SUBSET Block]
      /\ \A c \in Coroutine : life[c] # "none" =>
           \A f \in Range(stack[c]) : slot'[f] \subseteq blocks
  BY <1>1, PutSafe
<1>3. TypeOK'
  BY <1>1, <1>2 DEF TypeOK
<1>4. HeapSafe'
  BY <1>1, <1>2 DEF HeapSafe
<1>5. ChainsMatchStacks' /\ MarkInv'
  BY DEF ChainsMatchStacks, MarkInv
<1>. QED
  BY <1>3, <1>4, <1>5

LEMMA TwoBlockSteps ==
  ASSUME CollectorInv, NEW x \in Block, NEW y \in Block, Load(x, y) \/ HelperLink(x, y)
  PROVE  CollectorInv'
<1> USE DEF CollectorInv
<1>1. CASE Load(x, y)
  <2>1. y \in blocks
    BY <1>1, MineSafe DEF Load, InFrame, HeapSafe
  <2>2. defer \in 0..MaxDefer /\ (defer = 0 => held = {})
    BY DEF TypeOK, HeapSafe
  <2>. QED
    BY <1>1, <2>1, <2>2, PutStep DEF Load, InFrame, InCode, Running, Quiet, trace
<1>2. CASE HelperLink(x, y)
  <2>1. x \in blocks /\ y \in blocks
    BY <1>2 DEF HelperLink, HeapSafe
  <2>2. ref' = [ref EXCEPT ![x] = ref[x] \cup {y}] /\ status = "mutator"
    BY <1>2 DEF HelperLink, Running
  <2>3. TypeOK'
    BY <1>2, <2>1, <2>2 DEF HelperLink, Quiet, trace, TypeOK
  <2>4. HeapSafe'
    BY <1>2, <2>1, <2>2 DEF HelperLink, Quiet, HeapSafe, TypeOK
  <2>5. ChainsMatchStacks' /\ MarkInv'
    BY <1>2, <2>2 DEF HelperLink, Quiet, ChainsMatchStacks, MarkInv
  <2>. QED
    BY <2>3, <2>4, <2>5
<1>. QED
  BY <1>1, <1>2

LEMMA StoreStep ==
  ASSUME CollectorInv, NEW x \in Block, NEW new \in SUBSET Block, Store(x, new)
  PROVE  CollectorInv'
<1> USE DEF CollectorInv
<1>1. x \in blocks /\ new \subseteq blocks
  BY MineSafe DEF Store, InFrame, HeapSafe
<1>2. ref' = [ref EXCEPT ![x] = new] /\ status = "mutator"
  BY DEF Store, InFrame, InCode, Running
<1>3. TypeOK'
  BY <1>1, <1>2 DEF Store, Quiet, trace, TypeOK
<1>4. HeapSafe'
  BY <1>1, <1>2 DEF Store, Quiet, HeapSafe, TypeOK
<1>5. ChainsMatchStacks' /\ MarkInv'
  BY <1>2 DEF Store, Quiet, ChainsMatchStacks, MarkInv
<1>. QED
  BY <1>3, <1>4, <1>5

LEMMA HelperEnterStep ==
  ASSUME CollectorInv, HelperEnter
  PROVE  CollectorInv'
<1> USE DEF CollectorInv
<1>1. defer \in 0..MaxDefer /\ defer' = defer + 1 /\ defer < MaxDefer /\ status = "mutator"
  BY DEF HelperEnter, TypeOK, Running
<1>2. defer' \in 0..MaxDefer /\ defer' # 0
  BY <1>1, CollectorAssumption
<1>3. TypeOK' /\ HeapSafe'
  BY <1>2 DEF HelperEnter, Quiet, trace, TypeOK, HeapSafe
<1>4. ChainsMatchStacks' /\ MarkInv'
  BY <1>1 DEF HelperEnter, Quiet, ChainsMatchStacks, MarkInv
<1>. QED
  BY <1>3, <1>4

LEMMA HelperLeaveStep ==
  ASSUME CollectorInv, NEW x \in Block, HelperLeave(x)
  PROVE  CollectorInv'
<1> USE DEF CollectorInv
<1>1. x \in blocks /\ defer \in 1..MaxDefer /\ stack[current] # <<>> /\ status = "mutator"
  BY CollectorAssumption DEF HelperLeave, Running, HeapSafe, TypeOK
<1>2. defer' = defer - 1 /\ defer' \in 0..MaxDefer
  BY <1>1, CollectorAssumption DEF HelperLeave
<1>3. CASE defer = 1
  <2>1. Put(x) /\ held' = {}
    BY <1>3 DEF HelperLeave
  <2>. QED
    BY <1>1, <1>2, <2>1, PutStep DEF HelperLeave, Quiet, trace
<1>4. CASE defer # 1
  <2>1. defer' # 0 /\ UNCHANGED <<slot, held>>
    BY <1>1, <1>2, <1>4 DEF HelperLeave
  <2>2. TypeOK' /\ HeapSafe'
    BY <1>1, <1>2, <2>1 DEF HelperLeave, Quiet, trace, TypeOK, HeapSafe
  <2>3. ChainsMatchStacks' /\ MarkInv'
    BY <1>1 DEF HelperLeave, Quiet, ChainsMatchStacks, MarkInv
  <2>. QED
    BY <2>2, <2>3
<1>. QED
  BY <1>3, <1>4

LEMMA RefPinStep ==
  ASSUME CollectorInv, NEW x \in Block, RefPin(x)
  PROVE  CollectorInv'
<1> USE DEF CollectorInv
<1>1. x \in blocks /\ status = "mutator"
  BY MineSafe DEF RefPin, InFrame, InCode, Running
<1>2. pins' = pins \/ \E q \in Pin : pins' = [pins EXCEPT ![q] = x]
  BY DEF RefPin
<1>3. status' \in {"mutator", "aborted"}
  BY <1>1 DEF RefPin
<1>4. TypeOK'
  BY <1>2, <1>3 DEF RefPin, trace, TypeOK
<1>5. HeapSafe'
  BY <1>1, <1>2 DEF RefPin, HeapSafe, TypeOK
<1>6. ChainsMatchStacks' /\ MarkInv'
  BY <1>3 DEF RefPin, ChainsMatchStacks, MarkInv
<1>. QED
  BY <1>4, <1>5, <1>6

LEMMA PinSteps ==
  ASSUME CollectorInv, NEW p \in Pin, RefUnpin(p) \/ RefGet(p)
  PROVE  CollectorInv'
<1> USE DEF CollectorInv
<1>1. CASE RefUnpin(p)
  <2>1. status = "mutator"
    BY <1>1 DEF RefUnpin, InCode, Running
  <2>2. TypeOK'
    BY <1>1 DEF RefUnpin, Quiet, trace, TypeOK
  <2>3. HeapSafe'
    BY <1>1 DEF RefUnpin, Quiet, HeapSafe, TypeOK
  <2>4. ChainsMatchStacks' /\ MarkInv'
    BY <1>1, <2>1 DEF RefUnpin, Quiet, ChainsMatchStacks, MarkInv
  <2>. QED
    BY <2>2, <2>3, <2>4
<1>2. CASE RefGet(p)
  <2>1. pins[p] \in blocks
    BY <1>2 DEF RefGet, HeapSafe
  <2>2. defer \in 0..MaxDefer /\ (defer = 0 => held = {})
    BY DEF TypeOK, HeapSafe
  <2>. QED
    BY <1>2, <2>1, <2>2, PutStep DEF RefGet, InFrame, InCode, Running, Quiet, trace
<1>. QED
  BY <1>1, <1>2

LEMMA AllocateStep ==
  ASSUME CollectorInv, NEW b \in Block, Allocate(b) \/ HelperAllocate(b)
  PROVE  CollectorInv'
<1> USE DEF CollectorInv
<1>1. /\ b \notin blocks /\ blocks' = blocks \cup {b} /\ ref[b] = {} /\ status = "mutator"
      /\ UNCHANGED <<ref, stack, life, object, current, roots, parked, pins, defer, status,
                     marked, gray, overflow, walk>>
  BY DEF Allocate, HelperAllocate, InFrame, InCode, Running, Take, trace, HeapSafe
<1>2. blocks' \subseteq Block /\ b \in blocks' /\ blocks \subseteq blocks'
  BY <1>1 DEF TypeOK
<1>3. /\ slot' \in [Frame -> SUBSET Block]
      /\ \A c \in Coroutine : life[c] # "none" =>
           \A f \in Range(stack[c]) : slot'[f] \subseteq blocks'
  <2>1. CASE Allocate(b)
    BY <1>2, <2>1, PutSafe DEF Allocate, InFrame
  <2>2. CASE HelperAllocate(b)
    BY <1>2, <2>2 DEF HelperAllocate, HeapSafe, TypeOK
  <2>. QED
    BY <2>1, <2>2
<1>4. held' \subseteq blocks' /\ (defer' = 0 => held' = {})
  BY <1>1, <1>2 DEF Allocate, HelperAllocate, HeapSafe
<1>5. TypeOK'
  BY <1>1, <1>2, <1>3, <1>4 DEF TypeOK
<1>6. HeapSafe'
  BY <1>1, <1>2, <1>3, <1>4 DEF HeapSafe
<1>7. ChainsMatchStacks' /\ MarkInv'
  BY <1>1 DEF ChainsMatchStacks, MarkInv
<1>. QED
  BY <1>5, <1>6, <1>7

(***************************************************************************)
(* Steps of a collection.  Marking a set of words that lie in what must be *)
(* kept leaves only blocks that are marked, or will be traced.             *)
(***************************************************************************)
LEMMA MarkingStep ==
  ASSUME CollectorInv, NEW words, NEW was \in SUBSET blocks, NEW wasGray \in SUBSET was,
         NEW wasOver \in BOOLEAN,
         MarkAll(words, was, wasGray, wasOver),
         UNCHANGED <<blocks, program>>, status' = "marking", defer = 0,
         walk' \in SUBSET Block,
         Roots \cap blocks \subseteq was \cup words,
         \A b \in was : \/ b \in wasGray \/ b \in walk' \/ wasOver
                        \/ ref[b] \subseteq was \cup words,
         \A S \in SUBSET blocks : Roots \cap blocks \subseteq S /\ Closed(S) =>
            was \subseteq S /\ words \cap blocks \subseteq S
  PROVE  CollectorInv'
<1> USE DEF CollectorInv
<1>. DEFINE new == (words \cap blocks) \ was
<1>1. PICK pushed \in SUBSET new : /\ marked' = was \cup new
                                  /\ gray' = wasGray \cup pushed
                                  /\ overflow' = (wasOver \/ pushed # new)
  BY DEF MarkAll
<1>2. TypeOK' /\ HeapSafe' /\ ChainsMatchStacks'
  BY <1>1 DEF program, TypeOK, HeapSafe, ChainsMatchStacks
<1>3. Roots' = Roots /\ \A S : Closed(S)' = Closed(S)
  BY DEF program, Roots, ChainSlots, ParkedSlots, Closed
<1>4. was \cup (words \cap blocks) = marked'
  BY <1>1
<1>5. ASSUME NEW b \in marked' PROVE ref[b] \subseteq marked' \/ Pending(b)'
  <2>1. ref[b] \subseteq blocks
    BY <1>1 DEF HeapSafe
  <2>2. CASE b \in was
    BY <1>1, <1>4, <2>1, <2>2 DEF Pending
  <2>3. CASE b \in new
    BY <1>1, <2>3 DEF Pending
  <2>. QED
    BY <1>1, <2>2, <2>3
<1>6. MarkInv'
  BY <1>1, <1>3, <1>4, <1>5 DEF program, MarkInv
<1>. QED
  BY <1>2, <1>6

LEMMA CollectingStep ==
  ASSUME CollectorInv, CollectStart \/ Collecting
  PROVE  CollectorInv'
<1> USE DEF CollectorInv
<1>1. CASE CollectStart
  <2>1. MarkAll(Roots, {}, {}, FALSE) /\ walk' = {} /\ status' = "marking" /\ defer = 0
    BY <1>1 DEF CollectStart
  <2>2. /\ {} \in SUBSET blocks /\ {} \in SUBSET {} /\ FALSE \in BOOLEAN
        /\ walk' \in SUBSET Block /\ UNCHANGED <<blocks, program>>
        /\ Roots \cap blocks \subseteq {} \cup Roots
    BY <1>1, <2>1 DEF CollectStart
  <2>. QED
    BY ONLY CollectorInv, <2>1, <2>2, MarkingStep
<1>2. ASSUME NEW b \in Block, TraceGray(b) PROVE CollectorInv'
  <2>1. /\ MarkAll(ref[b], marked, gray \ {b}, overflow) /\ b \in gray /\ walk = {}
        /\ walk' = {} /\ status = "marking" /\ status' = "marking"
        /\ UNCHANGED <<blocks, program>>
    BY <1>2 DEF TraceGray
  <2>2. MarkInv /\ overflow \in BOOLEAN /\ walk \subseteq Block
    BY DEF TypeOK
  <2>3. \A S \in SUBSET blocks : Roots \cap blocks \subseteq S /\ Closed(S) =>
            marked \subseteq S /\ ref[b] \cap blocks \subseteq S
    BY <2>1, <2>2 DEF MarkInv, Closed
  <2>4. \A x \in marked : \/ x \in gray \ {b} \/ x \in walk' \/ overflow
                           \/ ref[x] \subseteq marked \cup ref[b]
    BY <2>1, <2>2 DEF MarkInv, Pending
  <2>5. /\ marked \in SUBSET blocks /\ gray \ {b} \in SUBSET marked /\ walk' \in SUBSET Block
        /\ Roots \cap blocks \subseteq marked \cup ref[b] /\ defer = 0 /\ overflow \in BOOLEAN
    BY <2>1, <2>2 DEF MarkInv
  <2>. QED
    BY ONLY CollectorInv, <2>1, <2>3, <2>4, <2>5, MarkingStep
<1>3. ASSUME NEW b \in Block, Retrace(b) PROVE CollectorInv'
  <2>1. /\ b \in walk /\ walk' = walk \ {b} /\ status = "marking" /\ status' = "marking"
        /\ UNCHANGED <<blocks, program>>
    BY <1>3 DEF Retrace
  <2>2. MarkInv /\ overflow \in BOOLEAN /\ walk \subseteq Block
    BY DEF TypeOK
  <2>3. CASE b \in marked
    <3>1. MarkAll(ref[b], marked, gray, overflow)
      BY <1>3, <2>3 DEF Retrace
    <3>2. \A S \in SUBSET blocks : Roots \cap blocks \subseteq S /\ Closed(S) =>
              marked \subseteq S /\ ref[b] \cap blocks \subseteq S
      BY <2>1, <2>2, <2>3 DEF MarkInv, Closed
    <3>3. \A x \in marked : \/ x \in gray \/ x \in walk' \/ overflow
                             \/ ref[x] \subseteq marked \cup ref[b]
      BY <2>1, <2>2 DEF MarkInv, Pending
    <3>4. /\ marked \in SUBSET blocks /\ gray \in SUBSET marked /\ walk' \in SUBSET Block
          /\ Roots \cap blocks \subseteq marked \cup ref[b] /\ defer = 0 /\ overflow \in BOOLEAN
      BY <2>1, <2>2 DEF MarkInv
    <3>. QED
      BY ONLY CollectorInv, <2>1, <3>1, <3>2, <3>3, <3>4, MarkingStep
  <2>4. CASE b \notin marked
    <3>1. UNCHANGED <<marked, gray, overflow>>
      BY <1>3, <2>4 DEF Retrace
    <3>2. TypeOK' /\ HeapSafe' /\ ChainsMatchStacks'
      BY <2>1, <3>1 DEF program, TypeOK, HeapSafe, ChainsMatchStacks
    <3>3. Roots' = Roots /\ \A S : Closed(S)' = Closed(S)
      BY <2>1 DEF program, Roots, ChainSlots, ParkedSlots, Closed
    <3>4. MarkInv'
      BY <2>1, <2>2, <2>4, <3>1, <3>3 DEF program, MarkInv, Pending
    <3>. QED
      BY <3>2, <3>4
  <2>. QED
    BY <2>3, <2>4
<1>4. CASE RetraceStart
  <2>1. Roots' = Roots /\ \A S : Closed(S)' = Closed(S)
    BY <1>4 DEF RetraceStart, program, Roots, ChainSlots, ParkedSlots, Closed
  <2>2. TypeOK' /\ HeapSafe' /\ ChainsMatchStacks'
    BY <1>4 DEF RetraceStart, program, TypeOK, HeapSafe, ChainsMatchStacks
  <2>3. MarkInv'
    BY <1>4, <2>1 DEF RetraceStart, program, MarkInv, Pending
  <2>. QED
    BY <2>2, <2>3
<1>5. CASE Sweep
  <2>1. /\ status = "marking" /\ status' = "mutator" /\ walk = {} /\ gray = {} /\ ~overflow
        /\ blocks' = blocks \cap marked
        /\ ref' = [b \in Block |-> IF b \in marked THEN ref[b] ELSE {}]
        /\ UNCHANGED <<slot, stack, life, object, current, roots, parked, pins, held, defer>>
    BY <1>5 DEF Sweep
  <2>2. blocks' = marked /\ \A b \in marked : ref[b] \subseteq marked
    BY <2>1 DEF MarkInv, Pending
  <2>3. Roots \cap blocks \subseteq marked /\ held = {}
    BY <2>1 DEF MarkInv, HeapSafe
  <2>4. TypeOK'
    BY <1>5, <2>1 DEF Sweep, TypeOK
  <2>5. ASSUME NEW c \in Coroutine, life[c] # "none", NEW f \in Range(stack[c])
        PROVE  slot[f] \subseteq marked
    <3>1. slot[f] \subseteq Roots
      <4>1. CASE c = current
        BY <2>5, <4>1 DEF ChainsMatchStacks, Roots, ChainSlots
      <4>2. CASE c # current
        BY <2>5, <4>2 DEF ChainsMatchStacks, Roots, ParkedSlots, ChainSlots
      <4>. QED
        BY <4>1, <4>2
    <3>. QED
      BY <2>3, <2>5, <3>1 DEF HeapSafe
  <2>6. \A c \in Coroutine : object[c] # None => object[c] \in marked
    BY <2>3 DEF Roots, Range, HeapSafe, TypeOK
  <2>7. \A p \in Pin : pins[p] # None => pins[p] \in marked
    BY <2>3 DEF Roots, Range, HeapSafe, TypeOK
  <2>8. HeapSafe'
    BY <2>1, <2>2, <2>3, <2>5, <2>6, <2>7 DEF HeapSafe, TypeOK
  <2>9. ChainsMatchStacks' /\ MarkInv'
    BY <2>1 DEF ChainsMatchStacks, MarkInv
  <2>. QED
    BY <2>4, <2>8, <2>9
<1>. QED
  BY <1>1, <1>2, <1>3, <1>4, <1>5 DEF Collecting

LEMMA CollectorStep == CollectorInv /\ [Next]_vars => CollectorInv'
<1> SUFFICES ASSUME CollectorInv, [Next]_vars PROVE CollectorInv'
  OBVIOUS
<1>1. CASE UNCHANGED vars
  <2>1. Roots' = Roots /\ \A S : Closed(S)' = Closed(S)
    BY <1>1 DEF vars, program, Roots, ChainSlots, ParkedSlots, Closed
  <2>2. TypeOK' /\ HeapSafe' /\ ChainsMatchStacks'
    BY <1>1 DEF vars, program, trace, CollectorInv, TypeOK, HeapSafe, ChainsMatchStacks
  <2>3. MarkInv'
    BY <1>1, <2>1 DEF vars, program, trace, CollectorInv, MarkInv, Pending
  <2>. QED
    BY <2>2, <2>3 DEF CollectorInv
<1>2. CASE \E f \in Frame, args \in SUBSET Block : Call(f, args)
  BY <1>2, CallStep
<1>3. CASE \E results \in SUBSET Block : Return(results)
  BY <1>3, ReturnStep
<1>4. CASE \E c \in Coroutine : Switch(c) \/ Finish(c) \/ Destroy(c)
  BY <1>4, SwitchStep, DestroyStep
<1>5. CASE \E c \in Coroutine, x \in Block : Create(c, x)
  BY <1>5, CreateStep
<1>6. CASE \E x, y \in Block : Load(x, y) \/ HelperLink(x, y)
  BY <1>6, TwoBlockSteps
<1>7. CASE \E x \in Block, new \in SUBSET Block : Store(x, new)
  BY <1>7, StoreStep
<1>8. CASE \E x \in Block : Allocate(x) \/ HelperAllocate(x) \/ HelperLeave(x) \/ RefPin(x)
  BY <1>8, AllocateStep, HelperLeaveStep, RefPinStep
<1>9. CASE \E p \in Pin : RefUnpin(p) \/ RefGet(p)
  BY <1>9, PinSteps
<1>10. CASE HelperEnter
  BY <1>10, HelperEnterStep
<1>11. CASE CollectStart \/ Collecting
  BY <1>11, CollectingStep
<1>. QED
  BY <1>1, <1>2, <1>3, <1>4, <1>5, <1>6, <1>7, <1>8, <1>9, <1>10, <1>11 DEF Next

(***************************************************************************)
(* On any stack, through any switch, with a collection at any allocation:  *)
(* what the program can come to point to has not been swept.               *)
(***************************************************************************)
THEOREM NothingIsFreedInUse == Spec => []NothingDangles
<1>1. CollectorInv => NothingDangles
  <2> SUFFICES ASSUME CollectorInv PROVE NothingDangles
    OBVIOUS
  <2>. DEFINE Slots == UNION {ChainSlots(stack[c]) : c \in {d \in Coroutine : life[d] = "live"}}
  <2>1. Slots \subseteq blocks
    BY DEF CollectorInv, HeapSafe, ChainSlots
  <2>2. (Range(object) \ {None}) \subseteq blocks /\ (Range(pins) \ {None}) \subseteq blocks
    BY DEF CollectorInv, HeapSafe, TypeOK, Range
  <2>3. held \subseteq blocks /\ \A b \in blocks : ref[b] \subseteq blocks
    BY DEF CollectorInv, HeapSafe
  <2>4. InHand \subseteq blocks
    <3>1. InHand = Slots \cup held \cup (Range(object) \ {None}) \cup (Range(pins) \ {None})
      BY DEF InHand
    <3>. HIDE DEF Slots
    <3>. QED
      BY <2>1, <2>2, <2>3, <3>1
  <2>. QED
    BY <2>3, <2>4 DEF NothingDangles
<1>. QED
  BY <1>1, CollectorInit, CollectorStep, PTL DEF Spec

THEOREM TypeCorrect == Spec => []TypeOK
<1>1. CollectorInv => TypeOK
  BY DEF CollectorInv
<1>. QED
  BY <1>1, CollectorInit, CollectorStep, PTL DEF Spec

(***************************************************************************)
(* Every switch of stacks exchanges the chains of root frames, so no frame *)
(* is hidden from a collection and no pop finds another stack's frame.     *)
(***************************************************************************)
THEOREM ChainsFollowStacks == Spec => []ChainsMatchStacks
<1>1. CollectorInv => ChainsMatchStacks
  BY DEF CollectorInv
<1>. QED
  BY <1>1, CollectorInit, CollectorStep, PTL DEF Spec

(***************************************************************************)
(* A collection sweeps exactly what no root reaches, also when the gray    *)
(* stack never grows.                                                      *)
(***************************************************************************)
THEOREM CollectionIsExact == Spec => SweepIsExact
<1>. DEFINE Exact == status = "marking" /\ status' = "mutator" => blocks' = Reachable
<1>1. CollectorInv /\ [Next]_vars => [Exact]_vars
  <2> SUFFICES ASSUME CollectorInv, [Next]_vars, status = "marking", status' = "mutator"
               PROVE  blocks' = Reachable
    OBVIOUS
  <2>1. Sweep
    BY DEF Next, Collecting, vars, Call, Return, RootPop, Switch, Finish, Destroy, Create,
       Load, HelperLink, Store, Allocate, HelperAllocate, HelperLeave, RefPin, RefUnpin,
       RefGet, HelperEnter, CollectStart, TraceGray, Retrace, RetraceStart,
       InFrame, InCode, Running
  <2>2. /\ blocks' = blocks \cap marked /\ walk = {} /\ gray = {} /\ ~overflow
    BY <2>1 DEF Sweep
  <2>3. /\ marked \subseteq blocks /\ Roots \cap blocks \subseteq marked
        /\ \A b \in marked : ref[b] \subseteq marked
    BY <2>2 DEF CollectorInv, MarkInv, Pending
  <2>4. Reachable \subseteq marked
    BY <2>3 DEF Reachable, Closed
  <2>5. marked \subseteq Reachable
    BY <2>3 DEF Reachable, CollectorInv, MarkInv
  <2>. QED
    BY <2>2, <2>3, <2>4, <2>5
<1>. QED
  BY <1>1, CollectorInit, CollectorStep, PTL DEF Spec, SweepIsExact
==============================================================================
