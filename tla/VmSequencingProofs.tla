-------------------------- MODULE VmSequencingProofs --------------------------
(***************************************************************************)
(* Proofs about VmSequencing, for any number of objects and of activations *)
(* of blocks.  That the Vm always finds the stack it looks for rests on    *)
(* the exchange of reactivation points (a point names a suspended stack),  *)
(* and the exchange rests on the stack being there, so both are parts of   *)
(* one invariant.                                                          *)
(***************************************************************************)
EXTENDS VmSequencing, TLAPS

\* A component has what its state makes the interpreter follow, and a system
\* that is named anywhere was entered.
FieldsInv ==
    /\ \A x \in Object :
         /\ state[x] = "attached" => attachedTo[x] # None
         /\ state[x] = "detached" => park[x] # None
         /\ state[x] = "resumed" => system[x] # None
         /\ system[x] # None => mainPark[system[x]] # None
    /\ \A i \in DOMAIN seqFrames : mainPark[seqFrames[i].system] # None
    /\ mainPark[Outermost] # None

VmInv == TypeOK /\ FieldsInv /\ StacksInPlace /\ Points!PointsInv

Live(x) == state[x] \in {"attached", "detached", "resumed"}

\* What a step of the interpreter has to leave behind.
Kept == TypeOK' /\ FieldsInv' /\ StacksInPlace' /\ [Points!Next]_(Points!vars)

(***************************************************************************)
(* The constants of the abstract exchange are as its proofs suppose.       *)
(***************************************************************************)
LEMMA PointsConstants == Points!PointsAssumption
  BY VmAssumption DEF Points!PointsAssumption, Coro

\* At the start MAIN has control and no object keeps a place.
LEMMA PointsBegin == Points!Init => Points!PointsInv
  BY PointsConstants
  DEF Points!PointsAssumption, Points!Init, Points!PointsInv, Points!TypeOK,
      Points!PointsDistinct, Points!PointsSuspended, Points!ControlInLiveCoroutine,
      Points!NothingLost, Points!Started, Points!Coro

\* Every exchange is a permutation of the points: none is kept twice, and none
\* is lost.
LEMMA PointsKept == Points!PointsInv /\ [Points!Next]_(Points!vars) => Points!PointsInv'
<1> SUFFICES ASSUME Points!PointsInv, [Points!Next]_(Points!vars) PROVE Points!PointsInv'
  OBVIOUS
<1> USE PointsConstants
    DEF Points!PointsAssumption, Points!PointsInv, Points!TypeOK, Points!PointsDistinct,
        Points!PointsSuspended, Points!ControlInLiveCoroutine, Points!NothingLost,
        Points!Started, Points!Coro
<1>1. ASSUME NEW x \in Object, Points!Begin(x) PROVE Points!PointsInv'
  BY <1>1 DEF Points!Begin
<1>2. ASSUME NEW x \in Object, Points!Exchange(x) PROVE Points!PointsInv'
  BY <1>2 DEF Points!Exchange
<1>3. ASSUME NEW x \in Object, Points!End(x) PROVE Points!PointsInv'
  BY <1>3 DEF Points!End
<1>4. ASSUME NEW x \in Object, Points!Drop(x) PROVE Points!PointsInv'
  BY <1>4 DEF Points!Drop
<1>5. ASSUME NEW x \in Object, NEW z \in Object, Points!Rotate(x, z) PROVE Points!PointsInv'
  BY <1>5 DEF Points!Rotate
<1>6. ASSUME NEW x \in Object, NEW y \in Object, Points!EndInto(x, y) PROVE Points!PointsInv'
  BY <1>6 DEF Points!EndInto
<1>7. ASSUME NEW x \in Object, Points!BeginDetached(x) PROVE Points!PointsInv'
  BY <1>7 DEF Points!BeginDetached
<1>8. CASE UNCHANGED Points!vars
  BY <1>8 DEF Points!vars
<1>. QED
  BY <1>1, <1>2, <1>3, <1>4, <1>5, <1>6, <1>7, <1>8 DEF Points!Next

(***************************************************************************)
(* At the start MAIN runs and nothing is parked.                           *)
(***************************************************************************)
LEMMA VmInit == Init => VmInv
<1> SUFFICES ASSUME Init PROVE VmInv
  OBVIOUS
<1> USE VmAssumption DEF System, Coro
<1>1. TypeOK
  BY DEF Init, TypeOK, State
<1>2. FieldsInv
  BY DEF Init, FieldsInv
<1>3. StacksInPlace
  BY DEF Init, StacksInPlace, Started
<1>4. Points!Init
  BY DEF Init, Points!Init, PointOf, LifeOf
<1>. QED
  BY <1>1, <1>2, <1>3, <1>4, PointsBegin DEF VmInv

(***************************************************************************)
(* A live object waits for a stack that is parked and not at its end.      *)
(***************************************************************************)
LEMMA PointIsParked ==
  ASSUME VmInv, NEW x \in Object, Live(x)
  PROVE  LET t == PointOf[x] IN
           /\ t \in Coro /\ t # None /\ t # active /\ parked[t] = t
           /\ t \in Object => state[t] # "terminated"
<1> USE VmAssumption DEF Coro
<1>1. PointOf[x] \in Coro /\ PointOf[x] # None
  BY DEF VmInv, TypeOK, FieldsInv, PointOf, Live
<1>2. PointOf[x] # active /\ Points!Started(PointOf[x])
  BY <1>1 DEF VmInv, Points!PointsInv, Points!PointsSuspended
<1>3. PointOf[x] \in Object => LifeOf[PointOf[x]] = "alive"
  BY <1>2 DEF Points!Started
<1>4. PointOf[x] \in Object => state[PointOf[x]] \notin {"unborn", "block", "terminated"}
  BY <1>3 DEF LifeOf
<1>5. Started(PointOf[x])
  BY <1>1, <1>4 DEF Started
<1>. QED
  BY <1>1, <1>2, <1>4, <1>5 DEF VmInv, StacksInPlace

(***************************************************************************)
(* The running coroutine was begun and is not at its end.                  *)
(***************************************************************************)
LEMMA ActiveIsLive ==
  ASSUME VmInv
  PROVE  active \in Coro /\ Started(active) /\ (active \in Object => Live(active))
<1> USE VmAssumption DEF Coro
<1>1. active \in Coro
  BY DEF VmInv, TypeOK
<1>2. active \in Object => LifeOf[active] = "alive"
  BY DEF VmInv, Points!PointsInv, Points!ControlInLiveCoroutine, Points!Started
<1>3. active \in Object => Live(active)
  BY <1>2 DEF LifeOf, Live, VmInv, TypeOK, State
<1>. QED
  BY <1>1, <1>3 DEF Started, Live

(***************************************************************************)
(* A switch to where a live object waits finds the stack there and leaves  *)
(* every other stack where it was.                                         *)
(***************************************************************************)
LEMMA SwitchArrives ==
  ASSUME VmInv, status = "running", NEW x \in Object, Live(x),
         SwitchTo(PointOf[x]),
         PointOf[x] \in Object => state'[PointOf[x]] # "terminated",
         \A c \in Coro : Started(c)' <=> Started(c)
  PROVE  /\ active' = PointOf[x]
         /\ parked' \in [Coro -> Coro \cup {None}]
         /\ status' = "running"
         /\ StacksInPlace'
<1> USE VmAssumption
<1>. DEFINE t == PointOf[x]
            all == ParkActive
<1>1. t \in Coro /\ t # None /\ t # active /\ parked[t] = t
  BY PointIsParked
<1>2. parked \in [Coro -> Coro \cup {None}] /\ stack = active /\ active \in Coro
  BY DEF VmInv, TypeOK, StacksInPlace
<1>3. all \in [Coro -> Coro \cup {None}] /\ all[t] = t
  BY <1>1, <1>2 DEF ParkActive
<1>4. /\ stack' = t /\ active' = t /\ status' = "running"
      /\ parked' = [all EXCEPT ![t] = None]
  BY <1>1, <1>3 DEF SwitchTo
<1>5. parked' \in [Coro -> Coro \cup {None}]
  BY <1>3, <1>4
<1>6. ASSUME NEW c \in Coro
      PROVE  parked'[c] = IF Started(c)' /\ c # t THEN c ELSE None
  <2>1. CASE c = t
    BY <1>3, <1>4, <2>1
  <2>2. CASE c = active
    BY <1>1, <1>2, <1>4, <2>2, ActiveIsLive DEF ParkActive
  <2>3. CASE c # t /\ c # active
    BY <1>2, <1>4, <2>3 DEF ParkActive, VmInv, StacksInPlace
  <2>. QED
    BY <2>1, <2>2, <2>3
<1>. QED
  BY <1>4, <1>5, <1>6 DEF StacksInPlace

-----------------------------------------------------------------------------
(* One lemma per kind of step.                                             *)

(***************************************************************************)
(* Nothing that the exchange sees has changed.                             *)
(***************************************************************************)
LEMMA UnseenKeeps ==
  ASSUME VmInv, UNCHANGED <<stacks, component, operative>>, FieldsInv',
         status' \in {"running", "finished", "error"} \/ UNCHANGED status,
         mainPark' \in [System -> Coro \cup {None}],
         \A x \in Object : state[x] = "resumed" =>
            mainPark'[system[x]] = mainPark[system[x]],
         seqFrames' \in Seq([system : Instance, owner : Coro]),
         open' \in [Coro -> Seq(Instance)]
  PROVE  Kept
<1> USE DEF stacks, component
<1>1. TypeOK'
  BY DEF VmInv, TypeOK
<1>2. StacksInPlace'
  BY DEF VmInv, StacksInPlace, Started
<1>3. PointOf' = PointOf /\ LifeOf' = LifeOf
  BY DEF PointOf, LifeOf
<1>. QED
  BY <1>1, <1>2, <1>3 DEF Kept, Points!vars

(***************************************************************************)
(* A run-time error or the end of the program moves no stack.              *)
(***************************************************************************)
LEMMA StopKeeps ==
  ASSUME VmInv, NEW why \in {"finished", "error"}, Stop(why)
  PROVE  Kept
<1>1. FieldsInv'
  BY DEF Stop, component, systems, VmInv, FieldsInv
<1>. QED
  BY <1>1, UnseenKeeps DEF Stop, systems, component, VmInv, TypeOK

(***************************************************************************)
(* A statement without effect.                                             *)
(***************************************************************************)
LEMMA StutterKeeps ==
  ASSUME VmInv, UNCHANGED vars
  PROVE  Kept
<1>1. FieldsInv'
  BY DEF vars, VmInv, FieldsInv
<1>. QED
  BY <1>1, UnseenKeeps DEF vars, stacks, component, VmInv, TypeOK

(***************************************************************************)
(* A frame is a system's block and the coroutine that entered it.          *)
(***************************************************************************)
LEMMA FrameType ==
  ASSUME VmInv, NEW i \in DOMAIN seqFrames
  PROVE  /\ seqFrames[i] \in [system : Instance, owner : Coro]
         /\ seqFrames[i].system \in Instance
<1>. DEFINE F == [system : Instance, owner : Coro]
<1>1. seqFrames \in Seq(F)
  BY DEF VmInv, TypeOK
<1>. HIDE DEF F
<1>2. seqFrames[i] \in F
  BY <1>1
<1>. QED
  BY <1>2 DEF F

(***************************************************************************)
(* The innermost block a coroutine is inside of is left.                   *)
(***************************************************************************)
LEMMA InnermostType ==
  ASSUME VmInv, open[active] # <<>>, LeaveInnermost
  PROVE  open' \in [Coro -> Seq(Instance)]
<1>1. open[active] \in Seq(Instance) /\ Len(open[active]) \in Nat \ {0}
  BY DEF VmInv, TypeOK
<1>2. SubSeq(open[active], 1, Len(open[active]) - 1) \in Seq(Instance)
  BY <1>1
<1>. QED
  BY <1>2 DEF LeaveInnermost, VmInv, TypeOK

(***************************************************************************)
(* A block that heads a system is entered: the handle is new, so nobody waits *)
(* in the place it names.                                                  *)
(***************************************************************************)
LEMMA SystemEnterKeeps ==
  ASSUME VmInv, NEW s \in Instance, SystemEnter(s)
  PROVE  Kept
<1> USE VmAssumption DEF System, Coro
<1>1. /\ mainPark[s] = None
      /\ mainPark' = [mainPark EXCEPT ![s] = active]
      /\ seqFrames' = Append(seqFrames, [system |-> s, owner |-> active])
      /\ open' = [open EXCEPT ![active] = Append(@, s)]
      /\ UNCHANGED <<stacks, component, operative, status>>
  BY DEF SystemEnter
<1>2. /\ active \in Coro
      /\ mainPark \in [System -> Coro \cup {None}]
      /\ seqFrames \in Seq([system : Instance, owner : Coro])
      /\ open \in [Coro -> Seq(Instance)]
      /\ system \in [Object -> System \cup {None}]
  BY DEF VmInv, TypeOK
<1>3. mainPark' \in [System -> Coro \cup {None}] /\ mainPark'[s] # None
      /\ \A r \in System : mainPark[r] # None => mainPark'[r] = mainPark[r]
  BY <1>1, <1>2
<1>4. [system |-> s, owner |-> active] \in [system : Instance, owner : Coro]
  BY <1>2
<1>5. /\ seqFrames' \in Seq([system : Instance, owner : Coro])
      /\ \A i \in DOMAIN seqFrames' :
           \/ i \in DOMAIN seqFrames /\ seqFrames'[i] = seqFrames[i]
           \/ seqFrames'[i].system = s
  BY <1>1, <1>2, <1>4
<1>6. open' \in [Coro -> Seq(Instance)]
  <2>1. Append(open[active], s) \in Seq(Instance)
    BY <1>2
  <2>. QED
    BY <1>1, <1>2, <2>1
<1>7. FieldsInv'
  <2>1. \A i \in DOMAIN seqFrames : seqFrames[i].system \in Instance
    BY FrameType
  <2>2. \A i \in DOMAIN seqFrames' : mainPark'[seqFrames'[i].system] # None
    BY <1>3, <1>5, <2>1 DEF VmInv, FieldsInv
  <2>3. ASSUME NEW x \in Object
        PROVE  /\ state'[x] = "attached" => attachedTo'[x] # None
               /\ state'[x] = "detached" => park'[x] # None
               /\ state'[x] = "resumed" => system'[x] # None
               /\ system'[x] # None => mainPark'[system'[x]] # None
    BY <1>1, <1>2, <1>3 DEF VmInv, FieldsInv, component
  <2>. QED
    BY <1>3, <2>2, <2>3 DEF VmInv, FieldsInv
<1>8. \A x \in Object : state[x] = "resumed" =>
         mainPark'[system[x]] = mainPark[system[x]]
  BY <1>2, <1>3 DEF VmInv, FieldsInv
<1>. QED
  BY <1>1, <1>3, <1>5, <1>6, <1>7, <1>8, UnseenKeeps

(***************************************************************************)
(* The frame of a block goes; the others move down.                        *)
(***************************************************************************)
LEMMA SystemExitKeeps ==
  ASSUME VmInv, SystemExit
  PROVE  Kept
<1> USE DEF Coro
<1>1. PICK i \in DOMAIN seqFrames :
        seqFrames' = [j \in 1 .. Len(seqFrames) - 1 |->
                        seqFrames[IF j < i THEN j ELSE j + 1]]
  BY DEF SystemExit
<1>2. seqFrames \in Seq([system : Instance, owner : Coro])
  BY DEF VmInv, TypeOK
<1>3. Len(seqFrames) - 1 \in Nat
  BY <1>2
<1>4. \A j \in 1 .. Len(seqFrames) - 1 :
         \E k \in DOMAIN seqFrames : seqFrames'[j] = seqFrames[k]
  <2>. SUFFICES ASSUME NEW j \in 1 .. Len(seqFrames) - 1
                PROVE  \E k \in DOMAIN seqFrames : seqFrames'[j] = seqFrames[k]
    OBVIOUS
  <2>1. (IF j < i THEN j ELSE j + 1) \in DOMAIN seqFrames
    BY <1>2
  <2>. QED
    BY <1>1, <2>1
<1>5. /\ DOMAIN seqFrames' = 1 .. Len(seqFrames) - 1
      /\ \A j \in 1 .. Len(seqFrames) - 1 :
           seqFrames'[j] \in [system : Instance, owner : Coro]
  <2>1. \A k \in DOMAIN seqFrames : seqFrames[k] \in [system : Instance, owner : Coro]
    BY FrameType
  <2>. QED
    BY <1>1, <1>4, <2>1
<1>6. seqFrames' = [j \in 1 .. Len(seqFrames) - 1 |-> seqFrames'[j]]
  BY <1>1
<1>7. seqFrames' \in Seq([system : Instance, owner : Coro])
  <2>. DEFINE F == [system : Instance, owner : Coro]
              n == Len(seqFrames) - 1
  <2>. HIDE DEF F, n
  <2>1. n \in Nat /\ (\A j \in 1 .. n : seqFrames'[j] \in F)
    BY <1>3, <1>5 DEF F, n
  <2>2. [j \in 1 .. n |-> seqFrames'[j]] \in Seq(F)
    BY <2>1
  <2>. QED
    BY <1>6, <2>2 DEF F, n
<1>8. open' \in [Coro -> Seq(Instance)]
  BY InnermostType DEF SystemExit
<1>9. FieldsInv'
  BY <1>4, <1>5 DEF SystemExit, component, VmInv, FieldsInv
<1>. QED
  BY <1>7, <1>8, <1>9, UnseenKeeps DEF SystemExit, component, VmInv, TypeOK

(***************************************************************************)
(* A jump out of a block leaves its frame where it is.                     *)
(***************************************************************************)
LEMMA GotoOutKeeps ==
  ASSUME VmInv, GotoOut
  PROVE  Kept
<1>1. open' \in [Coro -> Seq(Instance)]
  BY InnermostType DEF GotoOut
<1>2. FieldsInv'
  BY DEF GotoOut, component, systems, VmInv, FieldsInv
<1>. QED
  BY <1>1, <1>2, UnseenKeeps DEF GotoOut, component, systems, VmInv, TypeOK
-----------------------------------------------------------------------------
(***************************************************************************)
(* The object of a prefixed block never waits anywhere.                    *)
(***************************************************************************)
LEMMA BlockInstanceKeeps ==
  ASSUME VmInv, NEW x \in Object, BlockInstance(x)
  PROVE  Kept
<1>1. /\ state[x] = "unborn" /\ state' = [state EXCEPT ![x] = "block"]
      /\ UNCHANGED <<stacks, park, attachedTo, system, origin, systems, open, status>>
  BY DEF BlockInstance
<1>2. state'[x] = "block" /\ \A y \in Object : y # x => state'[y] = state[y]
  BY <1>1 DEF VmInv, TypeOK
<1>3. TypeOK'
  <2>1. \A s \in System, y \in Object :
          operative[s] = y <=> state'[y] = "resumed" /\ system[y] = s
    BY <1>1, <1>2 DEF VmInv, TypeOK
  <2>2. state' \in [Object -> State]
    BY <1>1 DEF VmInv, TypeOK, State
  <2>. QED
    BY <1>1, <2>1, <2>2 DEF VmInv, TypeOK, stacks, systems
<1>4. FieldsInv'
  BY <1>1, <1>2 DEF VmInv, FieldsInv, systems
<1>5. \A c \in Coro : Started(c)' <=> Started(c)
  BY <1>1, <1>2, VmAssumption DEF Started, Coro
<1>6. StacksInPlace'
  BY <1>1, <1>5 DEF VmInv, StacksInPlace, stacks
<1>7. PointOf' = PointOf /\ LifeOf' = LifeOf
  BY <1>1, <1>2 DEF PointOf, LifeOf, systems
<1>. QED
  BY <1>1, <1>3, <1>4, <1>6, <1>7 DEF Kept, Points!vars, stacks

(***************************************************************************)
(* A generator hands control to a fresh stack and keeps its place.         *)
(***************************************************************************)
LEMMA GenerateKeeps ==
  ASSUME VmInv, status = "running", NEW x \in Object,
         NEW b \in Blocks \cup {None}, Generate(x, b)
  PROVE  Kept
<1> USE VmAssumption DEF System, Coro
<1>1. PICK s \in System \cup {None} :
        /\ IF b = None THEN s = None ELSE SystemForBlock(b, s)
        /\ system' = [system EXCEPT ![x] = s]
  BY DEF Generate
<1>2. /\ state[x] = "unborn" /\ state' = [state EXCEPT ![x] = "attached"]
      /\ attachedTo' = [attachedTo EXCEPT ![x] = active]
      /\ origin' = [origin EXCEPT ![x] = active]
      /\ parked' = ParkActive /\ stack' = x /\ active' = x
      /\ UNCHANGED <<park, systems, open, status>>
  BY DEF Generate
<1>3. s # None => mainPark[s] # None
  <2>1. CASE b # None
    <3>1. s = Outermost \/ \E i \in DOMAIN seqFrames : s = seqFrames[i].system
      BY <1>1, <2>1 DEF SystemForBlock
    <3>. QED
      BY <3>1 DEF VmInv, FieldsInv
  <2>. QED
    BY <1>1, <2>1
<1>4. /\ state'[x] = "attached" /\ attachedTo'[x] = active /\ system'[x] = s
      /\ \A y \in Object : y # x => /\ state'[y] = state[y]
                                    /\ attachedTo'[y] = attachedTo[y]
                                    /\ system'[y] = system[y]
  BY <1>1, <1>2 DEF VmInv, TypeOK
<1>5. active \in Coro /\ Started(active) /\ active # x
  BY <1>2, ActiveIsLive DEF Live
<1>6. TypeOK'
  <2>1. \A r \in System, y \in Object :
          operative[r] = y <=> state'[y] = "resumed" /\ system'[y] = r
    BY <1>2, <1>4 DEF VmInv, TypeOK
  <2>2. /\ state' \in [Object -> State]
        /\ attachedTo' \in [Object -> Coro \cup {None}]
        /\ system' \in [Object -> System \cup {None}]
        /\ origin' \in [Object -> Coro \cup {None}]
    BY <1>1, <1>2, <1>5 DEF VmInv, TypeOK, State
  <2>3. parked' \in [Coro -> Coro \cup {None}]
    BY <1>2, <1>5 DEF VmInv, TypeOK, ParkActive
  <2>. QED
    BY <1>2, <2>1, <2>2, <2>3 DEF VmInv, TypeOK, systems
<1>7. FieldsInv'
  BY <1>2, <1>3, <1>4, <1>5 DEF VmInv, FieldsInv, systems
<1>8. StacksInPlace'
  <2>1. \A c \in Coro : Started(c)' <=> Started(c) \/ c = x
    BY <1>4 DEF Started
  <2>2. ASSUME NEW c \in Coro
        PROVE  parked'[c] = IF Started(c)' /\ c # x THEN c ELSE None
    <3>1. CASE c = active
      BY <1>2, <1>5, <2>1, <3>1 DEF ParkActive, VmInv, TypeOK, StacksInPlace
    <3>2. CASE c = x
      <4>1. ~Started(x)
        BY <1>2 DEF Started
      <4>. QED
        BY <1>2, <1>5, <3>2, <4>1 DEF ParkActive, VmInv, TypeOK, StacksInPlace
    <3>3. CASE c # active /\ c # x
      BY <1>2, <2>1, <3>3 DEF ParkActive, VmInv, TypeOK, StacksInPlace
    <3>. QED
      BY <3>1, <3>2, <3>3
  <2>. QED
    BY <1>2, <2>2 DEF VmInv, StacksInPlace
<1>9. PointOf' = [PointOf EXCEPT ![x] = active]
  <2>1. \A y \in Object : y # x => PointOf'[y] = PointOf[y]
    BY <1>2, <1>4 DEF PointOf, systems
  <2>2. PointOf'[x] = active
    BY <1>4 DEF PointOf
  <2>3. /\ PointOf = [y \in Object |-> PointOf[y]]
        /\ PointOf' = [y \in Object |-> PointOf'[y]]
    BY DEF PointOf
  <2>. QED
    BY <2>1, <2>2, <2>3
<1>11. LifeOf[x] = "unborn" /\ LifeOf' = [LifeOf EXCEPT ![x] = "alive"]
  BY <1>2, <1>4 DEF LifeOf
<1>10. Points!Begin(x)
  BY <1>2, <1>9, <1>11 DEF Points!Begin
<1>. QED
  BY <1>6, <1>7, <1>8, <1>10 DEF Kept, Points!Next

(***************************************************************************)
(* detach and the final end: the place x keeps is taken, and x keeps the one *)
(* that is left unless it ends.                                            *)
(***************************************************************************)
LEMMA LeaveKeeps ==
  ASSUME VmInv, status = "running", NEW x \in Object,
         NEW next \in {"detached", "terminated"}, Leave(x, next),
         next = "terminated" => active = x
  PROVE  Kept
<1> USE VmAssumption DEF System, Coro
<1>1. /\ state[x] \in {"attached", "resumed"} /\ state' = [state EXCEPT ![x] = next]
      /\ park' = [park EXCEPT ![x] = IF next = "terminated" THEN None ELSE active]
      /\ UNCHANGED <<attachedTo, system, origin, mainPark, seqFrames, open>>
  BY DEF Leave
<1>2. Live(x)
  BY <1>1 DEF Live
<1>3. SwitchTo(PointOf[x])
  BY <1>1 DEF Leave, PointOf
<1>4. /\ state'[x] = next /\ park'[x] = IF next = "terminated" THEN None ELSE active
      /\ \A y \in Object : y # x => state'[y] = state[y] /\ park'[y] = park[y]
  BY <1>1 DEF VmInv, TypeOK
<1>5. \A c \in Coro : Started(c)' <=> Started(c)
  BY <1>1, <1>4 DEF Started
<1>6. PointOf[x] \in Object => state'[PointOf[x]] # "terminated"
  BY <1>2, <1>4, PointIsParked
<1>7. /\ active' = PointOf[x] /\ status' = "running" /\ StacksInPlace'
      /\ parked' \in [Coro -> Coro \cup {None}]
  BY <1>2, <1>3, <1>5, <1>6, SwitchArrives
<1>8. PointOf[x] \in Coro /\ PointOf[x] # None /\ active \in Coro
  BY <1>2, PointIsParked, ActiveIsLive
<1>9. /\ operative' \in [System -> Object \cup {None}]
      /\ \A s \in System, y \in Object :
           operative'[s] = y <=> state'[y] = "resumed" /\ system[y] = s
  <2>1. CASE state[x] = "attached"
    <3>1. operative' = operative
      BY <2>1 DEF Leave
    <3>. QED
      BY <1>4, <2>1, <3>1 DEF VmInv, TypeOK
  <2>2. CASE state[x] = "resumed"
    <3>1. operative' = [operative EXCEPT ![system[x]] = None]
      BY <2>2 DEF Leave
    <3>2. system[x] \in System /\ operative[system[x]] = x
      BY <2>2 DEF VmInv, TypeOK, FieldsInv
    <3>3. operative'[system[x]] = None
          /\ \A s \in System : s # system[x] => operative'[s] = operative[s]
      BY <3>1, <3>2 DEF VmInv, TypeOK
    <3>. QED
      BY <1>4, <3>1, <3>2, <3>3 DEF VmInv, TypeOK
  <2>. QED
    BY <1>1, <2>1, <2>2
<1>10. TypeOK'
  <2>1. state' \in [Object -> State] /\ park' \in [Object -> Coro \cup {None}]
    BY <1>1, <1>8 DEF VmInv, TypeOK, State
  <2>2. stack' \in Coro
    BY <1>7, <1>8 DEF StacksInPlace
  <2>. QED
    BY <1>1, <1>7, <1>8, <1>9, <2>1, <2>2 DEF VmInv, TypeOK
<1>11. FieldsInv'
  BY <1>1, <1>4, <1>8 DEF VmInv, FieldsInv
<1>12. CASE next = "detached"
  <2>1. PointOf' = [PointOf EXCEPT ![x] = active]
    BY <1>1, <1>4, <1>12 DEF PointOf
  <2>2. LifeOf' = LifeOf
    BY <1>1, <1>4, <1>12 DEF LifeOf
  <2>3. Points!Exchange(x)
    BY <1>7, <1>8, <2>1, <2>2 DEF Points!Exchange
  <2>. QED
    BY <1>7, <1>10, <1>11, <2>3 DEF Kept, Points!Next
<1>13. CASE next = "terminated"
  <2>1. PointOf' = [PointOf EXCEPT ![x] = None]
    BY <1>1, <1>4, <1>13 DEF PointOf
  <2>2. LifeOf' = [LifeOf EXCEPT ![x] = "ended"]
    BY <1>1, <1>4, <1>13 DEF LifeOf
  <2>3. Points!End(x)
    BY <1>7, <1>8, <1>13, <2>1, <2>2 DEF Points!End
  <2>. QED
    BY <1>7, <1>10, <1>11, <2>3 DEF Kept, Points!Next
<1>. QED
  BY <1>12, <1>13
-----------------------------------------------------------------------------

(***************************************************************************)
(* detach when it is refused or without effect, and the final end.         *)
(***************************************************************************)
LEMMA DetachKeeps ==
  ASSUME VmInv, status = "running", NEW x \in Object, Detach(x) \/ Terminate(x)
  PROVE  Kept
<1>1. CASE CannotLeave(x)
  BY <1>1, StopKeeps DEF CannotLeave
<1>2. CASE UNCHANGED vars
  BY <1>2, StutterKeeps
<1>3. CASE Leave(x, "detached")
  BY <1>3, LeaveKeeps
<1>4. CASE Leave(x, "terminated") /\ active = x
  BY <1>4, LeaveKeeps
<1>. QED
  BY <1>1, <1>2, <1>3, <1>4 DEF Detach, Terminate

(***************************************************************************)
(* call: the caller waits where the detached object waited.                *)
(***************************************************************************)
LEMMA CallKeeps ==
  ASSUME VmInv, status = "running", NEW x \in Object, Call(x)
  PROVE  Kept
<1> USE VmAssumption DEF System, Coro
<1>1. CASE state[x] # "detached"
  BY <1>1, StopKeeps DEF Call
<1>2. CASE state[x] = "detached"
  <2>1. /\ state' = [state EXCEPT ![x] = "attached"]
        /\ attachedTo' = [attachedTo EXCEPT ![x] = active]
        /\ SwitchTo(park[x])
        /\ UNCHANGED <<park, system, origin, systems, open>>
    BY <1>2 DEF Call
  <2>2. Live(x) /\ PointOf[x] = park[x]
    BY <1>2 DEF Live, PointOf
  <2>3. /\ state'[x] = "attached" /\ attachedTo'[x] = active
        /\ \A y \in Object : y # x => /\ state'[y] = state[y]
                                      /\ attachedTo'[y] = attachedTo[y]
    BY <2>1 DEF VmInv, TypeOK
  <2>4. \A c \in Coro : Started(c)' <=> Started(c)
    BY <1>2, <2>3 DEF Started
  <2>5. PointOf[x] \in Object => state'[PointOf[x]] # "terminated"
    BY <2>2, <2>3, PointIsParked
  <2>6. /\ active' = PointOf[x] /\ status' = "running" /\ StacksInPlace'
        /\ parked' \in [Coro -> Coro \cup {None}]
    BY <2>1, <2>2, <2>4, <2>5, SwitchArrives
  <2>7. PointOf[x] \in Coro /\ PointOf[x] # None /\ active \in Coro
    BY <2>2, PointIsParked, ActiveIsLive
  <2>8. TypeOK'
    <3>1. /\ state' \in [Object -> State] /\ attachedTo' \in [Object -> Coro \cup {None}]
          /\ stack' \in Coro
      BY <2>1, <2>6, <2>7 DEF VmInv, TypeOK, State, StacksInPlace
    <3>2. \A s \in System, y \in Object :
            operative[s] = y <=> state'[y] = "resumed" /\ system[y] = s
      BY <1>2, <2>3 DEF VmInv, TypeOK
    <3>. QED
      BY <2>1, <2>6, <2>7, <3>1, <3>2 DEF VmInv, TypeOK, systems
  <2>9. FieldsInv'
    BY <2>1, <2>3, <2>7 DEF VmInv, FieldsInv, systems
  <2>10. PointOf' = [PointOf EXCEPT ![x] = active]
    BY <2>1, <2>3 DEF PointOf, systems
  <2>11. LifeOf' = LifeOf
    BY <1>2, <2>3 DEF LifeOf
  <2>12. Points!Exchange(x)
    BY <2>6, <2>7, <2>10, <2>11 DEF Points!Exchange
  <2>. QED
    BY <2>6, <2>8, <2>9, <2>12 DEF Kept, Points!Next
<1>. QED
  BY <1>1, <1>2

(***************************************************************************)
(* resume out of the main component of a system.                           *)
(***************************************************************************)
LEMMA ResumeFromMainKeeps ==
  ASSUME VmInv, status = "running", NEW x \in Object, state[x] = "detached",
         system[x] # None, operative[system[x]] = None, Resume(x)
  PROVE  Kept
<1> USE VmAssumption DEF System, Coro
<1>. DEFINE s == system[x]
<1>1. /\ mainPark' = [mainPark EXCEPT ![s] = active]
      /\ state' = [y \in Object |-> CASE y = x -> "resumed"
                                      [] y = None -> "detached"
                                      [] OTHER -> state[y]]
      /\ operative' = [operative EXCEPT ![s] = x]
      /\ SwitchTo(park[x])
      /\ UNCHANGED <<park, attachedTo, system, origin, seqFrames, open>>
  BY DEF Resume, OperativeGivesWay
<1>2. Live(x) /\ PointOf[x] = park[x]
  BY DEF Live, PointOf
<1>3. state'[x] = "resumed" /\ \A y \in Object : y # x => state'[y] = state[y]
  BY <1>1
<1>4. s \in System /\ active \in Coro
  BY ActiveIsLive DEF VmInv, TypeOK
<1>5. /\ mainPark' \in [System -> Coro \cup {None}] /\ mainPark'[s] = active
      /\ \A r \in System : r # s => mainPark'[r] = mainPark[r]
  BY <1>1, <1>4 DEF VmInv, TypeOK
<1>6. \A y \in Object : state[y] = "resumed" => system[y] \in System /\ system[y] # s
  BY DEF VmInv, TypeOK, FieldsInv
<1>7. \A c \in Coro : Started(c)' <=> Started(c)
  BY <1>3 DEF Started
<1>8. PointOf[x] \in Object => state'[PointOf[x]] # "terminated"
  BY <1>2, <1>3, PointIsParked
<1>9. /\ active' = PointOf[x] /\ status' = "running" /\ StacksInPlace'
      /\ parked' \in [Coro -> Coro \cup {None}]
  BY <1>1, <1>2, <1>7, <1>8, SwitchArrives
<1>10. PointOf[x] \in Coro /\ PointOf[x] # None
  BY <1>2, PointIsParked
<1>11. TypeOK'
  <2>1. state' \in [Object -> State] /\ stack' \in Coro
    BY <1>1, <1>9, <1>10 DEF VmInv, TypeOK, State, StacksInPlace
  <2>2. /\ operative' \in [System -> Object \cup {None}]
        /\ operative'[s] = x
        /\ \A r \in System : r # s => operative'[r] = operative[r]
    BY <1>1, <1>4 DEF VmInv, TypeOK
  <2>3. \A r \in System, y \in Object :
          operative'[r] = y <=> state'[y] = "resumed" /\ system[y] = r
    <3>. SUFFICES ASSUME NEW r \in System, NEW y \in Object
                  PROVE  operative'[r] = y <=> state'[y] = "resumed" /\ system[y] = r
      OBVIOUS
    <3>1. operative[r] = y <=> state[y] = "resumed" /\ system[y] = r
      BY DEF VmInv, TypeOK
    <3>. QED
      BY <1>3, <2>2, <3>1
  <2>. QED
    BY <1>1, <1>5, <1>9, <1>10, <2>1, <2>2, <2>3 DEF VmInv, TypeOK
<1>12. FieldsInv'
  <2>1. \A r \in System : mainPark[r] # None => mainPark'[r] # None
    BY <1>4, <1>5
  <2>2. \A i \in DOMAIN seqFrames : mainPark'[seqFrames[i].system] # None
    BY <2>1, FrameType DEF VmInv, FieldsInv
  <2>3. ASSUME NEW y \in Object
        PROVE  /\ state'[y] = "attached" => attachedTo'[y] # None
               /\ state'[y] = "detached" => park'[y] # None
               /\ state'[y] = "resumed" => system'[y] # None
               /\ system'[y] # None => mainPark'[system'[y]] # None
    BY <1>1, <1>3, <2>1 DEF VmInv, TypeOK, FieldsInv
  <2>. QED
    BY <1>1, <2>1, <2>2, <2>3 DEF VmInv, FieldsInv
<1>13. PointOf' = [PointOf EXCEPT ![x] = active]
  <2>1. \A y \in Object : y # x => PointOf'[y] = PointOf[y]
    BY <1>1, <1>3, <1>5, <1>6 DEF PointOf
  <2>2. PointOf'[x] = active
    BY <1>1, <1>3, <1>5 DEF PointOf
  <2>3. /\ PointOf = [y \in Object |-> PointOf[y]]
        /\ PointOf' = [y \in Object |-> PointOf'[y]]
    BY DEF PointOf
  <2>. QED
    BY <2>1, <2>2, <2>3
<1>14. LifeOf' = LifeOf
  BY <1>3 DEF LifeOf
<1>15. Points!Exchange(x)
  BY <1>9, <1>10, <1>13, <1>14 DEF Points!Exchange
<1>. QED
  BY <1>9, <1>11, <1>12, <1>15 DEF Kept, Points!Next

(***************************************************************************)
(* resume out of another component w of the same system: x takes over w's way *)
(* back to the main component, w keeps the place of the statement.         *)
(***************************************************************************)
LEMMA ResumeFromComponentKeeps ==
  ASSUME VmInv, status = "running", NEW x \in Object, state[x] = "detached",
         system[x] # None, NEW w \in Object, operative[system[x]] = w, Resume(x)
  PROVE  Kept
<1> USE VmAssumption DEF System, Coro
<1>. DEFINE s == system[x]
<1>1. /\ park' = [park EXCEPT ![w] = active]
      /\ state' = [y \in Object |-> CASE y = x -> "resumed"
                                      [] y = w -> "detached"
                                      [] OTHER -> state[y]]
      /\ operative' = [operative EXCEPT ![s] = x]
      /\ SwitchTo(park[x])
      /\ UNCHANGED <<mainPark, attachedTo, system, origin, seqFrames, open>>
  BY DEF Resume, OperativeGivesWay
<1>2. Live(x) /\ PointOf[x] = park[x]
  BY DEF Live, PointOf
<1>3. s \in System /\ active \in Coro
  BY ActiveIsLive DEF VmInv, TypeOK
<1>4. state[w] = "resumed" /\ system[w] = s /\ w # x
  BY <1>3 DEF VmInv, TypeOK
<1>5. /\ state'[x] = "resumed" /\ state'[w] = "detached"
      /\ \A y \in Object : y # x /\ y # w => state'[y] = state[y]
  BY <1>1, <1>4
<1>6. park'[w] = active /\ \A y \in Object : y # w => park'[y] = park[y]
  BY <1>1 DEF VmInv, TypeOK
<1>7. \A c \in Coro : Started(c)' <=> Started(c)
  BY <1>4, <1>5 DEF Started
<1>8. PointOf[x] \in Object => state'[PointOf[x]] # "terminated"
  BY <1>2, <1>5, PointIsParked
<1>9. /\ active' = PointOf[x] /\ status' = "running" /\ StacksInPlace'
      /\ parked' \in [Coro -> Coro \cup {None}]
  BY <1>1, <1>2, <1>7, <1>8, SwitchArrives
<1>10. PointOf[x] \in Coro /\ PointOf[x] # None
  BY <1>2, PointIsParked
<1>11. TypeOK'
  <2>1. /\ state' \in [Object -> State] /\ stack' \in Coro
        /\ park' \in [Object -> Coro \cup {None}]
    BY <1>1, <1>3, <1>9, <1>10 DEF VmInv, TypeOK, State, StacksInPlace
  <2>2. /\ operative' \in [System -> Object \cup {None}]
        /\ operative'[s] = x
        /\ \A r \in System : r # s => operative'[r] = operative[r]
    BY <1>1, <1>3 DEF VmInv, TypeOK
  <2>3. \A r \in System, y \in Object :
          operative'[r] = y <=> state'[y] = "resumed" /\ system[y] = r
    <3>. SUFFICES ASSUME NEW r \in System, NEW y \in Object
                  PROVE  operative'[r] = y <=> state'[y] = "resumed" /\ system[y] = r
      OBVIOUS
    <3>1. operative[r] = y <=> state[y] = "resumed" /\ system[y] = r
      BY DEF VmInv, TypeOK
    <3>. QED
      BY <1>4, <1>5, <2>2, <3>1
  <2>. QED
    BY <1>1, <1>9, <1>10, <2>1, <2>2, <2>3 DEF VmInv, TypeOK
<1>12. FieldsInv'
  BY <1>1, <1>3, <1>4, <1>5, <1>6 DEF VmInv, FieldsInv
<1>13. PointOf' = [PointOf EXCEPT ![x] = PointOf[w], ![w] = active]
  <2>1. \A y \in Object : y # x /\ y # w => PointOf'[y] = PointOf[y]
    BY <1>1, <1>5, <1>6 DEF PointOf
  <2>2. PointOf'[x] = PointOf[w]
    BY <1>1, <1>4, <1>5 DEF PointOf
  <2>3. PointOf'[w] = active
    BY <1>5, <1>6 DEF PointOf
  <2>4. /\ PointOf = [y \in Object |-> PointOf[y]]
        /\ PointOf' = [y \in Object |-> PointOf'[y]]
    BY DEF PointOf
  <2>. QED
    BY <1>4, <2>1, <2>2, <2>3, <2>4
<1>14. LifeOf' = LifeOf
  BY <1>4, <1>5 DEF LifeOf
<1>15. PointOf[w] # None
  BY <1>4, PointIsParked DEF Live
<1>16. Points!Rotate(x, w)
  BY <1>4, <1>9, <1>10, <1>13, <1>14, <1>15 DEF Points!Rotate
<1>. QED
  BY <1>9, <1>11, <1>12, <1>16 DEF Kept, Points!Next

(***************************************************************************)
(* resume, also when it is refused or without effect.                      *)
(***************************************************************************)
LEMMA ResumeKeeps ==
  ASSUME VmInv, status = "running", NEW x \in Object, Resume(x)
  PROVE  Kept
<1>1. CASE system[x] # None /\ state[x] = "detached"
  <2>1. operative[system[x]] \in Object \cup {None}
    BY <1>1 DEF VmInv, TypeOK
  <2>. QED
    BY <1>1, <2>1, ResumeFromMainKeeps, ResumeFromComponentKeeps
<1>2. CASE system[x] # None /\ state[x] = "resumed"
  BY <1>2, StutterKeeps DEF Resume
<1>3. CASE system[x] = None \/ state[x] \notin {"detached", "resumed"}
  BY <1>3, StopKeeps DEF Resume
<1>. QED
  BY <1>1, <1>2, <1>3

-----------------------------------------------------------------------------

(***************************************************************************)
(* Every step keeps what the invariant says of the fields and stacks, and is *)
(* an exchange of reactivation points or leaves them alone.                *)
(***************************************************************************)
LEMMA VmKeeps == VmInv /\ [Next]_vars => Kept
<1> SUFFICES ASSUME VmInv, [Next]_vars PROVE Kept
  OBVIOUS
<1>1. CASE UNCHANGED vars
  BY <1>1, StutterKeeps
<1>2. ASSUME status = "running", NEW s \in Instance, SystemEnter(s) PROVE Kept
  BY <1>2, SystemEnterKeeps
<1>3. CASE status = "running" /\ SystemExit
  BY <1>3, SystemExitKeeps
<1>4. CASE status = "running" /\ GotoOut
  BY <1>4, GotoOutKeeps
<1>5. ASSUME status = "running", NEW x \in Object, NEW b \in Blocks \cup {None},
             Generate(x, b)
      PROVE  Kept
  BY <1>5, GenerateKeeps
<1>6. ASSUME status = "running", NEW x \in Object, BlockInstance(x) PROVE Kept
  BY <1>6, BlockInstanceKeeps
<1>7. ASSUME status = "running", NEW x \in Object, Detach(x) \/ Terminate(x)
      PROVE  Kept
  BY <1>7, DetachKeeps
<1>8. ASSUME status = "running", NEW x \in Object, Call(x) PROVE Kept
  BY <1>8, CallKeeps
<1>9. ASSUME status = "running", NEW x \in Object, Resume(x) PROVE Kept
  BY <1>9, ResumeKeeps
<1>10. CASE status = "running" /\ Finish
  BY <1>10, StopKeeps DEF Finish
<1>. QED
  BY <1>1, <1>2, <1>3, <1>4, <1>5, <1>6, <1>7, <1>8, <1>9, <1>10 DEF Next

(***************************************************************************)
(* VmInv is inductive: what the exchange keeps, the interpreter keeps.     *)
(***************************************************************************)
LEMMA VmStep == VmInv /\ [Next]_vars => VmInv'
<1>1. VmInv /\ [Next]_vars => Kept /\ Points!PointsInv
  BY VmKeeps DEF VmInv
<1>2. Points!PointsInv /\ [Points!Next]_(Points!vars) => Points!PointsInv'
  BY PointsKept
<1>. QED
  BY <1>1, <1>2 DEF Kept, VmInv

(***************************************************************************)
(* So it holds of every state a program reaches.                           *)
(***************************************************************************)
LEMMA VmInvariant == Spec => []VmInv
  BY VmInit, VmStep, PTL DEF Spec

(***************************************************************************)
(* No program makes the interpreter hold a value of the wrong kind, or two *)
(* operative components in one system.                                     *)
(***************************************************************************)
THEOREM VmTypes == Spec => []TypeOK
  BY VmInvariant, PTL DEF VmInv

(***************************************************************************)
(* The interpreter always finds the stack it switches to, and the stack is *)
(* not one that has come to its end.                                       *)
(***************************************************************************)
THEOREM VmFindsItsStacks == Spec => []StacksInPlace
  BY VmInvariant, PTL DEF VmInv

(***************************************************************************)
(* The interpreter's vectors implement the same exchange of reactivation   *)
(* points as the native runtime's stacks, for every program.               *)
(***************************************************************************)
THEOREM VmImplementsPoints == Spec => ImplementsPoints
<1>1. Init => Points!Init
  BY VmAssumption DEF Init, Points!Init, PointOf, LifeOf, System, Coro
<1>3. VmInv /\ [Next]_vars => [Points!Next]_(Points!vars)
  BY VmKeeps DEF Kept
<1>. QED
  BY <1>1, <1>3, VmInvariant, PTL DEF Spec, ImplementsPoints, Points!Spec
=============================================================================
