----------------------------- MODULE VmSequencing -----------------------------
(***************************************************************************)
(* Chapter 7 sequencing in the MIR interpreter (mir/interp/seq_ops.rs).    *)
(* There are no stacks to switch: the call stack of the active coroutine   *)
(* is the vector `frames` of the Vm, every other one is parked with its    *)
(* component, and a transfer moves the vectors.  Unlike the native runtime *)
(* the interpreter keeps a system for good once its block was entered, and *)
(* has no limit on nested systems.  The C-like runtime that the compiler   *)
(* synthesizes for WebAssembly (mir/seq_runtime.rs) keeps systems too.     *)
(*                                                                         *)
(* The target Component(x) of object x is written x.  A program is free in *)
(* what it executes next and about which object.                           *)
(***************************************************************************)
EXTENDS Naturals, Sequences, FiniteSets

CONSTANTS
    Object,      \* objects of classes that run on their own stack
    Main,        \* SeqTarget::Outermost
    Instance,    \* activations of blocks that head a system, and its handle
    BlockOf,     \* the compile-time id of the block an activation is of
    Outermost,   \* the system seq_outermost_system makes
    None

System == Instance \cup {Outermost}
Coro == Object \cup {Main}
Blocks == {BlockOf[s] : s \in Instance}

ASSUME VmAssumption ==
    /\ Main \notin Object
    /\ None \notin Coro \cup System \cup Blocks
    /\ Outermost \notin Instance

VARIABLES
    active,       \* active_target
    stack,        \* whose call stack Vm::frames holds
    parked,       \* per target whose call stack is parked there, or None
    state,        \* SeqComponent::state; "block" for block_instance
    park,         \* SeqComponent::park
    attachedTo,   \* SeqComponent::attached_to
    system,       \* SeqComponent::system
    origin,       \* SeqComponent::origin
    mainPark,     \* SeqSystemState::main_park, None before the block is entered
    operative,    \* SeqSystemState::operative
    seqFrames,    \* Vm::seq_frames, oldest first
    open,         \* of the program: the head blocks each coroutine is inside of
    status        \* "running", or how the run stopped

vars == <<active, stack, parked, state, park, attachedTo, system, origin,
          mainPark, operative, seqFrames, open, status>>

stacks == <<active, stack, parked>>
component == <<state, park, attachedTo, system, origin>>
systems == <<mainPark, operative, seqFrames>>

State == {"unborn", "block", "attached", "detached", "resumed", "terminated"}

Init ==
    /\ active = Main
    /\ stack = Main
    /\ parked = [c \in Coro |-> None]
    /\ state = [x \in Object |-> "unborn"]
    /\ park = [x \in Object |-> None]
    /\ attachedTo = [x \in Object |-> None]
    /\ system = [x \in Object |-> None]
    /\ origin = [x \in Object |-> None]
    /\ mainPark = [s \in System |-> IF s = Outermost THEN Main ELSE None]
    /\ operative = [s \in System |-> None]
    /\ seqFrames = <<>>
    /\ open = [c \in Coro |-> <<>>]
    /\ status = "running"

Stop(why) ==
    /\ status' = why
    /\ UNCHANGED <<stacks, component, systems, open>>

-----------------------------------------------------------------------------
(* Moving the call stacks.                                                 *)

\* seq_park_active: the stack in `frames` is stored under the active target.
ParkActive == [parked EXCEPT ![active] = stack]

\* Faulty: the stack that now runs also stays parked.
FaultySwitchTo(t) ==
    LET all == ParkActive
    IN  IF t = None \/ all[t] = None
        THEN status' = "ice" /\ UNCHANGED stacks
        ELSE /\ stack' = all[t]
             /\ parked' = all
             /\ active' = t
             /\ UNCHANGED status

\* seq_park_active and then seq_switch_to(t): the stack parked under t is taken.
\* No stack there, or no target, is an internal error.  A terminated object's
\* stack still stands at its final end.
SwitchTo(t) ==
    LET all == ParkActive
    IN  IF t = None \/ all[t] = None \/ (t \in Object /\ state'[t] = "terminated")
        THEN status' = "ice" /\ UNCHANGED stacks
        ELSE /\ stack' = all[t]
             /\ parked' = [all EXCEPT ![t] = None]
             /\ active' = t
             /\ UNCHANGED status

-----------------------------------------------------------------------------
(* Systems.                                                                *)

SystemEnter(s) ==
    /\ mainPark[s] = None
    /\ mainPark' = [mainPark EXCEPT ![s] = active]
    /\ seqFrames' = Append(seqFrames, [system |-> s, owner |-> active])
    /\ open' = [open EXCEPT ![active] = Append(@, s)]
    /\ UNCHANGED <<stacks, component, operative, status>>

InnermostOpen == open[active][Len(open[active])]
LeaveInnermost == open' = [open EXCEPT ![active] = SubSeq(@, 1, Len(@) - 1)]

\* The end of the block: only its frame goes, the newest there is of it.
SystemExit ==
    /\ open[active] # <<>>
    /\ \E i \in DOMAIN seqFrames :
         /\ seqFrames[i].system = InnermostOpen
         /\ \A j \in DOMAIN seqFrames : seqFrames[j].system = InnermostOpen => j <= i
         /\ seqFrames' = [j \in 1 .. Len(seqFrames) - 1 |->
                            seqFrames[IF j < i THEN j ELSE j + 1]]
    /\ LeaveInnermost
    /\ UNCHANGED <<stacks, component, mainPark, operative, status>>

\* A goto to a label outside the block is a jump: no SeqSystemExit for it.
GotoOut ==
    /\ open[active] # <<>>
    /\ LeaveInnermost
    /\ UNCHANGED <<stacks, component, systems, status>>

\* The coroutines a block instance is looked for on, nearest first.
outward[n \in Nat] ==
    IF n = 0 THEN active
    ELSE IF outward[n - 1] \in Object THEN origin[outward[n - 1]] ELSE None

Owns(n, b, i) == BlockOf[seqFrames[i].system] = b /\ seqFrames[i].owner = outward[n]

\* seq_system_for_block(b) is s: the system of the newest frame of block b that
\* the nearest of these entered, else the outermost one.
SystemForBlock(b, s) ==
    LET Near == 0 .. Cardinality(Object)
    IN  \/ \E n \in Near, i \in DOMAIN seqFrames :
             /\ Owns(n, b, i)
             /\ s = seqFrames[i].system
             /\ \A m \in Near, j \in DOMAIN seqFrames :
                  Owns(m, b, j) => n < m \/ (n = m /\ j <= i)
        \/ /\ \A n \in Near, i \in DOMAIN seqFrames : ~Owns(n, b, i)
           /\ s = Outermost

-----------------------------------------------------------------------------
(* Generating an object.                                                   *)

\* SeqObjectCreate and the SeqObjectStart after it: a fresh stack is active.
Generate(x, b) ==
    /\ state[x] = "unborn"
    /\ state' = [state EXCEPT ![x] = "attached"]
    /\ attachedTo' = [attachedTo EXCEPT ![x] = active]
    /\ \E s \in System \cup {None} :
         /\ IF b = None THEN s = None ELSE SystemForBlock(b, s)
         /\ system' = [system EXCEPT ![x] = s]
    /\ origin' = [origin EXCEPT ![x] = active]
    /\ parked' = ParkActive
    /\ stack' = x
    /\ active' = x
    /\ UNCHANGED <<park, systems, open, status>>

\* SeqBlockInstance: the object of a prefixed block has no stack.
BlockInstance(x) ==
    /\ state[x] = "unborn"
    /\ state' = [state EXCEPT ![x] = "block"]
    /\ UNCHANGED <<stacks, park, attachedTo, system, origin, systems, open, status>>

-----------------------------------------------------------------------------
(* detach, call, resume and the final end.                                 *)

\* seq_leave.  An attached object returns where it is attached, a resumed one
\* makes the main component of its system operative.
Leave(x, next) ==
    /\ state[x] \in {"attached", "resumed"}
    /\ state' = [state EXCEPT ![x] = next]
    /\ park' = [park EXCEPT ![x] = IF next = "terminated" THEN None ELSE active]
    /\ IF state[x] = "attached"
       THEN /\ SwitchTo(attachedTo[x])
            /\ UNCHANGED operative
       ELSE /\ operative' = [operative EXCEPT ![system[x]] = None]
            /\ SwitchTo(mainPark[system[x]])
    /\ UNCHANGED <<attachedTo, system, origin, mainPark, seqFrames, open>>

CannotLeave(x) ==
    /\ state[x] \in {"unborn", "detached", "terminated"}
    /\ Stop("error")

Detach(x) ==
    \/ Leave(x, "detached")
    \/ CannotLeave(x)
    \/ state[x] = "block" /\ UNCHANGED vars

\* The body of the running object reaches its end.
Terminate(x) ==
    /\ active = x
    /\ open[x] = <<>>
    /\ Leave(x, "terminated") \/ CannotLeave(x)

Call(x) ==
    \/ /\ state[x] = "detached"
       /\ state' = [state EXCEPT ![x] = "attached"]
       /\ attachedTo' = [attachedTo EXCEPT ![x] = active]
       /\ SwitchTo(park[x])
       /\ UNCHANGED <<park, system, origin, systems, open>>
    \/ /\ state[x] # "detached"
       /\ Stop("error")

\* Faulty: the main component's place is overwritten in both cases.
FaultyOperativeGivesWay(z, s) ==
    /\ mainPark' = [mainPark EXCEPT ![s] = active]
    /\ IF z = None
       THEN UNCHANGED park
       ELSE park' = [park EXCEPT ![z] = active]

\* The component of s that was operative, z or the main component, keeps the
\* place of the resume statement.
OperativeGivesWay(z, s) ==
    IF z = None
    THEN /\ mainPark' = [mainPark EXCEPT ![s] = active]
         /\ UNCHANGED park
    ELSE /\ park' = [park EXCEPT ![z] = active]
         /\ UNCHANGED mainPark

Resume(x) ==
    \/ /\ system[x] # None
       /\ state[x] = "detached"
       /\ LET z == operative[system[x]] IN
            /\ OperativeGivesWay(z, system[x])
            /\ state' = [y \in Object |-> CASE y = x -> "resumed"
                                            [] y = z -> "detached"
                                            [] OTHER -> state[y]]
       /\ operative' = [operative EXCEPT ![system[x]] = x]
       /\ SwitchTo(park[x])
       /\ UNCHANGED <<attachedTo, system, origin, seqFrames, open>>
    \/ /\ system[x] # None
       /\ state[x] = "resumed"
       /\ UNCHANGED vars
    \/ /\ system[x] = None \/ state[x] \notin {"detached", "resumed"}
       /\ Stop("error")

Finish ==
    /\ active = Main
    /\ open[Main] = <<>>
    /\ Stop("finished")

Next ==
    \/ /\ status = "running"
       /\ \/ \E s \in Instance : SystemEnter(s)
          \/ SystemExit
          \/ GotoOut
          \/ \E x \in Object, b \in Blocks \cup {None} : Generate(x, b)
          \/ \E x \in Object : BlockInstance(x)
          \/ \E x \in Object : Detach(x) \/ Call(x) \/ Resume(x) \/ Terminate(x)
          \/ Finish
    \/ status # "running" /\ UNCHANGED vars

Spec == Init /\ [][Next]_vars

-----------------------------------------------------------------------------

\* What each field can hold; the operative component of a system is the one
\* object of it that is resumed, also after the block that heads it was left.
TypeOK ==
    /\ active \in Coro
    /\ stack \in Coro
    /\ parked \in [Coro -> Coro \cup {None}]
    /\ state \in [Object -> State]
    /\ park \in [Object -> Coro \cup {None}]
    /\ attachedTo \in [Object -> Coro \cup {None}]
    /\ system \in [Object -> System \cup {None}]
    /\ origin \in [Object -> Coro \cup {None}]
    /\ mainPark \in [System -> Coro \cup {None}]
    /\ operative \in [System -> Object \cup {None}]
    /\ \A s \in System, x \in Object :
         operative[s] = x <=> state[x] = "resumed" /\ system[x] = s
    /\ seqFrames \in Seq([system : Instance, owner : Coro])
    /\ open \in [Coro -> Seq(Instance)]
    /\ status \in {"running", "finished", "error", "ice"}

Started(c) == c = Main \/ state[c] \notin {"unborn", "block"}

\* The Vm runs the stack that active_target names, and every other coroutine's
\* stack is parked with its own component: no sequence of transfers, errors
\* aside, mislays one, runs one twice, or reaches "component has no parked
\* stack" or a stack that is at its final end.
StacksInPlace ==
    /\ stack = active
    /\ \A c \in Coro : parked[c] = IF Started(c) /\ c # active THEN c ELSE None
    /\ status # "ice"

PointOf == [x \in Object |-> CASE state[x] = "attached" -> attachedTo[x]
                               [] state[x] = "detached" -> park[x]
                               [] state[x] = "resumed"  -> mainPark[system[x]]
                               [] OTHER                 -> None]

LifeOf == [x \in Object |-> CASE state[x] \in {"unborn", "block"} -> "unborn"
                              [] state[x] = "terminated" -> "ended"
                              [] OTHER -> "alive"]

Points == INSTANCE ReactivationPoints WITH
            psc <- active, point <- PointOf, life <- LifeOf, dropped <- {}

\* The interpreter's chapter 7 is the same exchange of reactivation points as
\* the native runtime's, and as its systems are kept no point is ever dropped.
ImplementsPoints == Points!Spec
=============================================================================
