------------------------------ MODULE Sequencing ------------------------------
(***************************************************************************)
(* Quasi-parallel sequencing (Simula Standard, chapter 7) as the native    *)
(* runtime executes it: runtime/sequencing.c over the stacks of            *)
(* runtime/coro.c.  One action per runtime entry point; which statement    *)
(* the compiled program executes next, and about which object, is free.    *)
(*                                                                         *)
(* An object that runs on its own stack and that stack are one value: the  *)
(* coroutine `component->head` of object x is written x.                   *)
(***************************************************************************)
EXTENDS Naturals, Sequences, FiniteSets

CONSTANTS Object,     \* objects of classes that run on their own stack
          Main,       \* simrt_coro_main: the stack that starts the program
          Instance,   \* activations of the blocks that head a system; each
                      \* is also the handle of the system it creates
          BlockOf,    \* the compile-time id of the block an activation is of
          Outermost,  \* simrt_seq_outermost_system
          None,
          MaxFrames   \* SIMRT_SEQ_MAX_SYSTEMS

System == Instance \cup {Outermost}
Coro == Object \cup {Main}

ASSUME SequencingAssumption ==
  /\ Main \notin Object
  /\ None \notin Coro \cup System
  /\ Outermost \notin Instance
  /\ MaxFrames \in Nat

VARIABLES
  current,     \* simrt_coro_current: the coroutine that has control
  state,       \* component->state; "unborn": never registered
  park,        \* component->park
  attachedTo,  \* component->attached_to
  system,      \* component->system
  origin,      \* component->origin
  phase,       \* "unused", "live" or "freed", for each system handle
  mainPark,    \* system->main_park
  operative,   \* system->operative, None for the main component
  frames,      \* simrt_seq_frames, oldest first
  status       \* "running", or how the program stopped

VARIABLES
  open,        \* the system-heading blocks each coroutine is inside of
  env,         \* the block instances visible from inside a block instance
  decl,        \* the block instance that declares the object's class
  orphans      \* coroutines whose reactivation point died with a system

runtimeVars == <<current, state, park, attachedTo, system, origin, phase,
                 mainPark, operative, frames, status>>
programVars == <<open, env, decl, orphans>>
vars == <<runtimeVars, programVars>>

State == {"unborn", "block", "attached", "detached", "resumed", "terminated"}
Frame == [system : Instance, owner : Coro]

\* What each field can hold; the frames fit in the runtime's fixed array.
TypeOK ==
  /\ current \in Coro
  /\ state \in [Object -> State]
  /\ park \in [Object -> Coro \cup {None}]
  /\ attachedTo \in [Object -> Coro \cup {None}]
  /\ system \in [Object -> System \cup {None}]
  /\ origin \in [Object -> Coro \cup {None}]
  /\ phase \in [System -> {"unused", "live", "freed"}]
  /\ mainPark \in [System -> Coro]
  /\ operative \in [System -> Object \cup {None}]
  /\ frames \in Seq(Frame)
  /\ Len(frames) <= MaxFrames
  /\ status \in {"running", "finished", "error", "dangling", "internal"}
  /\ open \in [Coro -> Seq(Instance)]
  /\ env \in [Instance -> SUBSET Instance]
  /\ decl \in [Object -> Instance \cup {None}]
  /\ orphans \subseteq Coro

Init ==
  /\ current = Main
  /\ state = [x \in Object |-> "unborn"]
  /\ park = [x \in Object |-> None]
  /\ attachedTo = [x \in Object |-> None]
  /\ system = [x \in Object |-> None]
  /\ origin = [x \in Object |-> None]
  /\ phase = [s \in System |-> IF s = Outermost THEN "live" ELSE "unused"]
  /\ mainPark = [s \in System |-> Main]
  /\ operative = [s \in System |-> None]
  /\ frames = <<>>
  /\ status = "running"
  /\ open = [c \in Coro |-> <<>>]
  /\ env = [s \in Instance |-> {}]
  /\ decl = [x \in Object |-> None]
  /\ orphans = {}

-----------------------------------------------------------------------------
(* How the program stops.  simrt_seq_error aborts the process.             *)

Stop(why) ==
  /\ status' = why
  /\ UNCHANGED <<current, state, park, attachedTo, system, origin, phase,
                 mainPark, operative, frames, programVars>>

\* simrt_coro_switch.  A terminated object's stack is still suspended in the
\* switch of its final end, so control that lands there meets
\* "control returned into a terminated object".
SwitchTo(c) ==
  /\ current' = c
  /\ status' = IF c \in Object /\ state'[c] = "terminated"
               THEN "internal" ELSE status

-----------------------------------------------------------------------------
(* Systems: entering and leaving the blocks that head them.                *)

\* Every block instance the code that has control can name: the ones its own
\* stack is inside of, and the surroundings of its object's declaration.
Visible ==
  LET inner == {open[current][i] : i \in DOMAIN open[current]}
      outer == IF current \in Object /\ decl[current] # None
               THEN {decl[current]} ELSE {}
  IN UNION {env[s] : s \in inner \cup outer}

\* Faulty: no limit.
EnterUnchecked(s) ==
  /\ phase[s] = "unused"
  /\ phase' = [phase EXCEPT ![s] = "live"]
  /\ mainPark' = [mainPark EXCEPT ![s] = current]
  /\ operative' = [operative EXCEPT ![s] = None]
  /\ frames' = Append(frames, [system |-> s, owner |-> current])
  /\ open' = [open EXCEPT ![current] = Append(@, s)]
  /\ env' = [env EXCEPT ![s] = Visible \cup {s}]
  /\ UNCHANGED <<current, state, park, attachedTo, system, origin, status,
                 decl, orphans>>

SystemEnter(s) ==
  /\ phase[s] = "unused"
  /\ IF Len(frames) = MaxFrames
     THEN Stop("error")
     ELSE /\ phase' = [phase EXCEPT ![s] = "live"]
          /\ mainPark' = [mainPark EXCEPT ![s] = current]
          /\ operative' = [operative EXCEPT ![s] = None]
          /\ frames' = Append(frames, [system |-> s, owner |-> current])
          /\ open' = [open EXCEPT ![current] = Append(@, s)]
          /\ env' = [env EXCEPT ![s] = Visible \cup {s}]
          /\ UNCHANGED <<current, state, park, attachedTo, system, origin,
                         status, decl, orphans>>

Without(i) == [j \in 1..Len(frames) - 1 |->
                 IF j < i THEN frames[j] ELSE frames[j + 1]]

InnermostOpen == open[current][Len(open[current])]
LeaveInnermost ==
  open' = [open EXCEPT ![current] = SubSeq(@, 1, Len(@) - 1)]

\* Faulty: blocks nest, so the newest frame goes.
ExitNewest ==
  /\ open[current] # <<>> /\ frames # <<>>
  /\ LET s == InnermostOpen IN
       /\ frames' = Without(Len(frames))
       /\ phase' = [phase EXCEPT ![s] = "freed"]
       /\ operative' = [operative EXCEPT ![s] = None]
       /\ orphans' = IF operative[s] = None THEN orphans
                     ELSE orphans \cup {mainPark[s]}
  /\ LeaveInnermost
  /\ UNCHANGED <<current, state, park, attachedTo, system, origin, mainPark,
                 status, env, decl>>

\* The end of the block: its frame goes, newest first, and the system is
\* freed whatever its objects still say of it.
SystemExit ==
  /\ open[current] # <<>>
  /\ LET s == InnermostOpen IN
       /\ \E i \in 1..Len(frames) :
            /\ frames[i].system = s
            /\ \A j \in i + 1..Len(frames) : frames[j].system # s
            /\ frames' = Without(i)
       /\ phase' = [phase EXCEPT ![s] = "freed"]
       /\ operative' = [operative EXCEPT ![s] = None]
       /\ orphans' = IF operative[s] = None THEN orphans
                     ELSE orphans \cup {mainPark[s]}
  /\ LeaveInnermost
  /\ UNCHANGED <<current, state, park, attachedTo, system, origin, mainPark,
                 status, env, decl>>

\* A goto to a label outside the block lowers to a jump: the block is left
\* and simrt_seq_system_exit is never called for it.
GotoOut ==
  /\ open[current] # <<>>
  /\ LeaveInnermost
  /\ UNCHANGED <<runtimeVars, env, decl, orphans>>

-----------------------------------------------------------------------------
(* Generating an object.                                                   *)

\* The coroutines a block instance is looked for on, nearest first.
outward[n \in Nat] ==
  IF n = 0 THEN current
  ELSE IF outward[n - 1] \in Object THEN origin[outward[n - 1]] ELSE None

\* Frame i is of an activation of block b that coroutine c entered.
Owns(c, b, i) == BlockOf[frames[i].system] = b /\ frames[i].owner = c

\* simrt_seq_system_for_block(b) is s: the newest such frame of the nearest
\* coroutine that has one, and failing that the outermost system.
SystemForBlock(b, s) ==
  LET Steps == 0..Cardinality(Object)
      Frames == 1..Len(frames)
  IN \/ \E n \in Steps, i \in Frames :
          /\ Owns(outward[n], b, i)
          /\ frames[i].system = s
          /\ \A j \in Frames : Owns(outward[n], b, j) => j <= i
          /\ \A m \in Steps, j \in Frames : Owns(outward[m], b, j) => n <= m
     \/ /\ s = Outermost
        /\ \A n \in Steps, i \in Frames : ~Owns(outward[n], b, i)

\* The system of a new object of a class that activation d declares; d = None
\* when a class or procedure body declares it.
LocalTo(x, d) ==
  IF d = None
  THEN system' = system
  ELSE \E s \in System : SystemForBlock(BlockOf[d], s)
                        /\ system' = [system EXCEPT ![x] = s]

\* simrt_seq_object_create then simrt_seq_object_start.
Generate(x, d) ==
  /\ state[x] = "unborn"
  /\ LocalTo(x, d)
  /\ state' = [state EXCEPT ![x] = "attached"]
  /\ park' = [park EXCEPT ![x] = x]
  /\ attachedTo' = [attachedTo EXCEPT ![x] = current]
  /\ origin' = [origin EXCEPT ![x] = current]
  /\ decl' = [decl EXCEPT ![x] = d]
  /\ SwitchTo(x)
  /\ UNCHANGED <<phase, mainPark, operative, frames, open, env, orphans>>

\* simrt_seq_block_instance: the object of a prefixed block, which has a
\* detach attribute but no stack.
BlockInstance(x) ==
  /\ state[x] = "unborn"
  /\ state' = [state EXCEPT ![x] = "block"]
  /\ UNCHANGED <<current, park, attachedTo, system, origin, phase, mainPark,
                 operative, frames, status, programVars>>

-----------------------------------------------------------------------------
(* detach, call, resume and the final end.                                 *)

\* Faulty: the final end leaves the object detached.
LeaveAlive(x, next) ==
  /\ state' = [state EXCEPT ![x] = "detached"]
  /\ park' = [park EXCEPT ![x] = IF next = "terminated" THEN None ELSE current]
  /\ UNCHANGED <<attachedTo, system, origin, phase, mainPark, frames,
                 programVars>>

\* Faulty: the object parks on its own stack, wherever it was detached from.
LeaveParksHead(x, next) ==
  /\ state' = [state EXCEPT ![x] = next]
  /\ park' = [park EXCEPT ![x] = IF next = "terminated" THEN None ELSE x]
  /\ UNCHANGED <<attachedTo, system, origin, phase, mainPark, frames,
                 programVars>>

Leave(x, next) ==
  /\ state' = [state EXCEPT ![x] = next]
  /\ park' = [park EXCEPT ![x] = IF next = "terminated" THEN None ELSE current]
  /\ UNCHANGED <<attachedTo, system, origin, phase, mainPark, frames,
                 programVars>>

\* simrt_seq_leave, by the state of the object that leaves.
LeaveAttached(x, next) ==
  /\ state[x] = "attached"
  /\ Leave(x, next)
  /\ UNCHANGED operative
  /\ SwitchTo(attachedTo[x])

\* Faulty: the system still names the object as operative.
LeaveResumedStale(x, next) ==
  /\ state[x] = "resumed"
  /\ phase[system[x]] = "live"
  /\ Leave(x, next)
  /\ UNCHANGED operative
  /\ SwitchTo(mainPark[system[x]])

LeaveResumed(x, next) ==
  /\ state[x] = "resumed"
  /\ phase[system[x]] = "live"
  /\ Leave(x, next)
  /\ operative' = [operative EXCEPT ![system[x]] = None]
  /\ SwitchTo(mainPark[system[x]])

\* The system is read after it was freed: nothing is said of what follows.
LeaveFreed(x) ==
  /\ state[x] = "resumed"
  /\ phase[system[x]] = "freed"
  /\ Stop("dangling")

LeaveError(x) ==
  /\ state[x] \in {"unborn", "detached", "terminated"}
  /\ Stop("error")

Detach(x) ==
  \/ LeaveAttached(x, "detached")
  \/ LeaveResumed(x, "detached")
  \/ LeaveFreed(x)
  \/ LeaveError(x)
  \/ state[x] = "block" /\ UNCHANGED vars

\* The program reaches the end of the running object's body.
FinalEnd(x) == current = x /\ open[x] = <<>>

Terminate(x) ==
  /\ FinalEnd(x)
  /\ \/ LeaveAttached(x, "terminated")
     \/ LeaveResumed(x, "terminated")
     \/ LeaveFreed(x)
     \/ LeaveError(x)

\* Faulty: the object stays attached where it was before.
CallUnattached(x) ==
  IF state[x] # "detached"
  THEN Stop("error")
  ELSE /\ state' = [state EXCEPT ![x] = "attached"]
       /\ SwitchTo(park[x])
       /\ UNCHANGED <<attachedTo, park, system, origin, phase, mainPark,
                      operative, frames, programVars>>

Call(x) ==
  IF state[x] # "detached"
  THEN Stop("error")
  ELSE /\ state' = [state EXCEPT ![x] = "attached"]
       /\ attachedTo' = [attachedTo EXCEPT ![x] = current]
       /\ SwitchTo(park[x])
       /\ UNCHANGED <<park, system, origin, phase, mainPark, operative, frames,
                      programVars>>

ResumeError(x) ==
  /\ system[x] = None \/ state[x] \notin {"detached", "resumed"}
  /\ Stop("error")

ResumeNoEffect(x) ==
  /\ system[x] # None
  /\ state[x] = "resumed"
  /\ UNCHANGED vars

ResumeFreed(x) ==
  /\ state[x] = "detached"
  /\ system[x] # None
  /\ phase[system[x]] = "freed"
  /\ Stop("dangling")

\* Faulty: the main component is given the operative component's place.
ResumeMixedUp(x) ==
  LET s == system[x]
      z == operative[s]
  IN /\ state[x] = "detached"
     /\ s # None
     /\ phase[s] = "live"
     /\ mainPark' = [mainPark EXCEPT ![s] = current]
     /\ state' = IF z = None THEN [state EXCEPT ![x] = "resumed"]
                 ELSE [state EXCEPT ![z] = "detached", ![x] = "resumed"]
     /\ operative' = [operative EXCEPT ![s] = x]
     /\ SwitchTo(park[x])
     /\ UNCHANGED <<park, attachedTo, system, origin, phase, frames,
                    programVars>>

\* Faulty: the place of the main component is not recorded.
ResumeForgetsMain(x) ==
  LET s == system[x]
      z == operative[s]
  IN /\ state[x] = "detached"
     /\ s # None
     /\ phase[s] = "live"
     /\ \/ /\ z = None
           /\ state' = [state EXCEPT ![x] = "resumed"]
           /\ UNCHANGED park
        \/ /\ z # None
           /\ park' = [park EXCEPT ![z] = current]
           /\ state' = [state EXCEPT ![z] = "detached", ![x] = "resumed"]
     /\ operative' = [operative EXCEPT ![s] = x]
     /\ SwitchTo(park[x])
     /\ UNCHANGED <<mainPark, attachedTo, system, origin, phase, frames,
                    programVars>>

\* The operative component z of the system keeps the place of the resume
\* statement, on whichever coroutine executes it; so does the main component.
ResumeDetached(x) ==
  LET s == system[x]
      z == operative[s]
  IN /\ state[x] = "detached"
     /\ s # None
     /\ phase[s] = "live"
     /\ \/ /\ z = None
           /\ mainPark' = [mainPark EXCEPT ![s] = current]
           /\ state' = [state EXCEPT ![x] = "resumed"]
           /\ UNCHANGED park
        \/ /\ z # None
           /\ park' = [park EXCEPT ![z] = current]
           /\ state' = [state EXCEPT ![z] = "detached", ![x] = "resumed"]
           /\ UNCHANGED mainPark
     /\ operative' = [operative EXCEPT ![s] = x]
     /\ SwitchTo(park[x])
     /\ UNCHANGED <<attachedTo, system, origin, phase, frames, programVars>>

Resume(x) ==
  ResumeError(x) \/ ResumeNoEffect(x) \/ ResumeFreed(x) \/ ResumeDetached(x)

\* The program's own last end: the process exits.
Finish ==
  /\ current = Main
  /\ open[Main] = <<>>
  /\ Stop("finished")
-----------------------------------------------------------------------------

Blocks == (\E s \in Instance : SystemEnter(s)) \/ SystemExit \/ GotoOut
Generator ==
  \E x \in Object :
    \/ \E d \in (Visible \cap Instance) \cup {None} : Generate(x, d)
    \/ BlockInstance(x)
Statement == \E x \in Object : Detach(x) \/ Call(x) \/ Resume(x) \/ Terminate(x)

Stopped == status # "running" /\ UNCHANGED vars

Next ==
  \/ /\ status = "running"
     /\ Blocks \/ Generator \/ Statement \/ Finish
  \/ Stopped

Spec == Init /\ [][Next]_vars

-----------------------------------------------------------------------------
(* Where every suspended coroutine waits.                                  *)

\* The objects that keep a reactivation point.
Waiting == {x \in Object :
              \/ state[x] \in {"attached", "detached"}
              \/ state[x] = "resumed" /\ phase[system[x]] = "live"}

\* The coroutine that continues when x next leaves or is reactivated.
Point(x) == CASE state[x] = "attached" -> attachedTo[x]
              [] state[x] = "detached" -> park[x]
              [] OTHER -> mainPark[system[x]]

\* The operative component of a live system is resumed, and a resumed object
\* is the operative component of its own system.
OperativeIsResumed ==
  \A s \in System, x \in Object :
    phase[s] = "live" =>
      (operative[s] = x <=> state[x] = "resumed" /\ system[x] = s)

\* The frames are those of the systems that are not freed, one of each, and a
\* block that a coroutine is inside of has the frame of that coroutine, which
\* its generators look for: blocks are left in any order, by coroutines in
\* turn, some by goto, and each end takes the frame of its own system.
FramesAreLive ==
  LET Frames == {frames[i] : i \in 1..Len(frames)}
  IN /\ {f.system : f \in Frames} = {s \in Instance : phase[s] = "live"}
     /\ \A i, j \in 1..Len(frames) : frames[i].system = frames[j].system => i = j
     /\ \A c \in Coro : \A k \in DOMAIN open[c] :
          [system |-> open[c][k], owner |-> c] \in Frames

\* The internal faults the runtime guards against never happen: control never
\* returns into a terminated object, no resumed object lacks a system.
NoInternalFault == status # "internal"

\* An attached object's attachment point continues only when the object
\* detaches or terminates: sequencing.h says of a generator that it
\* "returns once the body detaches or terminates".
LeftWhenReturned ==
  \A x \in Object :
    state[x] = "attached" /\ current' # current /\ current' = attachedTo[x]
      => state'[x] \in {"detached", "terminated"}

ReturnsWhenLeft == [][LeftWhenReturned]_vars

Life(x) == CASE state[x] \in {"unborn", "block"} -> "unborn"
             [] state[x] = "terminated" -> "ended"
             [] OTHER -> "alive"

PointOf == [x \in Object |-> IF x \in Waiting THEN Point(x) ELSE None]
LifeOf == [x \in Object |-> Life(x)]

Points == INSTANCE ReactivationPoints WITH
            psc <- current, point <- PointOf, life <- LifeOf, dropped <- orphans

\* Chapter 7 as the runtime executes it is an exchange of reactivation points.
ImplementsPoints == Points!Spec

\* Whatever mixture of generators, detaches, calls, resumes and final ends ran:
\* no two objects wait for the same stack, none for one that runs, has ended or
\* was not begun, and no suspended stack is out of everybody's reach.
PointsSafe ==
  /\ Points!PointsDistinct
  /\ Points!PointsSuspended
  /\ Points!ControlInLiveCoroutine
  /\ Points!NothingLost
=============================================================================
