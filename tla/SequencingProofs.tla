--------------------------- MODULE SequencingProofs ---------------------------
(***************************************************************************)
(* Proofs about Sequencing, for any number of objects, nested systems and  *)
(* frames.  SeqInv relates the fields of components and systems; with it   *)
(* each runtime operation is an exchange of reactivation points, so what   *)
(* holds of all exchanges holds of the runtime.  The last part is          *)
(* about OperatingChain: a chart of the coroutines, with a rank that       *)
(* strictly falls along every way, shows that control reaches main.        *)
(***************************************************************************)
EXTENDS OperatingChain, WellFoundedInduction, TLAPS

\* A component has what its state makes the runtime follow.
ComponentsInv ==
  \A x \in Object :
    /\ state[x] = "attached" => attachedTo[x] # None
    /\ state[x] = "detached" => park[x] # None
    /\ state[x] = "resumed" => system[x] # None

\* A system that is named anywhere was entered; one that is not live has no
\* operative component.
SystemsInv ==
  /\ \A s \in System : phase[s] # "live" => operative[s] = None
  /\ \A x \in Object : system[x] # None => phase[system[x]] # "unused"
  /\ \A i \in 1..Len(frames) : phase[frames[i].system] # "unused"
  /\ phase[Outermost] # "unused"

SeqInv == TypeOK /\ OperativeIsResumed /\ ComponentsInv /\ SystemsInv

(***************************************************************************)
(* Leaving a block: dropping a frame, or an open block, yields a sequence  *)
(* of the ones that were there.                                            *)
(***************************************************************************)
LEMMA WithoutType ==
  ASSUME NEW i \in 1..Len(frames), frames \in Seq(Frame), Len(frames) <= MaxFrames
  PROVE  /\ Without(i) \in Seq(Frame)
         /\ Len(Without(i)) <= MaxFrames
         /\ \A j \in 1..Len(Without(i)) :
              \E k \in 1..Len(frames) : Without(i)[j] = frames[k]
<1>. DEFINE n == Len(frames) - 1
<1>1. n \in Nat
  OBVIOUS
<1>2. /\ DOMAIN Without(i) = 1..n
      /\ \A j \in 1..n : \E k \in 1..Len(frames) : Without(i)[j] = frames[k]
  BY DEF Without
<1>3. \A j \in 1..n : Without(i)[j] \in Frame
  BY <1>2
<1>4. Without(i) = [j \in 1..n |-> Without(i)[j]]
  BY DEF Without
<1>5. Without(i) \in Seq(Frame) /\ Len(Without(i)) = n
  BY <1>1, <1>3, <1>4
<1>. QED
  BY <1>1, <1>2, <1>5, SequencingAssumption

LEMMA LeaveInnermostType ==
  ASSUME open \in [Coro -> Seq(Instance)], current \in Coro,
         open[current] # <<>>, LeaveInnermost
  PROVE  open' \in [Coro -> Seq(Instance)] /\ InnermostOpen \in Instance
<1>1. Len(open[current]) \in Nat \ {0}
  OBVIOUS
<1>2. SubSeq(open[current], 1, Len(open[current]) - 1) \in Seq(Instance)
  BY <1>1
<1>3. InnermostOpen \in Instance
  BY <1>1 DEF InnermostOpen
<1>. QED
  BY <1>2, <1>3 DEF LeaveInnermost

(***************************************************************************)
(* A generator finds a system that was entered, or the outermost one.      *)
(***************************************************************************)
LEMMA SystemForBlockEntered ==
  ASSUME NEW b, NEW s \in System, SystemForBlock(b, s)
  PROVE  s = Outermost \/ \E i \in 1..Len(frames) : frames[i].system = s
  BY DEF SystemForBlock

LEMMA SeqInit == Init => SeqInv
  BY SequencingAssumption
  DEF Init, SeqInv, ComponentsInv, SystemsInv, TypeOK, OperativeIsResumed, System, Coro, State

(***************************************************************************)
(* One step per runtime entry point, one per branch inside it.             *)
(***************************************************************************)
LEMMA SeqStep == SeqInv /\ [Next]_vars => SeqInv'
<1> SUFFICES ASSUME SeqInv, [Next]_vars PROVE SeqInv'
  OBVIOUS
<1> USE SequencingAssumption DEF System, Coro
<1>. DEFINE Inv == SeqInv
<1>stop. ASSUME NEW why \in {"finished", "error", "dangling", "internal"},
                Stop(why)
         PROVE  SeqInv'
  BY <1>stop DEF Stop, SeqInv, TypeOK, OperativeIsResumed, ComponentsInv, SystemsInv, programVars
<1>same. ASSUME UNCHANGED vars PROVE SeqInv'
  BY <1>same DEF vars, runtimeVars, programVars, SeqInv, TypeOK,
                 OperativeIsResumed, ComponentsInv, SystemsInv
<1>switch. ASSUME NEW c \in Coro, SwitchTo(c)
           PROVE  current' \in Coro
                  /\ status' \in {"running", "finished", "error", "dangling", "internal"}
  BY <1>switch DEF SwitchTo, SeqInv, TypeOK
<1>enter. ASSUME NEW s \in Instance, SystemEnter(s) PROVE SeqInv'
  <2>1. CASE Len(frames) = MaxFrames
    BY <1>enter, <1>stop, <2>1 DEF SystemEnter
  <2>2. CASE Len(frames) # MaxFrames
    <3>. DEFINE f == [system |-> s, owner |-> current]
    <3>a. f \in Frame /\ frames' = Append(frames, f) /\ frames \in Seq(Frame)
      BY <1>enter, <2>2 DEF SystemEnter, SeqInv, TypeOK, Frame
    <3>b. Len(frames) \in Nat /\ Len(frames) < MaxFrames
      BY <2>2, <3>a DEF SeqInv, TypeOK
    <3>1. /\ frames' \in Seq(Frame)
          /\ Len(frames') <= MaxFrames
          /\ \A i \in 1..Len(frames') :
               frames'[i].system = s \/ \E j \in 1..Len(frames) : frames'[i] = frames[j]
      <4>. HIDE DEF f
      <4>1. frames' \in Seq(Frame) /\ Len(frames') = Len(frames) + 1
        BY <3>a
      <4>2. frames'[Len(frames) + 1] = f
        BY <3>a, <3>b
      <4>3. \A i \in 1..Len(frames) : frames'[i] = frames[i]
        BY <3>a, <3>b
      <4>. QED
        BY <3>b, <4>1, <4>2, <4>3 DEF f
    <3>2. Visible \cup {s} \subseteq Instance
      BY DEF Visible, SeqInv, TypeOK
    <3>c. Append(open[current], s) \in Seq(Instance)
      BY DEF SeqInv, TypeOK
    <3>d. /\ phase[s] = "unused"
          /\ phase' = [phase EXCEPT ![s] = "live"]
          /\ mainPark' = [mainPark EXCEPT ![s] = current]
          /\ operative' = [operative EXCEPT ![s] = None]
          /\ open' = [open EXCEPT ![current] = Append(open[current], s)]
          /\ env' = [env EXCEPT ![s] = Visible \cup {s}]
          /\ UNCHANGED <<current, state, park, attachedTo, system, origin, status,
                         decl, orphans>>
      BY <1>enter, <2>2 DEF SystemEnter
    <3>3. open' \in [Coro -> Seq(Instance)] /\ env' \in [Instance -> SUBSET Instance]
      BY <3>c, <3>d, <3>2 DEF SeqInv, TypeOK
    <3>6. TypeOK'
      BY <3>1, <3>3, <3>d
      DEF SeqInv, TypeOK, Frame, State
    <3>7. OperativeIsResumed'
      BY <3>1, <3>3, <3>d
      DEF SeqInv, TypeOK, OperativeIsResumed, SystemsInv
    <3>8. ComponentsInv'
      BY <3>1, <3>3, <3>d
      DEF SeqInv, TypeOK, OperativeIsResumed, ComponentsInv
    <3>9. SystemsInv'
      BY <3>1, <3>3, <3>d
      DEF SeqInv, TypeOK, SystemsInv, OperativeIsResumed, Frame
    <3>. QED
      BY <3>6, <3>7, <3>8, <3>9 DEF SeqInv
  <2>. QED
    BY <2>1, <2>2
<1>exit. CASE SystemExit
  <2>1. open' \in [Coro -> Seq(Instance)] /\ InnermostOpen \in Instance
    BY <1>exit, LeaveInnermostType DEF SystemExit, SeqInv, TypeOK
  <2>2. PICK i \in 1..Len(frames) : frames' = Without(i)
    BY <1>exit DEF SystemExit
  <2>3. /\ frames' \in Seq(Frame)
        /\ Len(frames') <= MaxFrames
        /\ \A j \in 1..Len(frames') : \E k \in 1..Len(frames) : frames'[j] = frames[k]
    <3>1. frames \in Seq(Frame) /\ Len(frames) <= MaxFrames
      BY DEF SeqInv, TypeOK
    <3>. QED
      BY <2>2, <3>1, WithoutType
  <2>6. TypeOK'
    BY <1>exit, <2>1, <2>3
    DEF SystemExit, SeqInv, TypeOK, Frame, State
  <2>7. OperativeIsResumed'
    BY <1>exit, <2>1, <2>3
    DEF SystemExit, SeqInv, TypeOK, OperativeIsResumed
  <2>8. ComponentsInv'
    BY <1>exit, <2>1, <2>3
    DEF SystemExit, SeqInv, TypeOK, OperativeIsResumed, ComponentsInv
  <2>9. SystemsInv'
    <3>1. /\ phase' = [phase EXCEPT ![InnermostOpen] = "freed"]
          /\ operative' = [operative EXCEPT ![InnermostOpen] = None]
          /\ system' = system
      BY <1>exit DEF SystemExit
    <3>2. \A k \in 1..Len(frames) : frames[k].system \in Instance
      <4>1. \A k \in 1..Len(frames) : frames[k] \in Frame
        BY DEF SeqInv, TypeOK
      <4>. QED
        BY <4>1 DEF Frame
    <3>3. \A s \in System : phase[s] # "unused" => phase'[s] # "unused"
      BY <2>1, <3>1 DEF SeqInv, TypeOK
    <3>4. \A j \in 1..Len(frames') : phase'[frames'[j].system] # "unused"
      BY <2>3, <3>2, <3>3 DEF SeqInv, SystemsInv
    <3>. QED
      BY <2>1, <3>1, <3>3, <3>4 DEF SeqInv, TypeOK, SystemsInv
  <2>. QED
    BY <2>6, <2>7, <2>8, <2>9 DEF SeqInv
<1>goto. CASE GotoOut
  BY <1>goto, LeaveInnermostType
  DEF GotoOut, runtimeVars, SeqInv, TypeOK, OperativeIsResumed, ComponentsInv, SystemsInv
<1>gen. ASSUME NEW x \in Object, NEW d \in (Visible \cap Instance) \cup {None},
               Generate(x, d)
        PROVE  SeqInv'
  <2>1. \A s \in System : d # None /\ SystemForBlock(BlockOf[d], s) => phase[s] # "unused"
    BY SystemForBlockEntered DEF SeqInv, SystemsInv
  <2>2. /\ system' \in [Object -> System \cup {None}]
        /\ \A y \in Object : y # x => system'[y] = system[y]
        /\ system'[x] # None => phase[system'[x]] # "unused"
    <3>1. CASE d = None
      BY <1>gen, <3>1 DEF Generate, LocalTo, SeqInv, TypeOK, SystemsInv
    <3>2. CASE d # None
      <4>1. PICK s \in System : SystemForBlock(BlockOf[d], s)
                                /\ system' = [system EXCEPT ![x] = s]
        BY <1>gen, <3>2 DEF Generate, LocalTo
      <4>. QED
        BY <2>1, <3>2, <4>1 DEF SeqInv, TypeOK
    <3>. QED
      BY <3>1, <3>2
  <2>3. SwitchTo(x)
    BY <1>gen DEF Generate, LocalTo
  <2>6. TypeOK'
    BY <1>gen, <1>switch, <2>2, <2>3
    DEF Generate, LocalTo, SeqInv, TypeOK, Frame, State
  <2>7. OperativeIsResumed'
    BY <1>gen, <1>switch, <2>2, <2>3
    DEF Generate, LocalTo, SeqInv, TypeOK, OperativeIsResumed
  <2>8. ComponentsInv'
    BY <1>gen, <1>switch, <2>2, <2>3
    DEF Generate, LocalTo, SeqInv, TypeOK, OperativeIsResumed, ComponentsInv
  <2>9. SystemsInv'
    BY <1>gen, <1>switch, <2>2, <2>3
    DEF Generate, LocalTo, SeqInv, TypeOK, SystemsInv, OperativeIsResumed, Frame
  <2>. QED
    BY <2>6, <2>7, <2>8, <2>9 DEF SeqInv
<1>block. ASSUME NEW x \in Object, BlockInstance(x) PROVE SeqInv'
  BY <1>block
  DEF BlockInstance, SeqInv, TypeOK, OperativeIsResumed, ComponentsInv, SystemsInv,
      programVars, State
<1>leave. ASSUME NEW x \in Object, NEW next \in {"detached", "terminated"},
                 LeaveAttached(x, next) \/ LeaveResumed(x, next)
                   \/ LeaveFreed(x) \/ LeaveError(x)
          PROVE  SeqInv'
  <2>1. CASE LeaveAttached(x, next)
    <3>1. attachedTo[x] \in Coro
      BY <2>1 DEF LeaveAttached, SeqInv, TypeOK, ComponentsInv
    <3>6. TypeOK'
      BY <2>1, <3>1, <1>switch
      DEF LeaveAttached, Leave, programVars, SeqInv, TypeOK, Frame, State
    <3>7. OperativeIsResumed'
      BY <2>1, <3>1, <1>switch
      DEF LeaveAttached, Leave, programVars, SeqInv, TypeOK, OperativeIsResumed
    <3>8. ComponentsInv'
      BY <2>1, <3>1, <1>switch
      DEF LeaveAttached, Leave, programVars, SeqInv, TypeOK, OperativeIsResumed, ComponentsInv
    <3>9. SystemsInv'
      BY <2>1, <3>1, <1>switch
      DEF LeaveAttached, Leave, programVars, SeqInv, TypeOK, SystemsInv, OperativeIsResumed, Frame
    <3>. QED
      BY <3>6, <3>7, <3>8, <3>9 DEF SeqInv
  <2>2. CASE LeaveResumed(x, next)
    <3>1. system[x] \in System /\ mainPark[system[x]] \in Coro
      BY <2>2 DEF LeaveResumed, SeqInv, TypeOK, ComponentsInv
    <3>6. TypeOK'
      BY <2>2, <3>1, <1>switch
      DEF LeaveResumed, Leave, programVars, SeqInv, TypeOK, Frame, State
    <3>7. OperativeIsResumed'
      BY <2>2, <3>1, <1>switch
      DEF LeaveResumed, Leave, programVars, SeqInv, TypeOK, OperativeIsResumed
    <3>8. ComponentsInv'
      BY <2>2, <3>1, <1>switch
      DEF LeaveResumed, Leave, programVars, SeqInv, TypeOK, OperativeIsResumed, ComponentsInv
    <3>9. SystemsInv'
      BY <2>2, <3>1, <1>switch
      DEF LeaveResumed, Leave, programVars, SeqInv, TypeOK, SystemsInv, OperativeIsResumed, Frame
    <3>. QED
      BY <3>6, <3>7, <3>8, <3>9 DEF SeqInv
  <2>3. CASE LeaveFreed(x) \/ LeaveError(x)
    BY <2>3, <1>stop DEF LeaveFreed, LeaveError
  <2>. QED
    BY <1>leave, <2>1, <2>2, <2>3
<1>detach. ASSUME NEW x \in Object, Detach(x) PROVE SeqInv'
  BY <1>detach, <1>leave, <1>same DEF Detach
<1>term. ASSUME NEW x \in Object, Terminate(x) PROVE SeqInv'
  BY <1>term, <1>leave DEF Terminate
<1>call. ASSUME NEW x \in Object, Call(x) PROVE SeqInv'
  <2>1. CASE state[x] # "detached"
    BY <1>call, <1>stop, <2>1 DEF Call
  <2>2. CASE state[x] = "detached"
    <3>1. park[x] \in Coro
      BY <2>2 DEF SeqInv, TypeOK, ComponentsInv
    <3>2. /\ state' = [state EXCEPT ![x] = "attached"]
          /\ attachedTo' = [attachedTo EXCEPT ![x] = current]
          /\ SwitchTo(park[x])
          /\ UNCHANGED <<park, system, origin, phase, mainPark, operative, frames,
                         open, env, decl, orphans>>
      BY <1>call, <2>2 DEF Call, programVars
    <3>6. TypeOK'
      BY <3>1, <3>2, <1>switch DEF SeqInv, TypeOK, State
    <3>7. OperativeIsResumed'
      BY <1>call, <2>2, <3>1, <1>switch
      DEF Call, programVars, SeqInv, TypeOK, OperativeIsResumed
    <3>8. ComponentsInv'
      BY <1>call, <2>2, <3>1, <1>switch
      DEF Call, programVars, SeqInv, TypeOK, OperativeIsResumed, ComponentsInv
    <3>9. SystemsInv'
      BY <1>call, <2>2, <3>1, <1>switch
      DEF Call, programVars, SeqInv, TypeOK, SystemsInv, OperativeIsResumed, Frame
    <3>. QED
      BY <3>6, <3>7, <3>8, <3>9 DEF SeqInv
  <2>. QED
    BY <2>1, <2>2
<1>resume. ASSUME NEW x \in Object, Resume(x) PROVE SeqInv'
  <2>1. CASE ResumeError(x) \/ ResumeFreed(x)
    BY <2>1, <1>stop DEF ResumeError, ResumeFreed
  <2>2. CASE ResumeNoEffect(x)
    BY <2>2, <1>same DEF ResumeNoEffect
  <2>3. CASE ResumeDetached(x)
    <3>1. park[x] \in Coro /\ system[x] \in System
      BY <2>3 DEF ResumeDetached, SeqInv, TypeOK, ComponentsInv
    <3>2. SwitchTo(park[x])
      BY <2>3 DEF ResumeDetached
    <3>3. CASE operative[system[x]] = None
      <4>2. /\ mainPark' = [mainPark EXCEPT ![system[x]] = current]
            /\ state' = [state EXCEPT ![x] = "resumed"]
            /\ park' = park
            /\ operative' = [operative EXCEPT ![system[x]] = x]
            /\ UNCHANGED <<attachedTo, system, origin, phase, frames,
                           open, env, decl, orphans>>
        BY <2>3, <3>3 DEF ResumeDetached, programVars
      <4>6. TypeOK'
        BY <3>1, <3>2, <4>2, <1>switch DEF SeqInv, TypeOK, State
      <4>7. OperativeIsResumed'
        BY <2>3, <3>1, <3>2, <3>3, <1>switch
        DEF ResumeDetached, programVars, SeqInv, TypeOK, OperativeIsResumed
      <4>8. ComponentsInv'
        BY <2>3, <3>1, <3>2, <3>3, <1>switch
        DEF ResumeDetached, programVars, SeqInv, TypeOK, OperativeIsResumed, ComponentsInv
      <4>9. SystemsInv'
        BY <2>3, <3>1, <3>2, <3>3, <1>switch
        DEF ResumeDetached, programVars, SeqInv, TypeOK, SystemsInv, OperativeIsResumed, Frame
      <4>. QED
        BY <4>6, <4>7, <4>8, <4>9 DEF SeqInv
    <3>4. CASE operative[system[x]] # None
      <4>1. operative[system[x]] \in Object /\ operative[system[x]] # x
        BY <2>3, <3>1, <3>4
        DEF ResumeDetached, SeqInv, TypeOK, OperativeIsResumed, ComponentsInv, SystemsInv
      <4>2. /\ park' = [park EXCEPT ![operative[system[x]]] = current]
            /\ state' = [state EXCEPT ![operative[system[x]]] = "detached",
                                      ![x] = "resumed"]
            /\ mainPark' = mainPark
            /\ operative' = [operative EXCEPT ![system[x]] = x]
            /\ UNCHANGED <<attachedTo, system, origin, phase, frames,
                           open, env, decl, orphans>>
        BY <2>3, <3>4 DEF ResumeDetached, programVars
      <4>6. TypeOK'
        BY <3>1, <3>2, <4>1, <4>2, <1>switch DEF SeqInv, TypeOK, State
      <4>7. OperativeIsResumed'
        BY <2>3, <3>1, <3>2, <3>4, <4>1, <1>switch
        DEF ResumeDetached, programVars, SeqInv, TypeOK, OperativeIsResumed
      <4>8. ComponentsInv'
        BY <2>3, <3>1, <3>2, <3>4, <4>1, <1>switch
        DEF ResumeDetached, programVars, SeqInv, TypeOK, OperativeIsResumed, ComponentsInv
      <4>9. SystemsInv'
        BY <2>3, <3>1, <3>2, <3>4, <4>1, <1>switch
        DEF ResumeDetached, programVars, SeqInv, TypeOK, SystemsInv, OperativeIsResumed, Frame
      <4>. QED
        BY <4>6, <4>7, <4>8, <4>9 DEF SeqInv
    <3>. QED
      BY <3>3, <3>4
  <2>. QED
    BY <1>resume, <2>1, <2>2, <2>3 DEF Resume
<1>finish. CASE Finish
  BY <1>finish, <1>stop DEF Finish
<1>. QED
  BY <1>same, <1>enter, <1>exit, <1>goto, <1>gen, <1>block, <1>detach, <1>term,
     <1>call, <1>resume, <1>finish
  DEF Next, Blocks, Generator, Statement, Stopped

(***************************************************************************)
(* Reachable states satisfy SeqInv, OperativeIsResumed in particular.      *)
(***************************************************************************)
THEOREM SequencingInvariant == Spec => []SeqInv
  BY SeqInit, SeqStep, PTL DEF Spec

(***************************************************************************)
(* The fields of components and systems keep their types: in particular    *)
(* simrt_seq_frames never outgrows its array.                              *)
(***************************************************************************)
THEOREM SequencingTypes == Spec => []TypeOK
<1>1. SeqInv => TypeOK
  BY DEF SeqInv
<1>. QED
  BY <1>1, SequencingInvariant, PTL

(***************************************************************************)
(* The operative component of a live system is resumed and a resumed       *)
(* object is the operative component of its system, whatever mixture of    *)
(* detach, call, resume and final ends the program executes.               *)
(***************************************************************************)
THEOREM OperativeResumed == Spec => []OperativeIsResumed
<1>1. SeqInv => OperativeIsResumed
  BY DEF SeqInv
<1>. QED
  BY <1>1, SequencingInvariant, PTL

-----------------------------------------------------------------------------
(* The frames are those of the active systems.                             *)

\* Leaving a frame out keeps all the others.
LEMMA WithoutKeeps ==
  ASSUME NEW i \in 1..Len(frames), frames \in Seq(Frame), Len(frames) <= MaxFrames,
         \A j, k \in 1..Len(frames) : frames[j].system = frames[k].system => j = k
  PROVE  /\ \A j \in 1..Len(Without(i)) :
              \E k \in 1..Len(frames) : k # i /\ Without(i)[j] = frames[k]
         /\ \A k \in 1..Len(frames) : k # i =>
              \E j \in 1..Len(Without(i)) : Without(i)[j] = frames[k]
         /\ \A j, k \in 1..Len(Without(i)) :
              Without(i)[j].system = Without(i)[k].system => j = k
<1>. DEFINE n == Len(frames) - 1
<1>1. n \in Nat /\ n + 1 = Len(frames)
  OBVIOUS
<1>2. Len(Without(i)) = n
  BY <1>1 DEF Without
<1>3. \A j \in 1..n : /\ (IF j < i THEN j ELSE j + 1) \in 1..Len(frames)
                      /\ (IF j < i THEN j ELSE j + 1) # i
                      /\ Without(i)[j] = frames[IF j < i THEN j ELSE j + 1]
  BY <1>1 DEF Without
<1>4. \A k \in 1..Len(frames) : k # i =>
        /\ (IF k < i THEN k ELSE k - 1) \in 1..n
        /\ Without(i)[IF k < i THEN k ELSE k - 1] = frames[k]
  BY <1>1 DEF Without
<1>5. \A j, k \in 1..n : Without(i)[j].system = Without(i)[k].system => j = k
  <2>. TAKE j \in 1..n
  <2>. TAKE k \in 1..n
  <2>. HAVE Without(i)[j].system = Without(i)[k].system
  <2>1. (IF j < i THEN j ELSE j + 1) = (IF k < i THEN k ELSE k + 1)
    BY <1>3
  <2>. QED
    BY <1>1, <2>1
<1>. QED
  BY <1>2, <1>3, <1>4, <1>5

\* FramesAreLive frame by frame; no block is open twice on one coroutine.
LiveInv ==
  /\ \A i \in 1..Len(frames) : phase[frames[i].system] = "live"
  /\ \A i, j \in 1..Len(frames) : frames[i].system = frames[j].system => i = j
  /\ \A s \in Instance : phase[s] = "live" => \E i \in 1..Len(frames) : frames[i].system = s
  /\ \A c \in Coro : \A k \in DOMAIN open[c] :
       \E i \in 1..Len(frames) : frames[i].system = open[c][k] /\ frames[i].owner = c
  /\ \A c \in Coro : \A j, k \in DOMAIN open[c] : open[c][j] = open[c][k] => j = k

\* A block that is entered is on no coroutine yet, and gets the newest frame.
LEMMA EnterLive ==
  ASSUME SeqInv, LiveInv, NEW s \in Instance, phase[s] = "unused",
         phase' = [phase EXCEPT ![s] = "live"],
         frames' = Append(frames, [system |-> s, owner |-> current]),
         open' = [open EXCEPT ![current] = Append(@, s)]
  PROVE  LiveInv'
<1>. DEFINE f == [system |-> s, owner |-> current]
            n == Len(frames)
            m == Len(open[current])
<1>1. /\ current \in Coro /\ open \in [Coro -> Seq(Instance)]
      /\ phase \in [System -> {"unused", "live", "freed"}]
      /\ frames \in Seq(Frame) /\ n \in Nat /\ s \in System
      /\ open[current] \in Seq(Instance) /\ m \in Nat
  BY DEF SeqInv, TypeOK, System
<1>2. f \in Frame /\ f.system = s /\ f.owner = current
  BY <1>1 DEF Frame
<1>. HIDE DEF f
<1>3. /\ Len(frames') = n + 1 /\ frames'[n + 1] = f
      /\ \A i \in 1..n : frames'[i] = frames[i] /\ frames[i] \in Frame
  BY <1>1, <1>2 DEF f
<1>4. /\ n + 1 \in 1..Len(frames')
      /\ \A i \in 1..n : i \in 1..Len(frames')
      /\ \A i \in 1..Len(frames') : i \in 1..n \/ i = n + 1
  BY <1>1, <1>3
<1>5. \A i \in 1..n : frames[i].system # s /\ frames[i].system \in System
  BY <1>3 DEF LiveInv, Frame, System
<1>6. \A c \in Coro : \A k \in DOMAIN open[c] : open[c][k] # s
  BY <1>5 DEF LiveInv
<1>7. /\ \A c \in Coro : c # current => open'[c] = open[c]
      /\ open'[current] = Append(open[current], s)
      /\ \A k \in DOMAIN open'[current] : k \in DOMAIN open[current] \/ k = m + 1
      /\ open'[current][m + 1] = s
      /\ \A k \in DOMAIN open[current] : open'[current][k] = open[current][k]
  BY <1>1
<1>. HIDE DEF m
<1>8. \A t \in System : phase'[t] = IF t = s THEN "live" ELSE phase[t]
  BY <1>1
<1>. HIDE DEF n
<1>9. \A i \in 1..Len(frames') : phase'[frames'[i].system] = "live"
  BY <1>1, <1>2, <1>3, <1>4, <1>5, <1>8 DEF LiveInv
<1>10. \A i, j \in 1..Len(frames') : frames'[i].system = frames'[j].system => i = j
  <2>1. \A i, j \in 1..n : frames[i].system = frames[j].system => i = j
    BY DEF LiveInv, n
  <2>. QED
    BY <1>2, <1>3, <1>4, <1>5, <2>1
<1>11. \A t \in Instance : phase'[t] = "live" =>
         \E i \in 1..Len(frames') : frames'[i].system = t
  <2>1. \A t \in Instance : phase[t] = "live" => \E i \in 1..n : frames[i].system = t
    BY DEF LiveInv, n
  <2>. QED
    BY <1>2, <1>3, <1>4, <1>8, <2>1 DEF System
<1>12. ASSUME NEW c \in Coro, NEW k \in DOMAIN open'[c]
       PROVE  \E i \in 1..Len(frames') : frames'[i].system = open'[c][k] /\ frames'[i].owner = c
  <2>1. \A d \in Coro : \A l \in DOMAIN open[d] :
          \E i \in 1..n : frames[i].system = open[d][l] /\ frames[i].owner = d
    BY DEF LiveInv, n
  <2>2. CASE c = current /\ k = m + 1
    BY <1>2, <1>3, <1>4, <1>7, <2>2
  <2>3. CASE ~(c = current /\ k = m + 1)
    <3>1. k \in DOMAIN open[c] /\ open'[c][k] = open[c][k]
      BY <1>7, <2>3
    <3>. QED
      BY <1>3, <1>4, <2>1, <3>1
  <2>. QED
    BY <2>2, <2>3
<1>13. ASSUME NEW c \in Coro, NEW j \in DOMAIN open'[c], NEW k \in DOMAIN open'[c],
              open'[c][j] = open'[c][k]
       PROVE  j = k
  BY <1>6, <1>7, <1>13 DEF LiveInv
<1>. QED
  BY <1>9, <1>10, <1>11, <1>12, <1>13 DEF LiveInv

\* A block that ends takes its own frame along, which is the only one of it.
LEMMA ExitLive ==
  ASSUME SeqInv, LiveInv, SystemExit
  PROVE  LiveInv'
<1>. DEFINE s == InnermostOpen
            m == Len(open[current])
<1>1. /\ current \in Coro /\ open \in [Coro -> Seq(Instance)]
      /\ phase \in [System -> {"unused", "live", "freed"}]
      /\ frames \in Seq(Frame) /\ Len(frames) \in Nat /\ Len(frames) <= MaxFrames
      /\ open[current] \in Seq(Instance) /\ m \in Nat /\ m # 0
  BY DEF SeqInv, TypeOK, SystemExit
<1>2. PICK i \in 1..Len(frames) : frames[i].system = s /\ frames' = Without(i)
  BY DEF SystemExit
<1>3. s \in Instance /\ phase' = [phase EXCEPT ![s] = "freed"]
  BY <1>1, LeaveInnermostType DEF SystemExit
<1>4. /\ \A c \in Coro : c # current => open'[c] = open[c]
      /\ \A k \in DOMAIN open'[current] :
           k \in DOMAIN open[current] /\ k # m /\ open'[current][k] = open[current][k]
      /\ m \in DOMAIN open[current] /\ open[current][m] = s
  <2>1. open'[current] = SubSeq(open[current], 1, m - 1)
        /\ \A c \in Coro : c # current => open'[c] = open[c]
    BY <1>1 DEF SystemExit, LeaveInnermost
  <2>2. /\ DOMAIN SubSeq(open[current], 1, m - 1) = 1..(m - 1)
        /\ \A k \in 1..(m - 1) : SubSeq(open[current], 1, m - 1)[k] = open[current][k]
    BY <1>1
  <2>3. \A k \in 1..(m - 1) : k \in 1..m /\ k # m
    BY <1>1
  <2>4. m \in DOMAIN open[current] /\ open[current][m] = s
    BY <1>1 DEF InnermostOpen
  <2>. QED
    BY <1>1, <2>1, <2>2, <2>3, <2>4
<1>. HIDE DEF s, m
<1>5. /\ \A j \in 1..Len(frames') :
           \E k \in 1..Len(frames) : k # i /\ frames'[j] = frames[k]
      /\ \A k \in 1..Len(frames) : k # i =>
           \E j \in 1..Len(frames') : frames'[j] = frames[k]
      /\ \A j, k \in 1..Len(frames') : frames'[j].system = frames'[k].system => j = k
  <2>1. \A j, k \in 1..Len(frames) : frames[j].system = frames[k].system => j = k
    BY DEF LiveInv
  <2>2. /\ \A j \in 1..Len(Without(i)) :
             \E k \in 1..Len(frames) : k # i /\ Without(i)[j] = frames[k]
        /\ \A k \in 1..Len(frames) : k # i =>
             \E j \in 1..Len(Without(i)) : Without(i)[j] = frames[k]
        /\ \A j, k \in 1..Len(Without(i)) :
             Without(i)[j].system = Without(i)[k].system => j = k
    BY <1>1, <2>1, WithoutKeeps
  <2>. QED
    BY <1>2, <2>2
<1>6. ASSUME NEW k \in 1..Len(frames), k # i
      PROVE  frames[k].system # s /\ frames[k].system \in System
  <2>1. frames[k].system \in System
    <3>1. frames[k] \in Frame
      BY <1>1
    <3>. QED
      BY <3>1 DEF Frame, System
  <2>2. frames[k].system = frames[i].system => k = i
    BY DEF LiveInv
  <2>. QED
    BY <1>2, <1>6, <2>1, <2>2
<1>7. \A t \in System : phase'[t] = IF t = s THEN "freed" ELSE phase[t]
  BY <1>1, <1>3
<1>8. frames[i].owner = current
  BY <1>1, <1>2, <1>4 DEF LiveInv
<1>9. ASSUME NEW c \in Coro, NEW k \in DOMAIN open'[c]
      PROVE  k \in DOMAIN open[c] /\ open'[c][k] = open[c][k] /\ open[c][k] # s
  <2>1. k \in DOMAIN open[c] /\ open'[c][k] = open[c][k]
    BY <1>4
  <2>2. CASE c = current
    BY <1>4, <2>2, <2>1 DEF LiveInv
  <2>3. CASE c # current
    <3>1. PICK j \in 1..Len(frames) : frames[j].system = open[c][k] /\ frames[j].owner = c
      BY <2>1 DEF LiveInv
    <3>. QED
      BY <1>2, <1>8, <2>1, <2>3, <3>1 DEF LiveInv
  <2>. QED
    BY <2>2, <2>3
<1>10. ASSUME NEW j \in 1..Len(frames')
       PROVE  phase'[frames'[j].system] = "live"
  <2>1. PICK k \in 1..Len(frames) : k # i /\ frames'[j] = frames[k]
    BY <1>5
  <2>2. phase[frames[k].system] = "live"
    BY DEF LiveInv
  <2>. QED
    BY <1>6, <1>7, <2>1, <2>2
<1>11. \A t \in Instance : phase'[t] = "live" =>
         \E j \in 1..Len(frames') : frames'[j].system = t
  <2>. TAKE t \in Instance
  <2>. HAVE phase'[t] = "live"
  <2>1. t # s /\ phase[t] = "live"
    BY <1>7 DEF System
  <2>2. PICK k \in 1..Len(frames) : frames[k].system = t
    BY <2>1 DEF LiveInv
  <2>. QED
    BY <1>2, <1>5, <2>1, <2>2
<1>12. ASSUME NEW c \in Coro, NEW k \in DOMAIN open'[c]
       PROVE  \E j \in 1..Len(frames') : frames'[j].system = open'[c][k] /\ frames'[j].owner = c
  <2>1. k \in DOMAIN open[c] /\ open'[c][k] = open[c][k] /\ open[c][k] # s
    BY <1>9
  <2>2. PICK l \in 1..Len(frames) : frames[l].system = open[c][k] /\ frames[l].owner = c
    BY <2>1 DEF LiveInv
  <2>3. PICK j \in 1..Len(frames') : frames'[j] = frames[l]
    BY <1>2, <1>5, <2>1, <2>2
  <2>. QED
    BY <2>1, <2>2, <2>3
<1>13. ASSUME NEW c \in Coro, NEW j \in DOMAIN open'[c], NEW k \in DOMAIN open'[c],
              open'[c][j] = open'[c][k]
       PROVE  j = k
  BY <1>9, <1>13 DEF LiveInv
<1>. QED
  BY <1>5, <1>10, <1>11, <1>12, <1>13 DEF LiveInv

\* A goto leaves a frame behind, of a system that nobody freed.
LEMMA GotoLive ==
  ASSUME SeqInv, LiveInv, GotoOut
  PROVE  LiveInv'
<1>. DEFINE m == Len(open[current])
<1>1. /\ current \in Coro /\ open \in [Coro -> Seq(Instance)]
      /\ open[current] \in Seq(Instance) /\ m \in Nat /\ m # 0
      /\ UNCHANGED <<frames, phase>>
  BY DEF SeqInv, TypeOK, GotoOut, runtimeVars
<1>2. open'[current] = SubSeq(open[current], 1, m - 1)
      /\ \A c \in Coro : c # current => open'[c] = open[c]
  BY <1>1 DEF GotoOut, LeaveInnermost
<1>3. \A k \in DOMAIN open'[current] :
        k \in DOMAIN open[current] /\ open'[current][k] = open[current][k]
  <2>1. /\ DOMAIN SubSeq(open[current], 1, m - 1) = 1..(m - 1)
        /\ \A k \in 1..(m - 1) : /\ SubSeq(open[current], 1, m - 1)[k] = open[current][k]
                                 /\ k \in DOMAIN open[current]
    BY <1>1
  <2>. QED
    BY <1>2, <2>1
<1>. HIDE DEF m
<1>4. \A c \in Coro : \A k \in DOMAIN open'[c] :
        k \in DOMAIN open[c] /\ open'[c][k] = open[c][k]
  BY <1>2, <1>3
<1>. QED
  BY <1>1, <1>4 DEF LiveInv

LEMMA LiveStep == SeqInv /\ LiveInv /\ [Next]_vars => LiveInv'
<1> SUFFICES ASSUME SeqInv, LiveInv, [Next]_vars PROVE LiveInv'
  OBVIOUS
<1>same. ASSUME UNCHANGED <<frames, phase, open>> PROVE LiveInv'
  BY <1>same DEF LiveInv
<1>enter. ASSUME NEW s \in Instance, SystemEnter(s) PROVE LiveInv'
  BY <1>enter, <1>same, EnterLive DEF SystemEnter, Stop, programVars
<1>exit. CASE SystemExit
  BY <1>exit, ExitLive
<1>goto. CASE GotoOut
  BY <1>goto, GotoLive
<1>statement. CASE Statement
  BY <1>statement, <1>same
  DEF Statement, Detach, Terminate, LeaveAttached, LeaveResumed, LeaveFreed, LeaveError,
      Leave, Call, Resume, ResumeError, ResumeNoEffect, ResumeFreed, ResumeDetached,
      Stop, vars, runtimeVars, programVars
<1>generator. CASE Generator
  BY <1>generator, <1>same DEF Generator, Generate, BlockInstance, programVars
<1>finish. CASE Finish
  BY <1>finish, <1>same DEF Finish, Stop, programVars
<1>stopped. CASE Stopped \/ UNCHANGED vars
  BY <1>stopped, <1>same DEF Stopped, vars, runtimeVars, programVars
<1>. QED
  BY <1>enter, <1>exit, <1>goto, <1>statement, <1>generator, <1>finish, <1>stopped
  DEF Next, Blocks

(***************************************************************************)
(* Whatever order coroutines leave their blocks in, and whichever they     *)
(* leave by goto, the frames are those of the systems that are not freed,  *)
(* and a block that a coroutine is inside of has that coroutine's frame.   *)
(***************************************************************************)
THEOREM FramesStayLive == Spec => []FramesAreLive
<1>1. Init => LiveInv
  BY SequencingAssumption DEF Init, LiveInv, System, Coro
<1>2. SeqInv /\ LiveInv => FramesAreLive
  <2>. SUFFICES ASSUME SeqInv, LiveInv PROVE FramesAreLive
    OBVIOUS
  <2>1. frames \in Seq(Frame) /\ open \in [Coro -> Seq(Instance)]
    BY DEF SeqInv, TypeOK
  <2>2. ASSUME NEW i \in 1..Len(frames)
        PROVE  /\ frames[i].system \in Instance
               /\ frames[i] = [system |-> frames[i].system, owner |-> frames[i].owner]
    <3>1. frames[i] \in Frame
      BY <2>1
    <3>. QED
      BY <3>1 DEF Frame
  <2>. DEFINE Frames == {frames[i] : i \in 1..Len(frames)}
  <2>3. {f.system : f \in Frames} = {s \in Instance : phase[s] = "live"}
    <3>1. ASSUME NEW f \in Frames PROVE f.system \in Instance /\ phase[f.system] = "live"
      <4>1. PICK i \in 1..Len(frames) : f = frames[i]
        OBVIOUS
      <4>2. phase[frames[i].system] = "live"
        BY DEF LiveInv
      <4>. QED
        BY <2>2, <4>1, <4>2
    <3>2. ASSUME NEW s \in Instance, phase[s] = "live" PROVE \E f \in Frames : f.system = s
      BY <3>2 DEF LiveInv
    <3>. QED
      BY <3>1, <3>2
  <2>4. ASSUME NEW c \in Coro, NEW k \in DOMAIN open[c]
        PROVE  [system |-> open[c][k], owner |-> c] \in Frames
    <3>1. PICK i \in 1..Len(frames) : frames[i].system = open[c][k] /\ frames[i].owner = c
      BY DEF LiveInv
    <3>. QED
      BY <2>2, <3>1
  <2>5. \A i, j \in 1..Len(frames) : frames[i].system = frames[j].system => i = j
    BY DEF LiveInv
  <2>. QED
    BY <2>3, <2>4, <2>5 DEF FramesAreLive
<1>. QED
  BY <1>1, <1>2, SequencingInvariant, SeqInit, LiveStep, PTL DEF Spec

-----------------------------------------------------------------------------
(* Each operation is an exchange of reactivation points.                   *)

LEMMA PointsInitially == Init => Points!Init
  BY SequencingAssumption
  DEF Init, Points!Init, PointOf, LifeOf, Waiting, Point, Life, System

(***************************************************************************)
(* What keeps the reactivation points of all the objects as they are.      *)
(***************************************************************************)
LEMMA PointsSame ==
  ASSUME SeqInv, UNCHANGED <<current, state, park, attachedTo, system, orphans>>,
         \A x \in Object : state[x] = "resumed" =>
             /\ phase'[system[x]] = "live" <=> phase[system[x]] = "live"
             /\ mainPark'[system[x]] = mainPark[system[x]]
  PROVE  UNCHANGED Points!vars
<1>1. Waiting' = Waiting
  BY DEF Waiting
<1>2. \A x \in Waiting : Point(x)' = Point(x)
  BY DEF Waiting, Point
<1>3. PointOf' = PointOf
  BY <1>1, <1>2 DEF PointOf
<1>4. LifeOf' = LifeOf
  BY DEF LifeOf, Life
<1>. QED
  BY <1>3, <1>4 DEF Points!vars

(***************************************************************************)
(* An object that keeps a place keeps a coroutine.                         *)
(***************************************************************************)
LEMMA PointIsCoro ==
  ASSUME SeqInv, NEW x \in Waiting
  PROVE  Point(x) \in Coro /\ Point(x) # None /\ PointOf[x] = Point(x)
<1>1. x \in Object
  BY DEF Waiting
<1>2. Point(x) \in Coro
  BY <1>1 DEF Waiting, Point, SeqInv, TypeOK, ComponentsInv
<1>. QED
  BY <1>1, <1>2, SequencingAssumption DEF PointOf

(***************************************************************************)
(* Every step of the runtime exchanges, adds or removes one place, or      *)
(* leaves all of them alone.                                               *)
(***************************************************************************)
LEMMA PointsStepwise == SeqInv /\ [Next]_vars => [Points!Next]_(Points!vars)
<1> SUFFICES ASSUME SeqInv, [Next]_vars PROVE [Points!Next]_(Points!vars)
  OBVIOUS
<1> USE SequencingAssumption DEF System, Coro
<1>stop. ASSUME NEW why, Stop(why) PROVE UNCHANGED Points!vars
  BY <1>stop, PointsSame DEF Stop, programVars
<1>same. ASSUME UNCHANGED vars PROVE UNCHANGED Points!vars
  BY <1>same, PointsSame DEF vars, runtimeVars, programVars
<1>enter. ASSUME NEW s \in Instance, SystemEnter(s) PROVE UNCHANGED Points!vars
  <2>1. CASE Len(frames) = MaxFrames
    BY <1>enter, <1>stop, <2>1 DEF SystemEnter
  <2>2. CASE Len(frames) # MaxFrames
    <3>1. /\ phase[s] = "unused"
          /\ phase' = [phase EXCEPT ![s] = "live"]
          /\ mainPark' = [mainPark EXCEPT ![s] = current]
          /\ UNCHANGED <<current, state, park, attachedTo, system, orphans>>
      BY <1>enter, <2>2 DEF SystemEnter
    <3>2. \A x \in Object : state[x] = "resumed" => system[x] \in System /\ system[x] # s
      BY <3>1 DEF SeqInv, TypeOK, ComponentsInv, SystemsInv
    <3>. QED
      BY <3>1, <3>2, PointsSame DEF SeqInv, TypeOK
  <2>. QED
    BY <2>1, <2>2
<1>exit. CASE SystemExit
  <2>. DEFINE s == InnermostOpen
              z == operative[s]
  <2>1. s \in Instance
    BY <1>exit, LeaveInnermostType DEF SystemExit, SeqInv, TypeOK
  <2>2. /\ phase' = [phase EXCEPT ![s] = "freed"]
        /\ orphans' = IF z = None THEN orphans ELSE orphans \cup {mainPark[s]}
        /\ UNCHANGED <<current, state, park, attachedTo, system, mainPark>>
    BY <1>exit DEF SystemExit
  <2>. HIDE DEF s, z
  <2>3. \A x \in Object : state[x] = "resumed" /\ phase[system[x]] = "live"
                            /\ system[x] = s => x = operative[s]
    BY <2>1 DEF SeqInv, OperativeIsResumed
  <2>4. CASE z = None
    <3>1. \A x \in Object : state[x] = "resumed" =>
             (phase'[system[x]] = "live" <=> phase[system[x]] = "live")
      BY <2>1, <2>2, <2>3, <2>4 DEF SeqInv, TypeOK, ComponentsInv, z
    <3>. QED
      BY <2>2, <2>4, <3>1, PointsSame
  <2>5. CASE z # None
    <3>1. /\ z \in Object
          /\ state[z] = "resumed" /\ system[z] = s /\ phase[s] = "live"
      BY <2>1, <2>5 DEF SeqInv, TypeOK, OperativeIsResumed, SystemsInv, z
    <3>2. z \in Waiting /\ Point(z) = mainPark[s]
      BY <3>1 DEF Waiting, Point
    <3>3. PointOf[z] = mainPark[s] /\ PointOf[z] # None
      BY <3>2, PointIsCoro
    <3>4. Waiting' = Waiting \ {z}
      BY <2>1, <2>2, <2>3, <3>1 DEF Waiting, SeqInv, TypeOK, ComponentsInv, z
    <3>5. \A x \in Object : Point(x)' = Point(x)
      BY <2>2 DEF Point
    <3>6. PointOf' = [PointOf EXCEPT ![z] = None]
      BY <3>1, <3>4, <3>5 DEF PointOf
    <3>7. LifeOf' = LifeOf
      BY <2>2 DEF LifeOf, Life
    <3>8. Points!Drop(z)
      BY <2>2, <2>5, <3>3, <3>6, <3>7 DEF Points!Drop
    <3>. QED
      BY <3>1, <3>8 DEF Points!Next
  <2>. QED
    BY <2>4, <2>5
<1>goto. CASE GotoOut
  BY <1>goto, PointsSame DEF GotoOut, runtimeVars
<1>gen. ASSUME NEW x \in Object, NEW d, Generate(x, d) PROVE Points!Next
  <2>1. /\ state[x] = "unborn"
        /\ state' = [state EXCEPT ![x] = "attached"]
        /\ park' = [park EXCEPT ![x] = x]
        /\ attachedTo' = [attachedTo EXCEPT ![x] = current]
        /\ current' = x
        /\ UNCHANGED <<phase, mainPark, orphans>>
        /\ \A y \in Object : y # x => system'[y] = system[y]
    BY <1>gen DEF Generate, LocalTo, SwitchTo, SeqInv, TypeOK
  <2>2. Waiting' = Waiting \cup {x}
    BY <2>1 DEF Waiting, SeqInv, TypeOK
  <2>3. \A y \in Waiting : y # x /\ Point(y)' = Point(y)
    BY <2>1 DEF Waiting, Point, SeqInv, TypeOK
  <2>4. Point(x)' = current
    BY <2>1 DEF Point, SeqInv, TypeOK
  <2>5. PointOf' = [PointOf EXCEPT ![x] = current]
    BY <2>2, <2>3, <2>4 DEF PointOf
  <2>6. LifeOf[x] = "unborn" /\ LifeOf' = [LifeOf EXCEPT ![x] = "alive"]
    BY <2>1 DEF LifeOf, Life, SeqInv, TypeOK
  <2>7. Points!Begin(x)
    BY <2>1, <2>5, <2>6 DEF Points!Begin
  <2>. QED
    BY <2>7 DEF Points!Next
<1>block. ASSUME NEW x \in Object, BlockInstance(x) PROVE UNCHANGED Points!vars
  <2>1. /\ state[x] = "unborn"
        /\ state' = [state EXCEPT ![x] = "block"]
        /\ UNCHANGED <<current, park, attachedTo, system, phase, mainPark, orphans>>
    BY <1>block DEF BlockInstance, programVars
  <2>2. Waiting' = Waiting /\ \A y \in Waiting : Point(y)' = Point(y)
    BY <2>1 DEF Waiting, Point, SeqInv, TypeOK
  <2>3. LifeOf' = LifeOf
    BY <2>1 DEF LifeOf, Life, SeqInv, TypeOK
  <2>4. PointOf' = PointOf
    BY <2>2 DEF PointOf
  <2>. QED
    BY <2>1, <2>3, <2>4 DEF Points!vars
<1>leave. ASSUME NEW x \in Object, NEW next \in {"detached", "terminated"},
                 LeaveAttached(x, next) \/ LeaveResumed(x, next),
                 next = "terminated" => current = x
          PROVE  Points!Next
  <2>1. /\ x \in Waiting
        /\ current' = Point(x)
        /\ state' = [state EXCEPT ![x] = next]
        /\ park' = [park EXCEPT ![x] = IF next = "terminated" THEN None ELSE current]
        /\ UNCHANGED <<attachedTo, system, phase, mainPark, orphans>>
    BY <1>leave
    DEF LeaveAttached, LeaveResumed, Leave, SwitchTo, Waiting, Point, programVars
  <2>2. PointOf[x] # None /\ current' = PointOf[x]
    BY <2>1, PointIsCoro
  <2>3. \A y \in Object : y # x => Point(y)' = Point(y) /\ (y \in Waiting' <=> y \in Waiting)
    BY <2>1 DEF Waiting, Point, SeqInv, TypeOK
  <2>4. state'[x] = next
    BY <2>1 DEF SeqInv, TypeOK
  <2>5. CASE next = "detached"
    <3>1. x \in Waiting' /\ Point(x)' = current
      BY <2>1, <2>4, <2>5 DEF Waiting, Point, SeqInv, TypeOK
    <3>2. PointOf' = [PointOf EXCEPT ![x] = current]
      BY <2>3, <3>1 DEF PointOf
    <3>3. LifeOf' = LifeOf
      BY <2>1, <2>5 DEF LifeOf, Life, Waiting, SeqInv, TypeOK
    <3>4. Points!Exchange(x)
      BY <2>1, <2>2, <3>2, <3>3 DEF Points!Exchange
    <3>. QED
      BY <3>4 DEF Points!Next
  <2>6. CASE next = "terminated"
    <3>1. x \notin Waiting'
      BY <2>4, <2>6 DEF Waiting
    <3>2. PointOf' = [PointOf EXCEPT ![x] = None]
      BY <2>3, <3>1 DEF PointOf
    <3>3. LifeOf' = [LifeOf EXCEPT ![x] = "ended"]
      BY <2>1, <2>6 DEF LifeOf, Life, SeqInv, TypeOK
    <3>4. Points!End(x)
      BY <1>leave, <2>1, <2>2, <2>6, <3>2, <3>3 DEF Points!End
    <3>. QED
      BY <3>4 DEF Points!Next
  <2>. QED
    BY <2>5, <2>6
<1>freed. ASSUME NEW x \in Object, LeaveFreed(x) \/ LeaveError(x)
          PROVE  UNCHANGED Points!vars
  BY <1>freed, <1>stop DEF LeaveFreed, LeaveError
<1>detach. ASSUME NEW x \in Object, Detach(x) PROVE [Points!Next]_(Points!vars)
  BY <1>detach, <1>leave, <1>freed, <1>same DEF Detach
<1>term. ASSUME NEW x \in Object, Terminate(x) PROVE [Points!Next]_(Points!vars)
  BY <1>term, <1>leave, <1>freed DEF Terminate, FinalEnd
<1>call. ASSUME NEW x \in Object, Call(x) PROVE [Points!Next]_(Points!vars)
  <2>1. CASE state[x] # "detached"
    BY <1>call, <1>stop, <2>1 DEF Call
  <2>2. CASE state[x] = "detached"
    <3>1. /\ state' = [state EXCEPT ![x] = "attached"]
          /\ attachedTo' = [attachedTo EXCEPT ![x] = current]
          /\ current' = park[x]
          /\ UNCHANGED <<park, system, phase, mainPark, orphans>>
      BY <1>call, <2>2 DEF Call, SwitchTo, programVars
    <3>2. x \in Waiting /\ Point(x) = park[x]
      BY <2>2 DEF Waiting, Point
    <3>3. PointOf[x] # None /\ current' = PointOf[x]
      BY <3>1, <3>2, PointIsCoro
    <3>4. Waiting' = Waiting /\ Point(x)' = current
          /\ \A y \in Object : y # x => Point(y)' = Point(y)
      BY <3>1, <3>2, <2>2 DEF Waiting, Point, SeqInv, TypeOK
    <3>5. PointOf' = [PointOf EXCEPT ![x] = current]
      BY <3>2, <3>4 DEF PointOf
    <3>6. LifeOf' = LifeOf
      BY <3>1, <2>2 DEF LifeOf, Life, SeqInv, TypeOK
    <3>7. Points!Exchange(x)
      BY <3>1, <3>3, <3>5, <3>6 DEF Points!Exchange
    <3>. QED
      BY <3>7 DEF Points!Next
  <2>. QED
    BY <2>1, <2>2
<1>resume. ASSUME NEW x \in Object, Resume(x) PROVE [Points!Next]_(Points!vars)
  <2>1. CASE ResumeError(x) \/ ResumeFreed(x)
    BY <2>1, <1>stop DEF ResumeError, ResumeFreed
  <2>2. CASE ResumeNoEffect(x)
    BY <2>2, <1>same DEF ResumeNoEffect
  <2>3. CASE ResumeDetached(x)
    <3>. DEFINE s == system[x]
                z == operative[s]
    <3>1. /\ state[x] = "detached" /\ s \in System /\ phase[s] = "live"
          /\ current' = park[x]
          /\ UNCHANGED <<attachedTo, system, phase, orphans>>
      BY <2>3 DEF ResumeDetached, SwitchTo, programVars, SeqInv, TypeOK
    <3>2. x \in Waiting /\ Point(x) = park[x]
      BY <3>1 DEF Waiting, Point
    <3>3. PointOf[x] # None /\ current' = PointOf[x]
      BY <3>1, <3>2, PointIsCoro
    <3>4. CASE z = None
      <4>1. /\ mainPark' = [mainPark EXCEPT ![s] = current]
            /\ state' = [state EXCEPT ![x] = "resumed"]
            /\ park' = park
        BY <2>3, <3>4 DEF ResumeDetached
      <4>2. \A y \in Object : state[y] = "resumed" => system[y] # s
        BY <3>1, <3>4, SequencingAssumption DEF SeqInv, OperativeIsResumed
      <4>3. Waiting' = Waiting /\ Point(x)' = current
        BY <3>1, <3>2, <4>1 DEF Waiting, Point, SeqInv, TypeOK
      <4>4. \A y \in Waiting : y # x => Point(y)' = Point(y)
        BY <3>1, <4>1, <4>2 DEF Waiting, Point, SeqInv, TypeOK, ComponentsInv
      <4>5. PointOf' = [PointOf EXCEPT ![x] = current]
        BY <3>2, <4>3, <4>4 DEF PointOf
      <4>6. LifeOf' = LifeOf
        BY <3>1, <4>1 DEF LifeOf, Life, SeqInv, TypeOK
      <4>7. Points!Exchange(x)
        BY <3>1, <3>3, <4>5, <4>6 DEF Points!Exchange
      <4>. QED
        BY <4>7 DEF Points!Next
    <3>5. CASE z # None
      <4>1. PICK w \in Object : /\ w = z /\ w # x
                               /\ state[w] = "resumed" /\ system[w] = s
        BY <3>1, <3>5 DEF SeqInv, TypeOK, OperativeIsResumed
      <4>2. /\ park' = [park EXCEPT ![w] = current]
            /\ state' = [state EXCEPT ![w] = "detached", ![x] = "resumed"]
            /\ mainPark' = mainPark
        BY <2>3, <3>5, <4>1 DEF ResumeDetached
      <4>3. w \in Waiting /\ Point(w) = mainPark[s]
        BY <3>1, <4>1 DEF Waiting, Point
      <4>4. PointOf[w] = mainPark[s] /\ PointOf[w] # None
        BY <4>3, PointIsCoro
      <4>5. Waiting' = Waiting /\ Point(x)' = mainPark[s] /\ Point(w)' = current
        <5>1. /\ state'[x] = "resumed" /\ state'[w] = "detached"
              /\ park'[w] = current
              /\ \A y \in Object : y # x /\ y # w => state'[y] = state[y]
          BY <4>1, <4>2 DEF SeqInv, TypeOK
        <5>2. Waiting' = Waiting
          BY <3>1, <3>2, <4>1, <4>3, <5>1 DEF Waiting
        <5>3. Point(x)' = mainPark'[system'[x]]
          BY <5>1 DEF Point
        <5>4. Point(w)' = park'[w]
          BY <5>1 DEF Point
        <5>. QED
          BY <3>1, <4>2, <5>1, <5>2, <5>3, <5>4
      <4>6. \A y \in Object : y # x /\ y # w => Point(y)' = Point(y)
        BY <3>1, <4>1, <4>2 DEF Point, SeqInv, TypeOK
      <4>7. PointOf' = [PointOf EXCEPT ![x] = PointOf[w], ![w] = current]
        <5>1. PointOf'[x] = PointOf[w] /\ PointOf'[w] = current
          <6>1. x \in Waiting' /\ w \in Waiting'
            BY <3>2, <4>3, <4>5
          <6>2. PointOf'[x] = Point(x)' /\ PointOf'[w] = Point(w)'
            BY <4>1, <6>1 DEF PointOf
          <6>. QED
            BY <4>4, <4>5, <6>2
        <5>2. \A y \in Object : y # x /\ y # w => PointOf'[y] = PointOf[y]
          BY <4>5, <4>6 DEF PointOf
        <5>. QED
          BY <4>1, <5>1, <5>2 DEF PointOf
      <4>8. LifeOf' = LifeOf
        BY <3>1, <4>1, <4>2 DEF LifeOf, Life, SeqInv, TypeOK
      <4>9. Points!Rotate(x, w)
        BY <3>1, <3>3, <4>1, <4>4, <4>7, <4>8 DEF Points!Rotate
      <4>. QED
        BY <4>1, <4>9 DEF Points!Next
    <3>. QED
      BY <3>4, <3>5
  <2>. QED
    BY <1>resume, <2>1, <2>2, <2>3 DEF Resume
<1>finish. CASE Finish
  BY <1>finish, <1>stop DEF Finish
<1>. QED
  BY <1>same, <1>enter, <1>exit, <1>goto, <1>gen, <1>block, <1>detach, <1>term,
     <1>call, <1>resume, <1>finish
  DEF Next, Blocks, Generator, Statement, Stopped

(***************************************************************************)
(* sequencing.c implements the exchange of reactivation points, whatever   *)
(* sequence of statements the program executes.                            *)
(***************************************************************************)
THEOREM SequencingImplementsPoints == Spec => ImplementsPoints
  BY PointsInitially, PointsStepwise, SequencingInvariant, PTL
  DEF Spec, ImplementsPoints, Points!Spec

\* What the exchange supposes of the constants.
LEMMA PointsConstants == Points!PointsAssumption
  BY SequencingAssumption DEF Points!PointsAssumption, Coro

\* At the start MAIN has control and no object keeps a place.
LEMMA PointsBegin == Points!Init => Points!PointsInv
  BY PointsConstants
  DEF Points!PointsAssumption, Points!Init, Points!PointsInv, Points!TypeOK,
      Points!PointsDistinct, Points!PointsSuspended, Points!ControlInLiveCoroutine,
      Points!NothingLost, Points!Started, Points!Coro

\* Every exchange is a permutation of the points: none is kept twice, and none
\* is lost.
LEMMA PointsKept == Points!PointsInv /\ [Points!Next]_(Points!vars) => Points!PointsInv'
<1> SUFFICES ASSUME Points!PointsInv, [Points!Next]_(Points!vars) PROVE Points!PointsInv'
  OBVIOUS
<1> USE PointsConstants
    DEF Points!PointsAssumption, Points!PointsInv, Points!TypeOK, Points!PointsDistinct,
        Points!PointsSuspended, Points!ControlInLiveCoroutine, Points!NothingLost,
        Points!Started, Points!Coro
<1>1. ASSUME NEW x \in Object, Points!Begin(x) PROVE Points!PointsInv'
  BY <1>1 DEF Points!Begin
<1>2. ASSUME NEW x \in Object, Points!Exchange(x) PROVE Points!PointsInv'
  BY <1>2 DEF Points!Exchange
<1>3. ASSUME NEW x \in Object, Points!End(x) PROVE Points!PointsInv'
  BY <1>3 DEF Points!End
<1>4. ASSUME NEW x \in Object, Points!Drop(x) PROVE Points!PointsInv'
  BY <1>4 DEF Points!Drop
<1>5. ASSUME NEW x \in Object, NEW z \in Object, Points!Rotate(x, z) PROVE Points!PointsInv'
  BY <1>5 DEF Points!Rotate
<1>6. ASSUME NEW x \in Object, NEW y \in Object, Points!EndInto(x, y) PROVE Points!PointsInv'
  BY <1>6 DEF Points!EndInto
<1>7. ASSUME NEW x \in Object, Points!BeginDetached(x) PROVE Points!PointsInv'
  BY <1>7 DEF Points!BeginDetached
<1>8. CASE UNCHANGED Points!vars
  BY <1>8 DEF Points!vars
<1>. QED
  BY <1>1, <1>2, <1>3, <1>4, <1>5, <1>6, <1>7, <1>8 DEF Points!Next

(***************************************************************************)
(* However reactivation points are exchanged, whatever implements it: each *)
(* is kept by one object, names a coroutine that is suspended in the       *)
(* middle of its work, and is never forgotten.                             *)
(***************************************************************************)
THEOREM ExchangesAreSafe == ImplementsPoints => []Points!PointsInv
  BY PointsBegin, PointsKept, PTL DEF ImplementsPoints, Points!Spec

LEMMA SequencingPointsInv == Spec => []Points!PointsInv
  BY ExchangesAreSafe, SequencingImplementsPoints, PTL

(***************************************************************************)
(* So no stack is ever held as the reactivation point of two objects, and  *)
(* none is forgotten while its object may still be called.                 *)
(***************************************************************************)
THEOREM SequencingPointsSafe == Spec => []PointsSafe
<1>1. Points!PointsInv => PointsSafe
  BY DEF Points!PointsInv, PointsSafe
<1>. QED
  BY <1>1, SequencingPointsInv, PTL

-----------------------------------------------------------------------------
(* What follows for the runtime's own checks and for its callers.          *)

(***************************************************************************)
(* The invariant of the exchange, read on the runtime's fields.            *)
(***************************************************************************)
LEMMA PointFacts ==
  ASSUME SeqInv, Points!PointsInv, NEW x \in Waiting
  PROVE  /\ Point(x) # current
         /\ Point(x) \in Object =>
              state[Point(x)] \in {"attached", "detached", "resumed"}
         /\ \A y \in Waiting : Point(x) = Point(y) => x = y
<1>1. /\ x \in Object
      /\ Point(x) \in Coro /\ Point(x) # None
      /\ \A y \in Waiting : y \in Object /\ Point(y) # None /\ PointOf[y] = Point(y)
  BY PointIsCoro DEF Waiting
<1>2. /\ Point(x) # current
      /\ \A y \in Waiting : Point(x) = Point(y) => x = y
  BY <1>1 DEF Points!PointsInv, Points!PointsDistinct, Points!PointsSuspended
<1>3. Point(x) \in Object => LifeOf[Point(x)] = "alive"
  BY <1>1, SequencingAssumption
  DEF Points!PointsInv, Points!PointsSuspended, Points!Started
<1>4. Point(x) \in Object =>
        state[Point(x)] \in {"attached", "detached", "resumed"}
  BY <1>3 DEF LifeOf, Life, SeqInv, TypeOK, State
<1>. QED
  BY <1>2, <1>4

LEMMA NoInternalFaultStep ==
  SeqInv /\ Points!PointsInv /\ NoInternalFault /\ [Next]_vars => NoInternalFault'
<1> SUFFICES ASSUME SeqInv, Points!PointsInv, NoInternalFault, [Next]_vars
             PROVE  NoInternalFault'
  OBVIOUS
<1>1. ASSUME NEW x \in Object, Generate(x, None) \/ \E d \in Instance : Generate(x, d)
      PROVE  NoInternalFault'
  BY <1>1 DEF Generate, LocalTo, SwitchTo, NoInternalFault, SeqInv, TypeOK
<1>2. ASSUME NEW x \in Object, NEW next \in {"detached", "terminated"},
             LeaveAttached(x, next) \/ LeaveResumed(x, next),
             next = "terminated" => current = x
      PROVE  NoInternalFault'
  <2>1. x \in Waiting /\ SwitchTo(Point(x)) /\ state' = [state EXCEPT ![x] = next]
    BY <1>2 DEF LeaveAttached, LeaveResumed, Leave, Waiting, Point
  <2>. QED
    BY <1>2, <2>1, PointFacts DEF SwitchTo, NoInternalFault, SeqInv, TypeOK
<1>3. ASSUME NEW x \in Object, Detach(x) \/ Terminate(x) PROVE NoInternalFault'
  BY <1>2, <1>3
  DEF Detach, Terminate, FinalEnd, LeaveFreed, LeaveError, Stop, NoInternalFault,
      vars, runtimeVars
<1>4. ASSUME NEW x \in Object, Call(x) PROVE NoInternalFault'
  <2>1. CASE state[x] # "detached"
    BY <1>4, <2>1 DEF Call, Stop, NoInternalFault
  <2>2. CASE state[x] = "detached"
    <3>1. x \in Waiting /\ SwitchTo(Point(x)) /\ state' = [state EXCEPT ![x] = "attached"]
      BY <1>4, <2>2 DEF Call, Waiting, Point
    <3>. QED
      BY <3>1, PointFacts DEF SwitchTo, NoInternalFault, SeqInv, TypeOK
  <2>. QED
    BY <2>1, <2>2
<1>5. ASSUME NEW x \in Object, Resume(x) PROVE NoInternalFault'
  <2>1. CASE ResumeError(x) \/ ResumeNoEffect(x) \/ ResumeFreed(x)
    BY <2>1 DEF ResumeError, ResumeNoEffect, ResumeFreed, Stop, NoInternalFault,
                vars, runtimeVars
  <2>2. CASE ResumeDetached(x)
    <3>1. x \in Waiting /\ SwitchTo(Point(x))
      BY <2>2 DEF ResumeDetached, Waiting, Point
    <3>2. \A y \in Object : state'[y] = "terminated" => state[y] = "terminated"
      BY <2>2 DEF ResumeDetached, SeqInv, TypeOK
    <3>. QED
      BY <3>1, <3>2, PointFacts DEF SwitchTo, NoInternalFault
  <2>. QED
    BY <1>5, <2>1, <2>2 DEF Resume
<1>6. ASSUME Blocks \/ (\E x \in Object : BlockInstance(x)) \/ Finish \/ UNCHANGED vars
      PROVE  NoInternalFault'
  BY <1>6 DEF Blocks, SystemEnter, SystemExit, GotoOut, BlockInstance, Finish, Stop,
              NoInternalFault, vars, runtimeVars
<1>. QED
  BY <1>1, <1>3, <1>4, <1>5, <1>6 DEF Next, Generator, Statement, Stopped

(***************************************************************************)
(* The checks of simrt_seq_terminate and simrt_seq_leave for what must     *)
(* never happen are never taken: control never returns into a terminated   *)
(* object.                                                                 *)
(***************************************************************************)
THEOREM NeverInternalFault == Spec => []NoInternalFault
<1>1. Init => NoInternalFault
  BY DEF Init, NoInternalFault
<1>. QED
  BY <1>1, NoInternalFaultStep, SequencingInvariant, SequencingPointsInv, PTL DEF Spec

(***************************************************************************)
(* A generator or a call returns only when its object has detached or      *)
(* terminated: control cannot come back to it any other way.               *)
(***************************************************************************)
LEMMA LeftWhenReturnedStep ==
  SeqInv /\ Points!PointsInv /\ [Next]_vars => LeftWhenReturned
<1> SUFFICES ASSUME SeqInv, Points!PointsInv, [Next]_vars,
                    NEW x \in Object, state[x] = "attached",
                    current' # current, current' = attachedTo[x]
             PROVE  state'[x] \in {"detached", "terminated"}
  BY DEF LeftWhenReturned
<1>0. x \in Waiting /\ Point(x) = attachedTo[x]
  BY DEF Waiting, Point
<1>1. \A y \in Waiting : current' = Point(y) => y = x
  BY <1>0, PointFacts
<1>2. ASSUME NEW y \in Object, \E d : Generate(y, d) PROVE FALSE
  BY <1>0, <1>2, PointFacts DEF Generate, LocalTo, SwitchTo
<1>3. ASSUME NEW y \in Object, Detach(y) \/ Terminate(y)
      PROVE  state'[x] \in {"detached", "terminated"}
  <2>1. PICK next \in {"detached", "terminated"} :
          LeaveAttached(y, next) \/ LeaveResumed(y, next)
    BY <1>3 DEF Detach, Terminate, LeaveFreed, LeaveError, Stop, vars, runtimeVars
  <2>2. y \in Waiting /\ current' = Point(y) /\ state'[y] = next
    BY <2>1
    DEF LeaveAttached, LeaveResumed, Leave, SwitchTo, Waiting, Point, SeqInv, TypeOK
  <2>. QED
    BY <1>1, <2>2
<1>4. ASSUME NEW y \in Object, Call(y) \/ Resume(y) PROVE FALSE
  <2>1. y \in Waiting /\ state[y] = "detached" /\ current' = Point(y)
    BY <1>4 DEF Call, Resume, ResumeError, ResumeNoEffect, ResumeFreed,
                ResumeDetached, Stop, SwitchTo, Waiting, Point, vars, runtimeVars
  <2>. QED
    BY <1>1, <2>1
<1>5. current' = current
        \/ \E y \in Object : \/ Detach(y) \/ Terminate(y) \/ Call(y) \/ Resume(y)
                              \/ \E d : Generate(y, d)
  BY DEF Next, Blocks, Generator, Statement, Stopped, SystemEnter, SystemExit, GotoOut,
         BlockInstance, Finish, Stop, vars, runtimeVars
<1>. QED
  BY <1>2, <1>3, <1>4, <1>5

(***************************************************************************)
(* So "returns once the body detaches or terminates" (sequencing.h:51)     *)
(* holds of every generator and call, in every program.                    *)
(***************************************************************************)
THEOREM GeneratorReturnsWhenLeft == Spec => ReturnsWhenLeft
  BY LeftWhenReturnedStep, SequencingInvariant, SequencingPointsInv, PTL
  DEF Spec, ReturnsWhenLeft

-----------------------------------------------------------------------------
(* Charts.  A program keeps to the operating chain when it detaches and    *)
(* resumes only from inside, and then its coroutines form lines: from each *)
(* the way through reactivation points ends at MAIN or at a detached       *)
(* object.  Which lines, and how far along each coroutine is, is the chart. *)

\* A chart of the coroutines A: those of B are the bases of components, every
\* other one waits on pt[y].  comp names the base of y's component and rank y's
\* distance from it; control entered component b last at top[b].
Charted(A, B, pt, top, comp, rank) ==
  /\ B \subseteq A
  /\ pt \in [A \ B -> A]
  /\ top \in [B -> A]
  /\ comp \in [A -> B]
  /\ rank \in [A -> Nat]
  /\ \A b \in B : comp[b] = b /\ rank[b] = 0 /\ comp[top[b]] = b
  /\ \A y \in A \ B : comp[y] = comp[pt[y]] /\ rank[y] = rank[pt[y]] + 1
  /\ \A y \in A : rank[y] <= rank[top[comp[y]]]
  /\ \A y, w \in A : comp[y] = comp[w] /\ rank[y] = rank[w] => y = w

\* In system s of T the objects ranked above head[s], up to last[s], are what
\* its operative component runs inside; two such stretches of one component
\* are disjoint or one lies within the other, the inner one headed deeper.
Nested(A, T, last, head, depth, comp, rank) ==
  /\ last \in [T -> A] /\ head \in [T -> A] /\ depth \in [T -> Nat]
  /\ \A s \in T : comp[head[s]] = comp[last[s]] /\ rank[head[s]] < rank[last[s]]
  /\ \A s, t \in T :
       /\ comp[last[s]] = comp[last[t]]
       /\ rank[head[t]] < rank[last[s]]
       /\ rank[last[s]] < rank[last[t]]
       => \/ rank[head[t]] < rank[head[s]]
          \/ head[t] = head[s] /\ depth[t] < depth[s]

\* The part of f on U, and f with one value more.
Of(U, f) == [s \in U |-> f[s]]
With(T, f, s, v) == [t \in T \cup {s} |-> IF t = s THEN v ELSE f[t]]

(***************************************************************************)
(* The four changes of a chart.                                            *)
(***************************************************************************)
LEMMA AddBase ==
  ASSUME NEW A, NEW B, NEW pt, NEW top, NEW comp, NEW rank, NEW x, x \notin A,
         Charted(A, B, pt, top, comp, rank),
         NEW T, NEW last, NEW head, NEW depth,
         Nested(A, T, last, head, depth, comp, rank)
  PROVE  /\ Charted(A \cup {x}, B \cup {x}, pt, With(B, top, x, x),
                    With(A, comp, x, x), With(A, rank, x, 0))
         /\ Nested(A \cup {x}, T, last, head, depth, With(A, comp, x, x), With(A, rank, x, 0))
<1>. DEFINE A2 == A \cup {x}
            B2 == B \cup {x}
            top2 == [b \in B2 |-> IF b = x THEN x ELSE top[b]]
            comp2 == [c \in A2 |-> IF c = x THEN x ELSE comp[c]]
            rank2 == [c \in A2 |-> IF c = x THEN 0 ELSE rank[c]]
<1>1. A2 \ B2 = A \ B
  BY DEF Charted
<1>2. Charted(A2, B2, pt, top2, comp2, rank2)
  BY <1>1 DEF Charted
<1>3. Nested(A2, T, last, head, depth, comp2, rank2)
  BY DEF Nested
<1>. QED
  BY <1>2, <1>3 DEF With

\* A component that is its base alone goes.
LEMMA DropBase ==
  ASSUME NEW A, NEW B, NEW pt, NEW top, NEW comp, NEW rank, NEW x \in B, top[x] = x,
         Charted(A, B, pt, top, comp, rank),
         NEW T, NEW last, NEW head, NEW depth,
         Nested(A, T, last, head, depth, comp, rank)
  PROVE  /\ Charted(A \ {x}, B \ {x}, pt, Of(B \ {x}, top),
                    Of(A \ {x}, comp), Of(A \ {x}, rank))
         /\ Nested(A \ {x}, T, last, head, depth, Of(A \ {x}, comp), Of(A \ {x}, rank))
<1>. DEFINE A2 == A \ {x}
            B2 == B \ {x}
            top2 == [b \in B2 |-> top[b]]
            comp2 == [c \in A2 |-> comp[c]]
            rank2 == [c \in A2 |-> rank[c]]
<1>1. A2 \ B2 = A \ B
  OBVIOUS
<1>2. \A y \in A : comp[y] = x => y = x
  BY DEF Charted
<1>3. \A y \in A \ B : pt[y] # x
  BY <1>2 DEF Charted
<1>4. pt \in [A2 \ B2 -> A2] /\ top2 \in [B2 -> A2] /\ comp2 \in [A2 -> B2]
      /\ rank2 \in [A2 -> Nat]
  BY <1>1, <1>2, <1>3 DEF Charted
<1>5. Charted(A2, B2, pt, top2, comp2, rank2)
  BY <1>1, <1>2, <1>3, <1>4 DEF Charted
<1>6. \A s \in T : last[s] # x /\ head[s] # x
  BY <1>2 DEF Charted, Nested
<1>7. Nested(A2, T, last, head, depth, comp2, rank2)
  BY <1>6 DEF Nested
<1>. QED
  BY <1>5, <1>7 DEF Of

\* Cutting at x: x becomes the base of whatever is ranked from x on.
CutPts(A, B, pt, x) == [y \in A \ (B \cup {x}) |-> pt[y]]
CutTops(B, pt, top, comp, x) ==
  [k \in B \cup {x} |-> IF k = x THEN top[comp[x]]
                        ELSE IF k = comp[x] THEN pt[x] ELSE top[k]]
CutComp(x, comp, rank) ==
  [c \in DOMAIN comp |-> IF comp[c] = comp[x] /\ rank[x] <= rank[c] THEN x ELSE comp[c]]
CutRank(x, comp, rank) ==
  [c \in DOMAIN comp |-> IF comp[c] = comp[x] /\ rank[x] <= rank[c]
                         THEN rank[c] - rank[x] ELSE rank[c]]

\* Cutting a chart at x gives a chart.
LEMMA Cut ==
  ASSUME NEW A, NEW B, NEW pt, NEW top, NEW comp, NEW rank, NEW x \in A \ B,
         Charted(A, B, pt, top, comp, rank)
  PROVE  Charted(A, B \cup {x}, CutPts(A, B, pt, x), CutTops(B, pt, top, comp, x),
                 CutComp(x, comp, rank), CutRank(x, comp, rank))
<1>. DEFINE b == comp[x]
            B2 == B \cup {x}
            pt2 == [y \in A \ B2 |-> pt[y]]
            top2 == [k \in B2 |-> IF k = x THEN top[b] ELSE IF k = b THEN pt[x] ELSE top[k]]
            comp2 == CutComp(x, comp, rank)
            rank2 == CutRank(x, comp, rank)
            Above(c) == comp[c] = b /\ rank[x] <= rank[c]
<1>1. /\ B \subseteq A /\ pt \in [A \ B -> A] /\ top \in [B -> A]
      /\ comp \in [A -> B] /\ rank \in [A -> Nat]
      /\ b \in B /\ b # x /\ comp[b] = b /\ rank[b] = 0
      /\ rank[x] = rank[pt[x]] + 1 /\ comp[pt[x]] = b /\ pt[x] \in A
  BY DEF Charted
<1>2. \A c \in A : /\ comp2[c] = IF Above(c) THEN x ELSE comp[c]
                   /\ rank2[c] = IF Above(c) THEN rank[c] - rank[x] ELSE rank[c]
  BY <1>1 DEF CutComp, CutRank
<1>3. /\ B2 \subseteq A /\ pt2 \in [A \ B2 -> A] /\ top2 \in [B2 -> A]
      /\ comp2 \in [A -> B2] /\ rank2 \in [A -> Nat]
  BY <1>1 DEF CutComp, CutRank
<1>4. ASSUME NEW k \in B2 PROVE comp2[k] = k /\ rank2[k] = 0 /\ comp2[top2[k]] = k
  <2>1. CASE k = x
    BY <1>1, <1>2, <2>1 DEF Charted
  <2>2. CASE k = b
    BY <1>1, <1>2, <2>2 DEF Charted
  <2>3. CASE k # x /\ k # b
    BY <1>1, <1>2, <2>3 DEF Charted
  <2>. QED
    BY <2>1, <2>2, <2>3
<1>5. ASSUME NEW y \in A \ B2
      PROVE  comp2[y] = comp2[pt2[y]] /\ rank2[y] = rank2[pt2[y]] + 1
  <2>1. /\ comp[y] = comp[pt[y]] /\ rank[y] = rank[pt[y]] + 1 /\ pt2[y] = pt[y]
        /\ pt[y] \in A /\ rank[pt[y]] \in Nat
    BY <1>1 DEF Charted
  <2>2. Above(y) => Above(pt[y])
    BY <1>1, <2>1 DEF Charted
  <2>. QED
    BY <1>1, <1>2, <2>1, <2>2
<1>6. ASSUME NEW y \in A PROVE rank2[y] <= rank2[top2[comp2[y]]]
  <2>1. rank[y] <= rank[top[comp[y]]] /\ top[comp[y]] \in A
    BY <1>1 DEF Charted
  <2>2. CASE Above(y)
    BY <1>1, <1>2, <2>1, <2>2 DEF Charted
  <2>3. CASE ~Above(y) /\ comp[y] = b
    BY <1>1, <1>2, <2>3
  <2>4. CASE comp[y] # b
    <3>1. comp[top[comp[y]]] = comp[y] /\ comp2[y] = comp[y] /\ comp[y] # x
      BY <1>1, <1>2, <2>4 DEF Charted
    <3>. QED
      BY <1>1, <1>2, <2>1, <2>4, <3>1
  <2>. QED
    BY <2>2, <2>3, <2>4
<1>7. ASSUME NEW y \in A, NEW w \in A, comp2[y] = comp2[w], rank2[y] = rank2[w]
      PROVE  y = w
  <2>1. comp[y] # x /\ comp[w] # x
    BY <1>1
  <2>2. comp[y] = comp[w] /\ rank[y] = rank[w]
    BY <1>1, <1>2, <1>7, <2>1
  <2>. QED
    BY <2>2 DEF Charted
<1>. QED
  BY <1>3, <1>4, <1>5, <1>6, <1>7 DEF Charted, CutPts, CutTops

\* The systems that keep an operative component, none of them around x, stay
\* nested.
LEMMA CutNested ==
  ASSUME NEW A, NEW B, NEW pt, NEW top, NEW comp, NEW rank, NEW x \in A \ B,
         Charted(A, B, pt, top, comp, rank),
         NEW T, NEW last, NEW head, NEW depth,
         Nested(A, T, last, head, depth, comp, rank),
         NEW U \in SUBSET T,
         \A s \in U : comp[last[s]] = comp[x] /\ rank[head[s]] < rank[x]
                        => rank[last[s]] < rank[x]
  PROVE  Nested(A, U, Of(U, last), Of(U, head), Of(U, depth),
                CutComp(x, comp, rank), CutRank(x, comp, rank))
<1>. DEFINE comp2 == CutComp(x, comp, rank)
            rank2 == CutRank(x, comp, rank)
            Above(c) == comp[c] = comp[x] /\ rank[x] <= rank[c]
<1>1. comp \in [A -> B] /\ rank \in [A -> Nat] /\ B \subseteq A
  BY DEF Charted
<1>2. \A c \in A : /\ comp2[c] = IF Above(c) THEN x ELSE comp[c]
                   /\ rank2[c] = IF Above(c) THEN rank[c] - rank[x] ELSE rank[c]
                   /\ comp[c] # x /\ comp[c] \in B /\ rank[c] \in Nat
  BY <1>1 DEF CutComp, CutRank
<1>3. \A s \in U : /\ last[s] \in A /\ head[s] \in A /\ depth[s] \in Nat
                   /\ comp[head[s]] = comp[last[s]] /\ rank[head[s]] < rank[last[s]]
                   /\ Above(last[s]) <=> Above(head[s])
  BY <1>1, <1>2 DEF Nested
<1>. HIDE DEF comp2, rank2
<1>4. \A s \in U : comp2[head[s]] = comp2[last[s]] /\ rank2[head[s]] < rank2[last[s]]
  BY <1>1, <1>2, <1>3
<1>5. ASSUME NEW s \in U, NEW t \in U, comp2[last[s]] = comp2[last[t]],
             rank2[head[t]] < rank2[last[s]], rank2[last[s]] < rank2[last[t]]
      PROVE  \/ rank2[head[t]] < rank2[head[s]]
             \/ head[t] = head[s] /\ depth[t] < depth[s]
  <2>1. Above(last[s]) <=> Above(last[t])
    BY <1>2, <1>3, <1>5
  <2>2. /\ comp[last[s]] = comp[last[t]]
        /\ rank[head[t]] < rank[last[s]]
        /\ rank[last[s]] < rank[last[t]]
    BY <1>2, <1>3, <1>5, <2>1
  <2>3. \/ rank[head[t]] < rank[head[s]]
        \/ head[t] = head[s] /\ depth[t] < depth[s]
    BY <2>2 DEF Nested
  <2>. QED
    BY <1>2, <1>3, <2>1, <2>3
<1>. QED
  BY <1>3, <1>4, <1>5 DEF Nested, Of, comp2, rank2

\* Joining: the component of x is set on the end of that of b.
JoinPts(A, B, pt, top, b, x) == [y \in A \ (B \ {x}) |-> IF y = x THEN top[b] ELSE pt[y]]
JoinTops(B, top, b, x) == [k \in B \ {x} |-> IF k = b THEN top[x] ELSE top[k]]
JoinComp(b, x, comp) == [c \in DOMAIN comp |-> IF comp[c] = x THEN b ELSE comp[c]]
JoinRank(b, x, top, comp, rank) ==
  [c \in DOMAIN comp |-> IF comp[c] = x THEN rank[c] + rank[top[b]] + 1 ELSE rank[c]]

\* Joining two components gives a chart.
LEMMA Join ==
  ASSUME NEW A, NEW B, NEW pt, NEW top, NEW comp, NEW rank, NEW x \in B, NEW b \in B, b # x,
         Charted(A, B, pt, top, comp, rank)
  PROVE  Charted(A, B \ {x}, JoinPts(A, B, pt, top, b, x), JoinTops(B, top, b, x),
                 JoinComp(b, x, comp), JoinRank(b, x, top, comp, rank))
<1>. DEFINE B2 == B \ {x}
            pt2 == [y \in A \ B2 |-> IF y = x THEN top[b] ELSE pt[y]]
            top2 == [k \in B2 |-> IF k = b THEN top[x] ELSE top[k]]
            comp2 == JoinComp(b, x, comp)
            rank2 == JoinRank(b, x, top, comp, rank)
            n == rank[top[b]] + 1
<1>1. /\ B \subseteq A /\ pt \in [A \ B -> A] /\ top \in [B -> A]
      /\ comp \in [A -> B] /\ rank \in [A -> Nat]
      /\ comp[b] = b /\ rank[b] = 0 /\ comp[x] = x /\ rank[x] = 0
      /\ top[b] \in A /\ top[x] \in A /\ comp[top[b]] = b /\ comp[top[x]] = x
      /\ n \in Nat
  BY DEF Charted
<1>2. \A c \in A : /\ comp2[c] = IF comp[c] = x THEN b ELSE comp[c]
                   /\ rank2[c] = IF comp[c] = x THEN rank[c] + n ELSE rank[c]
                   /\ rank[c] \in Nat /\ comp[c] \in B
                   /\ comp[c] = b => rank[c] < n
  BY <1>1 DEF JoinComp, JoinRank, Charted
<1>3. /\ B2 \subseteq A /\ pt2 \in [A \ B2 -> A] /\ top2 \in [B2 -> A]
      /\ comp2 \in [A -> B2] /\ rank2 \in [A -> Nat]
  BY <1>1 DEF JoinComp, JoinRank
<1>. HIDE DEF comp2, rank2, n
<1>4. ASSUME NEW k \in B2 PROVE comp2[k] = k /\ rank2[k] = 0 /\ comp2[top2[k]] = k
  <2>1. comp[k] = k /\ rank[k] = 0 /\ comp[top[k]] = k /\ k # x /\ k \in A /\ top[k] \in A
    BY <1>1 DEF Charted
  <2>. QED
    BY <1>1, <1>2, <2>1
<1>5. ASSUME NEW y \in A \ B2
      PROVE  comp2[y] = comp2[pt2[y]] /\ rank2[y] = rank2[pt2[y]] + 1
  <2>1. CASE y = x
    BY <1>1, <1>2, <2>1 DEF n
  <2>2. CASE y # x
    <3>1. /\ comp[y] = comp[pt[y]] /\ rank[y] = rank[pt[y]] + 1 /\ pt2[y] = pt[y]
          /\ pt[y] \in A
      BY <1>1, <2>2 DEF Charted
    <3>. QED
      BY <1>1, <1>2, <3>1
  <2>. QED
    BY <2>1, <2>2
<1>6. ASSUME NEW y \in A PROVE rank2[y] <= rank2[top2[comp2[y]]]
  <2>1. rank[y] <= rank[top[comp[y]]] /\ top[comp[y]] \in A /\ comp[top[comp[y]]] = comp[y]
    BY <1>1 DEF Charted
  <2>2. CASE comp[y] = x
    BY <1>1, <1>2, <2>1, <2>2
  <2>3. CASE comp[y] = b
    BY <1>1, <1>2, <2>1, <2>3
  <2>4. CASE comp[y] # b /\ comp[y] # x
    BY <1>1, <1>2, <2>1, <2>4
  <2>. QED
    BY <2>2, <2>3, <2>4
<1>7. ASSUME NEW y \in A, NEW w \in A, comp2[y] = comp2[w], rank2[y] = rank2[w]
      PROVE  y = w
  <2>1. comp[y] = comp[w] /\ rank[y] = rank[w]
    BY <1>1, <1>2, <1>7
  <2>. QED
    BY <2>1 DEF Charted
<1>. QED
  BY <1>3, <1>4, <1>5, <1>6, <1>7 DEF Charted, JoinPts, JoinTops, comp2, rank2

\* Systems stay nested when components are joined.
LEMMA JoinNested ==
  ASSUME NEW A, NEW B, NEW pt, NEW top, NEW comp, NEW rank, NEW x \in B, NEW b \in B, b # x,
         Charted(A, B, pt, top, comp, rank),
         NEW T, NEW last, NEW head, NEW depth,
         Nested(A, T, last, head, depth, comp, rank)
  PROVE  Nested(A, T, last, head, depth, JoinComp(b, x, comp), JoinRank(b, x, top, comp, rank))
<1>. DEFINE comp2 == JoinComp(b, x, comp)
            rank2 == JoinRank(b, x, top, comp, rank)
            n == rank[top[b]] + 1
<1>1. comp \in [A -> B] /\ rank \in [A -> Nat] /\ B \subseteq A /\ n \in Nat
  BY DEF Charted
<1>2. \A c \in A : /\ comp2[c] = IF comp[c] = x THEN b ELSE comp[c]
                   /\ rank2[c] = IF comp[c] = x THEN rank[c] + n ELSE rank[c]
                   /\ rank[c] \in Nat /\ comp[c] \in B
                   /\ comp[c] = b => rank[c] < n
  BY <1>1 DEF JoinComp, JoinRank, Charted
<1>3. \A s \in T : /\ last[s] \in A /\ head[s] \in A /\ depth[s] \in Nat
                   /\ comp[head[s]] = comp[last[s]] /\ rank[head[s]] < rank[last[s]]
  BY DEF Nested
<1>. HIDE DEF comp2, rank2, n
<1>4. \A s \in T : comp2[head[s]] = comp2[last[s]] /\ rank2[head[s]] < rank2[last[s]]
  BY <1>1, <1>2, <1>3
<1>5. ASSUME NEW s \in T, NEW t \in T, comp2[last[s]] = comp2[last[t]],
             rank2[head[t]] < rank2[last[s]], rank2[last[s]] < rank2[last[t]]
      PROVE  \/ rank2[head[t]] < rank2[head[s]]
             \/ head[t] = head[s] /\ depth[t] < depth[s]
  <2>1. comp[last[s]] = comp[last[t]]
    BY <1>1, <1>2, <1>3, <1>5
  <2>2. rank[head[t]] < rank[last[s]] /\ rank[last[s]] < rank[last[t]]
    BY <1>1, <1>2, <1>3, <1>5, <2>1
  <2>3. \/ rank[head[t]] < rank[head[s]]
        \/ head[t] = head[s] /\ depth[t] < depth[s]
    BY <2>1, <2>2 DEF Nested
  <2>. QED
    BY <1>1, <1>2, <1>3, <2>1, <2>3
<1>. QED
  BY <1>4, <1>5 DEF Nested, comp2, rank2

\* The component that is joined becomes operative in one more system.
LEMMA JoinNestedNew ==
  ASSUME NEW A, NEW B, NEW pt, NEW top, NEW comp, NEW rank, NEW x \in B, NEW b \in B, b # x,
         Charted(A, B, pt, top, comp, rank),
         NEW T, NEW last, NEW head, NEW depth,
         Nested(A, T, last, head, depth, comp, rank),
         NEW s, s \notin T, NEW h \in A, NEW d \in Nat, comp[h] = b,
         \A t \in T : comp[last[t]] = b /\ rank[h] < rank[last[t]]
                        => rank[h] < rank[head[t]] \/ (h = head[t] /\ d < depth[t])
  PROVE  Nested(A, T \cup {s}, With(T, last, s, x), With(T, head, s, h), With(T, depth, s, d),
                JoinComp(b, x, comp), JoinRank(b, x, top, comp, rank))
<1>. DEFINE comp2 == JoinComp(b, x, comp)
            rank2 == JoinRank(b, x, top, comp, rank)
            n == rank[top[b]] + 1
            T2 == T \cup {s}
            last2 == [t \in T2 |-> IF t = s THEN x ELSE last[t]]
            head2 == [t \in T2 |-> IF t = s THEN h ELSE head[t]]
            depth2 == [t \in T2 |-> IF t = s THEN d ELSE depth[t]]
<1>1. /\ comp \in [A -> B] /\ rank \in [A -> Nat] /\ B \subseteq A /\ n \in Nat
      /\ comp[x] = x /\ rank[x] = 0
  BY DEF Charted
<1>2. \A c \in A : /\ comp2[c] = IF comp[c] = x THEN b ELSE comp[c]
                   /\ rank2[c] = IF comp[c] = x THEN rank[c] + n ELSE rank[c]
                   /\ rank[c] \in Nat /\ comp[c] \in B
                   /\ comp[c] = b => rank[c] < n
  BY <1>1 DEF JoinComp, JoinRank, Charted
<1>3. \A t \in T : /\ last[t] \in A /\ head[t] \in A /\ depth[t] \in Nat
                   /\ comp[head[t]] = comp[last[t]] /\ rank[head[t]] < rank[last[t]]
  BY DEF Nested
<1>4. last2 \in [T2 -> A] /\ head2 \in [T2 -> A] /\ depth2 \in [T2 -> Nat]
  BY <1>1, <1>3
<1>5. Nested(A, T, last, head, depth, comp2, rank2)
  BY JoinNested
<1>6. /\ \A t \in T : last2[t] = last[t] /\ head2[t] = head[t] /\ depth2[t] = depth[t]
      /\ last2[s] = x /\ head2[s] = h /\ depth2[s] = d
  OBVIOUS
<1>. HIDE DEF comp2, rank2, n, last2, head2, depth2
<1>7. comp2[x] = b /\ rank2[x] = n /\ comp2[h] = b /\ rank2[h] = rank[h] /\ rank[h] < n
  BY <1>1, <1>2
<1>8. \A t \in T : comp2[head[t]] = comp2[last[t]] /\ rank2[head[t]] < rank2[last[t]]
  BY <1>5 DEF Nested
<1>9. \A t \in T2 : comp2[head2[t]] = comp2[last2[t]] /\ rank2[head2[t]] < rank2[last2[t]]
  BY <1>1, <1>6, <1>7, <1>8
<1>10. ASSUME NEW t \in T, comp2[last[t]] = b, rank2[h] < rank2[last[t]], rank2[last[t]] < n
       PROVE  rank2[h] < rank2[head[t]] \/ (h = head[t] /\ d < depth[t])
  <2>1. comp[last[t]] = b /\ rank[h] < rank[last[t]]
    BY <1>1, <1>2, <1>3, <1>7, <1>10
  <2>2. rank[h] < rank[head[t]] \/ (h = head[t] /\ d < depth[t])
    BY <2>1
  <2>. QED
    BY <1>2, <1>3, <1>7, <2>1, <2>2
<1>11. ASSUME NEW t \in T, comp2[last[t]] = b, rank2[head[t]] < n, n < rank2[last[t]]
       PROVE  FALSE
  BY <1>1, <1>2, <1>3, <1>11
<1>12. ASSUME NEW u \in T2, NEW t \in T2, comp2[last2[u]] = comp2[last2[t]],
              rank2[head2[t]] < rank2[last2[u]], rank2[last2[u]] < rank2[last2[t]]
       PROVE  rank2[head2[t]] < rank2[head2[u]] \/ (head2[t] = head2[u] /\ depth2[t] < depth2[u])
  <2>1. CASE u \in T /\ t \in T
    BY <1>5, <1>6, <1>12, <2>1 DEF Nested
  <2>2. CASE u \in T /\ t = s
    BY <1>6, <1>7, <1>10, <1>12, <2>2
  <2>3. CASE u = s /\ t \in T
    BY <1>6, <1>7, <1>11, <1>12, <2>3
  <2>4. CASE u = s /\ t = s
    BY <1>1, <1>6, <1>7, <1>12, <2>4
  <2>. QED
    BY <2>1, <2>2, <2>3, <2>4
<1>13. Nested(A, T2, last2, head2, depth2, comp2, rank2)
  BY <1>4, <1>9, <1>12 DEF Nested
<1>. QED
  BY <1>13 DEF With, comp2, rank2, last2, head2, depth2

-----------------------------------------------------------------------------
(* Numbers and iteration.                                                  *)

\* A set of numbers has a least one.
LEMMA Least ==
  ASSUME NEW S \in SUBSET Nat, S # {}
  PROVE  \E n \in S : \A m \in S : n <= m
<1>1. PICK n \in S : \A m \in S : ~(<<m, n>> \in OpToRel(<, Nat))
  BY WFMin, NatLessThanWellFounded, Zenon
<1>2. ASSUME NEW m \in S PROVE n <= m
  <2>1. ~(m < n)
    BY <1>1 DEF OpToRel
  <2>. QED
    BY <2>1
<1>. QED
  BY <1>2

\* Induction, of a set.
LEMMA SetInduction ==
  ASSUME NEW S, 0 \in S, \A n \in Nat : n \in S => n + 1 \in S
  PROVE  Nat \subseteq S
<1> SUFFICES ASSUME Nat \ S # {} PROVE FALSE
  OBVIOUS
<1>1. PICK n \in Nat \ S : \A m \in Nat \ S : n <= m
  BY Least
<1>2. n - 1 \in Nat /\ n - 1 \notin Nat \ S
  BY <1>1
<1>. QED
  BY <1>1, <1>2

\* The iteration of a function from c exists.
IsIteration(f, g, c) ==
  f = [n \in Nat |-> IF n = 0 THEN c ELSE g[f[n - 1]]]

\* The first n steps of the iteration.
Start(h, n, g, c, D) ==
  /\ h \in [0..n -> D]
  /\ h[0] = c
  /\ \A i \in 1..n : h[i] = g[h[i - 1]]

\* Beginnings of the iteration agree.
LEMMA StartUnique ==
  ASSUME NEW D, NEW g, NEW c, NEW m \in Nat, NEW n \in Nat, NEW h, NEW k,
         Start(h, m, g, c, D), Start(k, n, g, c, D)
  PROVE  \A i \in 0..m \cap 0..n : h[i] = k[i]
<1>. DEFINE S == {i \in Nat : i \in 0..m \cap 0..n => h[i] = k[i]}
<1>1. 0 \in S
  BY DEF Start
<1>2. \A i \in Nat : i \in S => i + 1 \in S
  BY DEF Start
<1>3. Nat \subseteq S
  <2>. HIDE DEF S
  <2>. QED
    BY <1>1, <1>2, SetInduction
<1>. QED
  BY <1>3

\* So the iteration is a function of all the numbers.
LEMMA IterationExists ==
  ASSUME NEW D, NEW g \in [D -> D], NEW c \in D
  PROVE  \E f \in [Nat -> D] : IsIteration(f, g, c)
<1>. DEFINE S == {n \in Nat : \E h : Start(h, n, g, c, D)}
<1>1. 0 \in S
  <2>1. Start([i \in 0..0 |-> c], 0, g, c, D)
    BY DEF Start
  <2>. QED
    BY <2>1
<1>2. ASSUME NEW n \in Nat, n \in S PROVE n + 1 \in S
  <2>1. PICK h : Start(h, n, g, c, D)
    BY <1>2
  <2>. DEFINE k == [i \in 0..(n + 1) |-> IF i = n + 1 THEN g[h[n]] ELSE h[i]]
  <2>2. Start(k, n + 1, g, c, D)
    BY <2>1 DEF Start
  <2>. QED
    BY <2>2
<1>3. \A n \in Nat : \E h : Start(h, n, g, c, D)
  <2>1. Nat \subseteq S
    <3>. HIDE DEF S
    <3>. QED
      BY <1>1, <1>2, SetInduction
  <2>. QED
    BY <2>1
<1>. DEFINE H(n) == CHOOSE h : Start(h, n, g, c, D)
            f == [n \in Nat |-> H(n)[n]]
<1>4. \A n \in Nat : Start(H(n), n, g, c, D)
  BY <1>3
<1>. HIDE DEF H
<1>5. f \in [Nat -> D]
  BY <1>4 DEF Start
<1>6. \A n \in Nat : f[n] = IF n = 0 THEN c ELSE g[f[n - 1]]
  <2>. TAKE n \in Nat
  <2>1. CASE n = 0
    BY <1>4, <2>1 DEF Start
  <2>2. CASE n # 0
    <3>1. n - 1 \in Nat /\ n - 1 \in 0..n \cap 0..(n - 1)
      BY <2>2
    <3>2. H(n)[n - 1] = H(n - 1)[n - 1]
      BY <1>4, <3>1, StartUnique
    <3>3. H(n)[n] = g[H(n)[n - 1]]
      BY <1>4, <2>2 DEF Start
    <3>. QED
      BY <2>2, <3>1, <3>2, <3>3
  <2>. QED
    BY <2>1, <2>2
<1>. HIDE DEF f
<1>7. IsIteration(f, g, c)
  BY <1>5, <1>6 DEF IsIteration
<1>. QED
  BY <1>5, <1>7

-----------------------------------------------------------------------------
(* The operating chain of a state.                                         *)

\* The chart's terms, from the runtime's fields.
Alive == {Main} \cup {x \in Object : state[x] \in {"attached", "detached", "resumed"}}
Bases == {Main} \cup {x \in Object : state[x] = "detached"}
Pts == [x \in Alive \ Bases |-> Point(x)]
Tops == [b \in Bases |-> IF b = Main THEN current ELSE park[b]]
Busy == {s \in System : operative[s] # None}
Lasts == [s \in Busy |-> operative[s]]
Heads == [s \in Busy |-> HeadOf(s).coro]
Depths == [s \in Busy |-> HeadOf(s).depth]

\* The open blocks are those of the live systems, each open on one coroutine;
\* a resumed object's system is live.
HeadsInv ==
  /\ \A c \in Coro : \A i \in DOMAIN open[c] : phase[open[c][i]] = "live"
  /\ \A s \in Instance : phase[s] = "live" =>
       \E c \in Coro : \E i \in DOMAIN open[c] : open[c][i] = s
  /\ \A c, d \in Coro : \A i \in DOMAIN open[c], j \in DOMAIN open[d] :
       open[c][i] = open[d][j] => c = d /\ i = j
  /\ \A x \in Object : state[x] = "resumed" => phase[system[x]] = "live"

\* What places are.
Placed == [coro : Coro, depth : Nat]

\* The head of an open block is where it is open.
LEMMA HeadOfIs ==
  ASSUME TypeOK, HeadsInv, NEW c \in Coro, NEW i \in DOMAIN open[c]
  PROVE  HeadOf(open[c][i]) = Place(c, i) /\ i \in Nat \ {0} /\ open[c][i] \in Instance
<1>. DEFINE s == open[c][i]
<1>1. s \in Instance /\ s # Outermost /\ i \in Nat \ {0}
  BY SequencingAssumption DEF TypeOK
<1>2. \A d \in Coro : (\E j \in DOMAIN open[d] : open[d][j] = s) <=> d = c
  BY DEF HeadsInv
<1>3. \A j \in DOMAIN open[c] : open[c][j] = s <=> j = i
  BY DEF HeadsInv
<1>4. (CHOOSE d \in Coro : \E j \in DOMAIN open[d] : open[d][j] = s) = c
  BY <1>2
<1>5. (CHOOSE j \in DOMAIN open[c] : open[c][j] = s) = i
  BY <1>3
<1>. HIDE DEF s
<1>. QED
  BY <1>1, <1>4, <1>5 DEF HeadOf, s

\* A live system has its head on some coroutine.
LEMMA HeadOfType ==
  ASSUME TypeOK, HeadsInv, NEW s \in System, phase[s] = "live"
  PROVE  HeadOf(s) \in Placed
<1>1. CASE s = Outermost
  BY <1>1 DEF HeadOf, Place, Placed, Coro
<1>2. CASE s # Outermost
  <2>1. PICK c \in Coro : \E i \in DOMAIN open[c] : open[c][i] = s
    BY <1>2 DEF HeadsInv, System
  <2>2. PICK i \in DOMAIN open[c] : open[c][i] = s
    BY <2>1
  <2>3. HeadOf(open[c][i]) = Place(c, i) /\ i \in Nat
    BY <2>2, HeadOfIs
  <2>. QED
    BY <2>2, <2>3 DEF Place, Placed
<1>. QED
  BY <1>1, <1>2

\* Live systems have different heads.
LEMMA HeadsDistinct ==
  ASSUME TypeOK, HeadsInv, NEW s \in System, NEW t \in System,
         phase[s] = "live", phase[t] = "live", HeadOf(s) = HeadOf(t)
  PROVE  s = t
<1>1. ASSUME NEW u \in System, phase[u] = "live"
      PROVE  \/ u = Outermost /\ HeadOf(u).depth = 0
             \/ u = open[HeadOf(u).coro][HeadOf(u).depth] /\ HeadOf(u).depth # 0
  <2>1. CASE u = Outermost
    BY <2>1 DEF HeadOf, Place
  <2>2. CASE u # Outermost
    <3>1. PICK c \in Coro : \E i \in DOMAIN open[c] : open[c][i] = u
      BY <1>1, <2>2 DEF HeadsInv, System
    <3>2. PICK i \in DOMAIN open[c] : open[c][i] = u
      BY <3>1
    <3>3. HeadOf(open[c][i]) = Place(c, i) /\ i # 0
      BY <3>2, HeadOfIs
    <3>. QED
      BY <3>2, <3>3 DEF Place
  <2>. QED
    BY <2>1, <2>2
<1>2. \/ s = Outermost /\ HeadOf(s).depth = 0
      \/ s = open[HeadOf(s).coro][HeadOf(s).depth] /\ HeadOf(s).depth # 0
  BY <1>1
<1>3. \/ t = Outermost /\ HeadOf(t).depth = 0
      \/ t = open[HeadOf(t).coro][HeadOf(t).depth] /\ HeadOf(t).depth # 0
  BY <1>1
<1>. QED
  BY <1>2, <1>3

\* A coroutine's innermost block is a place.
LEMMA InnermostType ==
  ASSUME TypeOK, NEW c \in Coro
  PROVE  Innermost(c) \in Placed
  BY DEF TypeOK, Innermost, Place, Placed

\* What encloses a place is a place.
LEMMA EncloserType ==
  ASSUME SeqInv, HeadsInv, NEW p \in Placed
  PROVE  Encloser(p) \in Placed
<1>1. CASE p.coro \in Object /\ state[p.coro] = "attached"
  <2>1. attachedTo[p.coro] \in Coro
    BY <1>1 DEF SeqInv, TypeOK, ComponentsInv
  <2>. QED
    BY <1>1, <2>1, InnermostType DEF Encloser, SeqInv
<1>2. CASE p.coro \in Object /\ state[p.coro] = "resumed" /\ phase[system[p.coro]] = "live"
  <2>1. system[p.coro] \in System
    BY <1>2 DEF SeqInv, TypeOK, ComponentsInv
  <2>. QED
    BY <1>2, <2>1, HeadOfType DEF Encloser, SeqInv
<1>. QED
  BY <1>1, <1>2 DEF Encloser

\* `enclosing` is what its definition says.
LEMMA EnclosingIs ==
  ASSUME SeqInv, HeadsInv
  PROVE  enclosing = [n \in Nat |-> IF n = 0 THEN Innermost(current)
                                    ELSE Encloser(enclosing[n - 1])]
<1>. DEFINE g == [p \in Placed |-> Encloser(p)]
            Is(f) == f = [n \in Nat |-> IF n = 0 THEN Innermost(current)
                                        ELSE Encloser(f[n - 1])]
<1>1. g \in [Placed -> Placed] /\ Innermost(current) \in Placed
  BY EncloserType, InnermostType DEF SeqInv, TypeOK
<1>2. PICK f \in [Nat -> Placed] : IsIteration(f, g, Innermost(current))
  <2>. HIDE DEF g
  <2>. QED
    BY <1>1, IterationExists
<1>3. \A n \in Nat : f[n] = IF n = 0 THEN Innermost(current) ELSE Encloser(f[n - 1])
  <2>. TAKE n \in Nat
  <2>1. f[n] = IF n = 0 THEN Innermost(current) ELSE g[f[n - 1]]
    BY <1>2 DEF IsIteration
  <2>2. n # 0 => f[n - 1] \in Placed
    BY <1>2
  <2>. QED
    BY <2>1, <2>2
<1>4. f = [n \in Nat |-> f[n]]
  BY <1>2
<1>5. Is(f)
  BY <1>3, <1>4
<1>6. enclosing = CHOOSE h : Is(h)
  BY DEF enclosing
<1>7. Is(enclosing)
  <2>. HIDE DEF Is
  <2>. QED
    BY <1>5, <1>6
<1>. QED
  BY <1>7

\* A set that holds the place of control, and with a place its encloser, holds
\* the operating chain.
LEMMA ChainInduction ==
  ASSUME SeqInv, HeadsInv, NEW S, Innermost(current) \in S,
         \A p \in S \cap Placed : Encloser(p) \in S
  PROVE  Chain \subseteq S \cap Placed
<1>. DEFINE N == {n \in Nat : enclosing[n] \in S \cap Placed}
<1>1. /\ enclosing[0] = Innermost(current)
      /\ \A n \in Nat : enclosing[n + 1] = Encloser(enclosing[n])
  BY EnclosingIs
<1>2. 0 \in N
  BY <1>1, InnermostType DEF SeqInv, TypeOK
<1>3. \A n \in Nat : n \in N => n + 1 \in N
  BY <1>1, EncloserType
<1>4. Nat \subseteq N
  <2>. HIDE DEF N
  <2>. QED
    BY <1>2, <1>3, SetInduction
<1>5. 0..Cardinality(Object) \subseteq Nat
  OBVIOUS
<1>. QED
  BY <1>4, <1>5 DEF Chain

\* comp and rank chart the program's coroutines and its systems.
Chart(comp, rank) ==
  /\ Charted(Alive, Bases, Pts, Tops, comp, rank)
  /\ Nested(Alive, Busy, Lasts, Heads, Depths, comp, rank)

ChartInv == \E comp, rank : Chart(comp, rank)

\* Place p is inside the component that is operative in system s.
Covers(s, p, comp, rank) ==
  /\ comp[Lasts[s]] = comp[p.coro]
  /\ \/ rank[Heads[s]] < rank[p.coro] /\ rank[p.coro] < rank[Lasts[s]]
     \/ p.coro = Heads[s] /\ Depths[s] < p.depth

\* Place p is inside the main component and inside the operative component of
\* no system but those it is a part of.
OnMain(p, comp, rank) ==
  /\ p.coro \in Alive
  /\ comp[p.coro] = Main
  /\ \A s \in Busy : ~Covers(s, p, comp, rank)

\* A busy system is live, and its operative object is resumed.
LEMMA BusyFacts ==
  ASSUME SeqInv, NEW s \in Busy
  PROVE  /\ s \in System /\ phase[s] = "live"
         /\ Lasts[s] \in Object /\ Lasts[s] = operative[s]
         /\ state[Lasts[s]] = "resumed" /\ system[Lasts[s]] = s
         /\ Heads[s] = HeadOf(s).coro /\ Depths[s] = HeadOf(s).depth
<1>1. s \in System /\ operative[s] \in Object /\ phase[s] = "live"
  BY DEF Busy, SeqInv, TypeOK, SystemsInv
<1>2. state[operative[s]] = "resumed" /\ system[operative[s]] = s
  BY <1>1 DEF SeqInv, OperativeIsResumed
<1>. QED
  BY <1>1, <1>2 DEF Lasts, Heads, Depths

\* A resumed object is the operative one of its system.
LEMMA ResumedIsBusy ==
  ASSUME SeqInv, HeadsInv, NEW x \in Object, state[x] = "resumed"
  PROVE  /\ system[x] \in Busy /\ phase[system[x]] = "live"
         /\ Lasts[system[x]] = x
  BY SequencingAssumption
  DEF SeqInv, TypeOK, ComponentsInv, OperativeIsResumed, HeadsInv, Busy, Lasts, Coro

\* A chart read on the runtime's fields: control is farthest from MAIN.
LEMMA ChartFacts ==
  ASSUME SeqInv, HeadsInv, NEW comp, NEW rank, Chart(comp, rank)
  PROVE  /\ Main \in Bases /\ Tops[Main] = current /\ current \in Alive
         /\ comp[current] = Main /\ comp[Main] = Main
         /\ comp \in [Alive -> Bases] /\ rank \in [Alive -> Nat]
         /\ \A c \in Alive : comp[c] = Main => rank[c] <= rank[current]
         /\ \A c, d \in Alive : comp[c] = comp[d] /\ rank[c] = rank[d] => c = d
         /\ \A x \in Alive \ Bases :
              /\ x \in Object /\ x # Main /\ state[x] \in {"attached", "resumed"}
              /\ Point(x) \in Alive
              /\ comp[x] = comp[Point(x)] /\ rank[x] = rank[Point(x)] + 1
         /\ \A s \in Busy : Lasts[s] \in Alive \ Bases /\ Heads[s] \in Alive
<1>1. Main \in Bases /\ Tops[Main] = current
  BY DEF Bases, Tops
<1>2. \A x \in Alive \ Bases : /\ Pts[x] = Point(x) /\ x \in Object /\ x # Main
                              /\ state[x] \in {"attached", "resumed"}
  BY SequencingAssumption DEF Pts, Alive, Bases
<1>3. \A s \in Busy : Lasts[s] \in Alive \ Bases
  BY BusyFacts, SequencingAssumption DEF Alive, Bases
<1>. QED
  BY <1>1, <1>2, <1>3 DEF Chart, Charted, Nested

\* The operating chain never leaves the main component, and it runs through
\* each operative component from its last object outwards.
LEMMA ChainIsOnMain ==
  ASSUME SeqInv, HeadsInv, NEW comp, NEW rank, Chart(comp, rank)
  PROVE  \A p \in Chain : p \in Placed /\ OnMain(p, comp, rank)
<1>. DEFINE S == {p \in Placed : OnMain(p, comp, rank)}
<1>1. /\ current \in Alive /\ comp[current] = Main
      /\ \A c \in Alive : comp[c] = Main => rank[c] <= rank[current]
      /\ \A c, d \in Alive : comp[c] = comp[d] /\ rank[c] = rank[d] => c = d
      /\ comp \in [Alive -> Bases] /\ rank \in [Alive -> Nat]
      /\ \A x \in Alive \ Bases :
           /\ Point(x) \in Alive
           /\ comp[x] = comp[Point(x)] /\ rank[x] = rank[Point(x)] + 1
      /\ \A s \in Busy : Lasts[s] \in Alive \ Bases /\ Heads[s] \in Alive
  BY ChartFacts
<1>2. \A s \in Busy : comp[Heads[s]] = comp[Lasts[s]] /\ rank[Heads[s]] < rank[Lasts[s]]
  BY DEF Chart, Nested
<1>3. Innermost(current) \in S
  <2>1. Innermost(current) \in Placed /\ Innermost(current).coro = current
    BY InnermostType DEF SeqInv, TypeOK, Innermost, Place
  <2>2. ASSUME NEW s \in Busy, comp[Lasts[s]] = Main
        PROVE  rank[Heads[s]] < rank[current] /\ rank[Lasts[s]] <= rank[current]
    BY <1>1, <1>2, <2>2
  <2>3. \A s \in Busy : ~Covers(s, Innermost(current), comp, rank)
    BY <1>1, <2>1, <2>2 DEF Covers
  <2>. QED
    BY <1>1, <2>1, <2>3 DEF OnMain
<1>4. ASSUME NEW p \in S, NEW x \in Object, p.coro = x, state[x] = "attached"
      PROVE  Encloser(p) \in S
  <2>. DEFINE a == attachedTo[x]
              q == Innermost(a)
  <2>1. x \in Alive \ Bases /\ Point(x) = a /\ Encloser(p) = q
    BY <1>4, SequencingAssumption DEF Alive, Bases, Point, Encloser
  <2>2. a \in Alive /\ comp[a] = Main /\ rank[x] = rank[a] + 1 /\ comp[x] = Main
    BY <1>1, <1>4, <2>1 DEF OnMain
  <2>3. q \in Placed /\ q.coro = a
    BY <1>4, <2>1, EncloserType DEF Innermost, Place
  <2>. HIDE DEF q, a
  <2>4. ASSUME NEW s \in Busy, Covers(s, q, comp, rank) PROVE FALSE
    <3>1. /\ comp[Lasts[s]] = Main /\ rank[Heads[s]] <= rank[a] /\ rank[a] < rank[Lasts[s]]
      BY <1>1, <1>2, <2>2, <2>3, <2>4 DEF Covers
    <3>2. Lasts[s] # x
      BY <1>4, BusyFacts
    <3>3. rank[Lasts[s]] # rank[x]
      BY <1>1, <2>1, <2>2, <3>1, <3>2
    <3>4. rank[Heads[s]] < rank[x] /\ rank[x] < rank[Lasts[s]]
      BY <1>1, <2>1, <2>2, <3>1, <3>3
    <3>. QED
      BY <1>4, <2>2, <3>1, <3>4 DEF OnMain, Covers
  <2>. QED
    BY <2>1, <2>2, <2>3, <2>4 DEF OnMain
<1>5. ASSUME NEW p \in S, NEW x \in Object, p.coro = x, state[x] = "resumed"
      PROVE  Encloser(p) \in S
  <2>. DEFINE t == system[x]
              q == HeadOf(t)
  <2>1. /\ x \in Alive \ Bases /\ t \in Busy /\ phase[t] = "live" /\ Lasts[t] = x
    BY <1>5, ResumedIsBusy, SequencingAssumption DEF Alive, Bases
  <2>2. Encloser(p) = q
    BY <1>5, <2>1 DEF Encloser
  <2>3. q \in Placed /\ q.coro = Heads[t] /\ q.depth = Depths[t]
    BY <1>5, <2>1, <2>2, EncloserType, BusyFacts
  <2>4. comp[x] = Main /\ comp[Heads[t]] = Main /\ rank[Heads[t]] < rank[x]
    BY <1>2, <1>5, <2>1 DEF OnMain
  <2>. HIDE DEF t, q
  <2>5. ASSUME NEW s \in Busy, Covers(s, q, comp, rank) PROVE FALSE
    <3>1. /\ comp[Lasts[s]] = Main /\ comp[Heads[s]] = Main
          /\ \/ rank[Heads[s]] < rank[Heads[t]] /\ rank[Heads[t]] < rank[Lasts[s]]
             \/ Heads[t] = Heads[s] /\ Depths[s] < Depths[t]
      BY <1>2, <2>3, <2>4, <2>5 DEF Covers
    <3>2. rank[Heads[s]] <= rank[Heads[t]] /\ rank[Heads[t]] < rank[Lasts[s]]
      BY <1>1, <1>2, <2>1, <2>4, <3>1
    <3>3. CASE rank[x] < rank[Lasts[s]]
      <4>1. rank[Heads[s]] < rank[x]
        BY <1>1, <2>1, <2>4, <3>2
      <4>. QED
        BY <1>5, <2>4, <3>1, <3>3, <4>1 DEF OnMain, Covers
    <3>4. CASE rank[x] = rank[Lasts[s]]
      <4>1. Lasts[s] = x
        BY <1>1, <2>1, <2>4, <3>1, <3>4
      <4>2. s = t
        BY <2>1, <4>1, BusyFacts
      <4>. QED
        BY <1>1, <2>1, <2>3, <3>1, <4>2 DEF Placed
    <3>5. CASE rank[Lasts[s]] < rank[x]
      <4>1. \/ rank[Heads[t]] < rank[Heads[s]]
            \/ Heads[t] = Heads[s] /\ Depths[t] < Depths[s]
        BY <2>1, <2>4, <3>1, <3>2, <3>5 DEF Chart, Nested
      <4>2. Depths[s] \in Nat /\ Depths[t] \in Nat
        BY <2>1 DEF Chart, Nested
      <4>. QED
        BY <1>1, <2>1, <3>1, <3>2, <4>1, <4>2
    <3>. QED
      BY <1>1, <2>1, <3>3, <3>4, <3>5
  <2>6. q.coro \in Alive
    BY <1>1, <2>1, <2>3
  <2>. QED
    BY <2>2, <2>3, <2>4, <2>5, <2>6 DEF OnMain
<1>6. ASSUME NEW p \in S PROVE Encloser(p) \in S
  BY <1>4, <1>5, <1>6 DEF Encloser
<1>7. Chain \subseteq S \cap Placed
  <2>. HIDE DEF S
  <2>. QED
    BY <1>3, <1>6, ChainInduction
<1>. QED
  BY <1>7

(***************************************************************************)
(* What each operation does to the chart.                                  *)
(***************************************************************************)
LEMMA SameChart ==
  ASSUME SeqInv, HeadsInv, ChartInv,
         UNCHANGED <<current, state, park, attachedTo, system, phase, mainPark, operative, open>>
  PROVE  HeadsInv' /\ ChartInv'
<1>1. /\ Alive' = Alive /\ Bases' = Bases /\ Pts' = Pts /\ Tops' = Tops
      /\ Busy' = Busy /\ Lasts' = Lasts /\ Heads' = Heads /\ Depths' = Depths
  BY DEF Alive, Bases, Pts, Point, Tops, Busy, Lasts, Heads, Depths, HeadOf
<1>2. ChartInv'
  BY <1>1 DEF ChartInv, Chart
<1>. QED
  BY <1>2 DEF HeadsInv

\* No block is entered or left.
LEMMA SameHeads ==
  ASSUME SeqInv, HeadsInv, UNCHANGED <<phase, open>>,
         \A x \in Object : state'[x] = "resumed" =>
           system'[x] = system[x] /\ (state[x] = "resumed" \/ phase[system[x]] = "live")
  PROVE  HeadsInv' /\ \A s : HeadOf(s)' = HeadOf(s)
  BY DEF HeadsInv, HeadOf

\* A call sets the called component on the end of the main one.
LEMMA CallChart ==
  ASSUME SeqInv, HeadsInv, ChartInv, NEW x \in Object, state[x] = "detached",
         state' = [state EXCEPT ![x] = "attached"],
         attachedTo' = [attachedTo EXCEPT ![x] = current],
         current' = park[x],
         UNCHANGED <<park, system, phase, mainPark, operative, open>>
  PROVE  HeadsInv' /\ ChartInv'
<1>1. PICK comp, rank : Chart(comp, rank)
  BY DEF ChartInv
<1>2. Main \in Bases /\ x \in Bases /\ x # Main /\ Tops[Main] = current /\ Tops[x] = park[x]
  BY SequencingAssumption DEF Bases, Tops
<1>3. HeadsInv' /\ \A s : HeadOf(s)' = HeadOf(s)
  <2>1. \A y \in Object : state'[y] = "resumed" => state[y] = "resumed"
    BY DEF SeqInv, TypeOK
  <2>. QED
    BY <2>1, SameHeads
<1>4. /\ Alive' = Alive /\ Bases' = Bases \ {x}
      /\ Busy' = Busy /\ Lasts' = Lasts /\ Heads' = Heads /\ Depths' = Depths
  BY <1>2, <1>3 DEF Alive, Bases, Busy, Lasts, Heads, Depths, SeqInv, TypeOK
<1>5. Pts' = JoinPts(Alive, Bases, Pts, Tops, Main, x)
  <2>1. \A y \in Object : y # x => Point(y)' = Point(y)
    BY DEF Point, SeqInv, TypeOK
  <2>2. Point(x)' = current
    BY DEF Point, SeqInv, TypeOK
  <2>3. \A y \in Alive \ (Bases \ {x}) : y \in Object
    BY DEF Alive, Bases
  <2>. QED
    BY <1>2, <1>4, <2>1, <2>2, <2>3 DEF Pts, JoinPts
<1>6. Tops' = JoinTops(Bases, Tops, Main, x)
  BY <1>2, <1>4 DEF Tops, JoinTops
<1>7. PICK comp2, rank2 : comp2 = JoinComp(Main, x, comp) /\ rank2 = JoinRank(Main, x, Tops, comp, rank)
  OBVIOUS
<1>8. Charted(Alive', Bases', Pts', Tops', comp2, rank2)
  BY <1>1, <1>2, <1>4, <1>5, <1>6, <1>7, Join DEF Chart
<1>9. Nested(Alive', Busy', Lasts', Heads', Depths', comp2, rank2)
  BY <1>1, <1>2, <1>4, <1>7, JoinNested DEF Chart
<1>. QED
  BY <1>3, <1>8, <1>9 DEF ChartInv, Chart

\* An object leaves: its system, if it was operative, is no more busy.
LEMMA BusyLeft ==
  ASSUME SeqInv, HeadsInv, NEW x \in Object, state[x] \in {"attached", "resumed"},
         operative' = IF state[x] = "resumed" THEN [operative EXCEPT ![system[x]] = None]
                      ELSE operative
  PROVE  Busy' \subseteq Busy /\ \A s \in Busy' : Lasts[s] # x /\ Lasts'[s] = Lasts[s]
<1>1. CASE state[x] = "attached"
  <2>1. Busy' = Busy /\ Lasts' = Lasts
    BY <1>1 DEF Busy, Lasts
  <2>. QED
    BY <1>1, <2>1, BusyFacts
<1>2. CASE state[x] = "resumed"
  <2>1. system[x] \in Busy /\ system[x] \in System
    BY <1>2, ResumedIsBusy DEF Busy
  <2>2. Busy' = Busy \ {system[x]}
    BY <1>2, <2>1 DEF Busy, SeqInv, TypeOK
  <2>3. \A s \in Busy' : operative'[s] = operative[s]
    BY <1>2, <2>1, <2>2 DEF Busy, SeqInv, TypeOK
  <2>. QED
    BY <2>2, <2>3, BusyFacts DEF Lasts
<1>. QED
  BY <1>1, <1>2

\* A detach from inside cuts the main component at the object.
LEMMA DetachChart ==
  ASSUME SeqInv, HeadsInv, ChartInv, NEW x \in Object, Inside(x),
         state[x] \in {"attached", "resumed"},
         state' = [state EXCEPT ![x] = "detached"],
         park' = [park EXCEPT ![x] = current],
         operative' = IF state[x] = "resumed" THEN [operative EXCEPT ![system[x]] = None]
                      ELSE operative,
         current' = Point(x),
         UNCHANGED <<attachedTo, system, phase, mainPark, open>>
  PROVE  HeadsInv' /\ ChartInv'
<1>1. PICK comp, rank : Chart(comp, rank)
  BY DEF ChartInv
<1>2. x \in Alive \ Bases /\ Main \in Bases /\ x # Main /\ Tops[Main] = current
  BY SequencingAssumption DEF Alive, Bases, Tops
<1>3. HeadsInv' /\ \A s : HeadOf(s)' = HeadOf(s)
  <2>1. \A y \in Object : state'[y] = "resumed" => state[y] = "resumed"
    BY DEF SeqInv, TypeOK
  <2>. QED
    BY <2>1, SameHeads
<1>4. comp[x] = Main /\ \A s \in Busy : ~(/\ comp[Lasts[s]] = comp[x]
                                          /\ rank[Heads[s]] < rank[x]
                                          /\ rank[x] < rank[Lasts[s]])
  <2>1. PICK p \in Chain : p.coro = x
    BY DEF Inside
  <2>2. OnMain(p, comp, rank)
    BY <1>1, ChainIsOnMain
  <2>. QED
    BY <2>1, <2>2 DEF OnMain, Covers
<1>5. Busy' \subseteq Busy /\ \A s \in Busy' : Lasts[s] # x /\ Lasts'[s] = Lasts[s]
  BY BusyLeft
<1>6. /\ Alive' = Alive /\ Bases' = Bases \cup {x}
      /\ Lasts' = Of(Busy', Lasts) /\ Heads' = Of(Busy', Heads) /\ Depths' = Of(Busy', Depths)
  <2>1. Alive' = Alive /\ Bases' = Bases \cup {x}
    BY <1>2 DEF Alive, Bases, SeqInv, TypeOK
  <2>. QED
    BY <1>3, <1>5, <2>1 DEF Of, Lasts, Heads, Depths
<1>7. Pts' = CutPts(Alive, Bases, Pts, x)
  <2>1. \A y \in Alive \ (Bases \cup {x}) : y \in Object /\ y # x
    BY DEF Alive, Bases
  <2>2. \A y \in Object : y # x => Point(y)' = Point(y)
    BY DEF Point, SeqInv, TypeOK
  <2>. QED
    BY <1>6, <2>1, <2>2 DEF Pts, CutPts
<1>8. Tops' = CutTops(Bases, Pts, Tops, comp, x)
  <2>1. \A k \in Bases \cup {x} : k = Main \/ (k \in Object /\ k # Main)
    BY SequencingAssumption DEF Bases
  <2>2. Pts[x] = Point(x) /\ park'[x] = current
    BY <1>2 DEF Pts, SeqInv, TypeOK
  <2>3. \A k \in Object : k # x => park'[k] = park[k]
    BY DEF SeqInv, TypeOK
  <2>. QED
    BY <1>2, <1>4, <1>6, <2>1, <2>2, <2>3 DEF Tops, CutTops
<1>9. PICK comp2, rank2 : comp2 = CutComp(x, comp, rank) /\ rank2 = CutRank(x, comp, rank)
  OBVIOUS
<1>10. Charted(Alive', Bases', Pts', Tops', comp2, rank2)
  BY <1>1, <1>2, <1>6, <1>7, <1>8, <1>9, Cut DEF Chart
<1>11. \A s \in Busy' : comp[Lasts[s]] = comp[x] /\ rank[Heads[s]] < rank[x]
                           => rank[Lasts[s]] < rank[x]
  <2>1. /\ comp \in [Alive -> Bases] /\ rank \in [Alive -> Nat]
        /\ \A c, d \in Alive : comp[c] = comp[d] /\ rank[c] = rank[d] => c = d
        /\ \A s \in Busy : Lasts[s] \in Alive /\ Heads[s] \in Alive
    BY <1>1, ChartFacts
  <2>. QED
    BY <1>2, <1>4, <1>5, <2>1
<1>12. Nested(Alive', Busy', Lasts', Heads', Depths', comp2, rank2)
  BY <1>1, <1>2, <1>5, <1>6, <1>9, <1>11, CutNested DEF Chart
<1>. QED
  BY <1>3, <1>10, <1>12 DEF ChartInv, Chart

\* A resume when the main component of the system is operative.
LEMMA ResumeChart ==
  ASSUME SeqInv, HeadsInv, ChartInv, NEW x \in Object, state[x] = "detached",
         NEW s \in System, system[x] = s, phase[s] = "live", operative[s] = None,
         InsideSystem(s),
         state' = [state EXCEPT ![x] = "resumed"],
         mainPark' = [mainPark EXCEPT ![s] = current],
         operative' = [operative EXCEPT ![s] = x],
         current' = park[x],
         UNCHANGED <<park, attachedTo, system, phase, open>>
  PROVE  HeadsInv' /\ ChartInv'
<1>1. PICK comp, rank : Chart(comp, rank)
  BY DEF ChartInv
<1>2. Main \in Bases /\ x \in Bases /\ x # Main /\ Tops[Main] = current /\ Tops[x] = park[x]
      /\ x \in Alive
  BY SequencingAssumption DEF Bases, Tops, Alive
<1>3. HeadsInv' /\ \A t : HeadOf(t)' = HeadOf(t)
  <2>1. \A y \in Object : state'[y] = "resumed" => state[y] = "resumed" \/ y = x
    BY DEF SeqInv, TypeOK
  <2>. QED
    BY <2>1, SameHeads
<1>. DEFINE h == HeadOf(s).coro
            d == HeadOf(s).depth
<1>4. PICK p \in Chain : p.coro = h /\ d <= p.depth
  BY DEF InsideSystem
<1>5. p \in Placed /\ OnMain(p, comp, rank) /\ HeadOf(s) \in Placed
  BY <1>1, <1>4, ChainIsOnMain, HeadOfType DEF SeqInv
<1>6. /\ comp \in [Alive -> Bases] /\ rank \in [Alive -> Nat]
      /\ \A c, e \in Alive : comp[c] = comp[e] /\ rank[c] = rank[e] => c = e
      /\ \A c \in Alive : comp[c] = Main => rank[c] <= rank[current]
      /\ current \in Alive /\ comp[current] = Main
      /\ \A t \in Busy : Lasts[t] \in Alive \ Bases /\ Heads[t] \in Alive /\ Depths[t] \in Nat
  <2>1. \A t \in Busy : Depths[t] \in Nat
    BY <1>1 DEF Chart, Nested
  <2>. QED
    BY <1>1, <2>1, ChartFacts
<1>7. h \in Alive /\ comp[h] = Main /\ d \in Nat /\ rank[h] <= rank[current]
  BY <1>4, <1>5, <1>6 DEF OnMain, Placed
<1>8. s \notin Busy /\ Busy' = Busy \cup {s}
      /\ Lasts' = With(Busy, Lasts, s, x)
      /\ Heads' = With(Busy, Heads, s, h)
      /\ Depths' = With(Busy, Depths, s, d)
  <2>1. s \notin Busy /\ Busy' = Busy \cup {s}
    BY SequencingAssumption DEF Busy, SeqInv, TypeOK, Coro
  <2>2. \A t \in Busy' : operative'[t] = IF t = s THEN x ELSE operative[t]
    BY DEF Busy, SeqInv, TypeOK
  <2>. QED
    BY <1>3, <2>1, <2>2 DEF With, Lasts, Heads, Depths
<1>9. Alive' = Alive /\ Bases' = Bases \ {x}
  BY <1>2 DEF Alive, Bases, SeqInv, TypeOK
<1>10. Pts' = JoinPts(Alive, Bases, Pts, Tops, Main, x)
  <2>1. \A y \in Alive \ (Bases \ {x}) : y \in Object /\ (y # x => y \in Alive \ Bases)
    BY DEF Alive, Bases
  <2>2. \A y \in Object : state[y] = "resumed" => system[y] # s
    BY SequencingAssumption DEF SeqInv, OperativeIsResumed, Coro
  <2>3. \A y \in Alive \ Bases : y # x => Point(y)' = Point(y)
    BY <2>2 DEF Point, Alive, Bases, SeqInv, TypeOK, ComponentsInv
  <2>4. Point(x)' = current
    BY DEF Point, SeqInv, TypeOK
  <2>. QED
    BY <1>2, <1>9, <2>1, <2>3, <2>4 DEF Pts, JoinPts
<1>11. Tops' = JoinTops(Bases, Tops, Main, x)
  BY <1>2, <1>9 DEF Tops, JoinTops
<1>12. PICK comp2, rank2 : comp2 = JoinComp(Main, x, comp) /\ rank2 = JoinRank(Main, x, Tops, comp, rank)
  OBVIOUS
<1>13. Charted(Alive', Bases', Pts', Tops', comp2, rank2)
  BY <1>1, <1>2, <1>9, <1>10, <1>11, <1>12, Join DEF Chart
<1>14. ASSUME NEW t \in Busy, comp[Lasts[t]] = Main, rank[h] < rank[Lasts[t]]
       PROVE  rank[h] < rank[Heads[t]] \/ (h = Heads[t] /\ d < Depths[t])
  <2>1. comp[Heads[t]] = Main
    BY <1>1, <1>14 DEF Chart, Nested
  <2>2. ~Covers(t, p, comp, rank)
    BY <1>5 DEF OnMain
  <2>3. rank[h] <= rank[Heads[t]] /\ (h = Heads[t] => p.depth <= Depths[t])
    BY <1>4, <1>5, <1>6, <1>7, <1>14, <2>2 DEF Covers, Placed
  <2>4. rank[h] = rank[Heads[t]] => h = Heads[t]
    BY <1>6, <1>7, <2>1
  <2>5. h = Heads[t] => d # Depths[t]
    <3>1. t \in System /\ phase[t] = "live" /\ Heads[t] = HeadOf(t).coro /\ Depths[t] = HeadOf(t).depth
      BY BusyFacts
    <3>2. HeadOf(t) = HeadOf(s) => t = s
      BY <3>1, HeadsDistinct DEF SeqInv
    <3>3. HeadOf(t) \in Placed
      BY <3>1, HeadOfType DEF SeqInv
    <3>. QED
      BY <1>5, <1>8, <3>1, <3>2, <3>3 DEF Placed
  <2>. QED
    BY <1>4, <1>5, <1>6, <1>7, <2>3, <2>4, <2>5 DEF Placed
<1>15. Nested(Alive', Busy', Lasts', Heads', Depths', comp2, rank2)
  <2>. HIDE DEF h, d
  <2>1. /\ Charted(Alive, Bases, Pts, Tops, comp, rank)
        /\ Nested(Alive, Busy, Lasts, Heads, Depths, comp, rank)
    BY <1>1 DEF Chart
  <2>. QED
    BY <1>2, <1>7, <1>8, <1>9, <1>12, <1>14, <2>1, JoinNestedNew
<1>. QED
  BY <1>3, <1>13, <1>15 DEF ChartInv, Chart

\* A resume that ends the turn of the operative component z.
LEMMA RotateChart ==
  ASSUME SeqInv, HeadsInv, ChartInv, NEW x \in Object, state[x] = "detached",
         NEW s \in System, system[x] = s, phase[s] = "live",
         NEW z \in Object, operative[s] = z,
         InsideSystem(s),
         state' = [state EXCEPT ![z] = "detached", ![x] = "resumed"],
         park' = [park EXCEPT ![z] = current],
         operative' = [operative EXCEPT ![s] = x],
         current' = park[x],
         UNCHANGED <<mainPark, attachedTo, system, phase, open>>
  PROVE  HeadsInv' /\ ChartInv'
<1>1. PICK comp, rank : Chart(comp, rank)
  BY DEF ChartInv
<1>2. /\ Main \in Bases /\ x \in Bases /\ x # Main /\ Tops[Main] = current /\ Tops[x] = park[x]
      /\ x \in Alive
  BY SequencingAssumption DEF Bases, Tops, Alive
<1>3. /\ s \in Busy /\ Lasts[s] = z /\ state[z] = "resumed" /\ system[z] = s
      /\ z # x /\ z # Main /\ z \in Alive \ Bases
  <2>1. s \in Busy
    BY SequencingAssumption DEF Busy, Coro
  <2>. QED
    BY <2>1, BusyFacts, SequencingAssumption DEF Alive, Bases
<1>4. HeadsInv' /\ \A t : HeadOf(t)' = HeadOf(t)
  <2>1. \A y \in Object : state'[y] = "resumed" => state[y] = "resumed" \/ y = x
    BY DEF SeqInv, TypeOK
  <2>. QED
    BY <2>1, SameHeads
<1>. DEFINE h == HeadOf(s).coro
            d == HeadOf(s).depth
            U == Busy \ {s}
<1>5. PICK p \in Chain : p.coro = h /\ d <= p.depth
  BY DEF InsideSystem
<1>6. p \in Placed /\ OnMain(p, comp, rank) /\ HeadOf(s) \in Placed /\ Heads[s] = h /\ Depths[s] = d
  BY <1>1, <1>3, <1>5, ChainIsOnMain, HeadOfType DEF SeqInv, Heads, Depths
<1>7. /\ comp \in [Alive -> Bases] /\ rank \in [Alive -> Nat]
      /\ \A c, e \in Alive : comp[c] = comp[e] /\ rank[c] = rank[e] => c = e
      /\ \A t \in Busy : Lasts[t] \in Alive \ Bases /\ Heads[t] \in Alive /\ Depths[t] \in Nat
      /\ \A t \in Busy : comp[Heads[t]] = comp[Lasts[t]] /\ rank[Heads[t]] < rank[Lasts[t]]
  <2>1. /\ \A t \in Busy : Depths[t] \in Nat
        /\ \A t \in Busy : comp[Heads[t]] = comp[Lasts[t]] /\ rank[Heads[t]] < rank[Lasts[t]]
    BY <1>1 DEF Chart, Nested
  <2>. QED
    BY <1>1, <2>1, ChartFacts
<1>8. /\ h \in Alive /\ comp[h] = Main /\ d \in Nat
      /\ comp[z] = Main /\ rank[h] < rank[z]
  BY <1>3, <1>5, <1>6, <1>7 DEF OnMain, Placed
<1>. HIDE DEF h, d
<1>9. ASSUME NEW t \in U, comp[Lasts[t]] = comp[z], rank[Heads[t]] < rank[z]
      PROVE  rank[Lasts[t]] < rank[z]
  <2>1. Lasts[t] # z
    BY <1>3, BusyFacts
  <2>2. rank[Lasts[t]] # rank[z]
    BY <1>3, <1>7, <1>9, <2>1
  <2>3. CASE rank[z] < rank[Lasts[t]]
    <3>1. rank[Heads[t]] < rank[h] \/ (Heads[t] = h /\ Depths[t] < d)
      BY <1>1, <1>3, <1>6, <1>9, <2>3 DEF Chart, Nested
    <3>2. rank[h] < rank[Lasts[t]]
      BY <1>3, <1>7, <1>8, <2>3
    <3>3. Covers(t, p, comp, rank)
      BY <1>5, <1>6, <1>7, <1>8, <1>9, <3>1, <3>2 DEF Covers, Placed
    <3>. QED
      BY <1>6, <3>3 DEF OnMain
  <2>. QED
    BY <1>3, <1>7, <2>2, <2>3
<1>10. PICK comp1, rank1 : comp1 = CutComp(z, comp, rank) /\ rank1 = CutRank(z, comp, rank)
  OBVIOUS
<1>. DEFINE B1 == Bases \cup {z}
            P1 == CutPts(Alive, Bases, Pts, z)
            T1 == CutTops(Bases, Pts, Tops, comp, z)
<1>11. Charted(Alive, B1, P1, T1, comp1, rank1)
  BY <1>1, <1>3, <1>10, Cut DEF Chart
<1>12. Nested(Alive, U, Of(U, Lasts), Of(U, Heads), Of(U, Depths), comp1, rank1)
  <2>1. U \in SUBSET Busy
    OBVIOUS
  <2>2. \A t \in U : comp[Lasts[t]] = comp[z] /\ rank[Heads[t]] < rank[z]
                       => rank[Lasts[t]] < rank[z]
    BY <1>9
  <2>. HIDE DEF U
  <2>. QED
    BY <1>1, <1>3, <1>10, <2>1, <2>2, CutNested DEF Chart
<1>13. \A c \in Alive : /\ comp1[c] = IF comp[c] = Main /\ rank[z] <= rank[c] THEN z ELSE comp[c]
                        /\ rank1[c] = IF comp[c] = Main /\ rank[z] <= rank[c]
                                      THEN rank[c] - rank[z] ELSE rank[c]
  BY <1>7, <1>8, <1>10 DEF CutComp, CutRank
<1>14. comp1[h] = Main /\ rank1[h] = rank[h]
  BY <1>3, <1>7, <1>8, <1>13
<1>15. ASSUME NEW t \in U, comp1[Of(U, Lasts)[t]] = Main, rank1[h] < rank1[Of(U, Lasts)[t]]
       PROVE  rank1[h] < rank1[Of(U, Heads)[t]] \/ (h = Of(U, Heads)[t] /\ d < Of(U, Depths)[t])
  <2>1. Of(U, Lasts)[t] = Lasts[t] /\ Of(U, Heads)[t] = Heads[t] /\ Of(U, Depths)[t] = Depths[t]
    BY DEF Of
  <2>2. comp[Lasts[t]] = Main /\ rank[h] < rank[Lasts[t]] /\ rank[Lasts[t]] < rank[z]
    BY <1>3, <1>7, <1>8, <1>13, <1>14, <1>15, <2>1
  <2>3. rank[h] < rank[Heads[t]] \/ (h = Heads[t] /\ d < Depths[t])
    BY <1>1, <1>3, <1>6, <1>8, <2>2 DEF Chart, Nested
  <2>4. rank1[Heads[t]] = rank[Heads[t]]
    BY <1>3, <1>7, <1>8, <1>13, <2>2
  <2>. QED
    BY <1>14, <2>1, <2>3, <2>4
<1>16. PICK comp2, rank2 : comp2 = JoinComp(Main, x, comp1) /\ rank2 = JoinRank(Main, x, T1, comp1, rank1)
  OBVIOUS
<1>17. Main \in B1 /\ x \in B1 /\ Main # x
  BY <1>2
<1>. HIDE DEF B1, P1, T1, U
<1>18. Charted(Alive, B1 \ {x}, JoinPts(Alive, B1, P1, T1, Main, x), JoinTops(B1, T1, Main, x), comp2, rank2)
  BY <1>11, <1>16, <1>17, Join
<1>19. Nested(Alive, U \cup {s}, With(U, Of(U, Lasts), s, x), With(U, Of(U, Heads), s, h),
              With(U, Of(U, Depths), s, d), comp2, rank2)
  <2>1. s \notin U
    BY DEF U
  <2>. QED
    BY <1>8, <1>11, <1>12, <1>14, <1>15, <1>16, <1>17, <2>1, JoinNestedNew
<1>20. Alive' = Alive /\ Bases' = B1 \ {x}
  BY <1>2, <1>3 DEF Alive, Bases, B1, SeqInv, TypeOK
<1>21. Pts' = JoinPts(Alive, B1, P1, T1, Main, x)
  <2>1. T1[Main] = mainPark[s]
    <3>1. Pts[z] = mainPark[s]
      BY <1>3 DEF Pts, Point
    <3>. QED
      BY <1>2, <1>3, <1>8, <3>1 DEF T1, CutTops
  <2>2. Point(x)' = mainPark[s]
    BY <1>3 DEF Point, SeqInv, TypeOK
  <2>3. \A y \in Alive \ (B1 \ {x}) : y \in Object /\ y # z /\ (y # x => y \in Alive \ B1)
    BY <1>2, <1>3 DEF Alive, Bases, B1
  <2>4. \A y \in Object : y # x /\ y # z => Point(y)' = Point(y)
    BY DEF Point, SeqInv, TypeOK
  <2>5. \A y \in Alive \ B1 : P1[y] = Point(y)
    BY DEF P1, B1, CutPts, Pts
  <2>. QED
    BY <1>20, <2>1, <2>2, <2>3, <2>4, <2>5 DEF Pts, JoinPts
<1>22. Tops' = JoinTops(B1, T1, Main, x)
  <2>1. \A k \in B1 \ {x} : k = Main \/ (k \in Object /\ k # Main)
    BY SequencingAssumption DEF B1, Bases
  <2>2. T1[x] = park[x] /\ T1[z] = current
    BY <1>2, <1>3, <1>8 DEF T1, CutTops
  <2>3. \A k \in B1 \ {x} : k # Main /\ k # z => T1[k] = park[k] /\ park'[k] = park[k]
    BY <1>8, <2>1 DEF T1, CutTops, B1, Tops, SeqInv, TypeOK
  <2>4. park'[z] = current
    BY DEF SeqInv, TypeOK
  <2>. QED
    BY <1>2, <1>3, <1>20, <2>1, <2>2, <2>3, <2>4 DEF Tops, JoinTops
<1>23. /\ Busy' = U \cup {s}
       /\ Lasts' = With(U, Of(U, Lasts), s, x)
       /\ Heads' = With(U, Of(U, Heads), s, h)
       /\ Depths' = With(U, Of(U, Depths), s, d)
  <2>1. Busy' = U \cup {s} /\ Busy = U \cup {s}
    BY <1>3, SequencingAssumption DEF U, Busy, SeqInv, TypeOK, Coro
  <2>2. \A t \in Busy : operative'[t] = IF t = s THEN x ELSE operative[t]
    BY DEF Busy, SeqInv, TypeOK
  <2>. QED
    BY <1>4, <2>1, <2>2 DEF h, d, U, Of, With, Lasts, Heads, Depths
<1>24. Charted(Alive', Bases', Pts', Tops', comp2, rank2)
  BY <1>18, <1>20, <1>21, <1>22
<1>25. Nested(Alive', Busy', Lasts', Heads', Depths', comp2, rank2)
  BY <1>19, <1>20, <1>23
<1>. QED
  BY <1>4, <1>24, <1>25 DEF ChartInv, Chart

\* A generator sets the new object on the end of the main component.
LEMMA GenerateChart ==
  ASSUME SeqInv, HeadsInv, ChartInv, NEW x \in Object, state[x] = "unborn",
         state' = [state EXCEPT ![x] = "attached"],
         park' = [park EXCEPT ![x] = x],
         attachedTo' = [attachedTo EXCEPT ![x] = current],
         current' = x,
         \A y \in Object : y # x => system'[y] = system[y],
         UNCHANGED <<phase, mainPark, operative, open>>
  PROVE  HeadsInv' /\ ChartInv'
<1>1. PICK comp, rank : Chart(comp, rank)
  BY DEF ChartInv
<1>2. x \notin Alive /\ x \notin Bases /\ x # Main /\ Main \in Bases /\ Tops[Main] = current
  BY SequencingAssumption DEF Alive, Bases, Tops
<1>3. HeadsInv' /\ \A t : HeadOf(t)' = HeadOf(t)
  <2>1. \A y \in Object : state'[y] = "resumed" => y # x /\ state[y] = "resumed"
    BY DEF SeqInv, TypeOK
  <2>. QED
    BY <2>1, SameHeads
<1>. DEFINE A1 == Alive \cup {x}
            B1 == Bases \cup {x}
            T1 == With(Bases, Tops, x, x)
<1>4. PICK comp1, rank1 : comp1 = With(Alive, comp, x, x) /\ rank1 = With(Alive, rank, x, 0)
  OBVIOUS
<1>5. Charted(A1, B1, Pts, T1, comp1, rank1) /\ Nested(A1, Busy, Lasts, Heads, Depths, comp1, rank1)
  BY <1>1, <1>2, <1>4, AddBase DEF Chart
<1>6. PICK comp2, rank2 : comp2 = JoinComp(Main, x, comp1) /\ rank2 = JoinRank(Main, x, T1, comp1, rank1)
  OBVIOUS
<1>7. x \in B1 /\ Main \in B1 /\ Main # x /\ T1[x] = x /\ T1[Main] = current
      /\ B1 \ {x} = Bases
  BY <1>2 DEF With
<1>. HIDE DEF A1, B1, T1
<1>8. /\ Charted(A1, B1 \ {x}, JoinPts(A1, B1, Pts, T1, Main, x), JoinTops(B1, T1, Main, x), comp2, rank2)
      /\ Nested(A1, Busy, Lasts, Heads, Depths, comp2, rank2)
  BY <1>5, <1>6, <1>7, Join, JoinNested
<1>9. /\ Alive' = A1 /\ Bases' = B1 \ {x}
      /\ Busy' = Busy /\ Lasts' = Lasts /\ Heads' = Heads /\ Depths' = Depths
  BY <1>2, <1>3, <1>7 DEF A1, Alive, Bases, Busy, Lasts, Heads, Depths, SeqInv, TypeOK
<1>10. Pts' = JoinPts(A1, B1, Pts, T1, Main, x)
  <2>1. \A y \in A1 \ (B1 \ {x}) : y \in Object /\ (y # x => y \in Alive \ Bases)
    BY <1>7 DEF A1, Alive, Bases
  <2>2. \A y \in Alive \ Bases : y # x => Point(y)' = Point(y)
    BY DEF Point, Alive, Bases, SeqInv, TypeOK
  <2>3. Point(x)' = current
    BY DEF Point, SeqInv, TypeOK
  <2>. QED
    BY <1>7, <1>9, <2>1, <2>2, <2>3 DEF Pts, JoinPts
<1>11. Tops' = JoinTops(B1, T1, Main, x)
  <2>1. \A k \in Bases : k # Main => k \in Object /\ k # x
    BY <1>2 DEF Bases
  <2>2. \A k \in Bases : k # Main => park'[k] = park[k] /\ T1[k] = park[k]
    BY <2>1 DEF T1, With, Tops, SeqInv, TypeOK
  <2>. QED
    BY <1>7, <1>9, <2>1, <2>2 DEF Tops, JoinTops
<1>. QED
  BY <1>3, <1>8, <1>9, <1>10, <1>11 DEF ChartInv, Chart

\* A final end takes the last object off the main component.
LEMMA TerminateChart ==
  ASSUME SeqInv, HeadsInv, ChartInv, NEW x \in Object, current = x,
         state[x] \in {"attached", "resumed"},
         state' = [state EXCEPT ![x] = "terminated"],
         operative' = IF state[x] = "resumed" THEN [operative EXCEPT ![system[x]] = None]
                      ELSE operative,
         current' = Point(x),
         \A y \in Object : y # x => park'[y] = park[y],
         UNCHANGED <<attachedTo, system, phase, mainPark, open>>
  PROVE  HeadsInv' /\ ChartInv'
<1>1. PICK comp, rank : Chart(comp, rank)
  BY DEF ChartInv
<1>2. x \in Alive \ Bases /\ Main \in Bases /\ x # Main /\ Tops[Main] = x
  BY SequencingAssumption DEF Alive, Bases, Tops
<1>3. HeadsInv' /\ \A s : HeadOf(s)' = HeadOf(s)
  <2>1. \A y \in Object : state'[y] = "resumed" => state[y] = "resumed"
    BY DEF SeqInv, TypeOK
  <2>. QED
    BY <2>1, SameHeads
<1>4. /\ comp \in [Alive -> Bases] /\ rank \in [Alive -> Nat] /\ comp[x] = Main
      /\ \A c \in Alive : comp[c] = Main => rank[c] <= rank[x]
      /\ \A c, d \in Alive : comp[c] = comp[d] /\ rank[c] = rank[d] => c = d
      /\ \A s \in Busy : Lasts[s] \in Alive /\ Heads[s] \in Alive
  BY <1>1, ChartFacts
<1>5. Busy' \subseteq Busy /\ \A s \in Busy' : Lasts[s] # x /\ Lasts'[s] = Lasts[s]
  BY BusyLeft
<1>6. \A s \in Busy' : comp[Lasts[s]] = comp[x] /\ rank[Heads[s]] < rank[x]
                           => rank[Lasts[s]] < rank[x]
  BY <1>2, <1>4, <1>5
<1>7. PICK comp1, rank1 : comp1 = CutComp(x, comp, rank) /\ rank1 = CutRank(x, comp, rank)
  OBVIOUS
<1>. DEFINE B1 == Bases \cup {x}
            P1 == CutPts(Alive, Bases, Pts, x)
            T1 == CutTops(Bases, Pts, Tops, comp, x)
<1>8. /\ Charted(Alive, B1, P1, T1, comp1, rank1)
      /\ Nested(Alive, Busy', Of(Busy', Lasts), Of(Busy', Heads), Of(Busy', Depths), comp1, rank1)
  BY <1>1, <1>2, <1>5, <1>6, <1>7, Cut, CutNested DEF Chart
<1>9. x \in B1 /\ T1[x] = x
  BY <1>2, <1>4 DEF CutTops
<1>. HIDE DEF B1, P1, T1
<1>10. PICK comp2, rank2 : comp2 = Of(Alive \ {x}, comp1) /\ rank2 = Of(Alive \ {x}, rank1)
  OBVIOUS
<1>11. /\ Charted(Alive \ {x}, B1 \ {x}, P1, Of(B1 \ {x}, T1), comp2, rank2)
       /\ Nested(Alive \ {x}, Busy', Of(Busy', Lasts), Of(Busy', Heads), Of(Busy', Depths), comp2, rank2)
  BY <1>8, <1>9, <1>10, DropBase
<1>12. /\ Alive' = Alive \ {x} /\ Bases' = B1 \ {x} /\ B1 \ {x} = Bases
       /\ Lasts' = Of(Busy', Lasts) /\ Heads' = Of(Busy', Heads) /\ Depths' = Of(Busy', Depths)
  <2>1. Alive' = Alive \ {x} /\ Bases' = Bases /\ B1 \ {x} = Bases
    BY <1>2 DEF B1, Alive, Bases, SeqInv, TypeOK
  <2>. QED
    BY <1>3, <1>5, <2>1 DEF Of, Lasts, Heads, Depths
<1>13. Pts' = P1
  <2>1. \A y \in Alive' \ Bases' : y \in Object /\ y # x
    BY <1>12 DEF Alive, Bases
  <2>2. \A y \in Alive' \ Bases' : Point(y)' = Point(y)
    BY <2>1 DEF Point, Alive, Bases, SeqInv, TypeOK
  <2>3. Alive' \ Bases' = Alive \ (Bases \cup {x})
    BY <1>12
  <2>. QED
    BY <2>1, <2>2, <2>3 DEF Pts, P1, CutPts
<1>14. Tops' = Of(B1 \ {x}, T1)
  <2>1. \A k \in Bases : k # x /\ (k = Main \/ (k \in Object /\ k # Main))
    BY <1>2, SequencingAssumption DEF Bases
  <2>2. T1[Main] = Point(x)
    BY <1>2, <1>4 DEF T1, CutTops, Pts
  <2>3. \A k \in Bases : k # Main => T1[k] = park[k] /\ park'[k] = park[k]
    BY <1>4, <2>1 DEF T1, CutTops, Tops
  <2>. QED
    BY <1>12, <2>1, <2>2, <2>3 DEF Tops, Of
<1>. QED
  BY <1>3, <1>11, <1>12, <1>13, <1>14 DEF ChartInv, Chart

\* NewProcess: an object that is detached at once.
LEMMA NewBaseChart ==
  ASSUME SeqInv, HeadsInv, ChartInv, NEW x \in Object, state[x] = "unborn",
         state' = [state EXCEPT ![x] = "detached"],
         park' = [park EXCEPT ![x] = x],
         \A y \in Object : y # x => attachedTo'[y] = attachedTo[y],
         \A y \in Object : y # x => system'[y] = system[y],
         UNCHANGED <<current, phase, mainPark, operative, open>>
  PROVE  HeadsInv' /\ ChartInv'
<1>1. PICK comp, rank : Chart(comp, rank)
  BY DEF ChartInv
<1>2. x \notin Alive /\ x \notin Bases /\ x # Main
  BY SequencingAssumption DEF Alive, Bases
<1>3. HeadsInv' /\ \A t : HeadOf(t)' = HeadOf(t)
  <2>1. \A y \in Object : state'[y] = "resumed" => y # x /\ state[y] = "resumed"
    BY DEF SeqInv, TypeOK
  <2>. QED
    BY <2>1, SameHeads
<1>4. PICK comp1, rank1 : comp1 = With(Alive, comp, x, x) /\ rank1 = With(Alive, rank, x, 0)
  OBVIOUS
<1>5. /\ Charted(Alive \cup {x}, Bases \cup {x}, Pts, With(Bases, Tops, x, x), comp1, rank1)
      /\ Nested(Alive \cup {x}, Busy, Lasts, Heads, Depths, comp1, rank1)
  BY <1>1, <1>2, <1>4, AddBase DEF Chart
<1>6. /\ Alive' = Alive \cup {x} /\ Bases' = Bases \cup {x} /\ Pts' = Pts
      /\ Busy' = Busy /\ Lasts' = Lasts /\ Heads' = Heads /\ Depths' = Depths
  <2>1. Alive' = Alive \cup {x} /\ Bases' = Bases \cup {x}
    BY DEF Alive, Bases, SeqInv, TypeOK
  <2>2. \A y \in Alive \ Bases : y \in Object /\ y # x /\ Point(y)' = Point(y)
    BY <1>2 DEF Point, Alive, Bases, SeqInv, TypeOK
  <2>3. Alive' \ Bases' = Alive \ Bases
    BY <1>2, <2>1
  <2>. QED
    BY <1>3, <2>1, <2>2, <2>3 DEF Pts, Busy, Lasts, Heads, Depths
<1>7. Tops' = With(Bases, Tops, x, x)
  <2>1. \A k \in Bases : k # Main => k \in Object /\ k # x /\ park'[k] = park[k]
    BY <1>2 DEF Bases, SeqInv, TypeOK
  <2>2. park'[x] = x
    BY DEF SeqInv, TypeOK
  <2>. QED
    BY <1>2, <1>6, <2>1, <2>2 DEF Tops, With
<1>. QED
  BY <1>3, <1>5, <1>6, <1>7 DEF ChartInv, Chart

\* HeadOfIs, of every open block.
LEMMA HeadOfAll ==
  TypeOK /\ HeadsInv =>
    \A c \in Coro : \A i \in DOMAIN open[c] : HeadOf(open[c][i]) = Place(c, i)
  BY HeadOfIs

\* Where the head of a system is does not change while its block is open.
LEMMA HeadStays ==
  ASSUME TypeOK, HeadsInv, TypeOK', HeadsInv', NEW s \in System, phase[s] = "live",
         \A c \in Coro : \A i \in DOMAIN open[c] :
           open[c][i] = s => i \in DOMAIN open'[c] /\ open'[c][i] = s
  PROVE  HeadOf(s)' = HeadOf(s)
<1>0. (TypeOK /\ HeadsInv =>
         \A c \in Coro : \A i \in DOMAIN open[c] : HeadOf(open[c][i]) = Place(c, i))'
  BY HeadOfAll, PTL
<1>1. CASE s = Outermost
  BY <1>1 DEF HeadOf
<1>2. CASE s # Outermost
  <2>1. PICK c \in Coro : \E i \in DOMAIN open[c] : open[c][i] = s
    BY <1>2 DEF HeadsInv, System
  <2>2. PICK i \in DOMAIN open[c] : open[c][i] = s
    BY <2>1
  <2>3. HeadOf(open[c][i]) = Place(c, i)
    BY HeadOfIs
  <2>4. \A d \in Coro : \A j \in DOMAIN open'[d] : HeadOf(open[d][j])' = Place(d, j)
    BY <1>0 DEF Place
  <2>5. HeadOf(open[c][i])' = Place(c, i)
    BY <2>2, <2>4
  <2>6. open'[c][i] = s
    BY <2>2
  <2>7. HeadOf(s)' = Place(c, i)
    BY <2>5, <2>6 DEF HeadOf
  <2>. QED
    BY <2>2, <2>3, <2>7
<1>. QED
  BY <1>1, <1>2

\* A block that is entered heads a system nobody is operative in.
LEMMA EnterChart ==
  ASSUME SeqInv, HeadsInv, ChartInv, TypeOK', NEW s \in Instance, phase[s] = "unused",
         phase' = [phase EXCEPT ![s] = "live"],
         mainPark' = [mainPark EXCEPT ![s] = current],
         operative' = [operative EXCEPT ![s] = None],
         open' = [open EXCEPT ![current] = Append(@, s)],
         UNCHANGED <<current, state, park, attachedTo, system>>
  PROVE  HeadsInv' /\ ChartInv'
<1>1. /\ current \in Coro /\ open[current] \in Seq(Instance) /\ open \in [Coro -> Seq(Instance)]
      /\ phase \in [System -> {"unused", "live", "freed"}]
  BY DEF SeqInv, TypeOK
<1>. DEFINE n == Len(open[current])
<1>2. /\ n \in Nat /\ DOMAIN open[current] = 1..n
      /\ DOMAIN open'[current] = 1..(n + 1) /\ open'[current][n + 1] = s
      /\ \A i \in 1..n : open'[current][i] = open[current][i]
      /\ \A c \in Coro : c # current => open'[c] = open[c]
  BY <1>1
<1>3. \A c \in Coro : \A i \in DOMAIN open[c] :
        i \in DOMAIN open'[c] /\ open'[c][i] = open[c][i] /\ open[c][i] # s
  BY <1>2 DEF HeadsInv
<1>4. \A c \in Coro : \A i \in DOMAIN open'[c] :
        \/ i \in DOMAIN open[c] /\ open'[c][i] = open[c][i]
        \/ c = current /\ i = n + 1 /\ open'[c][i] = s
  BY <1>2
<1>. HIDE DEF n
<1>5. HeadsInv'
  <2>1. \A c \in Coro : \A i \in DOMAIN open'[c] : phase'[open'[c][i]] = "live"
    <3>1. \A c \in Coro : \A i \in DOMAIN open[c] : open[c][i] \in Instance
      BY <1>1
    <3>. QED
      BY <1>1, <1>3, <1>4, <3>1 DEF HeadsInv, System
  <2>2. \A t \in Instance : phase'[t] = "live" =>
          \E c \in Coro : \E i \in DOMAIN open'[c] : open'[c][i] = t
    <3>1. CASE TRUE
      <4>1. n + 1 \in DOMAIN open'[current] /\ open'[current][n + 1] = s
        BY <1>2
      <4>2. \A t \in Instance : t # s => phase'[t] = phase[t]
        BY <1>1 DEF System
      <4>. QED
        BY <1>1, <1>3, <4>1, <4>2 DEF HeadsInv
    <3>. QED
      BY <3>1
  <2>3. \A c, d \in Coro : \A i \in DOMAIN open'[c], j \in DOMAIN open'[d] :
          open'[c][i] = open'[d][j] => c = d /\ i = j
    BY <1>3, <1>4 DEF HeadsInv
  <2>4. \A x \in Object : state'[x] = "resumed" => phase'[system'[x]] = "live"
    BY <1>1 DEF HeadsInv, SeqInv, TypeOK, System
  <2>. QED
    BY <2>1, <2>2, <2>3, <2>4 DEF HeadsInv
<1>6. \A t \in Busy : HeadOf(t)' = HeadOf(t)
  <2>. TAKE t \in Busy
  <2>1. t \in System /\ phase[t] = "live"
    BY BusyFacts
  <2>. QED
    BY <1>3, <1>5, <2>1, HeadStays DEF SeqInv
<1>7. /\ Alive' = Alive /\ Bases' = Bases /\ Tops' = Tops
      /\ Busy' = Busy /\ Lasts' = Lasts /\ Heads' = Heads /\ Depths' = Depths
  <2>1. operative[s] = None /\ operative' = operative
    BY <1>1 DEF SeqInv, TypeOK, SystemsInv, System
  <2>. QED
    BY <1>6, <2>1 DEF Alive, Bases, Tops, Busy, Lasts, Heads, Depths
<1>8. Pts' = Pts
  <2>1. \A y \in Alive \ Bases : Point(y)' = Point(y)
    BY <1>1 DEF Alive, Bases, Point, HeadsInv, SeqInv, TypeOK, System
  <2>. QED
    BY <1>7, <2>1 DEF Pts
<1>. QED
  BY <1>5, <1>7, <1>8 DEF ChartInv, Chart

\* The end of a block: no object of the system is operative.
LEMMA ExitChart ==
  ASSUME SeqInv, HeadsInv, ChartInv, TypeOK', open[current] # <<>>,
         phase' = [phase EXCEPT ![InnermostOpen] = "freed"],
         operative' = [operative EXCEPT ![InnermostOpen] = None],
         LeaveInnermost,
         UNCHANGED <<current, state, park, attachedTo, system, mainPark>>
  PROVE  HeadsInv' /\ ChartInv' /\ operative[InnermostOpen] = None
<1>1. /\ current \in Coro /\ open[current] \in Seq(Instance) /\ open \in [Coro -> Seq(Instance)]
      /\ phase \in [System -> {"unused", "live", "freed"}]
      /\ operative \in [System -> Object \cup {None}]
  BY DEF SeqInv, TypeOK
<1>. DEFINE n == Len(open[current])
            s == InnermostOpen
<1>2. /\ n \in Nat /\ n # 0 /\ DOMAIN open[current] = 1..n
      /\ s = open[current][n] /\ s \in Instance /\ n \in DOMAIN open[current]
      /\ DOMAIN open'[current] = 1..(n - 1)
      /\ \A i \in 1..(n - 1) : open'[current][i] = open[current][i]
      /\ \A c \in Coro : c # current => open'[c] = open[c]
  BY <1>1 DEF LeaveInnermost, InnermostOpen
<1>. HIDE DEF n, s
<1>2a. \A c \in Coro : \A i \in DOMAIN open[c] : open[c][i] = s => c = current /\ i = n
  BY <1>1, <1>2 DEF HeadsInv
<1>3. \A c \in Coro : \A i \in DOMAIN open[c] :
        \/ i \in DOMAIN open'[c] /\ open'[c][i] = open[c][i] /\ open[c][i] # s
        \/ c = current /\ i = n
  <2>. TAKE c \in Coro
  <2>. TAKE i \in DOMAIN open[c]
  <2>1. CASE c # current
    BY <1>2, <1>2a, <2>1
  <2>2. CASE c = current /\ i # n
    <3>1. i \in 1..(n - 1)
      BY <1>2, <2>2
    <3>. QED
      BY <1>1, <1>2, <1>2a, <2>2, <3>1
  <2>. QED
    BY <2>1, <2>2
<1>4. \A c \in Coro : \A i \in DOMAIN open'[c] :
        i \in DOMAIN open[c] /\ open'[c][i] = open[c][i] /\ open[c][i] # s
  <2>. TAKE c \in Coro
  <2>. TAKE i \in DOMAIN open'[c]
  <2>1. CASE c # current
    BY <1>2, <1>2a, <2>1
  <2>2. CASE c = current
    <3>1. i \in 1..(n - 1) /\ i \in 1..n /\ i # n
      BY <1>2, <2>2
    <3>. QED
      BY <1>1, <1>2, <1>2a, <2>2, <3>1
  <2>. QED
    BY <2>1, <2>2
<1>5. operative[s] = None
  <2>. SUFFICES ASSUME s \in Busy PROVE FALSE
    BY <1>2 DEF Busy, System
  <2>1. PICK comp, rank : Chart(comp, rank)
    BY DEF ChartInv
  <2>2. HeadOf(s) = Place(current, n)
    BY <1>1, <1>2, HeadOfIs DEF SeqInv
  <2>3. Heads[s] = current
    BY <2>2, BusyFacts DEF Place
  <2>4. comp[current] = comp[Lasts[s]] /\ rank[current] < rank[Lasts[s]]
    BY <2>1, <2>3 DEF Chart, Nested
  <2>. QED
    BY <2>1, <2>4, ChartFacts
<1>6. operative' = operative /\ phase' = [phase EXCEPT ![s] = "freed"]
  BY <1>1, <1>2, <1>5 DEF s, System
<1>7. HeadsInv'
  <2>1. \A c \in Coro : \A i \in DOMAIN open'[c] : phase'[open'[c][i]] = "live"
    <3>1. \A c \in Coro : \A i \in DOMAIN open[c] : open[c][i] \in Instance
      BY <1>1
    <3>. QED
      BY <1>1, <1>4, <1>6, <3>1 DEF HeadsInv, System
  <2>2. \A t \in Instance : phase'[t] = "live" =>
          \E c \in Coro : \E i \in DOMAIN open'[c] : open'[c][i] = t
    <3>1. \A t \in Instance : phase'[t] = "live" => t # s /\ phase[t] = "live"
      BY <1>1, <1>2, <1>6 DEF System
    <3>. QED
      BY <1>2, <1>3, <3>1 DEF HeadsInv
  <2>3. \A c, d \in Coro : \A i \in DOMAIN open'[c], j \in DOMAIN open'[d] :
          open'[c][i] = open'[d][j] => c = d /\ i = j
    BY <1>4 DEF HeadsInv
  <2>4. \A x \in Object : state'[x] = "resumed" => phase'[system'[x]] = "live"
    <3>1. \A x \in Object : state[x] = "resumed" => system[x] # s /\ system[x] \in System
      BY <1>2, <1>5, SequencingAssumption
      DEF HeadsInv, SeqInv, TypeOK, ComponentsInv, OperativeIsResumed, System, Coro
    <3>. QED
      BY <1>1, <1>6, <3>1 DEF HeadsInv
  <2>. QED
    BY <2>1, <2>2, <2>3, <2>4 DEF HeadsInv
<1>8. \A t \in Busy : HeadOf(t)' = HeadOf(t)
  <2>. TAKE t \in Busy
  <2>1. t \in System /\ phase[t] = "live" /\ t # s
    BY <1>5, BusyFacts DEF Busy
  <2>2. \A c \in Coro : \A i \in DOMAIN open[c] :
           open[c][i] = t => i \in DOMAIN open'[c] /\ open'[c][i] = t
    BY <1>2, <1>3, <2>1
  <2>. QED
    BY <1>7, <2>1, <2>2, HeadStays DEF SeqInv
<1>9. /\ Alive' = Alive /\ Bases' = Bases /\ Tops' = Tops /\ Pts' = Pts
      /\ Busy' = Busy /\ Lasts' = Lasts /\ Heads' = Heads /\ Depths' = Depths
  BY <1>6, <1>8 DEF Alive, Bases, Tops, Pts, Point, Busy, Lasts, Heads, Depths
<1>10. ChartInv'
  BY <1>9 DEF ChartInv, Chart
<1>. QED
  BY <1>5, <1>7, <1>10 DEF s

\* The object of a prefixed block has no coroutine and takes no part.
LEMMA BlockInstanceChart ==
  ASSUME SeqInv, HeadsInv, ChartInv, NEW x \in Object, BlockInstance(x)
  PROVE  HeadsInv' /\ ChartInv'
<1>1. /\ state[x] = "unborn" /\ state' = [state EXCEPT ![x] = "block"]
      /\ UNCHANGED <<current, park, attachedTo, system, phase, mainPark, operative, open>>
  BY DEF BlockInstance, programVars
<1>2. \A y \in Object : \/ state'[y] = state[y]
                        \/ state[y] = "unborn" /\ state'[y] = "block"
  BY <1>1 DEF SeqInv, TypeOK
<1>3. HeadsInv' /\ \A s : HeadOf(s)' = HeadOf(s)
  BY <1>1, <1>2, SameHeads
<1>4. Alive' = Alive /\ Bases' = Bases
  BY <1>2 DEF Alive, Bases
<1>5. Pts' = Pts
  <2>1. \A y \in Alive \ Bases : Point(y)' = Point(y)
    BY <1>1, <1>2 DEF Alive, Bases, Point
  <2>. QED
    BY <1>4, <2>1 DEF Pts
<1>6. /\ Tops' = Tops /\ Busy' = Busy /\ Lasts' = Lasts
      /\ Heads' = Heads /\ Depths' = Depths
  BY <1>1, <1>3, <1>4 DEF Tops, Busy, Lasts, Heads, Depths
<1>. QED
  BY <1>3, <1>4, <1>5, <1>6 DEF ChartInv, Chart

\* The inductive invariant of programs that keep to the operating chain.
ChainInv == SeqInv /\ HeadsInv /\ ChartInv /\ SystemsEndClean

\* MAIN alone is a chart.
LEMMA ChainInit == Init => ChainInv
<1> SUFFICES ASSUME Init PROVE ChainInv
  OBVIOUS
<1>1. SeqInv
  BY SeqInit
<1>2. HeadsInv
  <2>1. \A c \in Coro : DOMAIN open[c] = {}
    BY DEF Init
  <2>2. \A s \in Instance : phase[s] = "unused"
    BY SequencingAssumption DEF Init, System
  <2>3. \A x \in Object : state[x] = "unborn"
    BY DEF Init
  <2>. QED
    BY <2>1, <2>2, <2>3 DEF HeadsInv
<1>3. /\ Alive = {Main} /\ Bases = {Main} /\ Busy = {}
      /\ current = Main
  BY DEF Init, Alive, Bases, Busy
<1>. DEFINE comp == [c \in {Main} |-> Main]
            rank == [c \in {Main} |-> 0]
<1>4. Charted(Alive, Bases, Pts, Tops, comp, rank)
  BY <1>3 DEF Charted, Pts, Tops
<1>5. Nested(Alive, Busy, Lasts, Heads, Depths, comp, rank)
  BY <1>3 DEF Nested, Lasts, Heads, Depths
<1>6. ChartInv
  BY <1>4, <1>5 DEF ChartInv, Chart
<1>. QED
  BY <1>1, <1>2, <1>6 DEF ChainInv, SystemsEndClean, Init

\* Every step of such a program, by the operation.
LEMMA ChainStep == ChainInv /\ [ChainNext]_vars => ChainInv'
<1> SUFFICES ASSUME ChainInv, [ChainNext]_vars PROVE ChainInv'
  OBVIOUS
<1>0. SeqInv /\ HeadsInv /\ ChartInv /\ orphans = {} /\ status # "dangling"
  BY DEF ChainInv, SystemsEndClean
<1>1. SeqInv'
  <2>1. [Next]_vars
    BY DEF ChainNext, Next, ChainStatement, Statement, Blocks
  <2>. QED
    BY <1>0, <2>1, SeqStep
<1>done. ASSUME HeadsInv', ChartInv', orphans' = {}, status' # "dangling"
         PROVE  ChainInv'
  BY <1>1, <1>done DEF ChainInv, SystemsEndClean
<1>switch. ASSUME NEW c, SwitchTo(c) PROVE status' # "dangling" /\ current' = c
  BY <1>0, <1>switch DEF SwitchTo
<1>stop. ASSUME NEW why \in {"finished", "error"}, Stop(why) PROVE ChainInv'
  <2>1. HeadsInv' /\ ChartInv'
    BY <1>0, <1>stop, SameChart DEF Stop, programVars
  <2>. QED
    BY <1>0, <1>done, <1>stop, <2>1 DEF Stop, programVars
<1>same. ASSUME UNCHANGED vars PROVE ChainInv'
  <2>1. HeadsInv' /\ ChartInv'
    BY <1>0, <1>same, SameChart DEF vars, runtimeVars, programVars
  <2>. QED
    BY <1>0, <1>done, <1>same, <2>1 DEF vars, runtimeVars, programVars
<1>enter. ASSUME NEW s \in Instance, SystemEnter(s) PROVE ChainInv'
  <2>1. CASE Len(frames) = MaxFrames
    BY <1>enter, <1>stop, <2>1 DEF SystemEnter
  <2>2. CASE Len(frames) # MaxFrames
    <3>1. HeadsInv' /\ ChartInv'
      BY <1>0, <1>1, <1>enter, <2>2, EnterChart DEF SystemEnter, SeqInv
    <3>. QED
      BY <1>0, <1>done, <1>enter, <2>2, <3>1 DEF SystemEnter
  <2>. QED
    BY <2>1, <2>2
<1>exit. ASSUME SystemExit PROVE ChainInv'
  <2>1. HeadsInv' /\ ChartInv' /\ operative[InnermostOpen] = None
    BY <1>0, <1>1, <1>exit, ExitChart DEF SystemExit, SeqInv
  <2>. QED
    BY <1>0, <1>done, <1>exit, <2>1 DEF SystemExit
<1>generator. ASSUME NEW x \in Object, NEW d, Generate(x, d) PROVE ChainInv'
  <2>1. \A y \in Object : y # x => system'[y] = system[y]
    BY <1>0, <1>generator DEF Generate, LocalTo, SeqInv, TypeOK
  <2>2. current' = x /\ status' # "dangling"
    BY <1>switch, <1>generator DEF Generate
  <2>3. HeadsInv' /\ ChartInv'
    BY <1>0, <1>generator, <2>1, <2>2, GenerateChart DEF Generate
  <2>. QED
    BY <1>0, <1>done, <1>generator, <2>2, <2>3 DEF Generate
<1>block. ASSUME NEW x \in Object, BlockInstance(x) PROVE ChainInv'
  <2>1. HeadsInv' /\ ChartInv'
    BY <1>0, <1>block, BlockInstanceChart
  <2>. QED
    BY <1>0, <1>done, <1>block, <2>1 DEF BlockInstance, programVars
\* What the two ways of leaving have in common.
<1>leave. ASSUME NEW x \in Object, NEW next,
                 LeaveAttached(x, next) \/ LeaveResumed(x, next)
          PROVE  /\ Leave(x, next) /\ state[x] \in {"attached", "resumed"}
                 /\ operative' = IF state[x] = "resumed"
                                 THEN [operative EXCEPT ![system[x]] = None]
                                 ELSE operative
                 /\ current' = Point(x) /\ orphans' = {} /\ status' # "dangling"
  <2>1. CASE LeaveAttached(x, next)
    BY <1>0, <1>switch, <2>1 DEF LeaveAttached, Leave, Point, programVars
  <2>2. CASE LeaveResumed(x, next)
    BY <1>0, <1>switch, <2>2 DEF LeaveResumed, Leave, Point, programVars
  <2>. QED
    BY <1>leave, <2>1, <2>2
<1>freed. ASSUME NEW x \in Object, LeaveFreed(x) PROVE FALSE
  BY <1>0, <1>freed DEF LeaveFreed, HeadsInv
<1>error. ASSUME NEW x \in Object, LeaveError(x) PROVE ChainInv'
  BY <1>error, <1>stop DEF LeaveError
<1>detach. ASSUME NEW x \in Object, Detach(x),
                  state[x] \in {"attached", "resumed"} => Inside(x)
           PROVE  ChainInv'
  <2>1. CASE LeaveAttached(x, "detached") \/ LeaveResumed(x, "detached")
    <3>1. HeadsInv' /\ ChartInv'
      BY <1>0, <1>detach, <1>leave, <2>1, DetachChart DEF Leave, programVars
    <3>. QED
      BY <1>done, <1>leave, <2>1, <3>1
  <2>. QED
    BY <1>detach, <1>error, <1>freed, <1>same, <2>1 DEF Detach
<1>terminate. ASSUME NEW x \in Object, Terminate(x) PROVE ChainInv'
  <2>1. CASE LeaveAttached(x, "terminated") \/ LeaveResumed(x, "terminated")
    <3>1. \A y \in Object : y # x => park'[y] = park[y]
      BY <1>0, <1>leave, <2>1 DEF Leave, SeqInv, TypeOK
    <3>2. HeadsInv' /\ ChartInv'
      BY <1>0, <1>terminate, <1>leave, <2>1, <3>1, TerminateChart
      DEF Leave, programVars, Terminate, FinalEnd
    <3>. QED
      BY <1>done, <1>leave, <2>1, <3>2
  <2>. QED
    BY <1>terminate, <1>error, <1>freed, <2>1 DEF Terminate
<1>call. ASSUME NEW x \in Object, Call(x) PROVE ChainInv'
  <2>1. CASE state[x] # "detached"
    BY <1>call, <1>stop, <2>1 DEF Call
  <2>2. CASE state[x] = "detached"
    <3>1. current' = park[x] /\ status' # "dangling"
      BY <1>call, <1>switch, <2>2 DEF Call
    <3>2. HeadsInv' /\ ChartInv'
      BY <1>0, <1>call, <2>2, <3>1, CallChart DEF Call, programVars
    <3>. QED
      BY <1>0, <1>call, <1>done, <2>2, <3>1, <3>2 DEF Call, programVars
  <2>. QED
    BY <2>1, <2>2
<1>resume. ASSUME NEW x \in Object, ResumeDetached(x), InsideSystem(system[x])
           PROVE  ChainInv'
  <2>. DEFINE s == system[x]
              z == operative[s]
  <2>1. /\ s \in System /\ state[x] = "detached" /\ phase[s] = "live"
        /\ z \in Object \cup {None}
    BY <1>0, <1>resume DEF ResumeDetached, SeqInv, TypeOK
  <2>2. /\ current' = park[x] /\ status' # "dangling" /\ orphans' = {}
        /\ operative' = [operative EXCEPT ![s] = x]
        /\ UNCHANGED <<attachedTo, system, phase, open>>
    BY <1>0, <1>resume, <1>switch DEF ResumeDetached, programVars
  <2>3. CASE z = None
    <3>1. /\ mainPark' = [mainPark EXCEPT ![s] = current]
          /\ state' = [state EXCEPT ![x] = "resumed"] /\ park' = park
      BY <1>resume, <2>3 DEF ResumeDetached
    <3>2. HeadsInv' /\ ChartInv'
      BY <1>0, <1>resume, <2>1, <2>2, <2>3, <3>1, ResumeChart
    <3>. QED
      BY <1>done, <2>2, <3>2
  <2>4. CASE z # None
    <3>1. /\ park' = [park EXCEPT ![z] = current]
          /\ state' = [state EXCEPT ![z] = "detached", ![x] = "resumed"]
          /\ mainPark' = mainPark /\ z \in Object
      BY <1>resume, <2>1, <2>4 DEF ResumeDetached
    <3>2. HeadsInv' /\ ChartInv'
      BY <1>0, <1>resume, <2>1, <2>2, <3>1, RotateChart
    <3>. QED
      BY <1>done, <2>2, <3>2
  <2>. QED
    BY <2>3, <2>4
<1>resuming. ASSUME NEW x \in Object, Resume(x),
                    system[x] # None => InsideSystem(system[x])
             PROVE  ChainInv'
  <2>1. CASE ResumeError(x)
    BY <1>stop, <2>1 DEF ResumeError
  <2>2. ~ResumeFreed(x)
    BY <1>resuming DEF ResumeFreed, InsideSystem
  <2>. QED
    BY <1>resuming, <1>resume, <1>same, <2>1, <2>2 DEF Resume, ResumeNoEffect, ResumeDetached
<1>statement. ASSUME ChainStatement PROVE ChainInv'
  BY <1>statement, <1>detach, <1>call, <1>resuming, <1>terminate DEF ChainStatement
<1>. QED
  BY <1>same, <1>stop, <1>enter, <1>exit, <1>generator, <1>block, <1>statement
  DEF ChainNext, Generator, Finish, Stopped

(***************************************************************************)
(* What the chart says of the way control takes.                           *)
(***************************************************************************)
\* The way from a coroutine stays within its component.
LEMMA WayWithin ==
  ASSUME SeqInv, HeadsInv, NEW comp, NEW rank, Chart(comp, rank), NEW c \in Alive
  PROVE  \A d \in Way(c) : d \in Alive /\ comp[d] = comp[c]
<1>. DEFINE S == {d \in Alive : comp[d] = comp[c]}
<1>1. S \in SUBSET Coro /\ c \in S
  BY DEF Alive, Coro
<1>2. ASSUME NEW e \in S PROVE Onward(e) \in S
  <2>1. CASE e \in Alive \ Bases
    <3>1. Onward(e) \in {Point(e), e}
      BY DEF Onward
    <3>. QED
      BY <2>1, <3>1, ChartFacts
  <2>2. CASE e = Main
    <3>1. Onward(e) = e
      BY <2>2, SequencingAssumption DEF Onward, Waiting
    <3>. QED
      BY <3>1
  <2>3. CASE e \in Bases /\ e # Main
    <3>1. Onward(e) = park[e] /\ Tops[e] = park[e]
      BY <2>3 DEF Onward, Waiting, Point, Bases, Tops
    <3>2. Tops[e] \in Alive /\ comp[Tops[e]] = e /\ comp[e] = e
      BY <2>3 DEF Chart, Charted
    <3>. QED
      BY <3>1, <3>2
  <2>. QED
    BY <2>1, <2>2, <2>3
<1>3. \A d \in Way(c) : d \in S
  <2>. HIDE DEF S
  <2>. QED
    BY <1>1, <1>2 DEF Way
<1>. QED
  BY <1>3

\* The way from a coroutine reaches the base of its component.
LEMMA WayReaches ==
  ASSUME SeqInv, HeadsInv, NEW comp, NEW rank, Chart(comp, rank), NEW c \in Alive
  PROVE  comp[c] \in Way(c)
<1>1. /\ comp \in [Alive -> Bases] /\ rank \in [Alive -> Nat]
      /\ \A x \in Alive \ Bases :
           /\ x \in Object /\ Point(x) \in Alive
           /\ state[x] \in {"attached", "resumed"}
           /\ comp[x] = comp[Point(x)] /\ rank[x] = rank[Point(x)] + 1
      /\ \A b \in Bases : comp[b] = b
  BY ChartFacts DEF Chart, Charted
<1>2. ASSUME NEW S \in SUBSET Coro, c \in S, \A e \in S : Onward(e) \in S
      PROVE  comp[c] \in S
  <2>. DEFINE D == {e \in S \cap Alive : comp[e] = comp[c]}
              R == {rank[e] : e \in D}
  <2>1. R \in SUBSET Nat /\ R # {}
    BY <1>1, <1>2
  <2>2. PICK n \in R : \A m \in R : n <= m
    <3>. HIDE DEF R
    <3>. QED
      BY <2>1, Least
  <2>3. PICK e \in D : rank[e] = n
    BY <2>2
  <2>4. ASSUME e \notin Bases PROVE FALSE
    <3>1. e \in Waiting
      BY <1>1, <2>3, <2>4 DEF Waiting, HeadsInv
    <3>2. Point(e) \in D /\ rank[Point(e)] \in Nat /\ rank[e] = rank[Point(e)] + 1
      BY <1>1, <1>2, <2>3, <2>4, <3>1 DEF Onward
    <3>3. rank[e] <= rank[Point(e)]
      BY <2>2, <2>3, <3>2
    <3>. QED
      BY <3>2, <3>3
  <2>. QED
    BY <1>1, <2>3, <2>4
<1>3. comp[c] \in Coro
  BY <1>1 DEF Bases, Coro
<1>. QED
  BY <1>2, <1>3 DEF Way

\* The way from control is within the main component, and reaches its base.
LEMMA ChartLeadsToMain == ChainInv => WayLeadsToMain
<1> SUFFICES ASSUME ChainInv PROVE WayLeadsToMain
  OBVIOUS
<1>1. SeqInv /\ HeadsInv /\ ChartInv
  BY DEF ChainInv
<1>2. PICK comp, rank : Chart(comp, rank)
  BY <1>1 DEF ChartInv
<1>3. current \in Alive /\ comp[current] = Main
  BY <1>1, <1>2, ChartFacts
<1>4. Main \in Way(current)
  BY <1>1, <1>2, <1>3, WayReaches
<1>5. ASSUME NEW x \in Way(current) \cap Object
      PROVE  state[x] \in {"attached", "resumed"}
  <2>1. x \in Alive /\ comp[x] = Main
    BY <1>1, <1>2, <1>3, WayWithin
  <2>2. x \notin Bases
    BY <2>1, <1>2, SequencingAssumption DEF Chart, Charted
  <2>. QED
    BY <1>1, <1>2, <2>1, <2>2, ChartFacts
<1>. QED
  BY <1>4, <1>5 DEF WayLeadsToMain

\* So is the way from a detached object within its own.
LEMMA ChartComponentsClosed == ChainInv => DetachedComponentsClosed
<1> SUFFICES ASSUME ChainInv, NEW x \in Object, state[x] = "detached"
             PROVE  /\ x \in Way(park[x])
                    /\ Main \notin Way(x)
                    /\ \A y \in Way(x) \ {x} : state[y] \in {"attached", "resumed"}
  BY DEF DetachedComponentsClosed
<1>1. SeqInv /\ HeadsInv /\ ChartInv
  BY DEF ChainInv
<1>2. PICK comp, rank : Chart(comp, rank)
  BY <1>1 DEF ChartInv
<1>3. x \in Alive /\ x \in Bases /\ Tops[x] = park[x] /\ x # Main
  BY SequencingAssumption DEF Alive, Bases, Tops
<1>4. /\ Tops[x] \in Alive /\ comp[Tops[x]] = x
      /\ \A b \in Bases : comp[b] = b
  BY <1>2, <1>3 DEF Chart, Charted
<1>5. x \in Way(park[x])
  BY <1>1, <1>2, <1>3, <1>4, WayReaches
<1>6. \A d \in Way(x) : d \in Alive /\ comp[d] = x
  BY <1>1, <1>2, <1>3, <1>4, WayWithin
<1>7. Main \notin Way(x)
  BY <1>3, <1>4, <1>6 DEF Bases
<1>8. ASSUME NEW y \in Way(x) \ {x} PROVE state[y] \in {"attached", "resumed"}
  <2>1. y \in Alive \ Bases
    BY <1>4, <1>6
  <2>. QED
    BY <1>1, <1>2, <2>1, ChartFacts
<1>. QED
  BY <1>5, <1>7, <1>8

\* The invariant of programs that keep to the operating chain: every live
\* coroutine has its component and its distance from the base of it.
THEOREM ChainInvariant == ChainSpec => []ChainInv
<1>1. Init => ChainInv
  BY ChainInit
<1>2. ChainInv /\ [ChainNext]_vars => ChainInv'
  BY ChainStep
<1>. QED
  BY <1>1, <1>2, PTL DEF ChainSpec

\* A program that keeps to the operating chain is never cut off from its main
\* program: giving up control again and again leads to MAIN through attached
\* and resumed objects only.
THEOREM ControlLeadsToMain == ChainSpec => []WayLeadsToMain
  BY ChainInvariant, ChartLeadsToMain, PTL

\* Whatever was attached or resumed inside an object when it detached stays
\* with it until it is reactivated.
THEOREM ComponentsStayClosed == ChainSpec => []DetachedComponentsClosed
  BY ChainInvariant, ChartComponentsClosed, PTL

\* A block that heads a system ends after its objects have left operation, so
\* no reactivation point is lost and no freed system is read.
THEOREM SystemsEndCleanly == ChainSpec => []SystemsEndClean
<1>1. ChainInv => SystemsEndClean
  BY DEF ChainInv
<1>. QED
  BY <1>1, ChainInvariant, PTL
=============================================================================
