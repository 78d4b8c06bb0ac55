------------------------------ MODULE Simulation ------------------------------
(***************************************************************************)
(* Chapter 12 scheduling as the native runtime executes it: the sequencing *)
(* set (SQS) of runtime/sim.c, and each scheduling statement as the        *)
(* compiled program issues it: the operation on the set and, where the     *)
(* lowering adds one, the transfer to whatever now heads the set.          *)
(*                                                                         *)
(* The class body of Process detaches before user code runs, so a new      *)
(* process is a detached component.  `g_sim.current` (only the collector   *)
(* reads it) and the unread `seq` of a notice are left out.                *)
(***************************************************************************)
EXTENDS Sequencing, Integers, SequencesExt

CONSTANTS Process,     \* the objects of subclasses of Process
          SimBlock,    \* activations of blocks prefixed by Simulation
          SimMain,     \* SIMRT_RT_MAIN: the block's own notice
          MaxNotices,  \* SIMRT_RT_SQS_MAX_LEN
          Timing,      \* the times and delays that statements give
          MaxTime      \* bound: no notice is filed for a later time

ASSUME SimulationAssumption ==
  /\ Process \subseteq Object
  /\ IsFiniteSet(Object)
  /\ SimBlock \subseteq Instance
  /\ \A s \in SimBlock, i \in Instance : BlockOf[i] = BlockOf[s] => i \in SimBlock
  /\ SimMain \notin Object \cup {None}
  /\ MaxNotices \in Nat \ {0}
  /\ Timing \subseteq Int
  /\ MaxTime \in Nat

VARIABLES
  active,    \* g_sim.active
  sqs,       \* g_sim.sqs: event notices, earliest first
  running,   \* g_sim.running, NULL read as MAIN like every reader does
  finishing  \* coroutines waiting at the end of a Simulation block

simVars == <<active, sqs, running, finishing>>
allVars == <<vars, simVars>>

Notice == [evtime : 0..MaxTime, process : Object \cup {SimMain}]

\* What each field can hold; the notices fit in the runtime's fixed array.
SimTypeOK ==
  /\ active \in BOOLEAN
  /\ sqs \in Seq(Notice)
  /\ Len(sqs) <= MaxNotices
  /\ running \in Object \cup {SimMain}
  /\ finishing \subseteq Coro

SimInit ==
  /\ Init
  /\ active = FALSE
  /\ sqs = <<>>
  /\ running = SimMain
  /\ finishing = {}

-----------------------------------------------------------------------------
(* The sequencing set.                                                     *)

NoticeOf(t, p) == [evtime |-> t, process |-> p]
IsScheduled(p) == \E i \in DOMAIN sqs : sqs[i].process = p
Time(q) == IF q = <<>> THEN 0 ELSE q[1].evtime
Larger(a, b) == IF a > b THEN a ELSE b

\* simrt_sim_cancel_unlocked: the notices of others are copied down, each to
\* the place after those kept before it.
Cancelled(q, p) ==
  LET kept == {i \in DOMAIN q : q[i].process # p}
      out(i) == Cardinality({j \in kept : j <= i})
  IN [k \in 1..Cardinality(kept) |-> q[CHOOSE i \in kept : out(i) = k]]

\* Faulty: p's old notice stays.
InsertDuplicate(q, t, p, prior) ==
  LET next == SelectInSeq(q, LAMBDA n : IF prior THEN n.evtime >= t
                                        ELSE n.evtime > t)
  IN InsertAt(q, IF next = 0 THEN Len(q) + 1 ELSE next, NoticeOf(t, p))

\* Faulty: the notice at the place of insertion is overwritten.
InsertOver(q, t, p, prior) ==
  LET rest == Cancelled(q, p)
      next == SelectInSeq(rest, LAMBDA n : IF prior THEN n.evtime >= t
                                           ELSE n.evtime > t)
  IN IF next = 0 THEN Append(rest, NoticeOf(t, p))
     ELSE ReplaceAt(rest, next, NoticeOf(t, p))

\* Faulty: a notice goes before those of its time without prior too.
InsertLifo(q, t, p, prior) ==
  LET rest == Cancelled(q, p)
      next == SelectInSeq(rest, LAMBDA n : n.evtime >= t)
  IN InsertAt(rest, IF next = 0 THEN Len(rest) + 1 ELSE next, NoticeOf(t, p))

\* simrt_sim_insert_event: p's old notice goes, the new one is filed after
\* those of its time, or before them with `prior`.
InsertEvent(q, t, p, prior) ==
  LET rest == Cancelled(q, p)
      next == SelectInSeq(rest, LAMBDA n : IF prior THEN n.evtime >= t
                                           ELSE n.evtime > t)
  IN InsertAt(rest, IF next = 0 THEN Len(rest) + 1 ELSE next, NoticeOf(t, p))

\* Faulty: one notice too many fits.
FullLate(p) == Len(Cancelled(sqs, p)) > MaxNotices
Full(p) == Len(Cancelled(sqs, p)) >= MaxNotices

\* p's notice goes next to other's, at its time; MAIN goes after every notice
\* of that time.
InsertBeside(q, p, other, before) ==
  LET rest == Cancelled(q, p)
      y == SelectInSeq(rest, LAMBDA n : n.process = other)
      ties == {i \in y..Len(rest) : rest[i].evtime = rest[y].evtime}
      at == CASE before -> y
              [] ~before /\ p = SimMain -> y + Cardinality(ties)
              [] OTHER -> y + 1
  IN InsertAt(rest, at, NoticeOf(rest[y].evtime, p))

-----------------------------------------------------------------------------
(* Transfers.                                                              *)

\* simrt_sim_self is p: the object on whose stack control is, else (the lookup
\* tries parks as well as heads) one whose reactivation point is on this stack,
\* else `running`.
Self(p) ==
  LET parkedHere == {x \in Object : park[x] = current}
  IN CASE current \in Object -> p = current
       [] current \notin Object /\ parkedHere # {} -> p \in parkedHere
       [] OTHER -> p = running

FirstOf(q) == IF q = <<>> THEN None ELSE q[1].process
Runner(q) == IF q = <<>> THEN SimMain ELSE q[1].process

TransferToHead(q) ==
  IF FirstOf(q) = running
  THEN UNCHANGED <<running, vars>>
  ELSE /\ running' = Runner(q)
       /\ CASE Runner(q) # SimMain -> Resume(FirstOf(q))
            [] Runner(q) = SimMain /\ running # SimMain -> Detach(running)
            [] OTHER -> UNCHANGED vars

\* Faulty: the dead stack is kept as the place of the main component.
TerminateResumingParks(x, y) ==
  CASE system[y] = None \/ state[y] # "detached" -> Stop("error")
    [] system[y] # None /\ state[y] = "detached"
       /\ phase[system[y]] = "freed" -> Stop("dangling")
    [] OTHER ->
         /\ state' = [state EXCEPT ![x] = "terminated", ![y] = "resumed"]
         /\ park' = [park EXCEPT ![x] = None]
         /\ operative' = [operative EXCEPT ![system[y]] = y]
         /\ mainPark' = [mainPark EXCEPT ![system[y]] = current]
         /\ SwitchTo(park[y])
         /\ UNCHANGED <<attachedTo, system, origin, phase, frames,
                        programVars>>

\* simrt_seq_terminate_resuming: x's final end composed with a resume of y.
TerminateResuming(x, y) ==
  CASE system[y] = None \/ state[y] # "detached" -> Stop("error")
    [] system[y] # None /\ state[y] = "detached"
       /\ phase[system[y]] = "freed" -> Stop("dangling")
    [] OTHER ->
         /\ state' = [state EXCEPT ![x] = "terminated", ![y] = "resumed"]
         /\ park' = [park EXCEPT ![x] = None]
         /\ operative' = [operative EXCEPT ![system[y]] = y]
         /\ SwitchTo(park[y])
         /\ UNCHANGED <<attachedTo, system, origin, phase, mainPark, frames,
                        programVars>>

\* Faulty: `running` still names the ended process.
TerminateUnrecorded(x) ==
  LET q == Cancelled(sqs, x) IN
    /\ FinalEnd(x)
    /\ active
    /\ sqs' = q
    /\ IF Runner(q) = SimMain
       THEN Terminate(x)
       ELSE TerminateResuming(x, FirstOf(q))
    /\ UNCHANGED <<active, running, finishing>>

\* Faulty: the ended process keeps its notice.
TerminateKeepsNotice(x) ==
  LET q == Cancelled(sqs, x) IN
    /\ FinalEnd(x)
    /\ active
    /\ running' = Runner(q)
    /\ IF Runner(q) = SimMain
       THEN Terminate(x)
       ELSE TerminateResuming(x, FirstOf(q))
    /\ UNCHANGED <<active, sqs, finishing>>

TerminateCurrent(x) ==
  LET q == Cancelled(sqs, x) IN
    /\ FinalEnd(x)
    /\ active
    /\ sqs' = q
    /\ running' = Runner(q)
    /\ IF Runner(q) = SimMain
       THEN Terminate(x)
       ELSE TerminateResuming(x, FirstOf(q))
    /\ UNCHANGED <<active, finishing>>

-----------------------------------------------------------------------------
(* Scheduling statements.                                                  *)

Named == {SimMain} \cup {p \in Process : state[p] # "unborn"}

Overflow == Stop("error") /\ UNCHANGED simVars

\* The set becomes q and control goes to its head.
Reorder(q) ==
  /\ sqs' = q
  /\ TransferToHead(sqs')
  /\ UNCHANGED <<active, finishing>>

\* The set becomes q and the executing component carries on.
Refile(q) ==
  /\ sqs' = q
  /\ UNCHANGED <<active, running, finishing, vars>>

Hold(p, dt) ==
  LET t == Time(sqs) + Larger(dt, 0) IN
    /\ Self(p)
    /\ t <= MaxTime
    /\ IF Full(p) THEN Overflow ELSE Reorder(InsertEvent(sqs, t, p, FALSE))

\* passivate; for the sequencing set wait(head) does the same.
Passivate(p) == Self(p) /\ Reorder(Cancelled(sqs, p))

ActivateDirect(p) ==
  \/ /\ p = None \/ IsScheduled(p)
     /\ Reorder(sqs)
  \/ /\ p # None
     /\ ~IsScheduled(p)
     /\ IF Full(p) THEN Overflow ELSE Reorder(InsertEvent(sqs, Time(sqs), p, TRUE))

\* Direct reactivation is a cancel followed by a direct activation, which
\* reads the time of the set without p.
ReactivateDirect(p) ==
  LET rest == Cancelled(sqs, p) IN
    IF Full(p) THEN Overflow ELSE Reorder(InsertEvent(rest, Time(rest), p, TRUE))

\* Faulty: a notice may be filed for a time that has passed.
ActivateInPast(p, t, mode, prior, reac) ==
  LET at == IF mode = "delay" THEN Time(sqs) + Larger(t, 0) ELSE Larger(t, 0)
  IN /\ at <= MaxTime
     /\ \/ ~reac /\ IsScheduled(p) /\ Refile(sqs)
        \/ /\ reac \/ ~IsScheduled(p)
           /\ IF Full(p) THEN Overflow ELSE Refile(InsertEvent(sqs, at, p, prior))

ActivateTimed(p, t, mode, prior, reac) ==
  LET now == Time(sqs)
      at == IF mode = "delay" THEN now + Larger(t, 0) ELSE Larger(t, now)
  IN /\ at <= MaxTime
     /\ \/ ~reac /\ IsScheduled(p) /\ Refile(sqs)
        \/ /\ reac \/ ~IsScheduled(p)
           /\ IF Full(p) THEN Overflow ELSE Refile(InsertEvent(sqs, at, p, prior))

ActivateRelative(p, other, before) ==
  \/ /\ p = other \/ ~IsScheduled(other)
     /\ Refile(sqs)
  \/ /\ p # other
     /\ IsScheduled(other)
     /\ IF Full(p) THEN Overflow ELSE Refile(InsertBeside(sqs, p, other, before))

Cancel(p) == Refile(Cancelled(sqs, p))

Suspension == \E p \in Object \cup {SimMain} :
                Passivate(p) \/ \E dt \in Timing : Hold(p, dt)
Cancellation == \E p \in Named : Cancel(p)

-----------------------------------------------------------------------------
(* The Simulation block, and the processes it declares.                    *)

AtSimulationBlock ==
  open[current] # <<>> /\ InnermostOpen \in SimBlock

\* The system of the block, then simrt_sim_begin: either may stop the program.
SimEnter(s) ==
  \/ /\ active \/ Len(frames) = MaxFrames
     /\ phase[s] = "unused"
     /\ Stop("error")
     /\ UNCHANGED simVars
  \/ /\ ~active
     /\ Len(frames) # MaxFrames
     /\ SystemEnter(s)
     /\ active' = TRUE
     /\ sqs' = <<NoticeOf(0, SimMain)>>
     /\ running' = SimMain
     /\ UNCHANGED finishing

\* The last statement of the block is done: MAIN leaves the set.
FinishMain ==
  /\ AtSimulationBlock
  /\ finishing' = finishing \cup {current}
  /\ sqs' = Cancelled(sqs, SimMain)
  /\ TransferToHead(sqs')
  /\ UNCHANGED active

\* Control is back at the end of the block: simrt_sim_end, then the exit.
SimEnd ==
  /\ current \in finishing
  /\ SystemExit
  /\ active' = FALSE
  /\ sqs' = <<>>
  /\ running' = SimMain
  /\ finishing' = finishing \ {current}

\* The generator of a process: the object starts, and detaches.
NewProcess(x, d) ==
  /\ state[x] = "unborn"
  /\ LocalTo(x, d)
  /\ state' = [state EXCEPT ![x] = "detached"]
  /\ park' = [park EXCEPT ![x] = x]
  /\ attachedTo' = [attachedTo EXCEPT ![x] = current]
  /\ origin' = [origin EXCEPT ![x] = current]
  /\ decl' = [decl EXCEPT ![x] = d]
  /\ UNCHANGED <<current, status, phase, mainPark, operative, frames, open,
                 env, orphans, simVars>>

\* Any scheduling statement, or a process's final end, outside Simulation.
NoSimulation == ~active /\ Stop("error") /\ UNCHANGED simVars

-----------------------------------------------------------------------------

\* The sequencing set is in order of time and no process has two notices.
SqsOrdered ==
  \A i, j \in DOMAIN sqs :
    i < j => sqs[i].evtime <= sqs[j].evtime /\ sqs[i].process # sqs[j].process

\* A step moves, files or removes the notice of at most one process: all the
\* others are still there, in the same order and at the same times.
OneNoticeMoves ==
  \E p \in Object \cup {SimMain} : Cancelled(sqs, p) = Cancelled(sqs', p)
OthersKeepOrder == [][active /\ active' => OneNoticeMoves]_allVars
=============================================================================
