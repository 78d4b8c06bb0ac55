--------------------------- MODULE RuledSimulation ----------------------------
(***************************************************************************)
(* The scheduling runtime under programs that keep the rules of chapter    *)
(* 12, which the runtime does not check.  The Simulation block is in the   *)
(* program's own stack and declares every process that is generated or     *)
(* scheduled in it; only scheduling statements move processes; hold,       *)
(* passivate and wait are executed by MAIN or a process; an ended process  *)
(* is not activated again.  All other objects keep to the operating chain. *)
(***************************************************************************)
EXTENDS Simulation, OperatingChain

SimSystem == CHOOSE s \in SimBlock : phase[s] = "live"
InSimulation == active /\ InsideSystem(SimSystem)

\* p may be scheduled: the class `Process` is the live Simulation block's own.
MayRun(p) == p \in Process => decl[p] = SimSystem /\ state[p] # "terminated"
\* Where a process may be generated.
LiveBlocks == {d \in Visible \cap SimBlock : phase[d] = "live"}
OnOwnStack == current \in Process \cup {Main}

RuledActivation ==
  \/ \E p \in {q \in Named : MayRun(q)} \cup {None} : ActivateDirect(p)
  \/ \E p \in {q \in Named : MayRun(q)}, t \in Timing,
        mode \in {"delay", "at"}, prior, reac \in BOOLEAN :
        ActivateTimed(p, t, mode, prior, reac)
  \/ \E p \in {q \in Named : MayRun(q)}, other \in Named,
        before \in BOOLEAN : ActivateRelative(p, other, before)

\* Not of the process that heads the set: see ReactivateFirst.
RuledReactivation ==
  \E p \in Named : MayRun(p) /\ FirstOf(sqs) # p /\ ReactivateDirect(p)

PlainBlocks ==
  \/ \E s \in Instance \ SimBlock : SystemEnter(s)
  \/ ~AtSimulationBlock /\ SystemExit

PlainGenerator ==
  \E x \in Object \ Process, d \in (Visible \cap Instance) \cup {None} :
    Generate(x, d)

PlainStatement ==
  \E x \in Object \ Process :
    \/ (state[x] \in {"attached", "resumed"} => Inside(x)) /\ Detach(x)
    \/ Call(x)
    \/ /\ system[x] \notin SimBlock
       /\ system[x] # None => InsideSystem(system[x])
       /\ Resume(x)
    \/ Terminate(x)

Ruled ==
  \/ \E s \in SimBlock : current = Main /\ ~active /\ SimEnter(s)
  \/ current = Main /\ active /\ FinishMain
  \/ \E x \in Process, d \in LiveBlocks : NewProcess(x, d)
  \/ \E x \in Process : TerminateCurrent(x)
  \/ InSimulation /\ (RuledActivation \/ RuledReactivation \/ Cancellation)
  \/ InSimulation /\ OnOwnStack /\ Suspension
  \/ NoSimulation
  \/ /\ PlainBlocks \/ PlainGenerator \/ PlainStatement \/ Finish
     /\ UNCHANGED simVars

RuledNext ==
  \/ /\ status = "running"
     /\ \/ current \notin finishing /\ Ruled
        \/ SimEnd
  \/ Stopped /\ UNCHANGED simVars

RuledSpec == SimInit /\ [][RuledNext]_allVars

\* A process may also be reactivated while it heads the set.
ReactivateFirst ==
  /\ status = "running"
  /\ current \notin finishing
  /\ InSimulation
  /\ \E p \in Named : MayRun(p) /\ FirstOf(sqs) = p /\ ReactivateDirect(p)

ReactivateSpec == SimInit /\ [][RuledNext \/ ReactivateFirst]_allVars

-----------------------------------------------------------------------------
(* Programs whose processes queue for their turn: started and delayed by   *)
(* `activate` with a time and without prior, each active phase finite. *)

QueueStep ==
  \/ \E s \in SimBlock : current = Main /\ ~active /\ SimEnter(s)
  \/ current = Main /\ active /\ FinishMain
  \/ \E x \in Process, d \in LiveBlocks : NewProcess(x, d)
  \/ InSimulation /\ \E p \in {q \in Named : MayRun(q)}, t \in Timing,
                       mode \in {"delay", "at"} :
                       ActivateTimed(p, t, mode, FALSE, FALSE)
  \/ InSimulation /\ Cancellation
  \/ Finish /\ UNCHANGED simVars

PhaseEnds ==
  /\ status = "running"
  /\ \/ current \notin finishing /\ active /\ Suspension
     \/ \E x \in Process : TerminateCurrent(x)
     \/ SimEnd

QueueNext ==
  \/ status = "running" /\ current \notin finishing /\ QueueStep
  \/ PhaseEnds
  \/ Stopped /\ UNCHANGED simVars

QueueSpec == SimInit /\ [][QueueNext]_allVars /\ WF_allVars(PhaseEnds)

-----------------------------------------------------------------------------

\* sim.c and sequencing.c keep separate records of who is operative: `running`
\* is the operative component of the Simulation block's system, and it is "the
\* component physically executing" (sim.c:28): while control is inside the
\* Simulation block, it is inside that component.
RunningIsOperative ==
  active =>
    /\ operative[SimSystem] = IF running = SimMain THEN None ELSE running
    /\ status = "running" /\ InSimulation =>
         Inside(IF running = SimMain THEN Main ELSE running)

\* Whatever is filed can take over: a notice is of MAIN, of the running
\* process, or of a process that is detached.
NoticesCanRun ==
  \A i \in DOMAIN sqs :
    sqs[i].process \in {SimMain, running} \/ state[sqs[i].process] = "detached"

\* Simulated time never goes back while notices remain.
TimeForward ==
  [][active /\ active' /\ sqs # <<>> /\ sqs' # <<>>
       => Time(sqs) <= Time(sqs')]_allVars

\* A process whose notice is due at the current time gets its turn, unless its
\* notice is moved or cancelled: notices of one time are first come, first
\* served, so holds of no duration starve nobody.
Due(p) ==
  status = "running" /\ active /\ \E i \in DOMAIN sqs : sqs[i] = NoticeOf(Time(sqs), p)
DueRuns == \A p \in Process : Due(p) ~> running = p \/ ~Due(p)
=============================================================================
