--------------------------- MODULE DebugProbeProofs ---------------------------
(***************************************************************************)
(* Proofs about DebugProbe, for any lines, values, depths and queues.      *)
(* ProbeInv says what the flags under the lock mean to each thread, and    *)
(* CopyInv when the server's copy of a stop is the probe's.                *)
(***************************************************************************)
EXTENDS DebugProbe, TLAPS

\* Requests are out of the queue only while the thread applies them.
QueueInv == thread # "applying" => taken = <<>>

\* The flags: a paused program has a parked thread and no wake-up in store,
\* and only a request ends a pause.
FlagsInv ==
    /\ paused => thread \in Parked /\ ~wake
    /\ thread \in Parked /\ ~resumed /\ ~terminated => paused /\ ~wake

\* The server's part: it ends a run once, and waits for a reply only during a
\* stop that nothing has ended.
ServerInv ==
    /\ server = "terminating" => terminated /\ ~session
    /\ session /\ terminated => thread = "ended"
    /\ server = "setting" => paused /\ session

\* What a stop tells: where the program is, and in the list the variable was
\* last set through, or in all when it was not set, what it holds.
PlaceInv ==
    thread \in Parked =>
        /\ pauseInfo \in [line : Line, copies : [List -> Value \cup {None}]]
        /\ pauseInfo.line = here.line
        /\ \A l \in here.lists : through \in {None, l} => pauseInfo.copies[l] = here.value

CopyInv ==
    thread \in Parked \ {"reporting"} /\ server # "copying" /\ ~unnoticed =>
        lastPause = pauseInfo

ProbeInv == TypeOK /\ QueueInv /\ FlagsInv /\ ServerInv /\ PlaceInv /\ CopyInv

(***************************************************************************)
(* A stop has a copy of its variable in each list that shows it, and a     *)
(* request changes one of them.                                            *)
(***************************************************************************)
LEMMA ShownType ==
  ASSUME NEW p \in Place
  PROVE  /\ Shown(p) \in [line : Line, copies : [List -> Value \cup {None}]]
         /\ Shown(p).line = p.line
         /\ \A l \in p.lists : Shown(p).copies[l] = p.value
<1>1. p.line \in Line /\ p.value \in Value /\ p.lists \subseteq List
  BY ProbeAssumption DEF Place
<1>. QED
  BY <1>1 DEF Shown

LEMMA RefreshedType ==
  ASSUME pauseInfo \in [line : Line, copies : [List -> Value \cup {None}]],
         NEW r \in Request
  PROVE  /\ Refreshed(r) \in [line : Line, copies : [List -> Value \cup {None}]]
         /\ Refreshed(r).line = pauseInfo.line
         /\ Refreshed(r).copies[r.list] = r.value
<1>1. r.list \in List /\ r.value \in Value
  BY DEF Request
<1>2. [pauseInfo.copies EXCEPT ![r.list] = r.value] \in [List -> Value \cup {None}]
  BY <1>1
<1>3. Refreshed(r) = [pauseInfo EXCEPT !.copies = [pauseInfo.copies EXCEPT ![r.list] = r.value]]
  BY DEF Refreshed
<1>. QED
  BY <1>1, <1>2, <1>3

(***************************************************************************)
(* The program starts unpaused and the server idle.                        *)
(***************************************************************************)
LEMMA ProbeInit == Init => ProbeInv
<1> SUFFICES ASSUME Init PROVE ProbeInv
  OBVIOUS
<1>1. 1 \in 1..MaxDepth
  BY ProbeAssumption
<1>2. /\ here \in Place /\ breakpoints \in [Line -> {"none", "plain", "conditional"}]
      /\ mode \in [kind : Stepping \cup {"continue", "terminate"}, depth : 1..MaxDepth]
  BY <1>1 DEF Init, Place, To, Stepping
<1>3. pending \in Seq(Request) /\ taken \in Seq(Request) /\ Len(pending) + Len(taken) <= MaxSets
  BY ProbeAssumption DEF Init
<1>4. TypeOK
  BY <1>2, <1>3 DEF Init, TypeOK
<1>. QED
  BY <1>4 DEF Init, ProbeInv, QueueInv, FlagsInv, ServerInv, PlaceInv, CopyInv, Parked

(***************************************************************************)
(* The queue: what is taken leaves `pending`, so the bound counts both.    *)
(***************************************************************************)
LEMMA TypeStep ==
  ASSUME TypeOK, QueueInv, PlaceInv, [Next]_vars
  PROVE  TypeOK' /\ QueueInv'
<1> USE ProbeAssumption DEF TypeOK, QueueInv, Parked, run, place, sets, editor
<1>0. /\ 1 \in 1..MaxDepth /\ here.depth \in 1..MaxDepth /\ here.line \in Line
      /\ Shown(here) \in [line : Line, copies : [List -> Value \cup {None}]]
  BY ShownType DEF Place
<1>1. ASSUME NEW p \in Place, Poll(p) PROVE TypeOK' /\ QueueInv'
  BY <1>1 DEF Poll, Place
<1>2. CASE Decide
  <2>1. /\ thread' \in {"reporting", "running"} /\ taken = <<>>
        /\ UNCHANGED <<here, terminated, pending, taken, editor, breakpoints>>
        /\ pauseInfo' \in {pauseInfo, Shown(here)} /\ through' \in {through, None}
    BY <1>2 DEF Decide, Stop, GoOn
  <2>2. /\ {entry', paused', wake', resumed'} \subseteq BOOLEAN
        /\ pollLine' \in Line \cup {None} /\ breakLine' \in Line \cup {None}
    BY <1>2, <1>0 DEF Decide, Stop, GoOn, Mark
  <2>3. mode' \in {mode, To("continue", 1)}
    BY <1>2 DEF Decide, Stop, GoOn
  <2>. QED
    BY <2>1, <2>2, <2>3, <1>0 DEF To
<1>3. CASE Report
  BY <1>3 DEF Report
<1>4. CASE TakeSets
  <2>1. taken = <<>> /\ taken' = pending /\ pending' = <<>>
    BY <1>4 DEF TakeSets
  <2>2. pending' \in Seq(Request) /\ taken' \in Seq(Request)
        /\ Len(pending') + Len(taken') = Len(pending) + Len(taken)
    BY <2>1
  <2>. QED
    BY <1>4, <2>2 DEF TakeSets
<1>5. CASE ApplySet
  <2>1. /\ Head(taken) \in Request /\ Tail(taken) \in Seq(Request)
        /\ Len(Tail(taken)) = Len(taken) - 1 /\ taken' = Tail(taken) /\ thread = "applying"
        /\ UNCHANGED <<thread, run, terminated, place, pending, session, lastPause, resumed>>
    BY <1>5 DEF ApplySet
  <2>2. here' \in Place
    <3>1. here' = here \/ here' = [here EXCEPT !.value = Head(taken).value]
      BY <1>5 DEF ApplySet
    <3>. QED
      BY <2>1, <3>1 DEF Place, Request
  <2>3. pauseInfo' \in [line : Line, copies : [List -> Value \cup {None}]]
    <3>1. pauseInfo \in [line : Line, copies : [List -> Value \cup {None}]]
      BY <2>1 DEF PlaceInv
    <3>2. pauseInfo' = pauseInfo \/ pauseInfo' = Refreshed(Head(taken))
      BY <1>5 DEF ApplySet
    <3>. QED
      BY <2>1, <3>1, <3>2, RefreshedType
  <2>4. /\ server' \in {"ready", "setting", "copying", "terminating"} /\ unnoticed' \in BOOLEAN
        /\ through' \in List \cup {None}
    BY <1>5, <2>1 DEF ApplySet, Request
  <2>. QED
    BY <2>1, <2>2, <2>3, <2>4
<1>6. CASE Wait
  BY <1>6 DEF Wait
<1>7. CASE ProgramEnds
  BY <1>7, <1>0 DEF ProgramEnds, To
<1>8. ASSUME NEW f \in [Line -> {"none", "plain", "conditional"}], SetBreakpoints(f)
      PROVE  TypeOK' /\ QueueInv'
  BY <1>8 DEF SetBreakpoints
<1>9. ASSUME NEW m \in Stepping \cup {"continue"}, Resume(m) PROVE TypeOK' /\ QueueInv'
  BY <1>9, <1>0 DEF Resume, CanServe, To, Stepping
<1>10. ASSUME NEW r \in Request, SetVariable(r) PROVE TypeOK' /\ QueueInv'
  <2>1. /\ pending' \in Seq(Request) /\ Len(pending') = Len(pending) + 1
        /\ Len(pending) + Len(taken) < MaxSets
    BY <1>10 DEF SetVariable
  <2>. QED
    BY <1>10, <2>1 DEF SetVariable, CanServe
<1>11. CASE GiveUpSet
  BY <1>11 DEF GiveUpSet
<1>12. CASE Terminate
  BY <1>12 DEF Terminate
<1>13. CASE CopyPause
  BY <1>13 DEF CopyPause
<1>14. CASE TerminateRun
  BY <1>14, <1>0 DEF TerminateRun, To
<1>15. CASE UNCHANGED vars
  BY <1>15 DEF vars
<1>. QED
  BY <1>1, <1>2, <1>3, <1>4, <1>5, <1>6, <1>7, <1>8, <1>9, <1>10,
     <1>11, <1>12, <1>13, <1>14, <1>15, ProbeAssumption DEF Next, Interpreter, Server, Requests

(***************************************************************************)
(* The flags, whatever the editor asks and whenever.                       *)
(***************************************************************************)
LEMMA FlagsStep ==
  ASSUME TypeOK, FlagsInv, ServerInv, [Next]_vars
  PROVE  FlagsInv' /\ ServerInv'
<1> USE DEF FlagsInv, ServerInv, Parked, run, place, sets, editor
<1>0. {paused, wake, terminated, session, resumed} \subseteq BOOLEAN
  BY DEF TypeOK
<1>1. ASSUME NEW p \in Place, Poll(p) PROVE FlagsInv' /\ ServerInv'
  BY <1>1 DEF Poll
<1>2. CASE Decide
  BY <1>2 DEF Decide, Stop, GoOn
<1>3. CASE Report
  BY <1>3 DEF Report
<1>4. CASE TakeSets
  BY <1>4 DEF TakeSets
<1>5. CASE ApplySet
  BY <1>5 DEF ApplySet, Awaited
<1>6. CASE Wait
  BY <1>6 DEF Wait
<1>7. CASE ProgramEnds
  BY <1>7 DEF ProgramEnds
<1>8. ASSUME NEW f \in [Line -> {"none", "plain", "conditional"}], SetBreakpoints(f)
      PROVE  FlagsInv' /\ ServerInv'
  BY <1>8 DEF SetBreakpoints
<1>9. ASSUME NEW m \in Stepping \cup {"continue"}, Resume(m) PROVE FlagsInv' /\ ServerInv'
  BY <1>9 DEF Resume, CanServe
<1>10. ASSUME NEW r \in Request, SetVariable(r) PROVE FlagsInv' /\ ServerInv'
  BY <1>10 DEF SetVariable, CanServe
<1>11. CASE GiveUpSet
  BY <1>11 DEF GiveUpSet
<1>12. CASE Terminate
  BY <1>12 DEF Terminate, CanServe
<1>13. CASE CopyPause
  BY <1>13 DEF CopyPause
<1>14. CASE TerminateRun
  BY <1>14 DEF TerminateRun
<1>15. CASE UNCHANGED vars
  BY <1>15 DEF vars
<1>. QED
  BY <1>1, <1>2, <1>3, <1>4, <1>5, <1>6, <1>7, <1>8, <1>9, <1>10,
     <1>11, <1>12, <1>13, <1>14, <1>15, ProbeAssumption DEF Next, Interpreter, Server, Requests

(***************************************************************************)
(* What is told of a stop is where the program stands, and the server's    *)
(* copy follows but for the moment between an answer and the copy of it.   *)
(***************************************************************************)
LEMMA PlaceStep ==
  ASSUME TypeOK, PlaceInv, CopyInv, [Next]_vars
  PROVE  PlaceInv' /\ CopyInv'
<1> USE DEF PlaceInv, CopyInv, Parked, run, place, sets, editor
<1>0. /\ here \in Place /\ unnoticed \in BOOLEAN
  BY DEF TypeOK
<1>1. ASSUME NEW p \in Place, Poll(p) PROVE PlaceInv' /\ CopyInv'
  BY <1>1 DEF Poll
<1>2. CASE Decide
  <2>1. thread = "polling" /\ UNCHANGED <<here, editor>> /\ (Stop \/ GoOn)
    BY <1>2 DEF Decide
  <2>2. CASE Stop
    BY <1>0, <2>1, <2>2, ShownType DEF Stop
  <2>3. CASE GoOn
    BY <2>1, <2>3 DEF GoOn
  <2>. QED
    BY <2>1, <2>2, <2>3
<1>3. CASE Report
  BY <1>3 DEF Report
<1>4. CASE TakeSets
  BY <1>4 DEF TakeSets
<1>5. CASE ApplySet
  <2> DEFINE r == Head(taken)
  <2>1. /\ thread = "applying" /\ UNCHANGED <<thread, lastPause>> /\ r \in Request
        /\ Awaited => server = "setting"
    BY <1>5 DEF ApplySet, Awaited, TypeOK
  <2>3. PICK ok \in {FALSE, Settable(r)} :
          /\ here' = IF ok THEN [here EXCEPT !.value = r.value] ELSE here
          /\ pauseInfo' = IF ok THEN Refreshed(r) ELSE pauseInfo
          /\ through' = IF ok THEN r.list ELSE through
          /\ server' = IF ~Awaited THEN server ELSE IF ok THEN "copying" ELSE "ready"
          /\ unnoticed' = (unnoticed \/ (ok /\ ~Awaited))
    BY <1>5 DEF ApplySet
  <2>2. PlaceInv'
    <3>1. CASE ok
      <4>1. /\ r.list \in List
            /\ here'.line = here.line /\ here'.value = r.value /\ here'.lists = here.lists
            /\ pauseInfo' = Refreshed(r) /\ through' = r.list
        BY <1>0, <2>1, <2>3, <3>1 DEF Place, Request
      <4>2. /\ pauseInfo \in [line : Line, copies : [List -> Value \cup {None}]]
            /\ pauseInfo.line = here.line
        BY <2>1
      <4>3. /\ pauseInfo' \in [line : Line, copies : [List -> Value \cup {None}]]
            /\ pauseInfo'.line = here'.line
            /\ pauseInfo'.copies[r.list] = here'.value
        BY <2>1, <4>1, <4>2, RefreshedType
      <4>4. \A l \in here'.lists :
              through' \in {None, l} => pauseInfo'.copies[l] = here'.value
        BY <4>1, <4>3, ProbeAssumption
      <4>. QED
        BY <4>3, <4>4
    <3>2. CASE ~ok
      BY <2>1, <2>3, <3>2
    <3>. QED
      BY <3>1, <3>2
  <2>4. \/ UNCHANGED pauseInfo /\ unnoticed' = unnoticed /\ (server = "copying" => server' = "copying")
        \/ server' = "copying"
        \/ unnoticed'
    <3>1. CASE Awaited
      <4>1. server = "setting" /\ server' = IF ok THEN "copying" ELSE "ready"
        BY <2>1, <2>3, <3>1
      <4>2. ~ok => UNCHANGED pauseInfo /\ unnoticed' = unnoticed
        BY <2>3, <3>1, <1>0
      <4>. QED
        BY <4>1, <4>2
    <3>2. CASE ~Awaited /\ ok
      <4>1. unnoticed'
        BY <2>3, <3>2, Zenon
      <4>. QED
        BY <4>1, Zenon
    <3>3. CASE ~Awaited /\ ~ok
      <4>1. unnoticed' = unnoticed
        BY <2>3, <3>3, <1>0
      <4>. QED
        BY <2>3, <3>3, <4>1
    <3>. QED
      BY <3>1, <3>2, <3>3
  <2>. QED
    BY <2>1, <2>2, <2>4
<1>6. CASE Wait
  BY <1>6 DEF Wait
<1>7. CASE ProgramEnds
  BY <1>7 DEF ProgramEnds
<1>8. ASSUME NEW f \in [Line -> {"none", "plain", "conditional"}], SetBreakpoints(f)
      PROVE  PlaceInv' /\ CopyInv'
  BY <1>8 DEF SetBreakpoints
<1>9. ASSUME NEW m \in Stepping \cup {"continue"}, Resume(m) PROVE PlaceInv' /\ CopyInv'
  BY <1>9 DEF Resume
<1>10. ASSUME NEW r \in Request, SetVariable(r) PROVE PlaceInv' /\ CopyInv'
  BY <1>10 DEF SetVariable, CanServe
<1>11. CASE GiveUpSet
  BY <1>11 DEF GiveUpSet
<1>12. CASE Terminate
  BY <1>12 DEF Terminate, CanServe
<1>13. CASE CopyPause
  BY <1>13 DEF CopyPause
<1>14. CASE TerminateRun
  BY <1>14 DEF TerminateRun
<1>15. CASE UNCHANGED vars
  BY <1>15 DEF vars
<1>. QED
  BY <1>1, <1>2, <1>3, <1>4, <1>5, <1>6, <1>7, <1>8, <1>9, <1>10,
     <1>11, <1>12, <1>13, <1>14, <1>15, ProbeAssumption DEF Next, Interpreter, Server, Requests

(***************************************************************************)
(* So the parts hold of every state of the probe.                          *)
(***************************************************************************)
LEMMA ProbeInvariant == Spec => []ProbeInv
<1>1. ProbeInv /\ [Next]_vars => ProbeInv'
  BY TypeStep, FlagsStep, PlaceStep DEF ProbeInv
<1>. QED
  BY <1>1, ProbeInit, PTL DEF Spec

-----------------------------------------------------------------------------
(***************************************************************************)
(* Every field keeps its type, and the queue its bound.                    *)
(***************************************************************************)
THEOREM ProbeTypes == Spec => []TypeOK
<1>1. ProbeInv => TypeOK
  BY DEF ProbeInv
<1>. QED
  BY <1>1, ProbeInvariant, PTL

(***************************************************************************)
(* A stop lasts until the editor asks to go on or to end: the flags that a *)
(* waiting thread looks at are set by nothing else.                        *)
(***************************************************************************)
THEOREM OnlyRequestsEndStops == Spec => StopsHold
<1>1. ProbeInv /\ [Next]_vars =>
        [thread' = "running" /\ thread \in Parked => resumed \/ terminated]_vars
  <2> SUFFICES ASSUME ProbeInv, Next, thread' = "running", thread \in Parked,
                      ~resumed, ~terminated
               PROVE  FALSE
    OBVIOUS
  <2>1. paused /\ ~wake
    BY DEF ProbeInv, FlagsInv
  <2>2. thread' # "running"
    BY <2>1 DEF Next, Interpreter, Server, Requests, Poll, Decide, Report, TakeSets,
       ApplySet, Wait, ProgramEnds, SetBreakpoints, Resume, SetVariable,
       GiveUpSet, Terminate, CopyPause, TerminateRun, Parked
  <2>. QED
    BY <2>2
<1>. QED
  BY <1>1, ProbeInvariant, PTL DEF Spec, StopsHold

(***************************************************************************)
(* A statement on another line than the last one, with a plain breakpoint on *)
(* it, is never passed over.                                               *)
(***************************************************************************)
THEOREM NoArrivalIsMissed == Spec => EveryArrivalStops
<1>1. ProbeInv /\ [Next]_vars =>
        [thread = "polling" /\ thread' = "running" /\ mode.kind # "terminate" =>
           here.line = pollLine \/ breakpoints[here.line] # "plain"]_vars
  <2> SUFFICES ASSUME ProbeInv, Next, thread = "polling", thread' = "running",
                      mode.kind # "terminate", here.line # pollLine,
                      breakpoints[here.line] = "plain"
               PROVE  FALSE
    OBVIOUS
  <2>1. Decide
    BY DEF Next, Interpreter, Server, Requests, Poll, Report, TakeSets, ApplySet,
       Wait, ProgramEnds, SetBreakpoints, Resume, SetVariable, GiveUpSet,
       Terminate, CopyPause, TerminateRun, run, editor
  <2>2. \A holds \in BOOLEAN : BreakStops(holds)
    BY ProbeAssumption DEF BreakStops, Mark, ProbeInv, TypeOK, Place
  <2>3. Stop
    BY <2>1, <2>2 DEF Decide
  <2>. QED
    BY <2>3 DEF Stop
<1>. QED
  BY <1>1, ProbeInvariant, PTL DEF Spec, EveryArrivalStops

(***************************************************************************)
(* Questions about a variable are answered with what the program holds:    *)
(* from any list while it was not set in this stop, and from the list that *)
(* it was last set through; but not once a request has set it that the     *)
(* server had given up, which the server's copy does not follow.           *)
(***************************************************************************)
THEOREM AnswersAreTrue == Spec => []InspectionIsTrue
<1>1. ProbeInv => InspectionIsTrue
  BY DEF ProbeInv, PlaceInv, CopyInv, InspectionIsTrue, CanAnswer, Parked
<1>. QED
  BY <1>1, ProbeInvariant, PTL

(***************************************************************************)
(* The program does not go on while the server waits for a variable to be  *)
(* set: a stop that nobody ended has the request in its queue, and nobody  *)
(* can end it while the server waits.                                      *)
(***************************************************************************)
THEOREM SetsStayInTheirStop == Spec => AppliedInItsStop
<1>1. ProbeInv /\ [Next]_vars =>
        [thread' = "running" /\ thread \in Parked => server # "setting"]_vars
  <2> SUFFICES ASSUME ProbeInv, Next, thread' = "running", thread \in Parked,
                      server = "setting"
               PROVE  FALSE
    OBVIOUS
  <2>1. paused /\ ~wake /\ ~terminated
    BY DEF ProbeInv, FlagsInv, ServerInv, Parked
  <2>2. thread' # "running"
    BY <2>1 DEF Next, Interpreter, Server, Requests, Poll, Decide, Report, TakeSets,
       ApplySet, Wait, ProgramEnds, SetBreakpoints, Resume, SetVariable, GiveUpSet,
       Terminate, CopyPause, TerminateRun, Parked
  <2>. QED
    BY <2>2
<1>. QED
  BY <1>1, ProbeInvariant, PTL DEF Spec, AppliedInItsStop
=============================================================================
