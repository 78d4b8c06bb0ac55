------------------------------ MODULE DebugProbe ------------------------------
(***************************************************************************)
(* The debugger's probe (src/debug/probe.rs) between the thread that runs  *)
(* the interpreter and the thread that serves the editor (server.rs).      *)
(*                                                                         *)
(* What a thread does while it holds the probe's lock is one step.  The    *)
(* program is any sequence of statements: before each, poll_span is called *)
(* with its line, the number of frames and what one variable of the place  *)
(* holds.  The snapshot of a stop lists a variable in several lists, each  *)
(* with a copy of the value: "locals" (REF_LOCALS, and what evaluate looks *)
(* in), "frame" (REF_FRAME_BASE + id, which scopes hands out) has them but *)
(* for the attributes of `this`, which "object" (REF_OBJECT_BASE +         *)
(* identity) has.  The editor may send any request at any time; the server *)
(* works on one at a time.  One launch: the next has a probe of its own.   *)
(*                                                                         *)
(* A wait on the condition variable lasts 100 ms at most and then looks at *)
(* everything again, so it is not a state: the thread goes round its loop. *)
(***************************************************************************)
EXTENDS Naturals, Sequences

CONSTANTS Line,       \* source lines
          Kinds,      \* the breakpoints the editor sets on each line
          Value,      \* values of the program's variable
          Listings,   \* for each variable there is, the lists that show it
          Asked,      \* the requests to set it that the editor may send
          MaxDepth,   \* bound on the frames of the program
          MaxSets,    \* bound on the setVariable requests in the queue
          None

List    == {"locals", "frame", "object"}
Request == [list : List, value : Value]

ASSUME ProbeAssumption == /\ MaxDepth \in Nat \ {0} /\ MaxSets \in Nat
                          /\ Kinds \in [Line -> SUBSET {"plain", "conditional"}]
                          /\ Listings \subseteq SUBSET List /\ Asked \subseteq Request
                          /\ None \notin Line \cup List

VARIABLES
  thread,       \* what the interpreter thread does
  here,         \* the statement it is at: line, depth, what its variable
                \* holds and the lists that show the variable
  breakpoints,  \* kind of the breakpoint on each line
  mode,         \* run mode, with the depth a step started at
  entry,        \* stop_on_entry /\ ~entry_seen
  paused, wake, terminated,
  pauseInfo,    \* what the last stop was about
  pollLine,     \* last_poll_line
  breakLine,    \* last_breakpoint_line
  pending,      \* setVariable requests nobody has taken
  taken,        \* those the interpreter thread has taken
  server,       \* the server thread: "ready", or inside a request
  session,      \* the server has a session
  lastPause,    \* what the server answers questions from
  through,      \* the list the variable was last set through in this stop, or None
  unnoticed,    \* a variable was set by a request the server had given up, since
  resumed       \* the editor has asked to go on since the last stop

run    == <<mode, paused, wake>>
place  == <<entry, pollLine, breakLine, breakpoints>>
sets   == <<pending, taken, through>>
editor == <<server, session, lastPause, unnoticed>>
vars   == <<thread, here, run, terminated, pauseInfo, place, sets, editor, resumed>>

Parked   == {"reporting", "parking", "applying"}
Stepping == {"stepIn", "stepOver", "stepOut"}
Place    == [line : Line, depth : 1..MaxDepth, value : Value, lists : Listings]
To(m, d) == [kind |-> m, depth |-> d]

(* What a stop tells of a place: the snapshot has a copy in each list. *)
Shown(p) == [line |-> p.line,
             copies |-> [l \in List |-> IF l \in p.lists THEN p.value ELSE None]]

Init == /\ thread = "running"
        /\ here \in Place /\ here.depth = 1
        /\ breakpoints = [l \in Line |-> "none"]
        /\ entry \in BOOLEAN
        /\ mode = To(IF entry THEN "stepIn" ELSE "continue", 1)
        /\ paused = FALSE /\ wake = FALSE /\ terminated = FALSE
        /\ pauseInfo = None /\ lastPause = None
        /\ pollLine = None /\ breakLine = None
        /\ pending = <<>> /\ taken = <<>> /\ through = None
        /\ server = "ready" /\ session = TRUE /\ unnoticed = FALSE
        /\ resumed = FALSE

------------------------------------------------------------------------------
(* The interpreter thread. *)

(* The program runs up to its next statement, and is polled unless it was
   terminated: then it runs on without stops.                                *)
Poll(p) ==
    /\ thread = "running"
    /\ p.depth \in {here.depth - 1, here.depth, here.depth + 1}
    /\ here' = p
    /\ thread' = IF terminated THEN "running" ELSE "polling"
    /\ UNCHANGED <<run, terminated, pauseInfo, place, sets, editor, resumed>>

(* A step is over: on another line, and for a step over or out not inside
   what was stepped over.  Whether a procedure that was inlined counts as
   inside is the spans' business: inner is any answer.                       *)
StepStops(inner) ==
    /\ here.line # pollLine
    /\ \/ mode.kind = "stepIn"
       \/ mode.kind = "stepOver" /\ here.depth <= mode.depth /\ ~inner
       \/ mode.kind = "stepOut" /\ (here.depth < mode.depth \/ ~inner)

FaultyMark == breakLine                          \* mutant: kept when the line is left

(* last_breakpoint_line, forgotten when the line is another. *)
Mark == IF here.line = pollLine THEN breakLine ELSE None

(* Whether the condition of a breakpoint holds is any answer. *)
BreakStops(holds) ==
    /\ Mark # here.line
    /\ breakpoints[here.line] \in IF holds THEN {"plain", "conditional"} ELSE {"plain"}

FaultyStop ==                                    \* mutant: an old wake-up stays
    /\ pauseInfo' = Shown(here)
    /\ paused' = TRUE /\ UNCHANGED wake
    /\ mode' = IF mode.kind \in Stepping THEN To("continue", 1) ELSE mode
    /\ thread' = "reporting"
    /\ resumed' = FALSE /\ through' = None

Stop == /\ pauseInfo' = Shown(here)
        /\ paused' = TRUE /\ wake' = FALSE
        /\ mode' = IF mode.kind \in Stepping THEN To("continue", 1) ELSE mode
        /\ thread' = "reporting"
        /\ resumed' = FALSE /\ through' = None

GoOn == thread' = "running" /\ UNCHANGED <<run, pauseInfo, resumed, through>>

Decide ==
    /\ thread = "polling"
    /\ IF mode.kind = "terminate" THEN GoOn /\ UNCHANGED place
       ELSE \E inner, holds \in BOOLEAN :
              LET onBreak == ~entry /\ ~StepStops(inner) /\ BreakStops(holds)
              IN  /\ entry' = FALSE
                  /\ pollLine' = here.line
                  /\ breakLine' = IF onBreak THEN here.line ELSE Mark
                  /\ UNCHANGED breakpoints
                  /\ IF entry \/ StepStops(inner) \/ onBreak THEN Stop ELSE GoOn
    /\ UNCHANGED <<here, terminated, pending, taken, editor>>

FaultyReport ==                                  \* mutant: paused once it is reported
    /\ thread = "reporting"
    /\ thread' = "parking"
    /\ lastPause' = pauseInfo
    /\ paused' = TRUE /\ wake' = FALSE
    /\ UNCHANGED <<here, mode, terminated, pauseInfo, place, sets, server, session, unnoticed, resumed>>

(* on_stopped: the server gets the stop, the editor a `stopped` event. *)
Report == /\ thread = "reporting"
          /\ thread' = "parking"
          /\ lastPause' = pauseInfo /\ unnoticed' = FALSE
          /\ UNCHANGED <<here, run, terminated, pauseInfo, place, sets, server, session, resumed>>

(* park_while_paused takes the requests, applies each and looks whether it may go on. *)
TakeSets == /\ thread = "parking"
            /\ taken' = pending /\ pending' = <<>>
            /\ thread' = "applying"
            /\ UNCHANGED <<here, run, terminated, pauseInfo, place, through, editor, resumed>>

(* The request at hand is the one the server waits for: each has a reply channel
   of its own, and only the newest one's is still listened to.               *)
Awaited == server = "setting" /\ pending = <<>> /\ Len(taken) = 1

(* debug_set_variable knows what is listed as a local or in an object; a frame's
   list, though the server hands out its reference, is refused.              *)
Settable(r) == r.list \in here.lists \ {"frame"}

FaultyRefreshed(r) ==                            \* mutant: always the locals
    [pauseInfo EXCEPT !.copies["locals"] = r.value]

(* refresh_snapshot_entry: the copy in the list that the request names. *)
Refreshed(r) == [pauseInfo EXCEPT !.copies[r.list] = r.value]

(* The value may not be one of the variable's type.  The reply is for the server,
   or for nobody when the server gave the request up.                        *)
ApplySet ==
    /\ thread = "applying" /\ taken # <<>>
    /\ LET r == Head(taken) IN
       \E ok \in {FALSE, Settable(r)} :
         /\ here' = IF ok THEN [here EXCEPT !.value = r.value] ELSE here
         /\ pauseInfo' = IF ok THEN Refreshed(r) ELSE pauseInfo
         /\ through' = IF ok THEN r.list ELSE through
         /\ server' = IF ~Awaited THEN server ELSE IF ok THEN "copying" ELSE "ready"
         /\ unnoticed' = (unnoticed \/ (ok /\ ~Awaited))
    /\ taken' = Tail(taken)
    /\ UNCHANGED <<thread, run, terminated, place, pending, session, lastPause, resumed>>

FaultyWait ==                                    \* mutant: requests taken once per stop
    /\ thread = "applying" /\ taken = <<>>
    /\ ~paused \/ wake \/ terminated
    /\ thread' = "running" /\ paused' = FALSE /\ wake' = FALSE
    /\ UNCHANGED <<here, mode, terminated, pauseInfo, place, sets, editor, resumed>>

(* All are applied: it goes on, or waits a while and looks for requests again. *)
Wait == /\ thread = "applying" /\ taken = <<>>
        /\ IF ~paused \/ wake \/ terminated
           THEN thread' = "running" /\ paused' = FALSE /\ wake' = FALSE
           ELSE thread' = "parking" /\ UNCHANGED <<paused, wake>>
        /\ UNCHANGED <<here, mode, terminated, pauseInfo, place, sets, editor, resumed>>

(* The program ends, by itself or with an error; then the thread terminates its probe. *)
ProgramEnds ==
    /\ thread = "running"
    /\ thread' = "ended"
    /\ terminated' = TRUE
    /\ mode' = To("terminate", 1) /\ paused' = FALSE /\ wake' = TRUE
    /\ UNCHANGED <<here, pauseInfo, place, sets, editor, resumed>>

------------------------------------------------------------------------------
(* The server thread. *)

CanServe == server = "ready" /\ session

SetBreakpoints(f) ==
    /\ CanServe
    /\ breakpoints' = f
    /\ UNCHANGED <<thread, here, run, terminated, pauseInfo, entry, pollLine, breakLine, sets,
                   editor, resumed>>

(* continue, next, stepIn, stepOut; a pause request is a stepIn. *)
Resume(m) ==
    /\ CanServe
    /\ mode' = To(m, IF m \in {"stepOver", "stepOut"} THEN here.depth ELSE 1)
    /\ paused' = FALSE /\ wake' = TRUE
    /\ resumed' = TRUE
    /\ UNCHANGED <<thread, here, terminated, pauseInfo, place, sets, editor>>

FaultySetVariable(r) ==                          \* mutant: paused not looked at
    /\ CanServe /\ Len(pending) + Len(taken) < MaxSets
    /\ pending' = Append(pending, r)
    /\ server' = "setting"
    /\ UNCHANGED <<thread, here, run, terminated, pauseInfo, place, taken, through, session,
                   lastPause, unnoticed, resumed>>

(* request_set_variable: refused while the program runs. *)
SetVariable(r) ==
    /\ CanServe /\ paused /\ Len(pending) + Len(taken) < MaxSets
    /\ pending' = Append(pending, r)
    /\ server' = "setting"
    /\ UNCHANGED <<thread, here, run, terminated, pauseInfo, place, taken, through, session,
                   lastPause, unnoticed, resumed>>

(* The five seconds are over: nobody waits for the request, which stays queued. *)
GiveUpSet == /\ server = "setting"
             /\ server' = "ready"
             /\ UNCHANGED <<thread, here, run, terminated, pauseInfo, place, sets, session,
                            lastPause, unnoticed, resumed>>

CopyPause == /\ server = "copying"
             /\ lastPause' = pauseInfo /\ unnoticed' = FALSE
             /\ server' = "ready"
             /\ UNCHANGED <<thread, here, run, terminated, pauseInfo, place, sets, session, resumed>>

(* request_terminate stores the flag before it takes the lock. *)
Terminate == /\ CanServe
             /\ terminated' = TRUE
             /\ server' = "terminating" /\ session' = FALSE
             /\ UNCHANGED <<thread, here, run, pauseInfo, place, sets, lastPause, unnoticed, resumed>>

TerminateRun == /\ server = "terminating"
                /\ mode' = To("terminate", 1) /\ paused' = FALSE /\ wake' = TRUE
                /\ server' = "ready"
                /\ UNCHANGED <<thread, here, terminated, pauseInfo, place, sets, session,
                               lastPause, unnoticed, resumed>>

------------------------------------------------------------------------------
Interpreter == Decide \/ Report \/ TakeSets \/ ApplySet \/ Wait
Server      == CopyPause \/ TerminateRun
Requests    == \/ \E f \in [Line -> {"none", "plain", "conditional"}] :
                     (\A l \in Line : f[l] \in Kinds[l] \cup {"none"}) /\ SetBreakpoints(f)
               \/ \E m \in Stepping \cup {"continue"} : Resume(m)
               \/ \E r \in Asked : SetVariable(r)
               \/ GiveUpSet \/ Terminate

Next == (\E p \in Place : Poll(p)) \/ ProgramEnds \/ Interpreter \/ Server \/ Requests

(* Both threads go on with what they have begun; the program need not poll
   again and the editor need not ask.                                        *)
Spec == Init /\ [][Next]_vars /\ WF_vars(Interpreter) /\ WF_vars(Server)

------------------------------------------------------------------------------
(* What each variable can hold. *)
TypeOK ==
    /\ thread \in Parked \cup {"running", "polling", "ended"}
    /\ here \in Place
    /\ breakpoints \in [Line -> {"none", "plain", "conditional"}]
    /\ mode \in [kind : Stepping \cup {"continue", "terminate"}, depth : 1..MaxDepth]
    /\ {entry, paused, wake, terminated, session, unnoticed, resumed} \subseteq BOOLEAN
    /\ {pauseInfo, lastPause} \subseteq
         [line : Line, copies : [List -> Value \cup {None}]] \cup {None}
    /\ pollLine \in Line \cup {None} /\ breakLine \in Line \cup {None}
    /\ pending \in Seq(Request) /\ taken \in Seq(Request)
    /\ through \in List \cup {None}
    /\ Len(pending) + Len(taken) <= MaxSets
    /\ server \in {"ready", "setting", "copying", "terminating"}

(* A stop lasts until the editor asks to go on or to end: a wake-up from an
   earlier request, a pause asked for while the program ran, is not taken for
   one.                                                                      *)
StopsHold == [][thread' = "running" /\ thread \in Parked => resumed \/ terminated]_vars

(* While the program is stopped the server answers questions about its variable
   with what it holds, from every list; once it was set, from the list that
   the last request named, which is the only one that is refreshed; but for what
   a request set that the server had given up.                               *)
CanAnswer == thread \in Parked \ {"reporting"} /\ server # "copying" /\ ~unnoticed

InspectionIsTrue ==
    CanAnswer => /\ lastPause.line = here.line
                 /\ \A l \in here.lists :
                      through \in {None, l} => lastPause.copies[l] = here.value

(* "Queue a `setVariable` while the interpreter is paused; blocks until
   applied": the program does not go on while the server waits for one, also
   when requests it gave up are in the queue before it.                      *)
AppliedInItsStop ==
    [][thread' = "running" /\ thread \in Parked => server # "setting"]_vars

(* Every time the program comes to a line with a plain breakpoint it stops. *)
EveryArrivalStops ==
    [][thread = "polling" /\ thread' = "running" /\ mode.kind # "terminate" =>
         here.line = pollLine \/ breakpoints[here.line] # "plain"]_vars

(* A request to go on or to end is heard, at whatever moment of the stop it
   arrives.                                                                  *)
ResumesAreHeard == thread \in Parked /\ (~paused \/ terminated) ~> thread \notin Parked

(* The server need not wait for its five seconds: a setVariable is answered. *)
SetsAreAnswered == server = "setting" ~> server # "setting"
===============================================================================
