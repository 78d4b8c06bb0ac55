# A verification project for the runtimes, the language server and the debugger

This directory models the parts of this repository whose correctness depends on
the *order* of events:

* quasi-parallel sequencing (Simula Standard, chapter 7), discrete event
  scheduling (chapter 12) and the linked sets under it (chapter 11), as
  `runtime/*.c` executes them below the code that the lowering emits;
* the native collector, whose roots move with those switches of stacks;
* coroutines on WebAssembly, where there is no stack to switch, and sequencing in
  the MIR interpreter, which moves vectors instead;
* the language server's concurrent handlers, and the debugger's two threads.

The rest of the repository is listed below, with the reason it is not modelled.

Contents: [inventory](#inventory), [modules](#modules), [state and
actions](#state-and-actions), [runs](#runs), [bounds](#bounds),
[fairness](#fairness), [proofs](#proofs), [what the runs
found](#what-the-runs-found), [limits](#limits), [not modelled](#not-modelled),
[plan](#plan).

## Inventory

The repository compiles Simula to a MIR (`src/mir`), which three back ends
execute: the MIR interpreter (`src/mir/interp`), native code through Cranelift
over the C runtime (`runtime/*.c`), and wasm. A language server (`src/lsp`) and
a debugger (`src/debug`) work on the front end and on the interpreter.

| Component | State it keeps | Operations | Hard behaviours | What makes it correct |
| --- | --- | --- | --- | --- |
| Sequencing, `runtime/sequencing.c` | per object: state, `park`, `attached_to`, `system`, `origin`; per system: `main_park`, `operative`; array of frames | system enter/exit, object create/start, detach, call, resume, final end, final end + resume | many stacks, each transfer may be executed on any of them; systems die with their block | reactivation points are distinct, name suspended stacks, none is lost |
| Stacks, `runtime/coro.c` | current stack, list of stacks, saved collector roots | create, switch, destroy | control into an ended stack; roots of parked stacks | exactly one stack runs |
| Scheduling, `runtime/sim.c` 18-445 | the sequencing set (SQS), `running`, `current`, `active` | begin/end, hold, passivate, activate (5 forms), cancel, process end, MAIN's end | two records of who runs; order among equal times; full set | order of time, one notice per process, time forward, due processes run |
| SIMSET, `runtime/sim.c` 447-623 | `SUC`, `PRED` of each linkage object | out, into, precede, follow, suc, pred, first, last, empty, cardinal; clear is compiled | a link is taken out before it is put in; walks skip scheduled processes | rings stay linked and behave as sequences |
| Collector, `runtime/gc.c` | blocks, root frames, gray stack, pins, deferral depth | alloc, push/pop roots, collect, defer, pin | allocation between two stores; a gray stack that fails to grow; root chains across switches | nothing in use is freed, nothing else is kept |
| Lowering, `src/mir/lower/builder` | none at run time | which runtime call a statement becomes, and which transfer follows | goto past a block's exit; direct reactivation is two calls | the statement means what the Standard says |
| Wasm stacks, `src/mir/{asyncify,seq_runtime}.rs` | phase, spill buffers, home cells | call, return, transfer, spill, rewind, trampoline | a resume point for each frame; a local that lives twice | as if each coroutine had a stack |
| Interpreter sequencing, `src/mir/interp/seq_ops.rs` | `frames`, parked call stacks, components, systems | the operations of chapter 7 | which vector holds whose stack, also on error paths | as the native runtime |
| Language server, `src/lsp/server.rs` | document, snapshot, token cache, debounce generation, configuration | open, change, save, close, configure, debounced analysis, token differences | awaits between check and use; late analyses | what is cached and published is of the text it says |
| Debugger, `src/debug/{probe,server}.rs` | run mode, breakpoints, `paused`, `wake`, requests, the last stop | poll, stop, continue, step, pause, set variable, terminate | two threads, one condition variable, requests at any moment | no lost resume, no missed breakpoint, true answers |
| BASICIO, `runtime/io.c` | open files, images, positions | open, close, inimage, outimage, locate | use after close, ends of file | life cycle of a file |
| Embedding, `runtime/embed.c` | export and host tables, one instance | register, instantiate, call, free | tables at their limit | |
| TEXT, arrays, environment, safety, front end, middle end, code generation, driver, editors | none that outlives a call (a random seed) | functions | | unit tests reach them |

Interactions inside the modelled part: compiled code calls `sim.c` to change the
SQS, then `simrt_sim_transfer_to_head`, which calls `simrt_seq_resume` or
`simrt_seq_detach`; these call `simrt_coro_switch`, which exchanges the
collector's chain of root frames. SIMSET asks the SQS whether a process is
scheduled. The two halves of the scheduler share the fact "which process is
operative" and keep it twice (`g_sim.running`, `system->operative`).

The hazards, with the line where each one bites and the properties that would
catch it, are in `PROJECT.json` under `hazards`; one without a property has a
note that says why.

## Modules

| Module | Models | Notes |
| --- | --- | --- |
| `ReactivationPoints` | the contract of `sequencing.h` | abstract: one program sequence control, one point per live object, and exchanges of them |
| `Sequencing` | `sequencing.c` over `coro.c` | one action per runtime entry; any program; implements `ReactivationPoints` |
| `OperatingChain` | the same, programs that keep the rules of 7.1-7.3 the runtime does not check | a detach or resume only from inside the object or system it is about |
| `Simulation` | `sim.c` and the lowering of scheduling statements, on top of `Sequencing` | any program; process ends, MAIN and the Simulation block included |
| `RuledSimulation` | the same, programs that keep the rules of chapter 12; one specification relaxes a rule, one restricts programs to queues | composes `Simulation` and `OperatingChain`; implements `ReactivationPoints` |
| `LinkedSets` | what SIMSET promises | abstract: one sequence of members per head |
| `Simset` | SIMSET in `sim.c`, and the compiled loop of `clear` | rings of SUC and PRED; implements `LinkedSets` |
| `NativeCollector` | `gc.c`, the roots across `coro.c`, helpers of `text.c` | the program, the root chains and a collection in steps |
| `CallStacks` | what the MIR assumes of coroutines | abstract: a stack per coroutine, and variables reached by name or capture |
| `SpillStacks` | `asyncify.rs` and the trampoline of `seq_runtime.rs` | one stack and spill buffers; implements `CallStacks` |
| `VmSequencing` | chapter 7 of `interp/seq_ops.rs` | implements `ReactivationPoints` a second time |
| `LanguageServer` | `lsp/server.rs`, one document | one step per hold of the lock |
| `OvertakenAnalyses` | the same, with a history of the analyses that are late | a history variable and the property about it |
| `DebugProbe` | `debug/probe.rs` and the sessions of `debug/server.rs` | one step per hold of the lock |
| `*Proofs` | theorems about the module they are named for | `ReactivationPoints`, `Sequencing` and `OperatingChain` (in `SequencingProofs`), `SpillStacks`, `RuledSimulation` (in `SimulationProofs`), `Simset`, `NativeCollector`, `VmSequencing`, `LanguageServer`, `DebugProbe` |
| `MC*` | small instances | constants and symmetry only |

A definition marked `Faulty:` or `mutant:` in its comment is the definition
below it with a plausible bug; no specification uses it. The checks put it in the
place of the right one and expect the property it is paired with to fail.

## State and actions

One action is everything up to the next point where somebody else can have
control: another stack in the runtimes, another holder of the lock in the
servers. `Stop("error")` is a call of the runtime's error exit, `"internal"` its own
`control returned into a terminated object`.

A program is not modelled: at every step the code on the running stack may
execute any statement about any object. That is more than any one program, so
what holds here holds for each. Where a property needs the program to keep a
rule, the rule is a module of its own (`OperatingChain`, `RuledSimulation`) and
the rules are listed with what happens without them under
[what the runs found](#what-the-runs-found).

Native sequencing, scheduling and SIMSET:

* `current` is `simrt_coro_current()`. An object that runs on a stack of its own
  and that stack are one value, because `component->head` is set once and never
  changes; the other stack is `Main`.
* `state`, `park`, `attachedTo`, `system`, `origin` are the fields of
  `simrt_component`. `"unborn"` is an object for which no component exists.
* `phase`, `mainPark`, `operative` are the systems. A system's handle is the
  activation of the block that heads it (`Instance`), plus `Outermost`. A freed
  system has phase `"freed"`, and an operation that reads it stops the model in
  `"dangling"`: the C reads freed memory and nothing is said of what follows.
* `frames` is the array `simrt_seq_frames`; `outward` walks the generators
  (`origin`) as `simrt_seq_system_for_block` does.
* `open`, `env` and `decl` stand for the compiled program: which system-heading
  blocks each stack is inside of, and which of them its code can name. `orphans`
  is a history variable: stacks whose place died with a system.
* `sqs` is `g_sim.sqs`, `running` is `g_sim.running`, `active` is `g_sim.active`;
  `finishing` is the position of a stack between MAIN's last statement and
  `simrt_sim_end`. A scheduling statement with its transfer is one step, because
  nothing runs between the two calls.
* `ring`, `scheduled`, `clearing` are SUC and PRED, the processes in the SQS,
  and the loop of `clear` while it runs.

The native collector (`NativeCollector`): the words of a payload and the slots of a
root frame are the set of blocks they point into (`ref`, `slot`). `stack` is the
program's activations, `roots` and `parked` the chains `g_gc.roots` and
`coro->gc_roots` that are meant to follow them. `held` and `defer` are a runtime
helper with blocks in C locals; `pins` is `g_ref_pins`. A collection is
`CollectStart`, then one step per block taken from the gray stack, per block the
overflow pass visits, and the sweep. Every push onto the gray stack may fail to
grow it.

WebAssembly stacks (`SpillStacks`): `phys` is the one stack, `frames` and `spine` the
two spill buffers of each coroutine (`CORO_FRAMES`, `CORO_REF_FRAMES`), `phase` is
`STATE_PHASE`. `Spill` unwinds one activation, `Trampoline` is one turn of its
loop, `Rewind` one function entered on the way back. `cells` are the heap homes of
locals whose address is taken; `copy` in an activation is the local itself.

The interpreter (`VmSequencing`): `stack` is whose call stack `Vm::frames` holds,
`parked` whose is stored with each component, `active` is `active_target`; the
rest has the names of the Rust fields. Systems are never freed here and the array
of frames has no limit, as in the code.

The language server (`LanguageServer`): a `job` is one handler, or the debounced task
it spawned, from its first step to its last; its `stage` is the await it stands
at. `doc`, `generation`, `snapshot`, `tokens`, `nextResult`, `checkOn` are the
fields of `State` for one URI. `shown` is the last `publishDiagnostics`, `editor`
the semantic tokens the editor holds after applying what it got, `history` the
text behind each version number.

The debugger (`DebugProbe`): `thread` is where the interpreter thread is in
`poll_span`, `server` the adapter thread inside a request. `mode`, `paused`,
`wake`, `terminated`, `pauseInfo`, `pollLine`, `breakLine`, `pending` are the fields
under the lock. `here` is the program's statement: its line, depth, what one
variable of the place holds and the lists that show it: a local is among the locals and in
the list of its frame, an attribute of `this` among the locals and in the list of its
object. A stop tells the line and has a copy of the value in each of these lists
(`Shown`); `setVariable` names a list, is refused unless the variable can be set
through it (`Settable`), and refreshes the copy in that list only (`Refreshed`).
`lastPause` is what the server answers from, whichever list it is asked for. A `setVariable` that nobody waits for any more
(`GiveUpSet`, the five seconds) stays in `pending` or `taken`; the one the server
waits for is the newest (`Awaited`). `resumed` and `unnoticed` are history: the
editor asked to go on since the last stop; a given-up request was applied since
the server last copied the stop. So is `through`, the list the variable was last
set through in this stop.

## Runs

| Run | Checks | Shows |
| --- | --- | --- |
| `sequencing` | `TypeOK`, `FramesAreLive`, `NoInternalFault`, `ReturnsWhenLeft`, `ImplementsPoints` | under any program, with recursion and goto, the native runtime implements the exchange of points; with more activations than frames the one too many is refused, and whatever is left in which order, every open block has its frame and no freed system has one |
| `chain` | `WayLeadsToMain`, `DetachedComponentsClosed`, `SystemsEndClean` | rule-abiding programs: the stacks split into the way to MAIN and one loop per detached component, and no block ends under an operative object |
| `scheduling` | `SqsOrdered`, `RunningIsOperative`, `NoticesCanRun`, `OthersKeepOrder`, `TimeForward` | the SQS is ordered, a statement moves one notice, the scheduler and sequencing agree who runs, time goes forward |
| `queue` | `SimTypeOK`, `DueRuns`, `ImplementsPoints` | nobody who is due is starved, also when the set is full; scheduling is exchanges of points |
| `simset` | `RingsLinked`, `WalksAgree`, `ImplementsSets`, `ClearEnds` | rings are sets; `clear` ends |
| `collector` | `NothingDangles`, `SweepIsExact`, `CollectionEnds` | a collection frees exactly what cannot be reached, and ends, wherever the gray stack fails to grow |
| `stacks` | `BuffersMatch`, `LocalsAreFresh`, `ImplementsStacks`, `TransferArrives` | unwinding and rewinding is a stack for each coroutine, with fresh locals, and every transfer arrives |
| `interp` | `StacksInPlace`, `ImplementsPoints` | the interpreter's vectors are where the fields say; same exchange of points |
| `lsp` | `CachesAgree`, `TokensAreWhole`, `VersionTellsText`, `CommitsAreCurrent`, `AnalysisIsAnswered` | late analyses do no harm and the last one asked for is published |
| `debugger` | `InspectionIsTrue`, `StopsHold`, `AppliedInItsStop`, `EveryArrivalStops`, `ResumesAreHeard`, `SetsAreAnswered` | no breakpoint passed, no stop cut short, no resume lost, no wait for a time limit; what the server answers about a variable is what the program holds: from every list while it was not set in this stop, then from the list it was last set through |
| `reactivate`, `lsp_reopen` | one property each | violations, [below](#what-the-runs-found) |

Each property of a passing run has a mutant under which the same run finds the
property violated.

## Bounds

| Bound | Value | Why it is enough |
| --- | --- | --- |
| objects | 2 in `sequencing` and `interp`, 3 in `chain`, `scheduling` and `queue` | a transfer involves at most the running stack, the target and the operative component; rings of components need three |
| block activations | 3 in `sequencing` and 2 in `interp`, all of one block; 1 elsewhere | recursion, nesting and interleaved exits need two, and a limit below their number one more |
| `MaxFrames` (256 in the code) | 2 for the 3 activations of `sequencing`; elsewhere equal to the activations | the block too many is refused while the frames of two stacks are mixed; elsewhere the limit is never in the way of what the run is about |
| `MaxNotices` (65536 in the code) | 3 | in `queue` three processes and MAIN compete for three places |
| `MaxTime`, `Timing` | 0..1; delays -1 and 1 | equal, earlier and later times, and a negative delay, all happen; a statement that would file later than `MaxTime` is not taken |
| links, heads | 4 and 2, of the links 2 processes | a neighbour on each side, the link itself and another set; two scheduled members in a row |
| blocks, root frames, stacks, pins | 2, 2, 2, 1 | one block that hides another, one parked frame and one at work |
| `Width`, `MaxDefer` | 2, 2 | an activation that holds both blocks; nested helpers |
| coroutines, functions on wasm | main and 2; a body and one procedure | a transfer among parked coroutines, frames of two kinds |
| `MaxDepth`, `Values` of locals | 2; 0 and 1 | a procedure that transfers; a stale value |
| texts, jobs, `MaxVersion`, `MaxGeneration`, `MaxResult` | 2, 2, 2, 2, 3 | one late analysis and one newer one, a reopen, a stale token result |
| lines, values, `MaxDepth`, `MaxSets` | 2, 2, 1, 2 | leave a line and come back, a given-up request before one that is awaited; stops are not bounded. With one frame a step over and a step out still may or may not end at the next line, as the statement counts as inlined or not. `MaxSets` is a bound of the model: `pending_sets` is a vector that grows |
| `Listings`, `Asked` | a local or an attribute; requests through the locals or an object | every list that is shown and every one that can be set through; an object request for a local is one that is refused |
| `Kinds` of breakpoints | either kind on one line, none on the other | no breakpoint depends on that of another line |

Each bound is a constant in a guard or a cfg; none changes what an operation does.
`chain` with three objects and two activations of one block was also run by hand
(11.9 million states, about five minutes) and passed. Symmetry is used only where
the run has no liveness property: objects are interchangeable in each of them, and
in `sequencing` the activations of its one block.

`CHECK_DEADLOCK FALSE` is set where the system may really stop: a program that
ended or was aborted (`stacks`, `collector`), a debug session that is over
(`debugger`), an editor that has used up the versions (`lsp`).

## Fairness

Assumed only by specifications that check liveness.

* `QueueSpec`: `WF(PhaseEnds)`. Control moves only when the running process
  gives it up, so nothing is guaranteed to a process unless each active phase
  ends. The assumption is that it does: the running component eventually holds,
  passivates, ends or leaves the block. It says nothing about *which* process
  is next; that is what `DueRuns` is about.
* `Simset`: `WF(ClearStep)`. `clear` is a straight loop without calls that
  could move control, so it continues once begun.
* `NativeCollector`: `WF(Collecting)`. The collector runs to its end on the
  stack that called it.
* `SpillStacks`: `WF(Spill \/ Trampoline \/ Rewind)`. Unwinding and rewinding are
  straight code that waits for nothing. The program's own steps have none.
* `LanguageServer`: `WF(JobStep(j))` for each job. A future that is spawned is
  polled until it is done, and the lock is fair (`tokio::sync::RwLock`). What the
  editor sends has no fairness.
* `DebugProbe`: `WF(Interpreter)`, `WF(Server)`. Both are threads of the operating
  system, and a wait on the condition variable ends after at most 100 ms. What
  the editor sends has none.

No fairness is assumed for any transfer of control in the native runtime or the
interpreter.

## Proofs

| Theorem | Module | For every |
| --- | --- | --- |
| `SequencingTypes`, `FramesStayLive`, `OperativeResumed` | `SequencingProofs` | set of objects, activations, recursion structure, frame limit |
| `SequencingImplementsPoints`, `ExchangesAreSafe` | `SequencingProofs` | the same |
| `SequencingPointsSafe`, `NeverInternalFault`, `GeneratorReturnsWhenLeft` | `SequencingProofs` | the same |
| `ControlLeadsToMain`, `ComponentsStayClosed`, `SystemsEndCleanly` | `SequencingProofs` | the same, for programs that detach and resume from inside |
| `SetStaysOrdered`, `OthersStayFiled`, `TimeNeverGoesBack` | `SimulationProofs` | finite set of objects, set of processes, times and delays, limits on time and on notices, for programs that keep the rules of `RuledSimulation` |
| `RunningAlwaysOperative`, `FiledCanRun`, `SchedulingTypes` | `SimulationProofs` | the same |
| `RuledImplementsPoints`, `RuledPointsSafe`, `RuledKeepsChain`, `RuledNeverFaults` | `SimulationProofs` | the same |
| `QueueKeepsRules` | `SimulationProofs` | the same |
| `RingsStayLinked`, `RingsImplementSets`, `WalksAlwaysAgree` | `SimsetProofs` | finite set of links, set of heads, subclasses of Head, processes |
| `TypeCorrect`, `ChainsFollowStacks`, `NothingIsFreedInUse`, `CollectionIsExact` | `NativeCollectorProofs` | finite set of blocks; set of frames, stacks and pins; width and depth |
| `SpillingImplementsStacks`, `BuffersAlwaysMatch`, `LocalsStayFresh` | `SpillStacksProofs` | set of coroutines, functions, values; references of each function; depth of the stacks |
| `VmTypes`, `VmFindsItsStacks`, `VmImplementsPoints` | `VmSequencingProofs` | set of objects, activations, recursion structure |
| `CachesAlwaysAgree`, `TokensStayWhole` | `LanguageServerProofs` | set of texts and jobs, numbers of versions and analyses |
| `CommittedIsCurrent`, `CachesStayConsistent`, `DiagnosticsNameTheirText` | `LanguageServerProofs` | the same, for editors that never use a version number twice |
| `ProbeTypes`, `OnlyRequestsEndStops`, `NoArrivalIsMissed`, `AnswersAreTrue`, `SetsStayInTheirStop` | `DebugProbeProofs` | lines, values, breakpoints, depths, length of the queue |

Assumptions. `SequencingAssumption`, `SimulationAssumption`, `SimsetAssumption`, `CollectorAssumption`,
`SpillStacksAssumption`, `VmAssumption`, `ServerAssumption` and `ProbeAssumption`, each in the module that
declares the constants; they say that the kinds of values are distinct, that
limits are natural numbers and, in `SimulationAssumption`, that the activations of a
Simulation block all are Simulation blocks. The sets need not
be finite, except the blocks of a heap, the links, whose members are counted, and, where scheduling is composed with
sequencing, the objects: a program creates finitely many, and the walk
`enclosing` looks at as many places as there are objects. One hypothesis is about the
environment and is stated in the theorems that need it, in `LanguageServerProofs`:
`~NumbersRestart`, the editor never uses a version number twice. The rules of
`OperatingChain` and `RuledSimulation` are not assumptions but specifications, and
[what the runs found](#what-the-runs-found) says what happens without them.

**Sequencing.** Three steps.

1. `SeqInv` is inductive (`SeqInit`, `SeqStep`, one step per action). `TypeOK` and
   `OperativeIsResumed` are not inductive alone. A transfer follows `park`,
   `attached_to` or `system`, so `ComponentsInv` says that the state of an object
   implies the field is set; a block is entered with a fresh handle, so
   `SystemsInv` says that every handle named by an object or a frame was entered,
   and that a system that is not live has no operative component.
2. Under `SeqInv` each step of `Sequencing` maps to a step of
   `ReactivationPoints` or to a stutter (`PointsInitially`, `PointsStepwise`),
   under the mapping `PointOf`, `LifeOf`, `orphans`: an attached object keeps
   its attachment point, a detached one its park, a resumed one the main
   component's place in its system.
3. `PointsInv`, proved of whatever makes such exchanges (`PointsBegin`,
   `PointsKept`, `ExchangesAreSafe`), then holds of the runtime
   (`SequencingPointsSafe`), and with
   it `NeverInternalFault`: the target of a switch is always somebody's
   point, hence not an ended stack. `GeneratorReturnsWhenLeft` uses that
   points are distinct: control arrives at an attachment point only through
   the object that keeps it.

`FramesStayLive` has an invariant of its own, `LiveInv`: what `FramesAreLive` says, frame
by frame, and that no block is open twice on one stack. The end of a block takes
the frame of its system (`ExitLive`); that this is the frame of no other open
block follows because a frame has one owner and a system one frame.

**The operating chain.** Which stack control comes back to is a question about
paths through the points, of any length, and neither a path nor its length is in
any one field. The proof gives every stack coordinates. A `Chart` has, for every
live coroutine, the base of its component (`comp`: MAIN or the detached object it
belongs to) and a number (`rank`) that is 0 at the base and one more than that of
the coroutine it would return to; no two coroutines have both the same, and the
top of each component is where the base's park, or control, is. `ChartInv` says that
there is a chart, and that the systems are `Nested` in it: the operative
component of a system lies above the system's head, and two systems on one
component either contain one another or are apart. Each operation then is one
or two of four changes of a chart: a new base (`AddBase`), a component cut in two at
a coroutine (`Cut`: detach), a component put on the top of another (`Join`: call,
resume), a base that goes (`DropBase`: the end of an object). That resume and detach act on
something control is inside of is what makes the cut part the top one, so that
nothing above it is lost. `WayLeadsToMain` and
`DetachedComponentsClosed` follow by induction on the rank: `Way(c)` is the least set
closed under the points, and the coroutines at or below a rank are such a set.
`SystemsEndClean` follows from `Nested`: a block ends when control is in it with
nothing above, and an operative component would be above.

**The interpreter.** The same refinement, but not in two steps: that the Vm finds
the stack it looks for needs that a point names a suspended stack, and that a
transfer is an exchange of points needs that the stack is found. `VmInv` is
`TypeOK`, `FieldsInv`, `StacksInPlace` and `PointsInv` at once; each lemma `...Keeps`
shows that one operation leaves `Kept`, its new fields together with the step of
the abstract specification, from which `PointsInv'` follows.

**Scheduling.** `SqsInv` is the type of the notices, the limit on their number and
`SqsOrdered`; it is inductive by itself. The work is in the operators. `Cancelled`
copies notices to the place that counts how many were kept (`OutCounts`,
`KthKeptIs`), so what it leaves keeps its order (`CancelledFacts`); a notice put
before everything later keeps the set in order (`NextAtFacts`, `OrderedInsert`),
also after the ties of another process (`InsertBesideOrdered`), and cancelling it
gives back the set without it (`FiledMovesOne`). `StepsOfSet` reduces every step of
`RuledNext`, whatever it does to components, to one of six changes of the set
(`SetStep`); `SqsStep`, `OneMoves` and `TimeMoves` are then about these six.
`TimeMoves` uses the rule that `reactivate` shows to be needed: the process that is
reactivated does not head the set, so a notice is left to tell the time.

**Scheduling and sequencing together.** `RuledInv` is `CoreInv`, `SqsInv` and `SimInv`.
`CoreInv` is `ChainInv` with the frames of live systems (`FramesInv`), the ages of
objects (`OriginInv`) and that no object is parked in MAIN. `SimInv` relates the two
records of who runs: `BlockInv` that the
Simulation block that is active has a live system, `RunningInv` that `running` is its
operative component, or MAIN with none; `ProcessInv` that a process is a component of
the block that declares it and never attached; `FinishInv` that only MAIN's
own stack is between MAIN's last statement and `simrt_sim_end`, in the Simulation
block and in no block inside it; and `Queueable` that whoever has a notice is MAIN or
a process of the block that has not ended.

* Every step of a ruled program is, for sequencing, an `OperatingStep`: a step of
  `ChainNext`, a stop, a new process, or a process's end that goes straight into the
  next (`EndsInto`), which is a cut, a drop and a join (`EndIntoChart`). So the chain's
  invariant is kept, and the step is an exchange of points
  (`OperatingPoints`), which gives `RuledImplementsPoints` and `RuledKeepsChain`.
* `simrt_seq_system_for_block` finds the system of a new process by following the
  generators. That it finds the Simulation block's needs that the walk ends and
  meets no other activation of the block on the way: `OriginInv` gives every
  object an age below which its generator's lies, and the walk reaches MAIN
  within as many steps as there are objects, by the pigeonhole principle.
* That control inside the block is inside `running` (`RunningAlwaysOperative`) is
  `OperatingInside`: by `Nested`, control inside a system with an operative component is above
  the system's head on the chart, hence in that component.
* A scheduling statement that moves control finds the next process detached
  (`FiledCanRun`), so the resume it makes never stops with an error and never
  enters an ended stack (`RuledNeverFaults`).

`QueueKeepsRules` makes all of this hold of the programs on which `DueRuns` is checked.

**SIMSET.** `RingInv` adds to `RingsLinked` the type of the links and that a head
of the exact class is always linked; each operation is one lemma about the two
updates of the links (`UnlinkKeeps`, `LinkBeforeKeeps`, `LinkAfterKeeps`).

`SetsInv`, the invariant for the refinement of `LinkedSets`, adds that the rings can
be laid out: there is an `m` with a sequence of links for each head such that `suc`
leads from the head through them and back, no link has two places, and every
link that is linked has one (`Laid`). The layout is not a variable and none
is added; it is found again in each state (`MembersAre`: the loop of `MembersIn`
computes it, by induction along the ring). Taking a link out of a ring takes its
place out of the layout (`TakeOut`), filling the gap between two neighbours makes
a place there (`PutIn`), and these two are what `LinkedSets` calls `Removed` and
`Placed`. Each operation of `sim.c` is one of them or both, so each is an
operation on sets (`OutStep`, `PrecedeStep`, `FollowStep`), and one that is given a
subclass of Head or something that is in no set leaves the link out, as `Out` does.

The walks are loops along a line of places that ends at a head (`Line`); a ring is
such a line in both directions (`RingLines`), and a loop that skips what is
scheduled stops at the first place that is not, within as many turns as there are
links (`SkipIs`). `Count` then goes through the idle places in order, which are `k`
when it is at the next one after `k` turns (`CountIs`).

**The collector.** `CollectorInv` is `TypeOK`, `HeapSafe`, `ChainsMatchStacks` and
`MarkInv`. What the program has in hand is managed (`HeapSafe`) because the roots
the collector reads are those of the stacks (`ChainsMatchStacks`) and, at the
sweep, the marks are closed. `MarkInv` is why they are: a marked block with an
unmarked referent is still on the gray stack, or before the overflow pass, or
the overflow flag is up; when nothing is pending the marks are exactly the
reachable blocks, and no mark was ever set on another.

**The WebAssembly stacks.** `SpillInv(v)` says that `v` gives every live coroutine a stack:
a sequence of functions, each at the call of the next (`Stacked`). While the
coroutine is current the outer part of it is `phys`; the rest is in `frames`, from
the other end, so the frame at place `i` belongs to the depth `i` from the
innermost (`Spilled`), and its references are where `Words` of the frames before it
says. `Counted` keeps `spine` exactly as long as that. `BuffersMatch` is not
inductive alone: that the function entered is that of the last frame needs that
the physical stack and the buffers are two parts of one stack. Like the layout in
`Simset`, `v` is no variable of the model; a step that calls, returns or enters a
coroutine names the new one. `Words` is a recursive function, and what one
computes can be used only where one exists and is unique (`AddsExists`,
`AddsUnique`, by induction on a set of numbers); from there `WordsAre` gives its
recursion and `WordsGrow` that the words of different frames are apart. A push
(`Pushed`) and a pop (`Popped`) are facts about two sequences, with no state.
`BelievedIs` reads the stacks back out of `phys`, `frames`, `spine` and `cells`, at
whatever point of an unwinding or rewinding, so each step is one of
`CallStacks` or a stutter (`SpillStep`). `LocalsAreFresh` is part of `SpillInv`, since
every way back to the phase `normal` reloads the homes.

**The language server.** `ServerInv` is `TypeOK`, `CachesAgree` and `VersionsInv`:
every version number anywhere, in the buffer, a job or a publication, is that of
the text it goes with. Then `is_current_analysis`, which compares numbers,
compares texts. What holds without that hypothesis has an
invariant of its own, `CacheInv`: the caches agree, and of the semantic tokens
(`TokensInv`) that an id names one set of tokens wherever it is kept, with the
editor, in the cache, or in an answer under way.

**The debugger.** `ProbeInv` is `TypeOK` and what the flags mean while the lock is
free. A paused program has a thread in its stop and no wake-up in store, and only
a request ends a pause (`FlagsInv`); the server waits for an answer only while the
program is paused (`ServerInv`): together they give `OnlyRequestsEndStops` and
`SetsStayInTheirStop`. What the stop tells is where the program is, and what its variable
holds in the list it was last set through, or in all (`PlaceInv`); the server's copy
is that of the probe, but between an answer and the copy of it, or after a
given-up request was applied (`CopyInv`). `QueueInv` (requests are out of the queue
only while they are applied) is what the bound on the queue needs.

## What the runs found

Each of the first two items is a run that ends in a violation, and a finding in
`PROJECT.json` with the comment or document it contradicts.

* `reactivate`: direct reactivation of the process at the head of the set can
  move time backwards. It lowers to a cancel and an activation at the current
  time (`stmt.rs:131`), and the current time is read after the cancel.
* `lsp_reopen`: `did_close` drops the debounce generation, so after a reopen the
  generations start again; with an editor that also numbers versions from 1, an
  analysis that was under way at the close, with generation 1, is committed as that of
  the new text although the reopened document has asked for its own, which has generation
  1 too. `OvertakenAnalyses` counts an analysis as late only when another one was
  asked for while it was under way; with a `did_close` that keeps the counter the same
  instance passes.

Rules that `OperatingChain` and `RuledSimulation` put on programs are those whose
absence TLC turned into a trace in which the runtime goes wrong. Besides
`reactivate`:

* every process that is generated or scheduled is declared by the Simulation block
  itself, the one that runs now: one of an inner block has another system, and
  `running` can name it while it has no control;
* only scheduling statements move processes: a process that was called and ends
  is not left towards its caller, and control can come back into it;
* hold and passivate are executed by MAIN or a process: in a plain coroutine they
  file that coroutine (`sim.c:243`);
* no goto leaves the Simulation block: `simrt_sim_end` is skipped and the next
  Simulation block is refused as nested;
* an object is detached, and a component resumed, only from inside: otherwise
  the way back to MAIN is cut.

The rules do not keep a process from activating MAIN after the block's last
statement; the block then ends with notices left, which `simrt_sim_end` drops.

Noticed while modelling, with no run of its own:

* a class of an outer activation, generated inside an inner activation of the
  same block, is given the inner one's system (`sequencing.c:206`);
* a goto out of a block that heads a system leaves its frame behind
  (`stmt.rs:208`), so the limit "on simultaneously active quasi-parallel systems"
  (`sequencing.c:165`) counts blocks that are not active any more: with two activations
  and `MaxFrames` 1 the second is refused while no block is open;
* `setVariable` refreshes one of the copies that a stop has of a variable
  (`probe.rs:558`): an attribute that was set as a local is answered with its old value
  in its object, and the other way round, and a local in the list of its frame.
  `InspectionIsTrue` promises nothing for these lists once a variable was set (`through`);
* `into` on an object of a subclass of Head takes the link out and puts it
  nowhere (`sim.c:479`);
* indexing publishes diagnostics of a file after it checked, across an await, that
  the file is not open (`server.rs:500`); `did_close` publishes an empty list that
  may arrive after a reopen (`server.rs:619`);
* a variable that a helper changed through its address is not read again by a
  suspendable caller when the helper cannot suspend (`emit.rs:2492`);
  `LocalsAreFresh` names the exception (`unread`);
* the interpreter has no limit on notices where the native runtime has one
  (`seq_ops.rs:1091`);
* `scopes` hands out the list of a frame, through which nothing can be set
  (`server.rs:376`); and the numbers of references overlap: after 900 calls a frame's
  list has the number of object #1's (`probe.rs:553`);
* `break_on_exceptions` is set and never read (`probe.rs:258`);
* a `setVariable` that ran into its five seconds stays queued (`probe.rs:287`): the
  editor is told it failed, it is applied all the same, at a later stop if need be,
  and the server's copy of the stop does not show it (`unnoticed`);
* `docs/RUNTIME.md` says that activation order uses a monotonic sequence number;
  `seq` in a notice is written and never read, and the order among equal times is
  that of insertion.

## Limits

Model-checked only, on the bounds above: `DueRuns`, `ClearEnds`, `CollectionEnds`,
`TransferArrives`, `AnalysisIsAnswered`, `ResumesAreHeard` and `SetsAreAnswered`. They are
liveness and stay with TLC: the prover does not reason about ENABLED.

Proved and not repeated in a run: `OperativeIsResumed`, `PointsSafe`,
`ChainsMatchStacks`, and `TypeOK` of the collector, the language server, the
interpreter and the debugger. The properties the runs do check fail when these do.

Left out of the models: `g_sim.current`, which only the collector and the reload
of `this` read; the unread `seq`; tracing; stacks at the level of memory;
floating-point times (integers here); out of memory except where the gray stack
meets it. In SIMSET the walks' limit of 65536 steps is not modelled: no more
processes than that can be scheduled. In the collector the free list is a free
place for a block and the block index an exact lookup. In `SpillStacks` a function
has one local whose address is taken; in `LanguageServer` there is one document,
and the analysis itself is a function of the text; in `DebugProbe` there is one
variable at a time, shown in lists that have names and not numbers and spelled as listed;
whether a value fits its type is any answer; log points and frames of inlined procedures are
left out. A task of the analysis pool that is lost (`server.rs:257`) is left out of
`LanguageServer`: panics are caught inside the task, so that happens only when
the runtime shuts down.

## Not modelled

`PROJECT.json` lists every component with its status and reason. In short:

* the front end, the middle end and code generation, most of the lines of this
  repository, are pure translations from trees to trees, to MIR and to machine
  code or wasm. They keep no state between calls and nothing in them depends on
  an order of events; to state that they are right needs a semantics of source
  and target, which is a project of another kind. This is why the models map a
  small share of the repository's lines and most of those of the runtimes'
  stateful parts;
* the interpreter's and the wasm runtime's chapters 11 and 12, which repeat
  `sim.c` statement by statement; where they differ from it is noted above;
* BASICIO, TEXT, arrays and the environment: sequential operations on one value;
* the embedding interface: tables that are filled before the program starts;
* the workspace index of the language server and watched files;
* the driver, the editor extension, the website and the examples.

## Plan

Done: the modules above. Left, in the order of what it would add:

1. The workspace index in `LanguageServer`: a job that publishes for files that are
   not open, against the document handlers, with the comment "Never publish" as
   its property.
2. Chapters 11 and 12 of the interpreter (`seq_ops.rs`), as a second
   implementation of what `Simulation` does, to compare the two at a full set.
3. BASICIO's file life cycle.
