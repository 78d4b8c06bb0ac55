----------------------------- MODULE SpillStacks -----------------------------
(***************************************************************************)
(* Coroutines on WebAssembly: one physical stack, and a spill buffer for   *)
(* each coroutine that is not on it.  mir/asyncify.rs rewrites every       *)
(* function a transfer can unwind through; mir/seq_runtime.rs holds the    *)
(* buffers and the trampoline.                                             *)
(*                                                                         *)
(* A transfer names the next coroutine and the phase becomes "unwinding":  *)
(* each activation spills its locals, innermost first, and returns.  When  *)
(* the stack is empty the trampoline enters the next coroutine, afresh or  *)
(* "rewinding": each function entered takes its frame back, outermost      *)
(* first, and jumps to where it left off, which for a call is the call     *)
(* itself and for a transfer the point after it.                           *)
(*                                                                         *)
(* A local whose address is taken lives twice: the local the function      *)
(* computes with and a heap cell ("home") that captures point to.          *)
(***************************************************************************)
EXTENDS Naturals, Sequences, SequencesExt

CONSTANTS Coroutines, Main, Functions, Body, RefSlots, Values, Initial, MaxDepth

ASSUME SpillStacksAssumption ==
    /\ Main \in Coroutines
    /\ Body \in Functions
    /\ RefSlots \in [Functions -> Nat]
    /\ Initial \in Values
    /\ MaxDepth \in Nat \ {0}

VARIABLES
    phys,         \* the physical stack: activations of `current`, innermost last
    frames,       \* CORO_FRAMES of each coroutine, the innermost frame first
    spine,        \* CORO_REF_FRAMES of each coroutine
    cells,        \* per coroutine the home cells of its activations, by depth
    phase,        \* STATE_PHASE
    current,      \* STATE_CURRENT
    next,         \* STATE_NEXT
    started,      \* CORO_STARTED
    over,         \* the body ended: nothing names the coroutine any more
    unread        \* a helper stored to the running activation's variable, and
                  \* the local was not read from its home since

vars == <<phys, frames, spine, cells, phase, current, next, started, over, unread>>

\* Where an activation goes on: inside a call, or after a transfer.
Transfer == "transfer"
Sites == Functions \cup {Transfer}

\* STATE_PHASE; "done" is the trampoline's return.
Phases == {"normal", "unwinding", "rewinding", "done"}

RefsOf(c, depth, fn) == [i \in 1 .. RefSlots[fn] |-> <<c, depth, i>>]

\* An activation entered cold: its home is allocated and gets the local's value.
Enter(c, depth, fn) ==
    [fn |-> fn, copy |-> Initial, home |-> <<c, depth>>, refs |-> RefsOf(c, depth, fn),
     site |-> Transfer]

Init ==
    /\ phys = <<Enter(Main, 1, Body)>>
    /\ frames = [c \in Coroutines |-> <<>>]
    /\ spine = [c \in Coroutines |-> <<>>]
    /\ cells = [c \in Coroutines |-> IF c = Main THEN <<Initial>> ELSE <<>>]
    /\ phase = "normal"
    /\ current = Main
    /\ next = Main
    /\ started = [c \in Coroutines |-> c = Main]
    /\ over = [c \in Coroutines |-> FALSE]
    /\ unread = FALSE

Top == phys[Len(phys)]

(***************************************************************************)
(* The program runs.                                                       *)
(***************************************************************************)
Call(fn) ==
    /\ phase = "normal"
    /\ fn # Body
    /\ Len(phys) < MaxDepth
    /\ phys' = Append([phys EXCEPT ![Len(phys)].site = fn],
                      Enter(current, Len(phys) + 1, fn))
    /\ cells' = [cells EXCEPT ![current] = Append(@, Initial)]
    /\ unread' = FALSE
    /\ UNCHANGED <<frames, spine, phase, current, next, started, over>>

\* The value a home pointer leads to.
Cell(home) == cells[home[1]][home[2]]

\* Faulty: nothing is read from the home.
FaultyReload(activation) == activation

\* emit_reload_homes: the local takes its cell's value again.
Reload(activation) == [activation EXCEPT !.copy = Cell(activation.home)]

\* The caller finds the phase normal and goes on, with its homes reloaded.
Return ==
    /\ phase = "normal"
    /\ Len(phys) > 1
    /\ LET caller == Len(phys) - 1
       IN  phys' = [SubSeq(phys, 1, caller) EXCEPT
                      ![caller] = [Reload(@) EXCEPT !.site = Transfer]]
    /\ cells' = [cells EXCEPT ![current] = Front(@)]
    /\ unread' = FALSE
    /\ UNCHANGED <<frames, spine, phase, current, next, started, over>>

\* An assignment to the local is followed by a store to its home.
Assign(v) ==
    /\ phase = "normal"
    /\ phys' = [phys EXCEPT ![Len(phys)].copy = v]
    /\ cells' = [cells EXCEPT ![current][Len(phys)] = v]
    /\ unread' = FALSE
    /\ UNCHANGED <<frames, spine, phase, current, next, started, over>>

\* A store through a captured pointer that changes the variable.  The running
\* activation's own variable is stored to by a helper that was given its address
\* and cannot suspend; the pass leaves such a call as it is, without a reload.
AssignCaptured(c, depth, v) ==
    /\ phase = "normal"
    /\ ~over[c]
    /\ depth \in DOMAIN cells[c]
    /\ v # cells[c][depth]
    /\ cells' = [cells EXCEPT ![c][depth] = v]
    /\ unread' = (unread \/ <<c, depth>> = Top.home)
    /\ UNCHANGED <<phys, frames, spine, phase, current, next, started, over>>

(***************************************************************************)
(* Control is transferred.                                                 *)
(***************************************************************************)
\* coro_switch: name the buffer to enter and ask the stack to unwind.
CoroSwitch(to) ==
    /\ phase = "normal"
    /\ to # current
    /\ ~over[to]
    /\ next' = to
    /\ phase' = "unwinding"
    /\ unread' = FALSE

SwitchTo(to) ==
    /\ CoroSwitch(to)
    /\ UNCHANGED <<phys, frames, spine, cells, current, started, over>>

\* A component's body ends in seq.terminate, a transfer that does not return.
End(to) ==
    /\ current # Main
    /\ Len(phys) = 1
    /\ CoroSwitch(to)
    /\ over' = [over EXCEPT ![current] = TRUE]
    /\ cells' = [cells EXCEPT ![current] = <<>>]
    /\ UNCHANGED <<phys, frames, spine, current, started>>

\* `main` returns to the trampoline with the phase normal: the program is done.
Finish ==
    /\ phase = "normal"
    /\ current = Main
    /\ Len(phys) = 1
    /\ phase' = "done"
    /\ phys' = <<>>
    /\ over' = [over EXCEPT ![Main] = TRUE]
    /\ cells' = [cells EXCEPT ![Main] = <<>>]
    /\ unread' = FALSE
    /\ UNCHANGED <<frames, spine, current, next, started>>

\* A call is re-entered, because it holds the frames being restored; a
\* transfer has happened by the time control comes back.
ResumePoint(activation) == activation.site

\* Faulty: the spilled copy is written to the home, over what a capture wrote.
FaultySpill ==
    /\ phase = "unwinding"
    /\ phys # <<>>
    /\ frames' = [frames EXCEPT ![current] = Append(@,
                    [fn |-> Top.fn, resume |-> ResumePoint(Top), copy |-> Top.copy,
                     home |-> Top.home, refCount |-> Len(Top.refs)])]
    /\ spine' = [spine EXCEPT ![current] = @ \o Top.refs]
    /\ cells' = [cells EXCEPT ![current][Len(phys)] = Top.copy]
    /\ phys' = Front(phys)
    /\ UNCHANGED <<phase, current, next, started, over, unread>>

\* frame_push and the stores that follow it.  The home cell is not written:
\* a capture may have updated it.
Spill ==
    /\ phase = "unwinding"
    /\ phys # <<>>
    /\ frames' = [frames EXCEPT ![current] = Append(@,
                    [fn |-> Top.fn, resume |-> ResumePoint(Top), copy |-> Top.copy,
                     home |-> Top.home, refCount |-> Len(Top.refs)])]
    /\ spine' = [spine EXCEPT ![current] = @ \o Top.refs]
    /\ phys' = Front(phys)
    /\ UNCHANGED <<cells, phase, current, next, started, over, unread>>

\* The trampoline makes `next` current and enters it, afresh the first time.
Trampoline ==
    /\ phase = "unwinding"
    /\ phys = <<>>
    /\ current' = next
    /\ IF started[next]
       THEN /\ phase' = "rewinding"
            /\ UNCHANGED <<phys, cells, started>>
       ELSE /\ phase' = "normal"
            /\ phys' = <<Enter(next, 1, Body)>>
            /\ cells' = [cells EXCEPT ![next] = <<Initial>>]
            /\ started' = [started EXCEPT ![next] = TRUE]
    /\ UNCHANGED <<frames, spine, next, over, unread>>

\* The function whose rewind prologue runs next.
Entering == IF phys = <<>> THEN Body ELSE Top.site

\* Faulty: the last frame taken back does not end the rewinding.
FaultyPhaseAfterPop(rest) == "rewinding"

\* frame_pop leaves the phase when the scalar buffer is empty.
PhaseAfterPop(rest) == IF rest = <<>> THEN "normal" ELSE "rewinding"

\* Faulty: the references of the popped frame stay in the buffer.
FaultySpineAfterPop(words, base) == words

\* CORO_REF_SP moves back to where the popped frame's references begin.
SpineAfterPop(words, base) == SubSeq(words, 1, base)

\* The rewind prologue: pop the frame, restore the locals, reload the homes,
\* and go to the resume point; the pass aborts on a point the function has not.
Rewind ==
    /\ phase = "rewinding"
    /\ frames[current] # <<>>
    /\ LET frame == Last(frames[current])
           rest  == Front(frames[current])
           base  == Len(spine[current]) - frame.refCount
           back  == [fn |-> frame.fn, copy |-> frame.copy, home |-> frame.home,
                     refs |-> SubSeq(spine[current], base + 1, base + frame.refCount),
                     site |-> frame.resume]
       IN  /\ frame.fn = Entering
           /\ frames' = [frames EXCEPT ![current] = rest]
           /\ spine' = [spine EXCEPT ![current] = SpineAfterPop(@, base)]
           /\ phys' = Append(phys, Reload(back))
           /\ phase' = PhaseAfterPop(rest)
    /\ UNCHANGED <<cells, current, next, started, over, unread>>

Next ==
    \/ \E fn \in Functions : Call(fn)
    \/ Return
    \/ \E v \in Values : Assign(v)
    \/ \E c \in Coroutines, depth \in 1 .. MaxDepth, v \in Values :
         AssignCaptured(c, depth, v)
    \/ \E to \in Coroutines : SwitchTo(to) \/ End(to)
    \/ Finish
    \/ Spill \/ Trampoline \/ Rewind

\* Unwinding and rewinding wait for nothing.
Fairness == WF_vars(Spill \/ Trampoline \/ Rewind)

Spec == Init /\ [][Next]_vars /\ Fairness

(***************************************************************************)
(* Properties.                                                             *)
(***************************************************************************)
\* The words of the reference spine that the first n frames own.
Words(fs, n) ==
    LET upTo[i \in 0 .. n] == IF i = 0 THEN 0 ELSE upTo[i - 1] + fs[i].refCount
    IN  upTo[n]

Activations ==
    [fn : Functions, copy : Values, home : Coroutines \X (1 .. MaxDepth), site : Sites,
     refs : {RefsOf(c, d, fn) : c \in Coroutines, d \in 1 .. MaxDepth, fn \in Functions}]

Frames ==
    [fn : Functions, copy : Values, home : Coroutines \X (1 .. MaxDepth), resume : Sites,
     refCount : {RefSlots[fn] : fn \in Functions}]

\* What the state of seq_runtime.rs and the activations can hold.
TypeOK ==
    /\ \A i \in DOMAIN phys : phys[i] \in Activations
    /\ \A c \in Coroutines :
         /\ \A i \in DOMAIN frames[c] : frames[c][i] \in Frames
         /\ Len(frames[c]) <= MaxDepth
         /\ \A i \in DOMAIN cells[c] : cells[c][i] \in Values
    /\ phase \in Phases
    /\ current \in Coroutines
    /\ next \in Coroutines
    /\ started \in [Coroutines -> BOOLEAN]
    /\ over \in [Coroutines -> BOOLEAN]
    /\ unread \in BOOLEAN

\* The two buffers of a coroutine hold the words of the same frames, after any
\* sequence of frame_push and frame_pop.  And a rewind enters the functions whose frames
\* it finds: the prologue never takes back another function's frame, never runs
\* out of frames, and never reaches "rewound a component into a suspension
\* point it never had".
BuffersMatch ==
    /\ TypeOK
    /\ \A c \in Coroutines : Len(spine[c]) = Words(frames[c], Len(frames[c]))
    /\ phase = "rewinding" => /\ frames[current] # <<>>
                              /\ Last(frames[current]).fn = Entering

\* However its variable was written while the activation was a caller, spilled
\* or running, the local it computes with has the value of the home cell; only
\* a helper's store in the running activation itself goes unseen.
LocalsAreFresh ==
    phase = "normal" => Top.copy = Cell(Top.home) \/ unread

\* A transfer ends: the coroutine it names comes to run.
TransferArrives ==
    \A c \in Coroutines :
        (phase = "unwinding" /\ next = c) ~> (phase = "normal" /\ current = c)

\* The stacks the program may believe in.
Believed(c) ==
    LET inner == Reverse(frames[c])
        outer == IF c = current THEN phys ELSE <<>>
        depth == Len(outer)
        Refs(i) == LET above == Words(frames[c], Len(inner) - i)
                   IN  SubSeq(spine[c], above + 1, above + inner[i].refCount)
    IN  CASE over[c]     -> <<>>
          [] ~started[c] -> <<[fn |-> Body, value |-> Initial, refs |-> RefsOf(c, 1, Body)]>>
          [] OTHER       ->
               [i \in 1 .. depth + Len(inner) |->
                  IF i <= depth
                  THEN [fn |-> outer[i].fn, value |-> Cell(outer[i].home),
                        refs |-> outer[i].refs]
                  ELSE [fn |-> inner[i - depth].fn, value |-> Cell(inner[i - depth].home),
                        refs |-> Refs(i - depth)]]

Stacks == INSTANCE CallStacks WITH
    stack <- [c \in Coroutines |-> Believed(c)],
    running <- IF phase = "unwinding" THEN next ELSE current,
    moving <- phase \in {"unwinding", "rewinding"}

\* Spilling and rewinding one physical stack implements a stack for each
\* coroutine: no activation, reference or variable is lost, exchanged or
\* changed by any sequence of calls, transfers and captured writes.
ImplementsStacks == Stacks!Spec
=============================================================================
