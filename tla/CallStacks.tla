----------------------------- MODULE CallStacks -----------------------------
(***************************************************************************)
(* What the MIR lets a program assume of its coroutines: each has a call   *)
(* stack of its own, one of them runs, a transfer of control leaves every  *)
(* stack as it is, and a variable has one value however it is reached: by  *)
(* its own activation or through a pointer another activation captured.    *)
(* The native backend gives this with real stacks; SpillStacks shows how   *)
(* WebAssembly, which cannot switch stacks, implements it.                 *)
(***************************************************************************)
EXTENDS Naturals, Sequences

CONSTANTS
    Coroutines,   \* the program's stacks
    Main,         \* the one that enters `main`
    Functions,    \* the functions of the program
    Body,         \* the one a coroutine starts with and nothing calls
    RefSlots,     \* how many reference locals each function has
    Values,       \* of a local whose address is taken
    Initial,      \* its value when the function is entered
    MaxDepth      \* bound on the depth of a stack

VARIABLES
    stack,        \* per coroutine its activations, the innermost last
    running,      \* the coroutine in control
    moving,       \* control is on its way to it
    over          \* per coroutine whether its body (or the program) ended

vars == <<stack, running, moving, over>>

\* The references an activation holds, told apart by where it was entered.
RefsOf(c, depth, fn) == [i \in 1 .. RefSlots[fn] |-> <<c, depth, i>>]

Entered(c, depth, fn) ==
    [fn |-> fn, value |-> Initial, refs |-> RefsOf(c, depth, fn)]

Init ==
    /\ stack = [c \in Coroutines |-> <<Entered(c, 1, Body)>>]
    /\ running = Main
    /\ moving = FALSE
    /\ over = [c \in Coroutines |-> FALSE]

Depth == Len(stack[running])

Live == ~moving /\ ~over[running]

Call(fn) ==
    /\ Live
    /\ fn # Body
    /\ Depth < MaxDepth
    /\ stack' = [stack EXCEPT ![running] = Append(@, Entered(running, Depth + 1, fn))]
    /\ UNCHANGED <<running, moving, over>>

Return ==
    /\ Live
    /\ Depth > 1
    /\ stack' = [stack EXCEPT ![running] = SubSeq(@, 1, Depth - 1)]
    /\ UNCHANGED <<running, moving, over>>

\* The variable of any activation there is, by name or through a capture.
Write(c, v) ==
    /\ Live
    /\ ~over[c]
    /\ UNCHANGED <<running, moving, over>>
    /\ \E depth \in DOMAIN stack[c] : stack' = [stack EXCEPT ![c][depth].value = v]

Switch(to) ==
    /\ Live
    /\ to # running
    /\ ~over[to]
    /\ running' = to
    /\ moving' = TRUE
    /\ UNCHANGED <<stack, over>>

\* Between the departure and the arrival nothing happens to any stack.
Arrive ==
    /\ moving
    /\ moving' = FALSE
    /\ UNCHANGED <<stack, running, over>>

\* A body that ends hands control to another coroutine; its stack is gone.
End(to) ==
    /\ Live
    /\ running # Main
    /\ Depth = 1
    /\ to # running
    /\ ~over[to]
    /\ over' = [over EXCEPT ![running] = TRUE]
    /\ stack' = [stack EXCEPT ![running] = <<>>]
    /\ running' = to
    /\ moving' = TRUE

\* The end of `main` ends the program.
Finish ==
    /\ Live
    /\ running = Main
    /\ Depth = 1
    /\ over' = [over EXCEPT ![Main] = TRUE]
    /\ stack' = [stack EXCEPT ![Main] = <<>>]
    /\ UNCHANGED <<running, moving>>

Next ==
    \/ \E fn \in Functions : Call(fn)
    \/ Return
    \/ \E c \in Coroutines, v \in Values : Write(c, v)
    \/ \E to \in Coroutines : Switch(to) \/ End(to)
    \/ Arrive
    \/ Finish

Spec == Init /\ [][Next]_vars
=============================================================================
