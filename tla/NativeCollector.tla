--------------------------- MODULE NativeCollector ---------------------------
(***************************************************************************)
(* The native runtime's mark-sweep collector (runtime/gc.c) together with  *)
(* what decides whether it is right: the chain of root frames that each    *)
(* coroutine keeps, exchanged when the runtime switches stacks             *)
(* (runtime/coro.c), the helpers that hold several new blocks in C locals, *)
(* and the gray stack that may fail to grow in the middle of a trace.      *)
(*                                                                         *)
(* A block is an element of Block.  The words of a payload, and the slots  *)
(* of a root frame, are abstracted to the set of blocks they point into.   *)
(* A collection is a sequence of steps so that a trace can be interrupted  *)
(* by a failed growth at every point; the program does nothing meanwhile,  *)
(* as in the code.                                                         *)
(***************************************************************************)
EXTENDS Naturals, Sequences, FiniteSets, Functions

CONSTANTS Block,       \* the places a managed block can occupy
          Frame,       \* root frames of activations
          Coroutine,   \* stacks
          MainStack,   \* the stack the program starts on
          Pin,         \* the usable slots of the pin table
          Width,       \* how many references an activation or a payload holds
          MaxDefer,    \* bound on the nesting of helpers
          None         \* no block

ASSUME CollectorAssumption == /\ MainStack \in Coroutine
                              /\ Width \in Nat \ {0}
                              /\ MaxDefer \in Nat
                              /\ IsFiniteSet(Block)
                              /\ None \notin Block

VARIABLES blocks,      \* g_gc.blocks: the managed blocks
          ref,         \* what each payload points to
          slot,        \* the slots of each root frame
          stack,       \* the activations of each coroutine, innermost last
          life,        \* "none", "live" or "done" for each coroutine
          object,      \* the component object each coroutine runs, a root
          current,     \* simrt_coro_current_ptr
          roots,       \* g_gc.roots: the chain of the running coroutine
          parked,      \* coro->gc_roots: the chain saved at the last switch
          pins,        \* g_ref_pins
          held,        \* blocks only a C local of a runtime helper points to
          defer,       \* g_gc.defer_collect
          status,      \* "mutator", "marking" or "aborted"
          marked, gray, overflow,  \* the mark bits, gray stack, gray_overflow
          walk         \* blocks the overflow pass of the drain has still to visit

program == <<ref, slot, stack, life, object, current, roots, parked, pins, held, defer>>
trace   == <<marked, gray, overflow, walk>>
vars    == <<blocks, program, status, trace>>

Top(c) == stack[c][Len(stack[c])]
Quiet  == UNCHANGED <<blocks, status, trace>>

Init == /\ blocks = {}
        /\ ref = [b \in Block |-> {}]
        /\ slot = [f \in Frame |-> {}]
        /\ stack = [c \in Coroutine |-> <<>>]
        /\ life = [c \in Coroutine |-> IF c = MainStack THEN "live" ELSE "none"]
        /\ object = [c \in Coroutine |-> None]
        /\ current = MainStack
        /\ roots = <<>>
        /\ parked = [c \in Coroutine |-> <<>>]
        /\ pins = [p \in Pin |-> None]
        /\ held = {}
        /\ defer = 0
        /\ status = "mutator"
        /\ marked = {} /\ gray = {} /\ overflow = FALSE /\ walk = {}

Running  == status = "mutator"
InCode   == Running /\ defer = 0                      \* generated code runs
InFrame  == InCode /\ stack[current] # <<>>
Mine     == slot[Top(current)]                        \* the references at hand
(* A new reference in the innermost activation; older ones may be given up. *)
Put(y) == \E kept \in SUBSET Mine :
             /\ Cardinality(kept) < Width
             /\ slot' = [slot EXCEPT ![Top(current)] = kept \cup {y}]

------------------------------------------------------------------------------
(* Activations and stacks. *)

RootPush(f, args) == /\ roots' = Append(roots, f)
                     /\ slot' = [slot EXCEPT ![f] = args]

Call(f, args) ==
    /\ InCode
    /\ \A c \in Coroutine : f \notin Range(stack[c])
    /\ args \subseteq (IF stack[current] # <<>> THEN Mine ELSE {object[current]} \ {None})
    /\ Cardinality(args) <= Width
    /\ RootPush(f, args)
    /\ stack' = [stack EXCEPT ![current] = Append(@, f)]
    /\ UNCHANGED <<ref, life, object, current, parked, pins, held, defer>> /\ Quiet

(* simrt_gc_root_pop: the chain must name the frame that is left. *)
RootPop(f) == IF roots # <<>> /\ roots[Len(roots)] = f
              THEN /\ roots' = SubSeq(roots, 1, Len(roots) - 1)
                   /\ UNCHANGED status
              ELSE /\ status' = "aborted"
                   /\ UNCHANGED roots

(* An activation returns, its result to the caller. *)
Return(results) ==
    /\ InFrame
    /\ results \subseteq Mine /\ Cardinality(results) <= 1
    /\ Len(stack[current]) = 1 => results = {}
    /\ RootPop(Top(current))
    /\ stack' = [stack EXCEPT ![current] = SubSeq(@, 1, Len(@) - 1)]
    /\ LET left == [slot EXCEPT ![Top(current)] = {}] IN
       IF results = {} THEN slot' = left
       ELSE LET caller == stack[current][Len(stack[current]) - 1] IN
            \E kept \in SUBSET slot[caller] :
                /\ Cardinality(kept) < Width
                /\ slot' = [left EXCEPT ![caller] = kept \cup results]
    /\ UNCHANGED <<ref, life, object, current, parked, pins, held, defer,
                   blocks, trace>>

FaultyExchangeRoots(to) == /\ parked' = parked            \* mutant: not saved
                           /\ roots' = parked[to]

(* What simrt_coro_switch does to the chain of root frames. *)
ExchangeRoots(to) == /\ parked' = [parked EXCEPT ![current] = roots]
                     /\ roots' = parked[to]

Switch(to) ==
    /\ InFrame
    /\ life[to] = "live" /\ to # current
    /\ ExchangeRoots(to)
    /\ current' = to
    /\ UNCHANGED <<ref, slot, stack, life, object, pins, held, defer>> /\ Quiet

(* The component on the running stack ends: its last switch, never back. *)
Finish(to) ==
    /\ InFrame
    /\ current # MainStack
    /\ life[to] = "live" /\ to # current
    /\ life' = [life EXCEPT ![current] = "done"]
    /\ ExchangeRoots(to)
    /\ current' = to
    /\ UNCHANGED <<ref, slot, stack, object, pins, held, defer>> /\ Quiet

Create(c, x) ==
    /\ InFrame
    /\ life[c] = "none" /\ x \in Mine
    /\ life' = [life EXCEPT ![c] = "live"]
    /\ object' = [object EXCEPT ![c] = x]
    /\ parked' = [parked EXCEPT ![c] = <<>>]
    /\ UNCHANGED <<ref, slot, stack, current, roots, pins, held, defer>> /\ Quiet

(* The block that owns the component is left: its stack is given back. *)
Destroy(c) ==
    /\ InCode
    /\ life[c] # "none" /\ c \notin {current, MainStack}
    /\ life' = [life EXCEPT ![c] = "none"]
    /\ object' = [object EXCEPT ![c] = None]
    /\ slot' = [f \in Frame |-> IF f \in Range(stack[c]) THEN {} ELSE slot[f]]
    /\ stack' = [stack EXCEPT ![c] = <<>>]
    /\ UNCHANGED <<ref, current, roots, parked, pins, held, defer>> /\ Quiet

------------------------------------------------------------------------------
(* The heap as the program uses it. *)

Load(x, y) == /\ InFrame
              /\ x \in Mine /\ y \in ref[x]
              /\ Put(y)
              /\ UNCHANGED <<ref, stack, life, object, current, roots, parked, pins,
                             held, defer>> /\ Quiet

Store(x, new) ==
    /\ InFrame
    /\ x \in Mine
    /\ new \subseteq ref[x] \cup Mine /\ Cardinality(new) <= Width
    /\ ref' = [ref EXCEPT ![x] = new]
    /\ UNCHANGED <<slot, stack, life, object, current, roots, parked, pins, held, defer>>
    /\ Quiet

(* A place for a new block: a swept one or memory of the host.  Its payload is
   zero: nothing can look at it between the sweep and here, so the model clears
   it there.                                                                  *)
Take(b) == /\ b \notin blocks
           /\ blocks' = blocks \cup {b}

Allocate(b) ==
    /\ InFrame
    /\ Take(b)
    /\ Put(b)
    /\ UNCHANGED <<ref, stack, life, object, current, roots, parked, pins, held, defer,
                   status, trace>>

(* A helper that allocates more than once (SIMRT_GC_DEFER_BEGIN ... LEAVE). *)
HelperEnter == /\ Running /\ stack[current] # <<>>
               /\ defer < MaxDefer
               /\ defer' = defer + 1
               /\ UNCHANGED <<ref, slot, stack, life, object, current, roots, parked,
                              pins, held>> /\ Quiet

HelperAllocate(b) ==
    /\ Running /\ defer > 0
    /\ Take(b)
    /\ held' = held \cup {b}
    /\ UNCHANGED <<ref, slot, stack, life, object, current, roots, parked, pins, defer,
                   status, trace>>

HelperLink(x, y) ==
    /\ Running /\ defer > 0
    /\ x \in held /\ y \in held
    /\ Cardinality(ref[x] \cup {y}) <= Width
    /\ ref' = [ref EXCEPT ![x] = @ \cup {y}]
    /\ UNCHANGED <<slot, stack, life, object, current, roots, parked, pins, held, defer>>
    /\ Quiet

(* An inner helper's result stays with the helper that called it; that of the
   outermost one goes to a slot of the activation that called it.             *)
HelperLeave(x) ==
    /\ Running /\ defer > 0
    /\ x \in held
    /\ defer' = defer - 1
    /\ IF defer = 1 THEN Put(x) /\ held' = {} ELSE UNCHANGED <<slot, held>>
    /\ UNCHANGED <<ref, stack, life, object, current, roots, parked, pins>> /\ Quiet

(* simrt_ref_pin: a free slot of the table, or the program is over. *)
RefPin(x) ==
    /\ InFrame
    /\ x \in Mine
    /\ IF \E p \in Pin : pins[p] = None
       THEN /\ \E p \in Pin : pins[p] = None /\ pins' = [pins EXCEPT ![p] = x]
            /\ UNCHANGED status
       ELSE /\ status' = "aborted"
            /\ UNCHANGED pins
    /\ UNCHANGED <<blocks, ref, slot, stack, life, object, current, roots, parked,
                   held, defer, trace>>

RefUnpin(p) == /\ InCode
               /\ pins' = [pins EXCEPT ![p] = None]
               /\ UNCHANGED <<ref, slot, stack, life, object, current, roots, parked,
                              held, defer>> /\ Quiet

RefGet(p) == /\ InFrame
             /\ pins[p] # None
             /\ Put(pins[p])
             /\ UNCHANGED <<ref, stack, life, object, current, roots, parked, pins,
                            held, defer>> /\ Quiet

------------------------------------------------------------------------------
(* The collection. *)

FaultyMarkAll(words, was, wasGray, wasOver) ==            \* mutant: overflow lost
    LET new == (words \cap blocks) \ was IN
    \E pushed \in SUBSET new :
        /\ marked' = was \cup new
        /\ gray' = wasGray \cup pushed
        /\ overflow' = wasOver

(* simrt_gc_mark on each of a set of words.  Growing the gray stack may fail
   at any of them: the block then stays marked and gray_overflow says so.     *)
MarkAll(words, was, wasGray, wasOver) ==
    LET new == (words \cap blocks) \ was IN
    \E pushed \in SUBSET new :
        /\ marked' = was \cup new
        /\ gray' = wasGray \cup pushed
        /\ overflow' = (wasOver \/ pushed # new)

ChainSlots(chain) == UNION {slot[f] : f \in Range(chain)}

(* Every chain but the saved one of the running stack, which is out of date. *)
ParkedSlots == UNION {ChainSlots(parked[c]) :
                         c \in {d \in Coroutine : life[d] # "none" /\ d # current}}

Roots == ChainSlots(roots) \cup ParkedSlots
           \cup (Range(object) \ {None}) \cup (Range(pins) \ {None})

(* From an allocation, on entering a helper, or asked for by an embedder.  That
   the index of the blocks could not be built, after which no collection happens,
   is the behaviour in which this action is never taken again.                *)
CollectStart ==
    /\ status = "mutator" /\ defer = 0
    /\ blocks # {}
    /\ status' = "marking"
    /\ MarkAll(Roots, {}, {}, FALSE)
    /\ walk' = {}
    /\ UNCHANGED <<blocks, program>>

TraceGray(b) == /\ status = "marking" /\ walk = {}
                /\ b \in gray
                /\ MarkAll(ref[b], marked, gray \ {b}, overflow)
                /\ UNCHANGED <<blocks, program, status, walk>>

FaultyRetraceStart ==                                     \* mutant: flag kept
    /\ status = "marking" /\ walk = {}
    /\ gray = {} /\ overflow
    /\ walk' = blocks
    /\ UNCHANGED <<blocks, program, status, marked, gray, overflow>>

(* The gray stack is empty but something was not pushed: trace what is marked. *)
RetraceStart == /\ status = "marking" /\ walk = {}
                /\ gray = {} /\ overflow
                /\ overflow' = FALSE
                /\ walk' = blocks
                /\ UNCHANGED <<blocks, program, status, marked, gray>>

Retrace(b) == /\ status = "marking"
              /\ b \in walk
              /\ walk' = walk \ {b}
              /\ IF b \in marked THEN MarkAll(ref[b], marked, gray, overflow)
                                 ELSE UNCHANGED <<marked, gray, overflow>>
              /\ UNCHANGED <<blocks, program, status>>

Sweep == /\ status = "marking" /\ walk = {}
         /\ gray = {} /\ ~overflow
         /\ blocks' = blocks \cap marked
         /\ ref' = [b \in Block |-> IF b \in marked THEN ref[b] ELSE {}]
         /\ marked' = {}
         /\ status' = "mutator"
         /\ UNCHANGED <<slot, stack, life, object, current, roots, parked, pins, held,
                        defer, gray, overflow, walk>>

Collecting == \/ \E b \in Block : TraceGray(b) \/ Retrace(b)
              \/ RetraceStart
              \/ Sweep

Next == \/ \E f \in Frame, args \in SUBSET Block : Call(f, args)
        \/ \E results \in SUBSET Block : Return(results)
        \/ \E c \in Coroutine : Switch(c) \/ Finish(c) \/ Destroy(c)
        \/ \E c \in Coroutine, x \in Block : Create(c, x)
        \/ \E x, y \in Block : Load(x, y) \/ HelperLink(x, y)
        \/ \E x \in Block, new \in SUBSET Block : Store(x, new)
        \/ \E x \in Block : Allocate(x) \/ HelperAllocate(x) \/ HelperLeave(x) \/ RefPin(x)
        \/ \E p \in Pin : RefUnpin(p) \/ RefGet(p)
        \/ HelperEnter
        \/ CollectStart
        \/ Collecting

(* A collection is a loop of one thread that nothing else interrupts. *)
Spec == Init /\ [][Next]_vars /\ WF_vars(Collecting)

------------------------------------------------------------------------------
(* What each variable can hold. *)
TypeOK ==
    /\ blocks \subseteq Block
    /\ ref \in [Block -> SUBSET Block]
    /\ slot \in [Frame -> SUBSET Block]
    /\ stack \in [Coroutine -> Seq(Frame)]
    /\ life \in [Coroutine -> {"none", "live", "done"}]
    /\ object \in [Coroutine -> Block \cup {None}]
    /\ current \in Coroutine
    /\ roots \in Seq(Frame)
    /\ parked \in [Coroutine -> Seq(Frame)]
    /\ pins \in [Pin -> Block \cup {None}]
    /\ held \subseteq Block
    /\ defer \in 0..MaxDefer
    /\ status \in {"mutator", "marking", "aborted"}
    /\ marked \subseteq Block /\ gray \subseteq Block /\ walk \subseteq Block
    /\ overflow \in BOOLEAN

(* What the program can touch without reading the heap: the slots of every
   activation on every stack that may still run, the blocks in the
   hands of a helper, the component objects and the pins.                     *)
InHand == (UNION {ChainSlots(stack[c]) : c \in {d \in Coroutine : life[d] = "live"}})
            \cup held \cup (Range(object) \ {None}) \cup (Range(pins) \ {None})

(* No use after free: whatever the program can come to point to, through a
   slot of any stack, a helper's local or the payload of a block, is a block
   that has not been swept.  runtime/gc.c promises it for a collection at any
   allocation, on any stack, with a gray stack that fails to grow.            *)
NothingDangles == /\ InHand \subseteq blocks
                  /\ \A b \in blocks : ref[b] \subseteq blocks

(* The chain of root frames is at all times that of the stack that runs, and
   a parked coroutine's saved chain that of its own: a switch that saved or
   restored the wrong one would hide frames from the collector and make
   simrt_gc_root_pop abort with "GC root-frame pop mismatch".                 *)
ChainsMatchStacks ==
    /\ roots = stack[current]
    /\ \A c \in Coroutine : c # current /\ life[c] # "none" => parked[c] = stack[c]

(* The blocks reachable from the roots: those in every set that contains the
   roots and, with a block, what its payload points to.                      *)
Closed(S)  == \A b \in S : ref[b] \cap blocks \subseteq S
Reachable  == {b \in blocks : \A S \in SUBSET blocks :
                                 Roots \cap blocks \subseteq S /\ Closed(S) => b \in S}

(* A collection keeps what is reachable and nothing else, whether or not the
   gray stack could grow: the drain's retracing loses no block and marks none
   needlessly.                                                               *)
SweepIsExact == [][status = "marking" /\ status' = "mutator" => blocks' = Reachable]_vars

(* The drain ends although it may overflow again and again: each pass that
   overflows has marked a block that was not marked.                         *)
CollectionEnds == (status = "marking") ~> (status = "mutator")
==============================================================================
