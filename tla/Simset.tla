-------------------------------- MODULE Simset --------------------------------
(***************************************************************************)
(* SIMSET as the native runtime keeps it (runtime/sim.c): every linkage    *)
(* object has a SUC and a PRED, a head and its members form a ring, and    *)
(* the head is told from the links by its class id alone.  The walks skip  *)
(* the processes that hold an event notice; which ones do is the           *)
(* scheduler's affair and changes freely here.                             *)
(***************************************************************************)
EXTENDS Naturals, Sequences, FiniteSets

CONSTANTS Links,    \* objects of subclasses of Link
          Heads,    \* objects of class Head and of its subclasses
          Derived,  \* those of a subclass of Head
          Process,  \* those links that can be scheduled
          None

Linkage == Links \cup Heads

ASSUME SimsetAssumption ==
  /\ IsFiniteSet(Links)
  /\ Links \cap Heads = {}
  /\ Derived \subseteq Heads
  /\ Process \subseteq Links
  /\ None \notin Linkage

VARIABLES
  ring,       \* the SUC and the PRED of each linkage object
  scheduled,  \* the processes in the sequencing set
  clearing    \* the head that a `clear` in progress is emptying, or None

vars == <<ring, scheduled, clearing>>

Field == [Linkage -> Linkage \cup {None}]

\* What each variable can hold.
TypeOK ==
  /\ ring \in [suc : Field, pred : Field]
  /\ scheduled \subseteq Process
  /\ clearing \in Heads \cup {None}

\* simset_is_head: an object whose class id is that of Head itself.
IsHead(y) == y \in Heads \ Derived
IsLink(y) == y \in Linkage /\ ~IsHead(y)

\* NEW Head links the head to itself; only class Head gets that call.
Init ==
  /\ ring = LET self == [y \in Linkage |-> IF IsHead(y) THEN y ELSE None]
            IN [suc |-> self, pred |-> self]
  /\ scheduled = {}
  /\ clearing = None

-----------------------------------------------------------------------------
(* Links, in the order of the stores.                                      *)

\* Faulty: the predecessor still points at x.
UnlinkHalf(r, x) ==
  IF r.suc[x] = None THEN r
  ELSE [suc |-> [r.suc EXCEPT ![x] = None],
        pred |-> [r.pred EXCEPT ![r.suc[x]] = r.pred[x], ![x] = None]]

Unlink(r, x) ==
  IF r.suc[x] = None THEN r
  ELSE [suc |-> [r.suc EXCEPT ![r.pred[x]] = r.suc[x], ![x] = None],
        pred |-> [r.pred EXCEPT ![r.suc[x]] = r.pred[x], ![x] = None]]

LinkBefore(r, x, y) ==
  [suc |-> [r.suc EXCEPT ![x] = y, ![r.pred[y]] = x],
   pred |-> [r.pred EXCEPT ![x] = r.pred[y], ![y] = x]]

\* Faulty: the old successor still points back past x.
LinkAfterHalf(r, x, y) ==
  [suc |-> [r.suc EXCEPT ![x] = r.suc[y], ![y] = x],
   pred |-> [r.pred EXCEPT ![x] = y]]

LinkAfter(r, x, y) ==
  [suc |-> [r.suc EXCEPT ![x] = r.suc[y], ![y] = x],
   pred |-> [r.pred EXCEPT ![x] = y, ![r.suc[y]] = x]]

\* y is somewhere a link can be put next to.
CanJoin(r, y) == y # None /\ (r.suc[y] # None \/ IsHead(y))

Out(x) == ring' = Unlink(ring, x)

\* Faulty: x is not taken out of the set it is in.
PrecedeStill(x, y) ==
  ring' = IF CanJoin(ring, y) THEN LinkBefore(ring, x, y) ELSE ring

\* precede(y), and into(y) when y is a head.
Precede(x, y) ==
  LET r == Unlink(ring, x)
  IN ring' = IF CanJoin(r, y) THEN LinkBefore(r, x, y) ELSE r

Follow(x, y) ==
  LET r == Unlink(ring, x)
  IN ring' = IF CanJoin(r, y) THEN LinkAfter(r, x, y) ELSE r

-----------------------------------------------------------------------------
(* Walks.                                                                  *)

Busy(y) == y \in scheduled

\* Where a loop is, having begun at y, after n turns that each take g.
Steps(g, y, n) ==
  LET at[k \in Nat] == IF k = 0 THEN y ELSE g[at[k - 1]] IN at[n]

\* Faulty: only one scheduled process is skipped.
SkipOne(step, x) ==
  LET y == step[x]
      z == IF IsLink(y) /\ Busy(y) THEN step[y] ELSE y
  IN IF IsLink(z) THEN z ELSE None

\* The nearest member on the way from x that is not scheduled.  (The
\* runtime gives up after 65536 of them; no more than that can be scheduled.)
Skip(step, x) ==
  LET pass == [y \in Linkage \cup {None} |->
                 IF IsLink(y) /\ Busy(y) THEN step[y] ELSE y]
      y == Steps(pass, step[x], Cardinality(Links))
  IN IF IsLink(y) THEN y ELSE None

SucOf(x) == Skip(ring.suc, x)
PredOf(x) == Skip(ring.pred, x)
First(h) == SucOf(h)
Last(h) == PredOf(h)
Empty(h) == ring.suc[h] \in {None, h}

Count(h) ==
  LET turn == [y \in Linkage \cup {None} |-> IF IsLink(y) THEN SucOf(y) ELSE None]
  IN Cardinality({n \in 0..Cardinality(Links) : IsLink(Steps(turn, First(h), n))})

-----------------------------------------------------------------------------

\* clear compiles to a loop of its own: until first is none, first goes out.
ClearBegin(h) == clearing' = h /\ UNCHANGED <<ring, scheduled>>
ClearStep ==
  /\ clearing # None
  /\ \/ /\ First(clearing) = None
        /\ clearing' = None
        /\ UNCHANGED ring
     \/ /\ First(clearing) # None
        /\ Out(First(clearing))
        /\ UNCHANGED clearing
  /\ UNCHANGED scheduled

Member ==
  \E x \in Links :
    \/ Out(x)
    \/ \E y \in Linkage \cup {None} : Precede(x, y)
    \/ \E y \in Linkage \cup {None} : Follow(x, y)

\* Scheduling statements file and remove notices.
Schedule(p) == p \notin scheduled /\ scheduled' = scheduled \cup {p}
Unschedule(p) == p \in scheduled /\ scheduled' = scheduled \ {p}

Next ==
  \/ clearing = None /\ Member /\ UNCHANGED <<scheduled, clearing>>
  \/ clearing = None /\ \E h \in Heads : ClearBegin(h)
  \/ /\ clearing = None
     /\ \E p \in Process : Schedule(p) \/ Unschedule(p)
     /\ UNCHANGED <<ring, clearing>>
  \/ ClearStep

\* A loop without calls runs to its end.
Spec == Init /\ [][Next]_vars /\ WF_vars(ClearStep)

-----------------------------------------------------------------------------

\* Every SUC is undone by a PRED and every PRED by a SUC, after any mixture of
\* operations on any of the sets: no member is half in.
RingsLinked ==
  \A x \in Linkage :
    /\ ring.suc[x] = None <=> ring.pred[x] = None
    /\ ring.suc[x] # None =>
         ring.pred[ring.suc[x]] = x /\ ring.suc[ring.pred[x]] = x

\* The members that lie on the ring of h, all of them, in order.
MembersIn(r, h) ==
  LET go == [y \in Linkage \cup {None} |-> IF y \in Links THEN r.suc[y] ELSE None]
      from(n) == Steps(go, r.suc[h], n)
      size == Cardinality({n \in 0..Cardinality(Links) : from(n) \in Links})
  IN [i \in 1..size |-> from(i - 1)]

Members(h) == MembersIn(ring, h)

Sets == INSTANCE LinkedSets WITH members <- [h \in Heads |-> Members(h)]

\* The rings are sets: sequences of members, one set to a link.
ImplementsSets == Sets!Spec

\* y is at the first, the last, of the places P of s, or none if P is empty.
IsFirst(y, s, P) ==
  IF P = {} THEN y = None ELSE \E i \in P : y = s[i] /\ \A j \in P : i <= j
IsLast(y, s, P) ==
  IF P = {} THEN y = None ELSE \E i \in P : y = s[i] /\ \A j \in P : j <= i

\* Walking a ring in either direction from the head or any member gives the
\* members that are not scheduled, in order and each once, while `empty` speaks
\* of all of them; so cardinal's loop ends, which the interpreter asserts
\* ("SIMSET ring is not well-formed", seq_ops.rs:236).
WalksAgree ==
  \A h \in Heads :
    LET s == Members(h)
        idle == {i \in DOMAIN s : ~Busy(s[i])}
    IN /\ IsFirst(First(h), s, idle) /\ IsLast(Last(h), s, idle)
       /\ \A i \in DOMAIN s :
            /\ IsFirst(SucOf(s[i]), s, {j \in idle : j > i})
            /\ IsLast(PredOf(s[i]), s, {j \in idle : j < i})
       /\ Count(h) = Cardinality(idle)
       /\ Empty(h) <=> s = <<>>

\* clear comes to an end.
ClearEnds == clearing # None ~> clearing = None
===============================================================================
