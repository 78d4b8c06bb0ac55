-------------------------- MODULE ReactivationPoints --------------------------
(***************************************************************************)
(* What chapter 7 sequencing promises, without states, systems or stacks   *)
(* (the contract of runtime/sequencing.h).  One coroutine has control: the *)
(* program sequence control, PSC.  Every other started coroutine waits at  *)
(* one reactivation point, and each live object is the keeper of exactly   *)
(* one such point.  A detach, call or resume is an exchange: the PSC goes  *)
(* where the object's point is, and the object keeps the place it left.    *)
(***************************************************************************)

CONSTANTS Object,   \* objects with a stack of their own; also name that stack
          Main,     \* the coroutine that starts the program
          None

\* What the proofs suppose of the constants.
PointsAssumption == Main \notin Object /\ None \notin Object \cup {Main}

VARIABLES psc,      \* the coroutine that has control
          point,    \* the coroutine each object's point waits on, or None
          life,     \* "unborn", "alive" or "ended" for each object
          dropped   \* coroutines whose reactivation point was thrown away

vars == <<psc, point, life, dropped>>

Coro == Object \cup {Main}

\* What each variable can hold.
TypeOK ==
  /\ psc \in Coro
  /\ point \in [Object -> Coro \cup {None}]
  /\ life \in [Object -> {"unborn", "alive", "ended"}]
  /\ dropped \subseteq Coro

Init ==
  /\ psc = Main
  /\ point = [x \in Object |-> None]
  /\ life = [x \in Object |-> "unborn"]
  /\ dropped = {}

\* A generator: the new object runs, and keeps the generator's place.
Begin(x) ==
  /\ life[x] = "unborn"
  /\ psc' = x
  /\ point' = [point EXCEPT ![x] = psc]
  /\ life' = [life EXCEPT ![x] = "alive"]
  /\ UNCHANGED dropped

\* The generator of a process, whose body begins with a detach (chapter 12):
\* the object runs and waits again before the generator goes on.
BeginDetached(x) ==
  /\ life[x] = "unborn"
  /\ point' = [point EXCEPT ![x] = x]
  /\ life' = [life EXCEPT ![x] = "alive"]
  /\ UNCHANGED <<psc, dropped>>

\* detach, call, or a resume out of the main component.
Exchange(x) ==
  /\ point[x] # None
  /\ psc' = point[x]
  /\ point' = [point EXCEPT ![x] = psc]
  /\ UNCHANGED <<life, dropped>>

\* A resume of x out of component z: x takes over z's way back to the main
\* component, z keeps the place control left.
Rotate(x, z) ==
  /\ x # z
  /\ point[x] # None
  /\ point[z] # None
  /\ psc' = point[x]
  /\ point' = [point EXCEPT ![x] = point[z], ![z] = psc]
  /\ UNCHANGED <<life, dropped>>

\* The running object's final end.
End(x) ==
  /\ psc = x
  /\ point[x] # None
  /\ psc' = point[x]
  /\ point' = [point EXCEPT ![x] = None]
  /\ life' = [life EXCEPT ![x] = "ended"]
  /\ UNCHANGED dropped

\* A final end composed with the resume of the next process (chapter 12).
EndInto(x, y) ==
  /\ psc = x
  /\ x # y
  /\ point[x] # None
  /\ point[y] # None
  /\ psc' = point[y]
  /\ point' = [point EXCEPT ![y] = point[x], ![x] = None]
  /\ life' = [life EXCEPT ![x] = "ended"]
  /\ UNCHANGED dropped

\* The block that heads a system is left while an object of it is operative:
\* nothing keeps the main component's old place any more.
Drop(x) ==
  /\ point[x] # None
  /\ point' = [point EXCEPT ![x] = None]
  /\ dropped' = dropped \cup {point[x]}
  /\ UNCHANGED <<psc, life>>

Next ==
  \/ \E x \in Object :
       Begin(x) \/ BeginDetached(x) \/ Exchange(x) \/ End(x) \/ Drop(x)
  \/ \E x, y \in Object : Rotate(x, y) \/ EndInto(x, y)

Spec == Init /\ [][Next]_vars

Started(c) == c = Main \/ (c \in Object /\ life[c] = "alive")

\* No coroutine is held as the reactivation point of two objects: two
\* transfers can never both claim the right to continue the same stack.
PointsDistinct ==
  \A x, y \in Object : point[x] # None /\ point[x] = point[y] => x = y

\* A reactivation point always names a coroutine that is suspended in the
\* middle of its work: never the running one, one that has reached its final
\* end, or one that has not begun.
PointsSuspended ==
  \A x \in Object : point[x] # None => point[x] # psc /\ Started(point[x])

\* Control is never inside an object that has ended or not begun.
ControlInLiveCoroutine == Started(psc)

\* No coroutine is lost: whatever is neither running nor ended can still be
\* given control again, unless the block that held its place was left early.
NothingLost ==
  \A c \in Coro : Started(c) /\ c # psc /\ c \notin dropped =>
                  \E x \in Object : point[x] = c

PointsInv ==
  /\ TypeOK
  /\ PointsDistinct
  /\ PointsSuspended
  /\ ControlInLiveCoroutine
  /\ NothingLost
  /\ \A x \in Object : point[x] # None => life[x] = "alive"
=============================================================================
