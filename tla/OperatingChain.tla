---------------------------- MODULE OperatingChain ----------------------------
(***************************************************************************)
(* The sequencing runtime under programs that keep to the operating chain: *)
(* an object is detached, and a component of a system resumed, only from   *)
(* inside it, as the definitions of 7.1 to 7.3 presuppose.  The runtime    *)
(* checks neither, so both are conditions on the program here.             *)
(***************************************************************************)
EXTENDS Sequencing

\* A place on the chain: a coroutine, inside the first `depth` blocks of those
\* it has open.
Place(c, depth) == [coro |-> c, depth |-> depth]
Innermost(c) == Place(c, Len(open[c]))

\* The block instance that heads a live system.
HeadOf(s) ==
  IF s = Outermost THEN Place(Main, 0)
  ELSE LET c == CHOOSE c \in Coro : \E i \in DOMAIN open[c] : open[c][i] = s
       IN Place(c, CHOOSE i \in DOMAIN open[c] : open[c][i] = s)

\* Dynamic enclosure: an attached object is inside the block instance it is
\* attached to, a resumed one inside the head of its system.
Encloser(p) ==
  CASE p.coro \in Object /\ state[p.coro] = "attached" ->
         Innermost(attachedTo[p.coro])
    [] p.coro \in Object /\ state[p.coro] = "resumed"
         /\ phase[system[p.coro]] = "live" -> HeadOf(system[p.coro])
    [] OTHER -> p

\* The operating chain: what encloses the place of control, and so on outwards.
enclosing[n \in Nat] ==
  IF n = 0 THEN Innermost(current) ELSE Encloser(enclosing[n - 1])
Chain == {enclosing[n] : n \in 0..Cardinality(Object)}

Inside(x) == \E p \in Chain : p.coro = x
InsideSystem(s) ==
  /\ phase[s] = "live"
  /\ \E p \in Chain : p.coro = HeadOf(s).coro /\ HeadOf(s).depth <= p.depth

ChainStatement ==
  \E x \in Object :
    \/ (state[x] \in {"attached", "resumed"} => Inside(x)) /\ Detach(x)
    \/ Call(x)
    \/ /\ system[x] # None => InsideSystem(system[x])
       /\ Resume(x)
    \/ Terminate(x)

ChainNext ==
  \/ /\ status = "running"
     /\ \/ \E s \in Instance : SystemEnter(s)
        \/ SystemExit
        \/ Generator
        \/ ChainStatement
        \/ Finish
  \/ Stopped

ChainSpec == Init /\ [][ChainNext]_vars

-----------------------------------------------------------------------------

\* Where control goes from one coroutine to the next as each gives it up.
Onward(c) == IF c \in Waiting THEN Point(c) ELSE c
Way(c) == {d \in Coro : \A S \in SUBSET Coro :
                          c \in S /\ (\A e \in S : Onward(e) \in S) => d \in S}

\* The outermost block instance is always operating: giving up control again
\* and again leads from the running coroutine to MAIN, and everything on the
\* way is attached or resumed.
WayLeadsToMain ==
  /\ Main \in Way(current)
  /\ \A x \in Way(current) \cap Object : state[x] \in {"attached", "resumed"}

\* A detached object keeps all of its component together: from its
\* reactivation point the way leads back to the object, through objects
\* attached or resumed inside it, never through MAIN or another component.
DetachedComponentsClosed ==
  \A x \in Object :
    state[x] = "detached" =>
      /\ x \in Way(park[x])
      /\ Main \notin Way(x)
      /\ \A y \in Way(x) \ {x} : state[y] \in {"attached", "resumed"}

\* No block that heads a system ends while one of its objects is operative,
\* so no reactivation point dies with a system, and no system is read after
\* it was freed.
SystemsEndClean == orphans = {} /\ status # "dangling"
=============================================================================
