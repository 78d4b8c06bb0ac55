------------------------------ MODULE LinkedSets ------------------------------
(***************************************************************************)
(* What SIMSET promises (Simula Standard 12.3): a link is a member of at   *)
(* most one set, and a set is the sequence of its members.  No rings, no   *)
(* pointers: members[h] is the set whose head is h.                        *)
(***************************************************************************)
EXTENDS Naturals, Sequences

CONSTANTS Links, Heads

VARIABLE members

Init == members = [h \in Heads |-> <<>>]

\* x, which is in s at most once, is taken out of it.
Removed(s, x) ==
  IF \E n \in DOMAIN s : s[n] = x
  THEN LET n == CHOOSE k \in DOMAIN s : s[k] = x
       IN SubSeq(s, 1, n - 1) \o SubSeq(s, n + 1, Len(s))
  ELSE s

\* x is out of whatever set it was in.
Without(x) == [h \in Heads |-> Removed(members[h], x)]

\* x is put into set s, with n members before it.
Placed(s, n, x) == SubSeq(s, 1, n) \o <<x>> \o SubSeq(s, n + 1, Len(s))

Out(x) == members' = Without(x)

IntoFirst(x, h) == members' = [Without(x) EXCEPT ![h] = Placed(@, 0, x)]
IntoLast(x, h) == members' = [Without(x) EXCEPT ![h] = Placed(@, Len(@), x)]

Precede(x, y) ==
  \E h \in Heads : \E n \in DOMAIN Without(x)[h] :
    /\ Without(x)[h][n] = y
    /\ members' = [Without(x) EXCEPT ![h] = Placed(@, n - 1, x)]

Follow(x, y) ==
  \E h \in Heads : \E n \in DOMAIN Without(x)[h] :
    /\ Without(x)[h][n] = y
    /\ members' = [Without(x) EXCEPT ![h] = Placed(@, n, x)]

Next ==
  \E x \in Links :
    \/ Out(x)
    \/ \E h \in Heads : IntoFirst(x, h) \/ IntoLast(x, h)
    \/ \E y \in Links : Precede(x, y) \/ Follow(x, y)

Spec == Init /\ [][Next]_members
=============================================================================
