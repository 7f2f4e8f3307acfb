------------------------------ MODULE LossyLog ------------------------------
(***************************************************************************)
(* What the database writer promises its clients, and no more: requests    *)
(* are accepted in some order; from the front of what is accepted, one     *)
(* group at a time becomes durable as a whole or is lost as a whole; a     *)
(* crash loses everything that is not durable.  Durable requests are never *)
(* reordered, duplicated, changed or removed.                              *)
(***************************************************************************)
EXTENDS Naturals, Sequences

CONSTANT Requests

VARIABLES
  pending,    \* accepted, fate undecided, oldest first
  durable     \* in the database, in commit order

vars == <<pending, durable>>

Init == pending = << >> /\ durable = << >>

Accept(r) ==
  /\ pending' = Append(pending, r)
  /\ UNCHANGED durable

Without(n) == SubSeq(pending, n + 1, Len(pending))

Persist(n) ==
  /\ durable' = durable \o SubSeq(pending, 1, n)
  /\ pending' = Without(n)

Lose(n) ==
  /\ pending' = Without(n)
  /\ UNCHANGED durable

Next ==
  \/ \E r \in Requests : Accept(r)
  \/ \E n \in 1..Len(pending) : Persist(n) \/ Lose(n)

Spec == Init /\ [][Next]_vars
=============================================================================
