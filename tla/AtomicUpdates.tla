--------------------------- MODULE AtomicUpdates ---------------------------
(***************************************************************************)
(* What the market promises about a pool's reserves: each swap is counted  *)
(* at most once, in one step, as if the swaps of the pool came one after   *)
(* the other.  A V2 swap adds to what is there, a V3 swap replaces it.     *)
(***************************************************************************)
CONSTANTS Swaps, Pools, PoolOf, V3Pools

VARIABLES
  state,     \* which swaps the state of a pool counts
  counted    \* the swaps that have been counted

vars == <<state, counted>>

NewState(old, s) == IF PoolOf[s] \in V3Pools THEN {s} ELSE old \cup {s}

Init ==
  /\ state = [p \in Pools |-> {}]
  /\ counted = {}

Count(s) ==
  /\ s \notin counted
  /\ counted' = counted \cup {s}
  /\ state' = [state EXCEPT ![PoolOf[s]] = NewState(@, s)]

Next == \E s \in Swaps : Count(s)

Spec == Init /\ [][Next]_vars
=============================================================================
