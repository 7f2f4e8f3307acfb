----------------------------- MODULE SwapLedger -----------------------------
(***************************************************************************)
(* What the dispatcher promises about each swap on chain: its fate is      *)
(* decided once and for all.  A swap is lost before a handler has it, or   *)
(* counted in its pool's reserves, or dropped because it does not parse,   *)
(* or discarded with others of its pool when the pool's discovery fails;   *)
(* until then it is travelling.                                            *)
(***************************************************************************)
CONSTANTS Logs, Pools, PoolOf

VARIABLE fate

Init == fate = [l \in Logs |-> "future"]

Happen(l) ==
  /\ fate[l] = "future"
  /\ \E f \in {"travelling", "lost"} : fate' = [fate EXCEPT ![l] = f]

Settle(l) ==
  /\ fate[l] = "travelling"
  /\ \E f \in {"counted", "dropped", "lost"} : fate' = [fate EXCEPT ![l] = f]

Travelling(p) == {l \in Logs : PoolOf[l] = p /\ fate[l] = "travelling"}

Discard(p) ==
  \E S \in SUBSET Travelling(p) :
    fate' = [l \in Logs |-> IF l \in S THEN "discarded" ELSE fate[l]]

Next ==
  \/ \E l \in Logs : Happen(l) \/ Settle(l)
  \/ \E p \in Pools : Discard(p)

Spec == Init /\ [][Next]_fate
=============================================================================
