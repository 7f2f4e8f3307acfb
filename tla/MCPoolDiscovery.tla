-------------------------- MODULE MCPoolDiscovery --------------------------
(***************************************************************************)
(* Model-checking instances of PoolDiscovery.                              *)
(***************************************************************************)
EXTENDS PoolDiscovery

CONSTANTS l1, l2, l3, pa, pb

(* Two logs of one address and one of another. *)
TwoAddresses == [l \in {l1, l2, l3} |-> IF l = l3 THEN pb ELSE pa]

(* Two logs of one pool. *)
TwoLogs == [l \in {l1, l2} |-> pa]

(* The finite supply of logs is used up and every goroutine has returned:  *)
(* the only state in which the model may stop, so that a run checks for    *)
(* goroutines that block each other.                                       *)
Finished ==
  /\ \A l \in Logs : handler[l] \in {"lost", "done"}
                  /\ discovery[l] \in {"none", "done"}
  /\ subscribed
  /\ UNCHANGED vars

SpecToTheEnd == Init /\ [][Next \/ Finished]_vars

FairSpecToTheEnd == SpecToTheEnd /\ Fairness
=============================================================================
