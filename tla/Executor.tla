------------------------------ MODULE Executor ------------------------------
(***************************************************************************)
(* Executor.Service: one Execute goroutine per opportunity received by the *)
(* client, all sending from one account.  createDynamicTx allocates a      *)
(* nonce under nonceMu, asks the node for gas prices, and calls the        *)
(* contract binding, which signs and SENDS the transaction; Execute then   *)
(* sends the same transaction again, with retries.                         *)
(*                                                                         *)
(* The node is external: it keeps one transaction per nonce, mines the     *)
(* account's transactions in nonce order without gaps, and any call to it  *)
(* may fail, before or after it took effect.  The executor process may be  *)
(* restarted; transactions in the node's pool survive that.                *)
(***************************************************************************)
EXTENDS Integers, FiniteSets

CONSTANTS
  Executes,      \* the calls of Execute, one per opportunity
  NoOne,         \* nonceMu is free
  StartNonce,    \* the account's nonce on chain at the beginning
  MaxRetries,    \* maxRetries (3 in the code)
  MaxRestarts    \* bound on the restarts explored

ASSUME NoOneAssumption == NoOne \notin Executes
ASSUME NumbersAssumption ==
  StartNonce \in Nat /\ MaxRetries \in Nat \ {0} /\ MaxRestarts \in Nat

VARIABLES
  nonceMu,       \* the Execute that holds nonceMu, or NoOne
  nextNonce,     \* Service.nextNonce
  nonceInited,   \* Service.nonceInited
  firstNonce,    \* the nonce this process started from (history)
  pc,            \* control state of each Execute
  nonce,         \* the nonce it was given
  attempts,      \* sends that failed so far (i of the retry loop)
  mempool,       \* Executes whose transaction the node holds unmined
  included,      \* Executes whose transaction is on chain
  mined,         \* the account's nonce on chain
  restarts       \* restarts so far

serviceVars == <<nonceMu, nextNonce, nonceInited, firstNonce>>
nodeVars    == <<mempool, included, mined>>
vars == <<nonceMu, nextNonce, nonceInited, firstNonce, pc, nonce, attempts,
          mempool, included, mined, restarts>>

PC == {"idle", "lock", "allocate", "gas", "bind", "send",
       "sent", "refused", "failed", "noNonce", "leaked", "gone"}

(* The Executes of the running process that were given a nonce. *)
Allocated == {e \in Executes :
                pc[e] \in {"gas", "bind", "send", "sent", "refused", "failed", "leaked"}}

Returned == {"sent", "refused", "failed", "noNonce", "leaked"}

Init ==
  /\ nonceMu = NoOne
  /\ nextNonce = 0
  /\ nonceInited = FALSE
  /\ firstNonce = 0
  /\ pc = [e \in Executes |-> "idle"]
  /\ nonce = [e \in Executes |-> 0]
  /\ attempts = [e \in Executes |-> 0]
  /\ mempool = {}
  /\ included = {}
  /\ mined = StartNonce
  /\ restarts = 0

----------------------------------------------------------------------------
(* The node.                                                               *)

(* PendingNonceAt: the first nonce the node has no transaction for. *)
PendingNonce(n) ==
  /\ n \in mined..(mined + Cardinality(Executes))
  /\ \A e \in mempool : nonce[e] # n
  /\ \A m \in mined..(n - 1) : \E e \in mempool : nonce[e] = m

(* What submitting e's transaction may answer, and whether the node takes  *)
(* it.  `final' stands for `nonce too low' and `insufficient funds',       *)
(* `retry' for every other error: `already known', an underpriced          *)
(* replacement, or a transport error whose call may have taken effect.     *)
Answers(e) ==
  IF nonce[e] < mined THEN {<<"final", FALSE>>, <<"retry", FALSE>>}
  ELSE IF \E f \in mempool : nonce[f] = nonce[e] THEN {<<"retry", FALSE>>}
  ELSE {<<"ok", TRUE>>, <<"final", FALSE>>, <<"retry", FALSE>>, <<"retry", TRUE>>}

TakeIf(taken, e) == mempool' = IF taken THEN mempool \cup {e} ELSE mempool

Mine(e) ==
  /\ e \in mempool
  /\ nonce[e] = mined
  /\ mined' = mined + 1
  /\ mempool' = mempool \ {e}
  /\ included' = included \cup {e}
  /\ UNCHANGED <<serviceVars, pc, nonce, attempts, restarts>>

----------------------------------------------------------------------------
(* Execute and createDynamicTx.                                            *)

(* The client starts Execute in its own goroutine. *)
Start(e) ==
  /\ pc[e] = "idle"
  /\ pc' = [pc EXCEPT ![e] = "lock"]
  /\ UNCHANGED <<serviceVars, nodeVars, nonce, attempts, restarts>>

(* Mutant: nonceMu is not waited for. *)
LockNonce_NoWait(e) ==
  /\ pc[e] = "lock"
  /\ nonceMu' = e
  /\ pc' = [pc EXCEPT ![e] = "allocate"]
  /\ UNCHANGED <<nextNonce, nonceInited, firstNonce, nodeVars, nonce, attempts,
                 restarts>>

LockNonce(e) ==
  /\ pc[e] = "lock"
  /\ nonceMu = NoOne
  /\ nonceMu' = e
  /\ pc' = [pc EXCEPT ![e] = "allocate"]
  /\ UNCHANGED <<nextNonce, nonceInited, firstNonce, nodeVars, nonce, attempts,
                 restarts>>

(* The first call asks the node, holding nonceMu meanwhile. *)
InitNonce(e) ==
  /\ pc[e] = "allocate"
  /\ ~nonceInited
  /\ \E n \in mined..(mined + Cardinality(Executes)) :
       /\ PendingNonce(n)
       /\ nonce' = [nonce EXCEPT ![e] = n]
       /\ nextNonce' = n + 1
       /\ firstNonce' = n
  /\ nonceInited' = TRUE
  /\ nonceMu' = NoOne
  /\ pc' = [pc EXCEPT ![e] = "gas"]
  /\ UNCHANGED <<nodeVars, attempts, restarts>>

(* Mutants: the error return forgets Unlock, or marks the counter with -1. *)
InitNonceError_NoUnlock(e) ==
  /\ pc[e] = "allocate"
  /\ ~nonceInited
  /\ pc' = [pc EXCEPT ![e] = "noNonce"]
  /\ UNCHANGED <<serviceVars, nodeVars, nonce, attempts, restarts>>

InitNonceError_MarkCounter(e) ==
  /\ pc[e] = "allocate"
  /\ ~nonceInited
  /\ nonceMu' = NoOne
  /\ nextNonce' = -1
  /\ pc' = [pc EXCEPT ![e] = "noNonce"]
  /\ UNCHANGED <<nonceInited, firstNonce, nodeVars, nonce, attempts, restarts>>

(* The node did not answer: unlock and give up. *)
InitNonceError(e) ==
  /\ pc[e] = "allocate"
  /\ ~nonceInited
  /\ nonceMu' = NoOne
  /\ pc' = [pc EXCEPT ![e] = "noNonce"]
  /\ UNCHANGED <<nextNonce, nonceInited, firstNonce, nodeVars, nonce, attempts,
                 restarts>>

(* Mutant: the counter is not incremented. *)
NextNonce_NoIncrement(e) ==
  /\ pc[e] = "allocate"
  /\ nonceInited
  /\ nonce' = [nonce EXCEPT ![e] = nextNonce]
  /\ nonceMu' = NoOne
  /\ pc' = [pc EXCEPT ![e] = "gas"]
  /\ UNCHANGED <<nextNonce, nonceInited, firstNonce, nodeVars, attempts, restarts>>

NextNonce(e) ==
  /\ pc[e] = "allocate"
  /\ nonceInited
  /\ nonce' = [nonce EXCEPT ![e] = nextNonce]
  /\ nextNonce' = nextNonce + 1
  /\ nonceMu' = NoOne
  /\ pc' = [pc EXCEPT ![e] = "gas"]
  /\ UNCHANGED <<nonceInited, firstNonce, nodeVars, attempts, restarts>>

(* Mutant: an error gives the nonce back by decrementing the counter. *)
PrepareGas_GiveBack(e) ==
  /\ pc[e] = "gas"
  /\ \/ /\ pc' = [pc EXCEPT ![e] = "bind"]
        /\ UNCHANGED nextNonce
     \/ /\ pc' = [pc EXCEPT ![e] = "leaked"]
        /\ nextNonce' = nextNonce - 1
  /\ UNCHANGED <<nonceMu, nonceInited, firstNonce, nodeVars, nonce, attempts,
                 restarts>>

(* Tip cap, header and transactor: any error returns, and the nonce is not *)
(* given back.                                                             *)
PrepareGas(e) ==
  /\ pc[e] = "gas"
  /\ \E next \in {"bind", "leaked"} : pc' = [pc EXCEPT ![e] = next]
  /\ UNCHANGED <<serviceVars, nodeVars, nonce, attempts, restarts>>

(* The binding's ExecuteAaveArbitrage signs and sends (auth.NoSend is not  *)
(* set); only the answer `ok' makes it return the transaction.             *)
BindAndSend(e) ==
  /\ pc[e] = "bind"
  /\ \E a \in Answers(e) :
       /\ TakeIf(a[2], e)
       /\ pc' = [pc EXCEPT ![e] = IF a[1] = "ok" THEN "send" ELSE "leaked"]
  /\ UNCHANGED <<serviceVars, included, mined, nonce, attempts, restarts>>

(* One round of the retry loop. *)
SendTransaction(e) ==
  /\ pc[e] = "send"
  /\ \E a \in Answers(e) :
       /\ TakeIf(a[2], e)
       /\ \/ /\ a[1] = "ok"
             /\ pc' = [pc EXCEPT ![e] = "sent"]
             /\ UNCHANGED attempts
          \/ /\ a[1] = "final"
             /\ pc' = [pc EXCEPT ![e] = "refused"]
             /\ UNCHANGED attempts
          \/ /\ a[1] = "retry"
             /\ attempts' = [attempts EXCEPT ![e] = @ + 1]
             /\ pc' = [pc EXCEPT ![e] =
                         IF attempts[e] + 1 < MaxRetries THEN "send" ELSE "failed"]
  /\ UNCHANGED <<serviceVars, included, mined, nonce, restarts>>

(* The executor process dies and is started again: the counter and every   *)
(* goroutine are gone, the node keeps its pool.                            *)
Restart ==
  /\ restarts < MaxRestarts
  /\ restarts' = restarts + 1
  /\ nonceMu' = NoOne
  /\ nextNonce' = 0
  /\ nonceInited' = FALSE
  /\ firstNonce' = 0
  /\ pc' = [e \in Executes |-> IF pc[e] = "idle" THEN "idle" ELSE "gone"]
  /\ UNCHANGED <<nodeVars, nonce, attempts>>

Step(e) ==
  \/ LockNonce(e) \/ InitNonce(e) \/ InitNonceError(e) \/ NextNonce(e)
  \/ PrepareGas(e) \/ BindAndSend(e) \/ SendTransaction(e)

Next == Restart \/ \E e \in Executes : Start(e) \/ Step(e) \/ Mine(e)

Spec == Init /\ [][Next]_vars

(* Goroutines that can run do run, every node call returns, and the node   *)
(* mines what it can.                                                      *)
Fairness ==
  \A e \in Executes : WF_vars(Step(e)) /\ WF_vars(Mine(e))

FairSpec == Spec /\ Fairness

----------------------------------------------------------------------------
TypeOK ==
  /\ nonceMu \in Executes \cup {NoOne}
  /\ nextNonce \in Nat
  /\ nonceInited \in BOOLEAN
  /\ firstNonce \in Nat
  /\ pc \in [Executes -> PC]
  /\ nonce \in [Executes -> Nat]
  /\ attempts \in [Executes -> Nat]
  /\ mempool \subseteq Executes
  /\ included \subseteq Executes
  /\ mined \in Nat
  /\ restarts \in Nat

(* executor.go:97 `Allocate nonce sequentially to avoid concurrent race    *)
(* conditions': no two Executes of one process are given the same nonce,   *)
(* although the first one waits for the node inside the critical section.  *)
NoncesUnique ==
  \A e, f \in Allocated : nonce[e] = nonce[f] => e = f

(* The nonces given out are exactly those from the first one up to         *)
(* nextNonce: none is skipped by the allocation itself, none is beyond it. *)
NoncesContiguous ==
  nonceInited => {nonce[e] : e \in Allocated} = firstNonce..(nextNonce - 1)

(* The holder of nonceMu, and nobody else, is between Lock and Unlock.     *)
MutexHeld ==
  \A e \in Executes : nonceMu = e <=> pc[e] = "allocate"

(* The inductive invariant behind the invariants above: the critical       *)
(* section is exclusive on every return path, and no nonce is out before   *)
(* the counter is set.                                                     *)
IInv ==
  /\ TypeOK
  /\ MutexHeld
  /\ ~nonceInited => Allocated = {}
  /\ nonceInited => firstNonce < nextNonce
  /\ NoncesContiguous
  /\ NoncesUnique

(* Within one process the counter never goes back. *)
CounterNeverGoesBack ==
  [][nonceInited /\ nonceInited' => nextNonce' >= nextNonce /\ firstNonce' = firstNonce]_vars

(* Every Execute returns: the retries are bounded and no path keeps        *)
(* nonceMu.                                                                *)
ExecuteReturns ==
  \A e \in Executes : pc[e] = "lock" ~> pc[e] \in Returned \cup {"gone"}

(* README: the Executor `submits it to the network with a resilient retry  *)
(* mechanism': a transaction the node accepted is eventually mined.        *)
AcceptedIsMined ==
  \A e \in Executes : e \in mempool ~> e \in included
=============================================================================
