--------------------------- MODULE ExecutorProofs ---------------------------
(***************************************************************************)
(* Proofs about Executor for any number of concurrent Executes, attempts   *)
(* and restarts: within one process the nonces given out are distinct and  *)
(* contiguous, and the counter never goes back; only an Execute that gave  *)
(* up leaves a gap; and each Execute takes a bounded number of steps, none *)
(* of which waits for a goroutine that has ended.                          *)
(***************************************************************************)
EXTENDS Executor, TLAPS

LEMMA InitIInv == Init => IInv
  <1> SUFFICES ASSUME Init PROVE IInv
    OBVIOUS
  <1> USE NoOneAssumption, NumbersAssumption DEF Init
  <1>1. TypeOK
    BY DEF TypeOK, PC
  <1>2. MutexHeld /\ Allocated = {} /\ ~nonceInited
    BY DEF MutexHeld, Allocated
  <1> QED BY <1>1, <1>2 DEF IInv, NoncesContiguous, NoncesUnique

(* A call that has its nonce keeps it, and the counter is left alone. *)
LEMMA Unallocating ==
  ASSUME IInv, UNCHANGED <<serviceVars, nonce>>, TypeOK',
         \A e \in Executes : /\ pc'[e] = "allocate" <=> pc[e] = "allocate"
                             /\ e \in Allocated' <=> e \in Allocated
  PROVE  IInv'
  <1>1. Allocated' = Allocated
    BY DEF Allocated
  <1>2. MutexHeld'
    BY DEF IInv, MutexHeld, serviceVars
  <1>3. (~nonceInited => Allocated = {})' /\ (nonceInited => firstNonce < nextNonce)'
    BY <1>1 DEF IInv, serviceVars
  <1>4. NoncesContiguous' /\ NoncesUnique'
    BY <1>1 DEF IInv, NoncesContiguous, NoncesUnique, serviceVars
  <1> QED BY <1>2, <1>3, <1>4 DEF IInv

LEMMA Inductive == IInv /\ [Next]_vars => IInv'
  <1> SUFFICES ASSUME IInv, [Next]_vars PROVE IInv'
    OBVIOUS
  <1> USE NoOneAssumption, NumbersAssumption
  <1>1. CASE UNCHANGED vars
    BY <1>1 DEF vars, IInv, TypeOK, MutexHeld, Allocated, NoncesContiguous,
                NoncesUnique
  <1>2. CASE Restart
    <2>1. TypeOK'
      <3>1. pc' \in [Executes -> PC]
        BY <1>2 DEF Restart, PC
      <3>2. restarts' \in Nat
        BY <1>2 DEF Restart, IInv, TypeOK
      <3> QED BY <1>2, <3>1, <3>2 DEF Restart, nodeVars, IInv, TypeOK
    <2>2. Allocated' = {} /\ MutexHeld' /\ ~nonceInited'
      BY <1>2 DEF Restart, Allocated, MutexHeld
    <2> QED BY <2>1, <2>2 DEF IInv, NoncesContiguous, NoncesUnique
  <1>3. ASSUME NEW e \in Executes, Start(e) \/ PrepareGas(e) PROVE IInv'
    <2>1. TypeOK'
      BY <1>3 DEF Start, PrepareGas, serviceVars, nodeVars, IInv, TypeOK, PC
    <2> QED BY <1>3, <2>1, Unallocating
            DEF Start, PrepareGas, Allocated, IInv, TypeOK
  <1>4. ASSUME NEW e \in Executes, Mine(e) PROVE IInv'
    <2>1. TypeOK'
      BY <1>4 DEF Mine, serviceVars, IInv, TypeOK
    <2> QED BY <1>4, <2>1, Unallocating DEF Mine, Allocated
  <1>5. ASSUME NEW e \in Executes, BindAndSend(e) PROVE IInv'
    <2>1. TypeOK'
      BY <1>5 DEF BindAndSend, TakeIf, serviceVars, IInv, TypeOK, PC
    <2> QED BY <1>5, <2>1, Unallocating DEF BindAndSend, Allocated, IInv, TypeOK
  <1>6. ASSUME NEW e \in Executes, SendTransaction(e) PROVE IInv'
    <2>1. TypeOK'
      BY <1>6 DEF SendTransaction, TakeIf, serviceVars, IInv, TypeOK, PC
    <2>2. /\ pc[e] = "send" /\ UNCHANGED <<serviceVars, nonce>>
          /\ pc' = [pc EXCEPT ![e] = pc'[e]]
          /\ pc'[e] \in {"sent", "refused", "send", "failed"}
      BY <1>6 DEF SendTransaction, IInv, TypeOK
    <2> QED BY <2>1, <2>2, Unallocating DEF Allocated, IInv, TypeOK
  <1>7. ASSUME NEW e \in Executes, LockNonce(e) PROVE IInv'
    <2>1. TypeOK' /\ MutexHeld'
      BY <1>7 DEF LockNonce, nodeVars, IInv, TypeOK, MutexHeld, PC
    <2>2. Allocated' = Allocated
      BY <1>7 DEF LockNonce, Allocated, IInv, TypeOK
    <2> QED BY <1>7, <2>1, <2>2 DEF LockNonce, IInv, NoncesContiguous, NoncesUnique
  <1>8. ASSUME NEW e \in Executes, InitNonceError(e) PROVE IInv'
    <2>1. TypeOK' /\ MutexHeld'
      BY <1>8 DEF InitNonceError, nodeVars, IInv, TypeOK, MutexHeld, PC
    <2>2. Allocated' = Allocated
      BY <1>8 DEF InitNonceError, Allocated, IInv, TypeOK
    <2> QED BY <1>8, <2>1, <2>2
            DEF InitNonceError, IInv, NoncesContiguous, NoncesUnique
  <1>9. ASSUME NEW e \in Executes, InitNonce(e) PROVE IInv'
    <2>1. PICK n \in mined..(mined + Cardinality(Executes)) :
            /\ nonce' = [nonce EXCEPT ![e] = n]
            /\ nextNonce' = n + 1
            /\ firstNonce' = n
      BY <1>9 DEF InitNonce
    <2>2. n \in Nat
      BY <2>1 DEF IInv, TypeOK
    <2>3. TypeOK' /\ MutexHeld'
      BY <1>9, <2>1, <2>2 DEF InitNonce, nodeVars, IInv, TypeOK, MutexHeld, PC
    <2>4. Allocated' = {e} /\ nonceInited' /\ nonce'[e] = n
      BY <1>9, <2>1 DEF InitNonce, Allocated, IInv, TypeOK
    <2>5. NoncesContiguous' /\ NoncesUnique'
      BY <2>1, <2>2, <2>4 DEF NoncesContiguous, NoncesUnique
    <2> QED BY <2>1, <2>2, <2>3, <2>4, <2>5 DEF IInv
  <1>10. ASSUME NEW e \in Executes, NextNonce(e) PROVE IInv'
    <2>1. TypeOK' /\ MutexHeld'
      BY <1>10 DEF NextNonce, nodeVars, IInv, TypeOK, MutexHeld, PC
    <2>2. /\ e \notin Allocated
          /\ Allocated' = Allocated \cup {e}
          /\ nonceInited /\ nonceInited' /\ firstNonce' = firstNonce
          /\ nonce'[e] = nextNonce /\ nextNonce' = nextNonce + 1
          /\ \A f \in Allocated : nonce'[f] = nonce[f]
          /\ firstNonce \in Nat /\ nextNonce \in Nat /\ firstNonce < nextNonce
      BY <1>10 DEF NextNonce, Allocated, IInv, TypeOK
    <2>3. \A f \in Allocated : nonce[f] \in firstNonce..(nextNonce - 1)
      BY <2>2 DEF IInv, NoncesContiguous
    <2>4. NoncesUnique'
      BY <2>2, <2>3 DEF IInv, NoncesUnique
    <2>5. NoncesContiguous'
      <3>1. {nonce'[f] : f \in Allocated'} = {nonce[f] : f \in Allocated} \cup {nextNonce}
        BY <2>2
      <3>2. firstNonce..nextNonce = (firstNonce..(nextNonce - 1)) \cup {nextNonce}
        BY <2>2
      <3> QED BY <2>2, <3>1, <3>2 DEF IInv, NoncesContiguous
    <2> QED BY <2>1, <2>2, <2>4, <2>5 DEF IInv
  <1> QED
    BY <1>1, <1>2, <1>3, <1>4, <1>5, <1>6, <1>7, <1>8, <1>9, <1>10 DEF Next, Step

THEOREM Invariance == Spec => []IInv
  BY InitIInv, Inductive, PTL DEF Spec

(* Every variable keeps its type. *)
THEOREM TypeCorrect == Spec => []TypeOK
  BY Invariance, PTL DEF IInv

(* No two concurrent Executes of one process ever hold the same nonce.     *)
THEOREM NoncesNeverShared == Spec => []NoncesUnique
  BY Invariance, PTL DEF IInv

(* The allocation skips no nonce: a gap on chain can only come from an     *)
(* Execute that gave up after its nonce was allocated.                     *)
THEOREM NoNonceSkipped == Spec => []NoncesContiguous
  BY Invariance, PTL DEF IInv

(* Within one process the counter never goes back. *)
THEOREM CounterMonotone == Spec => CounterNeverGoesBack
  <1>1. IInv /\ [Next]_vars =>
          [nonceInited /\ nonceInited' =>
             nextNonce' >= nextNonce /\ firstNonce' = firstNonce]_vars
    <2> SUFFICES ASSUME IInv, Next, nonceInited, nonceInited'
                 PROVE  nextNonce' >= nextNonce /\ firstNonce' = firstNonce
      OBVIOUS
    <2>1. \/ UNCHANGED serviceVars
          \/ /\ nextNonce' \in {nextNonce, nextNonce + 1}
             /\ firstNonce' = firstNonce
      BY DEF Next, Step, Restart, Start, LockNonce, InitNonce, InitNonceError,
             NextNonce, PrepareGas, BindAndSend, SendTransaction, Mine
    <2> QED BY <2>1 DEF serviceVars, IInv, TypeOK
  <1> QED BY <1>1, Invariance, PTL DEF Spec, CounterNeverGoesBack

----------------------------------------------------------------------------
(* A transaction the node has or has mined was sent, so its Execute is     *)
(* past its nonce for good.                                                *)
SentInv ==
  \A e \in mempool : pc[e] \in {"send", "sent", "refused", "failed", "leaked", "gone"}

(* A nonce below the counter that the node neither has nor has mined       *)
(* belongs to an Execute of this process that is still to send, or that    *)
(* gave up between its nonce and the answer `ok' of the binding.           *)
Unsent == {"gas", "bind", "leaked"}

GapsAreFailures ==
  nonceInited => \A n \in mined..(nextNonce - 1) :
    \/ \E e \in mempool : nonce[e] = n
    \/ \E e \in Allocated : nonce[e] = n /\ pc[e] \in Unsent

LEMMA SentStep == TypeOK /\ SentInv /\ [Next]_vars => SentInv'
  <1> SUFFICES ASSUME TypeOK, SentInv, [Next]_vars PROVE SentInv'
    OBVIOUS
  <1>1. CASE UNCHANGED vars
    BY <1>1 DEF vars, SentInv
  <1>2. CASE Restart
    BY <1>2 DEF Restart, nodeVars, TypeOK, SentInv
  <1>3. ASSUME NEW e \in Executes, Mine(e) PROVE SentInv'
    BY <1>3 DEF Mine, SentInv
  <1>4. ASSUME NEW e \in Executes,
               \/ Start(e) \/ LockNonce(e) \/ InitNonce(e) \/ InitNonceError(e)
               \/ NextNonce(e) \/ PrepareGas(e)
        PROVE  SentInv'
    BY <1>4 DEF Start, LockNonce, InitNonce, InitNonceError, NextNonce, PrepareGas,
                nodeVars, TypeOK, SentInv
  <1>5. ASSUME NEW e \in Executes, BindAndSend(e) \/ SendTransaction(e) PROVE SentInv'
    BY <1>5 DEF BindAndSend, SendTransaction, TakeIf, TypeOK, SentInv
  <1> QED BY <1>1, <1>2, <1>3, <1>4, <1>5 DEF Next, Step

(* Nonces that are accounted for stay so while the counter stands and no   *)
(* nonce is given out.                                                     *)
LEMMA GapsKept ==
  ASSUME TypeOK, GapsAreFailures,
         UNCHANGED <<nextNonce, nonceInited, nonce, mined>>, mempool \subseteq mempool',
         \A e \in Allocated : pc[e] \in Unsent =>
           e \in mempool' \/ (e \in Allocated' /\ pc'[e] \in Unsent)
  PROVE  GapsAreFailures'
  BY DEF GapsAreFailures

LEMMA GapsStep == TypeOK /\ SentInv /\ GapsAreFailures /\ [Next]_vars => GapsAreFailures'
  <1> SUFFICES ASSUME TypeOK, SentInv, GapsAreFailures, [Next]_vars
               PROVE  GapsAreFailures'
    OBVIOUS
  <1> USE DEF serviceVars, nodeVars
  <1>1. CASE UNCHANGED vars
    BY <1>1 DEF vars, GapsAreFailures, Allocated
  <1>2. CASE Restart
    BY <1>2 DEF Restart, GapsAreFailures
  <1>3. ASSUME NEW e \in Executes, Mine(e) PROVE GapsAreFailures'
    <2>1. /\ mined \in Nat /\ mined' = mined + 1 /\ nonce[e] = mined
          /\ mempool' = mempool \ {e}
          /\ UNCHANGED <<nextNonce, nonceInited, nonce, pc>>
      BY <1>3 DEF Mine, TypeOK
    <2>2. ASSUME NEW n \in mined'..(nextNonce' - 1) PROVE n \in mined..(nextNonce - 1) /\ n # mined
      BY <2>1, <2>2 DEF TypeOK
    <2>3. Allocated' = Allocated
      BY <2>1 DEF Allocated
    <2> QED BY <2>1, <2>2, <2>3 DEF GapsAreFailures
  <1>4. ASSUME NEW e \in Executes,
               Start(e) \/ LockNonce(e) \/ InitNonceError(e) \/ PrepareGas(e)
        PROVE  GapsAreFailures'
    <2>1. /\ UNCHANGED <<nextNonce, nonceInited, nonce, mined, mempool>>
          /\ \A f \in Allocated : pc[f] \in Unsent =>
               f \in Allocated' /\ pc'[f] \in Unsent
      BY <1>4 DEF Start, LockNonce, InitNonceError, PrepareGas, TypeOK, Allocated, Unsent
    <2> QED BY <2>1, GapsKept
  <1>5. ASSUME NEW e \in Executes, BindAndSend(e) PROVE GapsAreFailures'
    <2>1. PICK a \in Answers(e) :
            /\ TakeIf(a[2], e)
            /\ pc' = [pc EXCEPT ![e] = IF a[1] = "ok" THEN "send" ELSE "leaked"]
      BY <1>5 DEF BindAndSend
    <2>2. a[1] = "ok" => e \in mempool'
      <3>1. a \in {<<"ok", TRUE>>, <<"final", FALSE>>, <<"retry", FALSE>>,
                   <<"retry", TRUE>>}
        BY <2>1 DEF Answers
      <3>2. CASE a = <<"ok", TRUE>>
        BY <2>1, <3>2 DEF TakeIf
      <3>3. CASE a = <<"final", FALSE>>
        BY <3>3
      <3>4. CASE a = <<"retry", FALSE>>
        BY <3>4
      <3>5. CASE a = <<"retry", TRUE>>
        BY <3>5
      <3> QED BY <3>1, <3>2, <3>3, <3>4, <3>5
    <2>3. /\ UNCHANGED <<nextNonce, nonceInited, nonce, mined>>
          /\ mempool \subseteq mempool' /\ pc[e] = "bind"
      BY <1>5, <2>1 DEF BindAndSend, TakeIf
    <2>4. \A f \in Allocated : pc[f] \in Unsent =>
            f \in mempool' \/ (f \in Allocated' /\ pc'[f] \in Unsent)
      BY <2>1, <2>2, <2>3 DEF TypeOK, Allocated, Unsent
    <2> QED BY <2>3, <2>4, GapsKept
  <1>6. ASSUME NEW e \in Executes, SendTransaction(e) PROVE GapsAreFailures'
    <2>1. /\ UNCHANGED <<nextNonce, nonceInited, nonce, mined>>
          /\ mempool \subseteq mempool' /\ pc[e] = "send"
          /\ \A f \in Executes : f # e => pc'[f] = pc[f]
      BY <1>6 DEF SendTransaction, TakeIf, TypeOK
    <2>2. \A f \in Allocated : pc[f] \in Unsent => f \in Allocated' /\ pc'[f] \in Unsent
      BY <2>1 DEF Allocated, Unsent
    <2> QED BY <2>1, <2>2, GapsKept
  <1>7. ASSUME NEW e \in Executes, InitNonce(e) PROVE GapsAreFailures'
    <2>1. PICK n \in mined..(mined + Cardinality(Executes)) :
            /\ PendingNonce(n)
            /\ nonce' = [nonce EXCEPT ![e] = n]
            /\ nextNonce' = n + 1
      BY <1>7 DEF InitNonce
    <2>2. /\ pc[e] = "allocate" /\ pc' = [pc EXCEPT ![e] = "gas"]
          /\ UNCHANGED <<mempool, mined>> /\ mined \in Nat /\ n \in Nat
      BY <1>7 DEF InitNonce, TypeOK
    <2>3. e \in Allocated' /\ pc'[e] \in Unsent /\ nonce'[e] = n
      BY <2>1, <2>2 DEF TypeOK, Allocated, Unsent
    <2>4. ASSUME NEW m \in mined..(n - 1) PROVE \E f \in mempool' : nonce'[f] = m
      <3>1. PICK f \in mempool : nonce[f] = m
        BY <2>1 DEF PendingNonce
      <3>2. f # e
        BY <2>2, <3>1 DEF SentInv
      <3> QED BY <2>1, <2>2, <3>1, <3>2 DEF TypeOK
    <2>5. \A m \in mined..n : m = n \/ m \in mined..(n - 1)
      BY <2>2
    <2> QED BY <2>1, <2>2, <2>3, <2>4, <2>5 DEF GapsAreFailures
  <1>8. ASSUME NEW e \in Executes, NextNonce(e) PROVE GapsAreFailures'
    <2>1. /\ pc[e] = "allocate" /\ nonceInited /\ nextNonce \in Nat /\ mined \in Nat
          /\ nextNonce' = nextNonce + 1
          /\ UNCHANGED <<mempool, mined>>
          /\ nonce'[e] = nextNonce /\ e \in Allocated' /\ pc'[e] \in Unsent
          /\ \A f \in Executes : f # e => nonce'[f] = nonce[f] /\ pc'[f] = pc[f]
      BY <1>8 DEF NextNonce, TypeOK, Allocated, Unsent
    <2>2. e \notin mempool /\ e \notin Allocated /\ mempool \subseteq Executes
      BY <2>1 DEF SentInv, Allocated, TypeOK
    <2>3. ASSUME NEW m \in mined..(nextNonce - 1)
          PROVE  \/ \E f \in mempool' : nonce'[f] = m
                 \/ \E f \in Allocated' : nonce'[f] = m /\ pc'[f] \in Unsent
      <3>1. CASE \E f \in mempool : nonce[f] = m
        BY <2>1, <2>2, <3>1
      <3>2. CASE \E f \in Allocated : nonce[f] = m /\ pc[f] \in Unsent
        BY <2>1, <2>2, <3>2 DEF Allocated
      <3> QED BY <2>1, <3>1, <3>2 DEF GapsAreFailures
    <2>4. \A m \in mined..nextNonce : m = nextNonce \/ m \in mined..(nextNonce - 1)
      BY <2>1
    <2> QED BY <2>1, <2>3, <2>4 DEF GapsAreFailures
  <1> QED BY <1>1, <1>2, <1>3, <1>4, <1>5, <1>6, <1>7, <1>8 DEF Next, Step

(* What stalls the account is always such an Execute: no order of mining,  *)
(* no retry and no restart opens a gap below the counter on its own, so an *)
(* accepted transaction waits only for one that was given up or is still   *)
(* to be sent.                                                             *)
THEOREM OnlyFailuresStall == Spec => []GapsAreFailures
  <1>1. Init => SentInv /\ GapsAreFailures
    BY DEF Init, SentInv, GapsAreFailures
  <1>2. IInv /\ SentInv /\ GapsAreFailures /\ [Next]_vars => SentInv' /\ GapsAreFailures'
    BY SentStep, GapsStep DEF IInv
  <1> QED BY Invariance, <1>1, <1>2, PTL DEF Spec

----------------------------------------------------------------------------
(* How many steps an Execute may still take: the sends that are left, and  *)
(* before them Start, LockNonce, the allocation, PrepareGas, BindAndSend.  *)
Remaining(e) ==
  CASE pc[e] = "idle"     -> MaxRetries + 5
    [] pc[e] = "lock"     -> MaxRetries + 4
    [] pc[e] = "allocate" -> MaxRetries + 3
    [] pc[e] = "gas"      -> MaxRetries + 2
    [] pc[e] = "bind"     -> MaxRetries + 1
    [] pc[e] = "send"     -> MaxRetries - attempts[e]
    [] OTHER              -> 0

(* No send has failed before the retry loop, and the loop is left when     *)
(* maxRetries sends have.                                                  *)
RetryInv ==
  \A e \in Executes :
    /\ attempts[e] \in 0..MaxRetries
    /\ pc[e] \in {"idle", "lock", "allocate", "gas", "bind"} => attempts[e] = 0
    /\ pc[e] = "send" => attempts[e] < MaxRetries

(* Each step of an Execute, the retry of a failed send among them, uses up *)
(* some of the work it has left, and nobody else's step adds to it.        *)
EveryStepCounts ==
  [][\A e \in Executes : /\ Remaining(e)' <= Remaining(e)
                         /\ Start(e) \/ Step(e) => Remaining(e)' < Remaining(e)]_vars

(* Who waits for nonceMu waits for an Execute that is about to release it. *)
LockIsReleased ==
  \A e \in Executes :
    pc[e] = "lock" => \/ nonceMu = NoOne
                     \/ \E f \in Executes \ {e} : nonceMu = f /\ pc[f] = "allocate"

LEMMA RemainingType ==
  ASSUME TypeOK, RetryInv, NEW e \in Executes
  PROVE  Remaining(e) \in Nat
  BY NumbersAssumption DEF Remaining, RetryInv, TypeOK

(* What one step does to the Execute that takes it, and to the others. *)
LEMMA StepEffect ==
  ASSUME TypeOK, RetryInv, Next, NEW e \in Executes
  PROVE  \/ UNCHANGED <<pc[e], attempts[e]>> /\ ~Start(e) /\ ~Step(e)
         \/ pc'[e] = "gone" /\ attempts'[e] = attempts[e] /\ ~Start(e) /\ ~Step(e)
         \/ /\ attempts'[e] = attempts[e]
            /\ <<pc[e], pc'[e]>> \in
                 {<<"idle", "lock">>, <<"lock", "allocate">>, <<"allocate", "gas">>,
                  <<"allocate", "noNonce">>, <<"gas", "bind">>, <<"gas", "leaked">>,
                  <<"bind", "send">>, <<"bind", "leaked">>, <<"send", "sent">>,
                  <<"send", "refused">>}
         \/ /\ pc[e] = "send" /\ attempts'[e] = attempts[e] + 1
            /\ pc'[e] = IF attempts[e] + 1 < MaxRetries THEN "send" ELSE "failed"
  <1>1. CASE Start(e) \/ Step(e)
    <2>1. CASE Start(e) \/ LockNonce(e) \/ InitNonce(e) \/ InitNonceError(e) \/ NextNonce(e)
      BY <2>1 DEF Start, LockNonce, InitNonce, InitNonceError, NextNonce, TypeOK
    <2>2. CASE PrepareGas(e) \/ BindAndSend(e)
      BY <2>2 DEF PrepareGas, BindAndSend, TypeOK
    <2>3. CASE SendTransaction(e)
      BY <2>3 DEF SendTransaction, TypeOK
    <2> QED BY <1>1, <2>1, <2>2, <2>3 DEF Step
  <1>2. CASE ~Start(e) /\ ~Step(e)
    <2>1. CASE Restart
      BY <1>2, <2>1 DEF Restart, TypeOK
    <2>2. ASSUME NEW f \in Executes, Mine(f) PROVE UNCHANGED <<pc[e], attempts[e]>>
      BY <2>2 DEF Mine
    <2>3. ASSUME NEW f \in Executes, f # e, Start(f) \/ Step(f)
          PROVE  UNCHANGED <<pc[e], attempts[e]>>
      BY <2>3 DEF Step, Start, LockNonce, InitNonce, InitNonceError, NextNonce,
                  PrepareGas, BindAndSend, SendTransaction, TypeOK
    <2> QED BY <1>2, <2>1, <2>2, <2>3 DEF Next
  <1> QED BY <1>1, <1>2

LEMMA RetryStep == TypeOK /\ TypeOK' /\ RetryInv /\ [Next]_vars => RetryInv'
  <1> SUFFICES ASSUME TypeOK, TypeOK', RetryInv, [Next]_vars PROVE RetryInv'
    OBVIOUS
  <1>1. CASE UNCHANGED vars
    BY <1>1 DEF vars, RetryInv
  <1>2. ASSUME Next, NEW e \in Executes
        PROVE  /\ attempts'[e] \in 0..MaxRetries
               /\ pc'[e] \in {"idle", "lock", "allocate", "gas", "bind"} =>
                    attempts'[e] = 0
               /\ pc'[e] = "send" => attempts'[e] < MaxRetries
    <2>1. /\ attempts[e] \in 0..MaxRetries
          /\ pc[e] \in {"idle", "lock", "allocate", "gas", "bind"} => attempts[e] = 0
          /\ pc[e] = "send" => attempts[e] < MaxRetries
      BY DEF RetryInv
    <2> QED BY <1>2, <2>1, StepEffect, NumbersAssumption
  <1> QED BY <1>1, <1>2 DEF RetryInv

LEMMA RetryInvariance == Spec => []RetryInv
  <1>1. Init => RetryInv
    BY NumbersAssumption DEF Init, RetryInv
  <1>2. IInv /\ IInv' /\ RetryInv /\ [Next]_vars => RetryInv'
    BY RetryStep DEF IInv
  <1> QED BY Invariance, <1>1, <1>2, PTL DEF Spec

(* Every Execute ends after at most MaxRetries + 5 steps of its own: its   *)
(* remaining work is a natural number and each of its steps lowers it.     *)
THEOREM ExecuteIsBounded ==
  Spec => []RetryInv /\ [](\A e \in Executes : Remaining(e) \in Nat) /\ EveryStepCounts
  <1>1. IInv /\ RetryInv => \A e \in Executes : Remaining(e) \in Nat
    BY RemainingType DEF IInv
  <1>2. IInv /\ RetryInv /\ [Next]_vars =>
          [\A e \in Executes : /\ Remaining(e)' <= Remaining(e)
                               /\ Start(e) \/ Step(e) =>
                                    Remaining(e)' < Remaining(e)]_vars
    <2> SUFFICES ASSUME IInv, RetryInv, Next, NEW e \in Executes
                 PROVE  /\ Remaining(e)' <= Remaining(e)
                        /\ Start(e) \/ Step(e) => Remaining(e)' < Remaining(e)
      OBVIOUS
    <2>1. Remaining(e) \in Nat
      BY <1>1
    <2>2. attempts[e] \in 0..MaxRetries /\ (pc[e] = "send" => attempts[e] < MaxRetries)
      BY DEF RetryInv
    <2>3. TypeOK
      BY DEF IInv
    <2> QED BY <2>1, <2>2, <2>3, StepEffect, NumbersAssumption DEF Remaining
  <1> QED BY <1>1, <1>2, Invariance, RetryInvariance, PTL DEF Spec, EveryStepCounts

(* Nobody waits at nonceMu for good: its holder is between Lock and        *)
(* Unlock, where every answer of the node, an error too, releases it.      *)
THEOREM LockComesFree == Spec => []LockIsReleased
  <1>1. IInv => LockIsReleased
    BY DEF IInv, TypeOK, MutexHeld, LockIsReleased
  <1> QED BY <1>1, Invariance, PTL
=============================================================================
