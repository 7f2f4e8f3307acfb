------------------------- MODULE MarketStateProofs -------------------------
(***************************************************************************)
(* Proof that the cache's write lock makes every swap's read-modify-write  *)
(* of its pool atomic, for any number of swaps, pools, Scans and refresh   *)
(* rounds.                                                                 *)
(***************************************************************************)
EXTENDS MarketState, TLAPS

LockType == [writer : Procs \cup {NoOne},
             readers : SUBSET Procs, waiting : SUBSET Procs]

(* What the lock's operations do to its record. *)
LEMMA LockOps ==
  ASSUME lock \in LockType, NEW x \in Procs
  PROVE  /\ Lock(x) => /\ lock.writer = NoOne
                       /\ lock' \in LockType
                       /\ lock'.writer = x
                       /\ lock'.readers = lock.readers
         /\ Unlock => lock' \in LockType /\ lock'.writer = NoOne
         /\ RLock(x) => /\ lock' \in LockType
                        /\ lock'.writer = lock.writer
                        /\ lock.writer # NoOne => lock'.readers = lock.readers
         /\ RUnlock(x) => /\ lock' \in LockType
                          /\ lock'.writer = lock.writer
                          /\ lock'.readers \subseteq lock.readers
  BY DEF LockType, Lock, Unlock, RLock, RUnlock

(* A field's new value is again a set of swaps. *)
LEMMA NewValueType ==
  ASSUME NEW s \in Swaps, NEW v \in SUBSET Swaps
  PROVE  NewValue(v, s) \in SUBSET Swaps
  BY DEF NewValue

(* The initial state. *)
LEMMA InitIInv == Init => IInv
  <1> SUFFICES ASSUME Init PROVE IInv
    OBVIOUS
  <1> USE PoolsAssumption, ProcsAssumption, BoundsAssumption
  <1>1. TypeOK
    <2>1. {} \in Reading
      BY DEF Reading
    <2>2. pc \in [Procs -> SwapPC \cup UpdaterPC]
      BY DEF Init, SwapPC
    <2>3. dbQueue \in 0..QueueCap /\ rounds \in 0..MaxRounds
          /\ found \in [Swaps -> 0..MaxFound]
      BY DEF Init
    <2> QED BY <2>1, <2>2, <2>3 DEF Init, TypeOK
  <1>2. WriterInv
    BY DEF Init, WriterInv, Writing, Procs
  <1>3. UpdateInv
    BY DEF Init, UpdateInv, Procs
  <1>4. StateWhole
    BY DEF Init, StateWhole
  <1> QED BY <1>1, <1>2, <1>3, <1>4 DEF IInv

----------------------------------------------------------------------------
(* Every action keeps the types. *)
LEMMA TypeStep == TypeOK /\ UpdateInv /\ [Next]_vars => TypeOK'
  <1> SUFFICES ASSUME TypeOK, UpdateInv, [Next]_vars PROVE TypeOK'
    OBVIOUS
  <1> USE PoolsAssumption, ProcsAssumption, BoundsAssumption DEF TypeOK
  <1>0. lock \in LockType /\ (lock' \in LockType <=> lock' \in
           [writer : Procs \cup {NoOne}, readers : SUBSET Procs, waiting : SUBSET Procs])
    BY DEF LockType
  <1>1. CASE UNCHANGED vars
    BY <1>1 DEF vars, fieldVars
  <1>2. CASE Environment
    <2>1. CASE DrainQueue
      <3>1. dbQueue' \in 0..QueueCap
        BY <2>1 DEF DrainQueue
      <3> QED BY <2>1, <3>1 DEF DrainQueue, fieldVars
    <2>2. CASE HubWritten
      BY <2>2 DEF HubWritten, fieldVars
    <2> QED BY <1>2, <2>1, <2>2 DEF Environment
  <1>3. CASE Tick \/ UpdatePools
    <2>1. Updater \in Procs
      BY DEF Procs
    <2>2. lock' \in LockType
      BY <1>0, <1>3, <2>1, LockOps DEF Tick, UpdatePools, Snapshot, FetchReserves,
         LockApply, ApplyNothing, GetPoolByAddress
    <2>3. pc' \in [Procs -> SwapPC \cup UpdaterPC]
      BY <1>3, <2>1 DEF Tick, UpdatePools, Snapshot, FetchReserves,
         LockApply, ApplyNothing, GetPoolByAddress, GoTo, UpdaterPC
    <2>4. rounds' \in 0..MaxRounds
      BY <1>3 DEF Tick, UpdatePools, Snapshot, FetchReserves,
         LockApply, ApplyNothing, GetPoolByAddress
    <2> QED BY <1>0, <1>3, <2>2, <2>3, <2>4 DEF Tick, UpdatePools, Snapshot,
         FetchReserves, LockApply, ApplyNothing, GetPoolByAddress, fieldVars
  <1>4. ASSUME NEW s \in Swaps, Start(s) \/ ProcessSwap(s) PROVE TypeOK'
    <2> USE <1>4 DEF ProcessSwap
    <2>1. s \in Procs /\ PoolOf[s] \in Pools
      BY DEF Procs
    <2>2. lock' \in LockType
      BY <1>0, <2>1, LockOps DEF Start, Lookup, SaveSwap, LockState, ReadState,
         WriteFirst, WriteSecond, ReadFirst, ReadSecond, LockPrice, SetPrice,
         StartScan, FindOpportunity, BroadcastOpportunity, SaveOpportunity, EndScan
    <2>3. pc' \in [Procs -> SwapPC \cup UpdaterPC]
      <3>1. \E label \in SwapPC : GoTo(s, label)
        BY DEF Start, Lookup, SaveSwap, LockState, ReadState,
           WriteFirst, WriteSecond, ReadFirst, ReadSecond, LockPrice, SetPrice,
           StartScan, FindOpportunity, BroadcastOpportunity, SaveOpportunity, EndScan,
           SwapPC
      <3> QED BY <2>1, <3>1 DEF GoTo
    <2>4. /\ found' \in [Swaps -> 0..MaxFound]
          /\ dbQueue' \in 0..QueueCap
          /\ hubBusy' \in BOOLEAN
          /\ rounds' \in 0..MaxRounds
      <3>1. dbQueue' \in 0..QueueCap
        <4>1. SendToDB => dbQueue' \in 0..QueueCap
          BY DEF SendToDB
        <4> QED BY <4>1
            DEF Start, Lookup, SaveSwap, LockState, ReadState,
              WriteFirst, WriteSecond, ReadFirst, ReadSecond, LockPrice, SetPrice,
              StartScan, FindOpportunity, BroadcastOpportunity, SaveOpportunity, EndScan
      <3>2. found' \in [Swaps -> 0..MaxFound]
        <4>1. CASE FindOpportunity(s)
          <5>1. found[s] + 1 \in 0..MaxFound
            BY <4>1 DEF FindOpportunity
          <5> QED BY <4>1, <5>1 DEF FindOpportunity
        <4> QED BY <4>1
            DEF Start, Lookup, SaveSwap, LockState, ReadState,
              WriteFirst, WriteSecond, ReadFirst, ReadSecond, LockPrice, SetPrice,
              StartScan, FindOpportunity, BroadcastOpportunity, SaveOpportunity, EndScan
      <3>3. hubBusy' \in BOOLEAN /\ rounds' \in 0..MaxRounds
        BY DEF Start, Lookup, SaveSwap, LockState, ReadState,
              WriteFirst, WriteSecond, ReadFirst, ReadSecond, LockPrice, SetPrice,
              StartScan, FindOpportunity, BroadcastOpportunity, SaveOpportunity, EndScan
      <3> QED BY <3>1, <3>2, <3>3
    <2>5. seen' \in [Swaps -> Reading \X Reading]
      <3>1. CASE ReadState(s)
        BY <2>1, <3>1 DEF ReadState, Reading
      <3>2. CASE ReadFirst(s)
        BY <2>1, <3>2 DEF ReadFirst, RacyRead, Reading
      <3>3. CASE ReadSecond(s)
        <4>1. PICK v \in RacyRead(second[PoolOf[s]], PoolOf[s], "writeSecond") :
                seen' = [seen EXCEPT ![s] = <<seen[s][1], v>>]
          BY <3>3 DEF ReadSecond
        <4>2. v \in Reading
          BY <2>1, <4>1 DEF RacyRead, Reading
        <4> QED BY <4>1, <4>2
      <3> QED BY <3>1, <3>2, <3>3 DEF Start, Lookup, SaveSwap, LockState,
            WriteFirst, WriteSecond, LockPrice, SetPrice,
            StartScan, FindOpportunity, BroadcastOpportunity, SaveOpportunity, EndScan
    <2>6. first' \in [Pools -> SUBSET Swaps] /\ second' \in [Pools -> SUBSET Swaps]
      <3>1. CASE WriteFirst(s)
        <4>1. NewValue(seen[s][1], s) \in SUBSET Swaps
          BY <2>1, <3>1, NewValueType DEF WriteFirst, UpdateInv
        <4> QED BY <3>1, <4>1 DEF WriteFirst
      <3>2. CASE WriteSecond(s)
        <4>1. NewValue(seen[s][2], s) \in SUBSET Swaps
          BY <2>1, <3>2, NewValueType DEF WriteSecond, UpdateInv
        <4> QED BY <3>2, <4>1 DEF WriteSecond
      <3> QED BY <3>1, <3>2 DEF Start, Lookup, SaveSwap, LockState, ReadState,
            ReadFirst, ReadSecond, LockPrice, SetPrice, fieldVars,
            StartScan, FindOpportunity, BroadcastOpportunity, SaveOpportunity, EndScan
    <2>7. price' \in [Pools -> Reading \X Reading]
      BY <2>1 DEF Start, Lookup, SaveSwap, LockState, ReadState,
         WriteFirst, WriteSecond, ReadFirst, ReadSecond, LockPrice, SetPrice,
         StartScan, FindOpportunity, BroadcastOpportunity, SaveOpportunity, EndScan,
         fieldVars
    <2> QED BY <1>0, <2>2, <2>3, <2>4, <2>5, <2>6, <2>7
  <1> QED BY <1>1, <1>2, <1>3, <1>4 DEF Next
----------------------------------------------------------------------------
(* How an action of x may move the lock, and why that keeps WriterInv:     *)
(* x keeps its part, calls Lock, or calls Unlock.                          *)
WritingLabels == {"waitState", "writeFirst", "writeSecond", "waitPrice",
                  "waitApply", "getPool"}
UpdateLabels == {"writeFirst", "writeSecond"}

LEMMA KeepsPart ==
  ASSUME TypeOK, WriterInv, NEW x \in Procs, NEW label, GoTo(x, label),
         lock'.writer = lock.writer,
         lock.writer # NoOne => lock'.readers \subseteq lock.readers,
         label \in WritingLabels <=> pc[x] \in WritingLabels,
         label \in UpdateLabels => lock.readers = {}
  PROVE  WriterInv'
  <1>1. \A y \in Procs : pc'[y] = IF y = x THEN label ELSE pc[y]
    BY DEF GoTo, TypeOK
  <1>2. \A y \in Procs : lock'.writer = y <=> Writing(y)'
    BY <1>1 DEF WriterInv, Writing, WritingLabels
  <1>3. ASSUME NEW s \in Swaps, pc'[s] \in {"writeFirst", "writeSecond"}
        PROVE  lock'.readers = {}
    <2>1. s \in Procs /\ Writing(s)'
      BY <1>3 DEF Procs, Writing
    <2>2. lock.writer # NoOne
      BY <1>2, <2>1, ProcsAssumption DEF Procs
    <2>3. lock.readers = {}
      BY <1>1, <1>3, <2>1 DEF WriterInv, UpdateLabels
    <2> QED BY <2>2, <2>3
  <1> QED BY <1>2, <1>3 DEF WriterInv

LEMMA CallsLock ==
  ASSUME TypeOK, WriterInv, NEW x \in Procs, NEW label, GoTo(x, label),
         Lock(x), label \in WritingLabels \ UpdateLabels
  PROVE  WriterInv'
  <1>1. \A y \in Procs : pc'[y] = IF y = x THEN label ELSE pc[y]
    BY DEF GoTo, TypeOK
  <1>2. lock \in LockType
    BY DEF TypeOK, LockType
  <1>3. lock'.writer = x /\ lock.writer = NoOne /\ NoOne \notin Procs
    BY <1>2, LockOps, ProcsAssumption DEF Procs
  <1>4. \A y \in Procs : ~Writing(y)
    BY <1>3 DEF WriterInv
  <1>5. \A y \in Procs : lock'.writer = y <=> Writing(y)'
    BY <1>1, <1>3, <1>4 DEF Writing, WritingLabels
  <1>6. \A s \in Swaps : pc'[s] \notin {"writeFirst", "writeSecond"}
    BY <1>1, <1>4 DEF Writing, UpdateLabels, Procs
  <1> QED BY <1>5, <1>6 DEF WriterInv

LEMMA CallsUnlock ==
  ASSUME TypeOK, WriterInv, NEW x \in Procs, NEW label, GoTo(x, label),
         Unlock, Writing(x), label \notin WritingLabels
  PROVE  WriterInv'
  <1>1. \A y \in Procs : pc'[y] = IF y = x THEN label ELSE pc[y]
    BY DEF GoTo, TypeOK
  <1>2. lock \in LockType
    BY DEF TypeOK, LockType
  <1>3. lock'.writer = NoOne /\ lock.writer = x /\ NoOne \notin Procs
    BY <1>2, LockOps, ProcsAssumption DEF Procs, WriterInv
  <1>4. \A y \in Procs : y # x => ~Writing(y)
    BY <1>3 DEF WriterInv
  <1>5. \A y \in Procs : ~Writing(y)'
    BY <1>1, <1>4 DEF Writing, WritingLabels
  <1>6. \A s \in Swaps : pc'[s] \notin {"writeFirst", "writeSecond"}
    BY <1>5 DEF Writing, Procs
  <1> QED BY <1>3, <1>5, <1>6 DEF WriterInv

LEMMA WriterStep == TypeOK /\ WriterInv /\ [Next]_vars => WriterInv'
  <1> SUFFICES ASSUME TypeOK, WriterInv, [Next]_vars PROVE WriterInv'
    OBVIOUS
  <1> USE DEF WritingLabels, UpdateLabels
  <1>0. lock \in LockType
    BY DEF TypeOK, LockType
  <1>1. CASE UNCHANGED vars
    BY <1>1 DEF vars, WriterInv, Writing
  <1>2. CASE Environment
    BY <1>2 DEF Environment, DrainQueue, HubWritten, WriterInv, Writing
  <1>3. CASE Tick \/ UpdatePools
    <2>0. Updater \in Procs
      BY DEF Procs
    <2>1. CASE Tick
      BY <1>0, <2>0, <2>1, LockOps, KeepsPart DEF Tick
    <2>2. CASE Snapshot
      BY <1>0, <2>0, <2>2, LockOps, KeepsPart DEF Snapshot
    <2>3. CASE FetchReserves
      BY <2>0, <2>3, KeepsPart DEF FetchReserves
    <2>4. CASE LockApply
      BY <2>0, <2>4, CallsLock DEF LockApply
    <2>5. CASE ApplyNothing
      BY <2>0, <2>5, CallsUnlock DEF ApplyNothing, Writing
    <2>6. CASE GetPoolByAddress
      BY <1>0, <2>0, <2>6, LockOps, KeepsPart DEF GetPoolByAddress
    <2> QED BY <1>3, <2>1, <2>2, <2>3, <2>4, <2>5, <2>6 DEF UpdatePools
  <1>4. ASSUME NEW s \in Swaps, Start(s) \/ ProcessSwap(s) PROVE WriterInv'
    <2>0. s \in Procs
      BY DEF Procs
    <2>1. CASE Start(s)
      BY <1>0, <2>0, <2>1, LockOps, KeepsPart DEF Start
    <2>2. CASE Lookup(s)
      BY <1>0, <2>0, <2>2, LockOps, KeepsPart DEF Lookup
    <2>3. CASE SaveSwap(s)
      BY <2>0, <2>3, KeepsPart DEF SaveSwap
    <2>4. CASE LockState(s)
      BY <2>0, <2>4, CallsLock DEF LockState
    <2>5. CASE ReadState(s)
      BY <2>0, <2>5, KeepsPart DEF ReadState, Holds
    <2>6. CASE WriteFirst(s)
      BY <2>0, <2>6, KeepsPart DEF WriteFirst, WriterInv
    <2>7. CASE WriteSecond(s)
      BY <2>0, <2>7, CallsUnlock DEF WriteSecond, Writing
    <2>8. CASE ReadFirst(s)
      BY <2>0, <2>8, KeepsPart DEF ReadFirst
    <2>9. CASE ReadSecond(s)
      BY <2>0, <2>9, KeepsPart DEF ReadSecond
    <2>10. CASE LockPrice(s)
      BY <2>0, <2>10, CallsLock DEF LockPrice
    <2>11. CASE SetPrice(s)
      BY <2>0, <2>11, CallsUnlock DEF SetPrice, Writing
    <2>12. CASE StartScan(s)
      BY <1>0, <2>0, <2>12, LockOps, KeepsPart DEF StartScan
    <2>13. CASE FindOpportunity(s) \/ BroadcastOpportunity(s) \/ SaveOpportunity(s)
      BY <2>0, <2>13, KeepsPart DEF FindOpportunity, BroadcastOpportunity, SaveOpportunity
    <2>14. CASE EndScan(s)
      BY <1>0, <2>0, <2>14, LockOps, KeepsPart DEF EndScan
    <2> QED BY <1>4, <2>1, <2>2, <2>3, <2>4, <2>5, <2>6, <2>7, <2>8, <2>9, <2>10,
            <2>11, <2>12, <2>13, <2>14 DEF ProcessSwap
  <1> QED BY <1>1, <1>2, <1>3, <1>4 DEF Next

----------------------------------------------------------------------------
(* At most one goroutine is between Lock and Unlock. *)
LEMMA OneWriter ==
  ASSUME WriterInv, NEW x \in Procs, NEW y \in Procs, Writing(x), Writing(y)
  PROVE  x = y
  BY DEF WriterInv

(* Steps that leave the fields alone, neither begin nor end a write, and   *)
(* do not change what a goroutine that is writing has read.                *)
LEMMA FieldsAlone ==
  ASSUME UpdateInv, StateWhole, first' = first, second' = second,
         \A t \in Swaps : pc'[t] \in UpdateLabels \/ pc[t] \in UpdateLabels =>
                           pc'[t] = pc[t] /\ seen'[t] = seen[t]
  PROVE  UpdateInv' /\ StateWhole'
  BY DEF UpdateInv, StateWhole, UpdateLabels, NewValue

LEMMA FieldsStep ==
  TypeOK /\ WriterInv /\ UpdateInv /\ StateWhole /\ [Next]_vars
    => UpdateInv' /\ StateWhole'
  <1> SUFFICES ASSUME TypeOK, WriterInv, UpdateInv, StateWhole, [Next]_vars
               PROVE  UpdateInv' /\ StateWhole'
    OBVIOUS
  <1>1. CASE UNCHANGED vars
    BY <1>1, FieldsAlone DEF vars
  <1>2. CASE Environment
    BY <1>2, FieldsAlone DEF Environment, DrainQueue, HubWritten, fieldVars
  <1>3. CASE Tick \/ UpdatePools
    <2>1. first' = first /\ second' = second /\ seen' = seen
      BY <1>3 DEF Tick, UpdatePools, Snapshot, FetchReserves, LockApply,
         ApplyNothing, GetPoolByAddress, fieldVars
    <2>2. \A t \in Swaps : pc'[t] = pc[t]
      BY <1>3, ProcsAssumption DEF Tick, UpdatePools, Snapshot, FetchReserves,
         LockApply, ApplyNothing, GetPoolByAddress, GoTo, TypeOK, Procs
    <2> QED BY <2>1, <2>2, FieldsAlone
  <1>4. ASSUME NEW s \in Swaps, Start(s) \/ ProcessSwap(s)
        PROVE  UpdateInv' /\ StateWhole'
    <2> DEFINE p == PoolOf[s]
    <2>0. s \in Procs /\ p \in Pools
      BY PoolsAssumption DEF Procs
    <2>a. ASSUME NEW label, GoTo(s, label)
          PROVE  \A t \in Swaps : pc'[t] = IF t = s THEN label ELSE pc[t]
      BY <2>a DEF GoTo, TypeOK, Procs
    <2>b. ASSUME Writing(s), NEW t \in Swaps, t # s PROVE pc[t] \notin UpdateLabels
      BY <2>0, <2>b, OneWriter DEF Writing, UpdateLabels, Procs
    <2>1. CASE ReadState(s)
      <3>1. /\ first' = first /\ second' = second
            /\ seen'[s] = <<first[p], second[p]>>
            /\ Writing(s)
        BY <2>1 DEF ReadState, fieldVars, TypeOK, Writing
      <3>2. \A t \in Swaps : pc'[t] = IF t = s THEN "writeFirst" ELSE pc[t]
        BY <2>1, <2>a DEF ReadState
      <3>3. \A t \in Swaps : t # s => pc[t] \notin UpdateLabels
        BY <3>1, <2>b
      <3>4. UpdateInv'
        BY <3>1, <3>2, <3>3 DEF UpdateInv, UpdateLabels
      <3>5. StateWhole'
        BY <2>1, <3>1, <3>2 DEF StateWhole, ReadState
      <3> QED BY <3>4, <3>5
    <2>2. CASE WriteFirst(s)
      <3>1. /\ second' = second /\ seen' = seen /\ Writing(s)
            /\ seen[s] = <<first[p], second[p]>>
            /\ first' = [first EXCEPT ![p] = NewValue(first[p], s)]
        <4>1. seen[s] = <<first[p], second[p]>> /\ seen[s][1] = first[p]
          BY <2>2 DEF WriteFirst, UpdateInv
        <4> QED BY <2>2, <4>1 DEF WriteFirst, Writing
      <3>2. \A t \in Swaps : pc'[t] = IF t = s THEN "writeSecond" ELSE pc[t]
        BY <2>2, <2>a DEF WriteFirst
      <3>3. \A t \in Swaps : pc[t] # "writeSecond"
        BY <2>2, <3>1, <2>b DEF UpdateLabels, WriteFirst
      <3>4. first = second
        BY <3>3 DEF StateWhole, TypeOK
      <3>5. first'[p] = NewValue(second'[p], s)
        BY <2>0, <3>1, <3>4 DEF TypeOK
      <3>6. UpdateInv'
        <4>1. \A t \in Swaps : t # s => pc'[t] \notin UpdateLabels
          BY <3>1, <3>2, <2>b
        <4>2. seen'[s][2] = second'[p]
          BY <3>1
        <4> QED BY <3>2, <3>5, <4>1, <4>2 DEF UpdateInv, UpdateLabels, NewValue
      <3>7. StateWhole'
        BY <3>1, <3>2, <3>4 DEF StateWhole, TypeOK
      <3> QED BY <3>6, <3>7
    <2>3. CASE WriteSecond(s)
      <3>1. /\ first' = first /\ Writing(s)
            /\ seen[s][2] = second[p] /\ first[p] = NewValue(second[p], s)
            /\ second' = [second EXCEPT ![p] = NewValue(second[p], s)]
        BY <2>3 DEF WriteSecond, UpdateInv, Writing
      <3>2. \A t \in Swaps : pc'[t] = IF t = s THEN "readFirst" ELSE pc[t]
        BY <2>3, <2>a DEF WriteSecond
      <3>3. \A t \in Swaps : pc'[t] \notin UpdateLabels
        BY <3>1, <3>2, <2>b DEF UpdateLabels
      <3>4. UpdateInv'
        BY <3>3 DEF UpdateInv, UpdateLabels
      <3>5. \A q \in Pools : q # p => first[q] = second[q]
        BY <3>1, <2>b DEF StateWhole, UpdateLabels
      <3>6. StateWhole'
        BY <3>1, <3>5 DEF StateWhole, TypeOK
      <3> QED BY <3>4, <3>6
    <2>4. CASE ReadFirst(s) \/ ReadSecond(s)
      <3>1. PICK label \in SwapPC \ UpdateLabels : GoTo(s, label)
        BY <2>4 DEF ReadFirst, ReadSecond, SwapPC, UpdateLabels
      <3>2. pc[s] \notin UpdateLabels /\ first' = first /\ second' = second
        BY <2>4 DEF ReadFirst, ReadSecond, fieldVars, UpdateLabels
      <3>3. \A t \in Swaps : t # s => seen'[t] = seen[t]
        BY <2>4 DEF ReadFirst, ReadSecond, TypeOK
      <3> QED BY <3>1, <3>2, <3>3, <2>a, FieldsAlone
    <2>5. CASE \/ Start(s) \/ Lookup(s) \/ SaveSwap(s) \/ LockState(s)
               \/ LockPrice(s) \/ SetPrice(s) \/ StartScan(s) \/ FindOpportunity(s)
               \/ BroadcastOpportunity(s) \/ SaveOpportunity(s) \/ EndScan(s)
      <3>1. PICK label \in SwapPC \ UpdateLabels : GoTo(s, label)
        BY <2>5 DEF Start, Lookup, SaveSwap, LockState, LockPrice, SetPrice,
           StartScan, FindOpportunity, BroadcastOpportunity, SaveOpportunity,
           EndScan, SwapPC, UpdateLabels
      <3>2. /\ pc[s] \notin UpdateLabels
            /\ first' = first /\ second' = second /\ seen' = seen
        BY <2>5 DEF Start, Lookup, SaveSwap, LockState, LockPrice, SetPrice,
           StartScan, FindOpportunity, BroadcastOpportunity, SaveOpportunity,
           EndScan, fieldVars, UpdateLabels
      <3> QED BY <3>1, <3>2, <2>a, FieldsAlone
    <2> QED BY <1>4, <2>1, <2>2, <2>3, <2>4, <2>5 DEF ProcessSwap
  <1> QED BY <1>1, <1>2, <1>3, <1>4 DEF Next

----------------------------------------------------------------------------
(* The inductive invariant holds in every reachable state. *)
THEOREM Invariance == Spec => []IInv
  <1>1. IInv /\ [Next]_vars => IInv'
    BY TypeStep, WriterStep, FieldsStep DEF IInv
  <1> QED BY InitIInv, <1>1, PTL DEF Spec

(* Every variable keeps its type. *)
THEOREM TypeCorrect == Spec => []TypeOK
  <1>1. IInv => TypeOK
    BY DEF IInv
  <1> QED BY Invariance, <1>1, PTL

(* Whoever takes the lock finds the fields of every pool in agreement. *)
THEOREM FieldsAgree == Spec => []StateWhole
  <1>1. IInv => StateWhole
    BY DEF IInv
  <1> QED BY Invariance, <1>1, PTL

(* A Scan that has its read lock never sees an update half done. *)
THEOREM ScansAlone == Spec => []ScanAlone
  <1>1. IInv => ScanAlone
    BY DEF IInv, WriterInv, ScanAlone, Scanning, MayRead
  <1> QED BY Invariance, <1>1, PTL

----------------------------------------------------------------------------
(* The readers: a goroutine is among them, or waits behind a writer, while *)
(* it is between RLock and RUnlock, and only a Scan that has the lock      *)
(* waits for the Hub or the DB writer.                                     *)
ReadingLabels == {"lookup", "snapshot", "scan", "broadcast", "saveFound", "getPool"}

ReaderInv ==
  /\ \A x \in Procs : x \in lock.readers \cup lock.waiting <=> pc[x] \in ReadingLabels
  /\ lock.readers \cap lock.waiting = {}
  /\ lock.writer = NoOne => lock.waiting = {}
  /\ \A x \in Procs : pc[x] \in {"broadcast", "saveFound"} => x \in lock.readers

(* Each goroutine runs its own code. *)
LabelInv ==
  /\ \A s \in Swaps : pc[s] \in SwapPC
  /\ pc[Updater] \in UpdaterPC

(* How an action of x may move the lock, and why that keeps ReaderInv: x   *)
(* keeps its part, calls Lock, Unlock, RLock or RUnlock.                   *)
LEMMA ReaderKeeps ==
  ASSUME TypeOK, ReaderInv, NEW x \in Procs, NEW label, GoTo(x, label),
         lock' = lock, label \in ReadingLabels <=> pc[x] \in ReadingLabels,
         label \in {"broadcast", "saveFound"} => x \in lock.readers
  PROVE  ReaderInv'
  <1>1. \A y \in Procs : pc'[y] = IF y = x THEN label ELSE pc[y]
    BY DEF GoTo, TypeOK
  <1> QED BY <1>1 DEF ReaderInv

LEMMA ReaderLock ==
  ASSUME TypeOK, ReaderInv, NEW x \in Procs, NEW label, GoTo(x, label),
         Lock(x), label \notin ReadingLabels, pc[x] \notin ReadingLabels
  PROVE  ReaderInv'
  <1>1. \A y \in Procs : pc'[y] = IF y = x THEN label ELSE pc[y]
    BY DEF GoTo, TypeOK
  <1>2. lock'.readers = lock.readers /\ lock'.waiting = lock.waiting
        /\ lock.writer = NoOne
    BY DEF Lock, TypeOK
  <1>3. lock'.waiting = {}
    BY <1>2 DEF ReaderInv
  <1> QED BY <1>1, <1>2, <1>3 DEF ReaderInv, ReadingLabels

LEMMA ReaderUnlock ==
  ASSUME TypeOK, ReaderInv, NEW x \in Procs, NEW label, GoTo(x, label), Unlock,
         lock.readers = {}, label \notin ReadingLabels, pc[x] \notin ReadingLabels
  PROVE  ReaderInv'
  <1>1. \A y \in Procs : pc'[y] = IF y = x THEN label ELSE pc[y]
    BY DEF GoTo, TypeOK
  <1>2. lock'.readers = lock.waiting /\ lock'.waiting = {}
    BY DEF Unlock
  <1> QED BY <1>1, <1>2 DEF ReaderInv, ReadingLabels

LEMMA ReaderRLock ==
  ASSUME TypeOK, ReaderInv, NEW x \in Procs, NEW label, GoTo(x, label), RLock(x),
         label \in {"lookup", "snapshot", "scan", "getPool"},
         pc[x] \notin ReadingLabels
  PROVE  ReaderInv'
  <1>1. \A y \in Procs : pc'[y] = IF y = x THEN label ELSE pc[y]
    BY DEF GoTo, TypeOK
  <1>2. CASE lock.writer = NoOne
    <2>1. lock'.readers = lock.readers \cup {x} /\ lock'.waiting = lock.waiting
      BY <1>2 DEF RLock, TypeOK
    <2> QED BY <1>1, <1>2, <2>1 DEF ReaderInv, ReadingLabels
  <1>3. CASE lock.writer # NoOne
    <2>1. /\ lock'.readers = lock.readers /\ lock'.waiting = lock.waiting \cup {x}
          /\ lock'.writer = lock.writer
      BY <1>3 DEF RLock, TypeOK
    <2> QED BY <1>1, <1>3, <2>1 DEF ReaderInv, ReadingLabels
  <1> QED BY <1>2, <1>3

LEMMA ReaderRUnlock ==
  ASSUME TypeOK, ReaderInv, NEW x \in Procs, NEW label, GoTo(x, label), RUnlock(x),
         MayRead(x), label \notin ReadingLabels
  PROVE  ReaderInv'
  <1>1. \A y \in Procs : pc'[y] = IF y = x THEN label ELSE pc[y]
    BY DEF GoTo, TypeOK
  <1>2. /\ lock'.readers = lock.readers \ {x} /\ lock'.waiting = lock.waiting
        /\ lock'.writer = lock.writer
    BY DEF RUnlock, TypeOK
  <1> QED BY <1>1, <1>2 DEF ReaderInv, ReadingLabels, MayRead

LEMMA ReaderStep ==
  TypeOK /\ WriterInv /\ ReaderInv /\ [Next]_vars => ReaderInv'
  <1> SUFFICES ASSUME TypeOK, WriterInv, ReaderInv, [Next]_vars PROVE ReaderInv'
    OBVIOUS
  <1> USE DEF ReadingLabels
  <1>1. CASE UNCHANGED vars
    BY <1>1 DEF vars, ReaderInv
  <1>2. CASE Environment
    BY <1>2 DEF Environment, DrainQueue, HubWritten, ReaderInv
  <1>3. CASE Tick \/ UpdatePools
    <2>0. Updater \in Procs
      BY DEF Procs
    <2>1. CASE Tick
      BY <2>0, <2>1, ReaderRLock DEF Tick
    <2>2. CASE Snapshot
      BY <2>0, <2>2, ReaderRUnlock DEF Snapshot
    <2>3. CASE FetchReserves
      BY <2>0, <2>3, ReaderKeeps DEF FetchReserves
    <2>4. CASE LockApply
      BY <2>0, <2>4, ReaderLock DEF LockApply
    <2>5. CASE ApplyNothing
      BY <2>0, <2>5, ReaderUnlock DEF ApplyNothing, Holds
    <2>6. CASE GetPoolByAddress
      BY <2>0, <2>6, ReaderRLock DEF GetPoolByAddress
    <2> QED BY <1>3, <2>1, <2>2, <2>3, <2>4, <2>5, <2>6 DEF UpdatePools
  <1>4. ASSUME NEW s \in Swaps, Start(s) \/ ProcessSwap(s) PROVE ReaderInv'
    <2>0. s \in Procs
      BY DEF Procs
    <2>1. CASE Start(s)
      BY <2>0, <2>1, ReaderRLock DEF Start
    <2>2. CASE Lookup(s)
      BY <2>0, <2>2, ReaderRUnlock DEF Lookup
    <2>3. CASE SaveSwap(s)
      BY <2>0, <2>3, ReaderKeeps DEF SaveSwap
    <2>4. CASE LockState(s)
      BY <2>0, <2>4, ReaderLock DEF LockState
    <2>5. CASE ReadState(s)
      BY <2>0, <2>5, ReaderKeeps DEF ReadState
    <2>6. CASE WriteFirst(s)
      BY <2>0, <2>6, ReaderKeeps DEF WriteFirst
    <2>7. CASE WriteSecond(s)
      BY <2>0, <2>7, ReaderUnlock DEF WriteSecond, WriterInv
    <2>8. CASE ReadFirst(s)
      BY <2>0, <2>8, ReaderKeeps DEF ReadFirst
    <2>9. CASE ReadSecond(s)
      BY <2>0, <2>9, ReaderKeeps DEF ReadSecond
    <2>10. CASE LockPrice(s)
      BY <2>0, <2>10, ReaderLock DEF LockPrice
    <2>11. CASE SetPrice(s)
      BY <2>0, <2>11, ReaderUnlock DEF SetPrice, Holds
    <2>12. CASE StartScan(s)
      BY <2>0, <2>12, ReaderRLock DEF StartScan
    <2>13. CASE FindOpportunity(s)
      BY <2>0, <2>13, ReaderKeeps DEF FindOpportunity, MayRead
    <2>14. CASE BroadcastOpportunity(s)
      BY <2>0, <2>14, ReaderKeeps DEF BroadcastOpportunity, ReaderInv
    <2>15. CASE SaveOpportunity(s)
      BY <2>0, <2>15, ReaderKeeps DEF SaveOpportunity
    <2>16. CASE EndScan(s)
      BY <2>0, <2>16, ReaderRUnlock DEF EndScan
    <2> QED BY <1>4, <2>1, <2>2, <2>3, <2>4, <2>5, <2>6, <2>7, <2>8, <2>9, <2>10,
            <2>11, <2>12, <2>13, <2>14, <2>15, <2>16 DEF ProcessSwap
  <1> QED BY <1>1, <1>2, <1>3, <1>4 DEF Next

LEMMA LabelStep == TypeOK /\ LabelInv /\ [Next]_vars => LabelInv'
  <1> SUFFICES ASSUME TypeOK, LabelInv, [Next]_vars PROVE LabelInv'
    OBVIOUS
  <1>1. CASE UNCHANGED vars
    BY <1>1 DEF vars, LabelInv
  <1>2. CASE Environment
    BY <1>2 DEF Environment, DrainQueue, HubWritten, LabelInv
  <1>3. CASE Tick \/ UpdatePools
    <2>1. PICK label \in UpdaterPC : GoTo(Updater, label)
      BY <1>3 DEF Tick, UpdatePools, Snapshot, FetchReserves, LockApply,
         ApplyNothing, GetPoolByAddress, UpdaterPC
    <2> QED BY <2>1, ProcsAssumption DEF LabelInv, GoTo, TypeOK, Procs
  <1>4. ASSUME NEW s \in Swaps, Start(s) \/ ProcessSwap(s) PROVE LabelInv'
    <2>1. PICK label \in SwapPC : GoTo(s, label)
      BY <1>4 DEF ProcessSwap, Start, Lookup, SaveSwap, LockState, ReadState,
         WriteFirst, WriteSecond, ReadFirst, ReadSecond, LockPrice, SetPrice,
         StartScan, FindOpportunity, BroadcastOpportunity, SaveOpportunity, EndScan,
         SwapPC
    <2> QED BY <2>1, ProcsAssumption DEF LabelInv, GoTo, TypeOK, Procs
  <1> QED BY <1>1, <1>2, <1>3, <1>4 DEF Next

(* The one who holds the lock goes on, or waits for the Hub or the DB      *)
(* writer, which go on; the others wait for him.                           *)
LEMMA HolderGoes ==
  ASSUME TypeOK, WriterInv, ReaderInv, LabelInv, NEW s \in Swaps,
         pc[s] \notin {"idle", "done", "dropped"}, pc[Updater] # "getPool",
         ~EnvironmentMayGo
  PROVE  (\E t \in Swaps : MayGo(t)) \/ UpdaterMayGo
  <1>1. dbQueue < QueueCap /\ ~hubBusy
    BY BoundsAssumption DEF EnvironmentMayGo, TypeOK
  <1>2. Swaps \subseteq Procs /\ Updater \in Procs
    BY DEF Procs
  <1>3. CASE lock.writer = NoOne
    <2>1. ~Writing(s)
      BY <1>2, <1>3, ProcsAssumption DEF WriterInv
    <2>2. pc[s] \in ReadingLabels => MayRead(s)
      BY <1>2, <1>3 DEF ReaderInv, MayRead
    <2>3. MayGo(s)
      BY <1>1, <1>3, <2>1, <2>2 DEF MayGo, LabelInv, SwapPC, Writing, ReadingLabels
    <2> QED BY <2>3
  <1>4. CASE lock.writer # NoOne /\ lock.readers = {}
    <2>1. PICK w \in Procs : lock.writer = w
      BY <1>4 DEF TypeOK
    <2>2. Writing(w) /\ Holds(w)
      BY <1>4, <2>1 DEF WriterInv, Holds
    <2>3. CASE w \in Swaps
      BY <2>2, <2>3 DEF MayGo, LabelInv, SwapPC, Writing
    <2>4. CASE w = Updater
      BY <2>2, <2>4 DEF UpdaterMayGo, LabelInv, UpdaterPC, Writing
    <2> QED BY <2>3, <2>4 DEF Procs
  <1>5. CASE lock.readers # {}
    <2>1. PICK x \in Procs : x \in lock.readers
      BY <1>5 DEF TypeOK
    <2>2. pc[x] \in ReadingLabels /\ MayRead(x)
      BY <2>1 DEF ReaderInv, MayRead
    <2>3. CASE x \in Swaps
      BY <1>1, <2>2, <2>3 DEF MayGo, LabelInv, SwapPC, ReadingLabels
    <2>4. CASE x = Updater
      BY <2>2, <2>4 DEF UpdaterMayGo, LabelInv, UpdaterPC, ReadingLabels
    <2> QED BY <2>3, <2>4 DEF Procs
  <1> QED BY <1>3, <1>4, <1>5

(* As long as a ProcessSwap has not returned, and unless the Updater has   *)
(* called GetPoolByAddress under its own lock, the lock, the Hub and the   *)
(* DB queue never make everyone wait for everyone.                         *)
THEOREM NoDeadlock == Spec => []SomebodyMayGo
  <1>1. Init => ReaderInv /\ LabelInv
    BY ProcsAssumption
       DEF Init, ReaderInv, LabelInv, ReadingLabels, Procs, SwapPC, UpdaterPC
  <1>2. IInv /\ ReaderInv /\ LabelInv /\ [Next]_vars => ReaderInv' /\ LabelInv'
    BY ReaderStep, LabelStep DEF IInv
  <1>3. IInv /\ ReaderInv /\ LabelInv => SomebodyMayGo
    BY HolderGoes DEF IInv, SomebodyMayGo
  <1> QED BY Invariance, <1>1, <1>2, <1>3, PTL DEF Spec

----------------------------------------------------------------------------
(* The goroutines that have counted their swap stay counted, and only      *)
(* WriteSecond adds one.                                                   *)
CountedLabels == {"readFirst", "readSecond", "wantPrice", "waitPrice",
                  "wantScan", "scan", "broadcast", "saveFound", "done"}

LEMMA CountedAlone ==
  ASSUME second' = second,
         \A t \in Swaps : pc'[t] \in CountedLabels <=> pc[t] \in CountedLabels
  PROVE  UNCHANGED Atomic!vars
  BY DEF Atomic!vars, Counted, CountedLabels

LEMMA StepRefines == IInv /\ [Next]_vars => [Atomic!Next]_(Atomic!vars)
  <1> SUFFICES ASSUME IInv, [Next]_vars PROVE [Atomic!Next]_(Atomic!vars)
    OBVIOUS
  <1> USE DEF IInv, CountedLabels
  <1>1. CASE UNCHANGED vars
    BY <1>1, CountedAlone DEF vars
  <1>2. CASE Environment
    BY <1>2, CountedAlone DEF Environment, DrainQueue, HubWritten, fieldVars
  <1>3. CASE Tick \/ UpdatePools
    <2>1. second' = second
      BY <1>3 DEF Tick, UpdatePools, Snapshot, FetchReserves, LockApply,
         ApplyNothing, GetPoolByAddress, fieldVars
    <2>2. \A t \in Swaps : pc'[t] = pc[t]
      BY <1>3, ProcsAssumption DEF Tick, UpdatePools, Snapshot, FetchReserves,
         LockApply, ApplyNothing, GetPoolByAddress, GoTo, TypeOK, Procs
    <2> QED BY <2>1, <2>2, CountedAlone
  <1>4. ASSUME NEW s \in Swaps, Start(s) \/ ProcessSwap(s)
        PROVE  [Atomic!Next]_(Atomic!vars)
    <2>a. ASSUME NEW label, GoTo(s, label)
          PROVE  \A t \in Swaps : pc'[t] = IF t = s THEN label ELSE pc[t]
      BY <2>a DEF GoTo, TypeOK, Procs
    <2>1. CASE WriteSecond(s)
      <3>1. \A t \in Swaps : pc'[t] = IF t = s THEN "readFirst" ELSE pc[t]
        BY <2>1, <2>a DEF WriteSecond
      <3>2. s \notin Counted /\ Counted' = Counted \cup {s}
        BY <2>1, <3>1 DEF Counted, WriteSecond
      <3>3. second' = [second EXCEPT ![PoolOf[s]] =
                         Atomic!NewState(second[PoolOf[s]], s)]
        BY <2>1 DEF WriteSecond, UpdateInv, NewValue, Atomic!NewState
      <3> QED BY <3>2, <3>3 DEF Atomic!Next, Atomic!Count
    <2>2. CASE \/ Start(s) \/ Lookup(s) \/ SaveSwap(s) \/ LockState(s)
               \/ ReadState(s) \/ WriteFirst(s)
      <3>1. PICK label \in SwapPC \ CountedLabels : GoTo(s, label)
        BY <2>2 DEF Start, Lookup, SaveSwap, LockState, ReadState, WriteFirst, SwapPC
      <3>2. pc[s] \notin CountedLabels /\ second' = second
        BY <2>2 DEF Start, Lookup, SaveSwap, LockState, ReadState, WriteFirst, fieldVars
      <3> QED BY <3>1, <3>2, <2>a, CountedAlone
    <2>3. CASE \/ ReadFirst(s) \/ ReadSecond(s) \/ LockPrice(s) \/ SetPrice(s)
               \/ StartScan(s) \/ FindOpportunity(s) \/ BroadcastOpportunity(s)
               \/ SaveOpportunity(s) \/ EndScan(s)
      <3>1. PICK label \in CountedLabels : GoTo(s, label)
        BY <2>3 DEF ReadFirst, ReadSecond, LockPrice, SetPrice, StartScan,
           FindOpportunity, BroadcastOpportunity, SaveOpportunity, EndScan
      <3>2. pc[s] \in CountedLabels /\ second' = second
        BY <2>3 DEF ReadFirst, ReadSecond, LockPrice, SetPrice, StartScan,
           FindOpportunity, BroadcastOpportunity, SaveOpportunity, EndScan, fieldVars
      <3> QED BY <3>1, <3>2, <2>a, CountedAlone
    <2> QED BY <1>4, <2>1, <2>2, <2>3 DEF ProcessSwap
  <1> QED BY <1>1, <1>2, <1>3, <1>4 DEF Next

LEMMA InitRefines == Init => Atomic!Init
  BY DEF Init, Atomic!Init, Counted, Procs

(* No update of a pool is lost or repeated: the states change as if the    *)
(* swaps were counted one after the other, each in one step.               *)
THEOREM Refinement == Spec => ImplementsAtomicUpdates
  BY InitRefines, StepRefines, Invariance, PTL DEF Spec, ImplementsAtomicUpdates,
     Atomic!Spec
=============================================================================
