------------------------ MODULE PoolDiscoveryProofs ------------------------
(***************************************************************************)
(* Proofs about PoolDiscovery for every set of logs and pools and every    *)
(* queue capacity: types; that no swap is held twice, and none vanishes;   *)
(* that a waiting swap has a discovery until there is an outcome; and that *)
(* the fate of each swap is final (SwapLedger).                            *)
(***************************************************************************)
EXTENDS PoolDiscovery, SeqFacts

(* The disjuncts of Next, flat. *)
LEMMA NextCases ==
  ASSUME [Next]_vars
  PROVE  \/ UNCHANGED vars
         \/ Subscribe \/ Forward \/ DropLog \/ StartHandler \/ StartDiscovery
         \/ \E l \in Logs :
              \/ ChainSwap(l)
              \/ LookupPool(l) \/ HandleKnown(l) \/ CheckPending(l)
              \/ SendDiscovery(l) \/ AddPendingLog(l)
              \/ CheckFailed(l) \/ CheckKnown(l) \/ CheckPoolType(l)
              \/ FetchPool(l) \/ FetchError(l) \/ InsertPool(l) \/ SavePool(l)
              \/ TakePendingLogs(l) \/ ProcessNextPending(l)
              \/ LogAndCacheFailure(l) \/ CleanupPendingLogs(l)
  BY DEF Next, Feed, HandleLog, ProcessDiscovery

(* ProcessSwap for a cached pool drops a swap that does not parse and adds  *)
(* any other to the first of the pool's states.                            *)
LEMMA ProcessSwapFacts ==
  ASSUME TypeOK, NEW l \in Logs, IsKnown(PoolOf[l]), ProcessSwap(l)
  PROVE  /\ poolStates' \in [Pools -> Seq(PoolState)]
         /\ \A p \in Pools : IsKnown(p)' <=> IsKnown(p)
         /\ dropped' = dropped \cup ({l} \cap Unparsable)
         /\ \A m \in Logs :
              Applied(m)' <=> Applied(m) \/ (m = l /\ l \notin Unparsable)
  <1>1. CASE l \in Unparsable
    <2>1. UNCHANGED poolStates /\ dropped' = dropped \cup {l}
      BY <1>1 DEF ProcessSwap
    <2> QED BY <1>1, <2>1 DEF TypeOK, IsKnown, Applied
  <1>2. CASE l \notin Unparsable
    <2> DEFINE q == PoolOf[l]
               ps == poolStates[q]
               new == [ps EXCEPT ![1].applied = @ \cup {l}]
    <2>1. q \in Pools /\ ps \in Seq(PoolState) /\ ps # << >>
      BY LogsAssumption DEF TypeOK, IsKnown
    <2>2. 1 \in DOMAIN ps /\ ps[1] \in PoolState
      BY <2>1
    <2>3. /\ poolStates' = [poolStates EXCEPT ![q] = new]
          /\ poolStates'[q] = new
          /\ \A p \in Pools : p # q => poolStates'[p] = poolStates[p]
      BY <1>2, <2>1 DEF ProcessSwap, TypeOK
    <2>4. /\ DOMAIN new = DOMAIN ps
          /\ new[1] = [ps[1] EXCEPT !.applied = @ \cup {l}]
          /\ \A i \in DOMAIN ps : i # 1 => new[i] = ps[i]
      BY <2>1, <2>2
    <2>5. new[1] \in PoolState /\ new[1].applied = ps[1].applied \cup {l}
      BY <2>2, <2>4 DEF PoolState
    <2>6. new \in Seq(PoolState) /\ new # << >>
      <3>1. new = [ps EXCEPT ![1] = new[1]]
        BY <2>1, <2>2
      <3>2. new \in Seq(PoolState) /\ Len(new) = Len(ps)
        BY <2>1, <2>2, <2>5, <3>1, ExceptSeq
      <3> QED BY <2>1, <3>2, EmptySeq
    <2> HIDE DEF new
    <2>7. poolStates' \in [Pools -> Seq(PoolState)]
      BY <2>1, <2>3, <2>6 DEF TypeOK
    <2>8. \A p \in Pools : IsKnown(p)' <=> IsKnown(p)
      BY <2>1, <2>3, <2>6 DEF IsKnown
    <2>9. ASSUME NEW m \in Logs
          PROVE  Applied(m)' <=> Applied(m) \/ m = l
      <3>1. CASE PoolOf[m] # q
        BY <2>3, <3>1, LogsAssumption DEF Applied
      <3>2. CASE PoolOf[m] = q
        <4>1. Applied(m) <=> \E i \in DOMAIN ps : m \in ps[i].applied
          BY <3>2 DEF Applied
        <4>2. Applied(m)' <=> \E i \in DOMAIN new : m \in new[i].applied
          BY <2>3, <3>2 DEF Applied
        <4> QED BY <2>2, <2>4, <2>5, <4>1, <4>2
      <3> QED BY <3>1, <3>2
    <2>10. UNCHANGED dropped
      BY <1>2 DEF ProcessSwap
    <2> QED BY <1>2, <2>7, <2>8, <2>9, <2>10
  <1> QED BY <1>1, <1>2

(* In short: afterwards exactly one more swap has been processed, and it   *)
(* was applied or dropped, not both.                                       *)
LEMMA ProcessedFacts ==
  ASSUME TypeOK, NEW l \in Logs, IsKnown(PoolOf[l]), ProcessSwap(l)
  PROVE  /\ \A m \in Logs : Processed(m)' <=> Processed(m) \/ m = l
         /\ \A m \in Logs : m # l => /\ Applied(m)' <=> Applied(m)
                                     /\ m \in dropped' <=> m \in dropped
         /\ ~Processed(l) => ~(Applied(l)' /\ l \in dropped')
         /\ dropped \subseteq Logs => dropped' \subseteq Logs
  BY ProcessSwapFacts DEF Processed

(* Types.  The sequences' heads need the guards, and the batch of a         *)
(* discovery that is processing needs BatchInv.                             *)
LEMMA TypeStep == IInv /\ [Next]_vars => TypeOK'
  <1> SUFFICES ASSUME IInv, [Next]_vars PROVE TypeOK'
    OBVIOUS
  <1> USE LogsAssumption, PoolsAssumption DEF IInv
  <1>1. CASE UNCHANGED vars
    BY <1>1 DEF vars, TypeOK
  <1>2. CASE Subscribe
    BY <1>2 DEF Subscribe, channelVars, discoveryVars, TypeOK
  <1>3. CASE Forward
    BY <1>3, HeadTailFacts, AppendFacts DEF Forward, chainVars, discoveryVars, TypeOK
  <1>4. CASE DropLog
    BY <1>4, HeadTailFacts DEF DropLog, chainVars, discoveryVars, TypeOK, HandlerPC
  <1>5. CASE StartHandler
    BY <1>5, HeadTailFacts
       DEF StartHandler, chainVars, discoveryVars, TypeOK, HandlerPC
  <1>6. CASE StartDiscovery
    BY <1>6, HeadTailFacts
       DEF StartDiscovery, chainVars, channelVars, TypeOK, DiscoveryPC
  <1>7. ASSUME NEW l \in Logs, ChainSwap(l) PROVE TypeOK'
    BY <1>7, AppendFacts DEF ChainSwap, discoveryVars, TypeOK, HandlerPC
  <1>8. ASSUME NEW l \in Logs, LookupPool(l) \/ CheckPending(l) PROVE TypeOK'
    BY <1>8 DEF LookupPool, CheckPending, chainVars, channelVars, discoveryVars,
                TypeOK, HandlerPC
  <1>9. ASSUME NEW l \in Logs, HandleKnown(l) PROVE TypeOK'
    <2>1. IsKnown(PoolOf[l]) /\ ProcessSwap(l)
      BY <1>9 DEF HandleKnown, KnownInv
    <2>2. poolStates' \in [Pools -> Seq(PoolState)] /\ dropped' \subseteq Logs
      BY <2>1, ProcessSwapFacts DEF TypeOK
    <2> QED
      BY <1>9, <2>2 DEF HandleKnown, chainVars, channelVars, discoveryVars,
                        TypeOK, HandlerPC
  <1>10. ASSUME NEW l \in Logs, SendDiscovery(l) PROVE TypeOK'
    BY <1>10, AppendFacts
       DEF SendDiscovery, chainVars, channelVars, TypeOK, HandlerPC, DiscoveryPC
  <1>11. ASSUME NEW l \in Logs, AddPendingLog(l) PROVE TypeOK'
    BY <1>11, AppendFacts
       DEF AddPendingLog, chainVars, channelVars, discoveryVars, TypeOK, HandlerPC
  <1>12. ASSUME NEW d \in Logs,
                CheckFailed(d) \/ CheckKnown(d) \/ CheckPoolType(d) \/ FetchError(d)
         PROVE  TypeOK'
    BY <1>12 DEF CheckFailed, CheckKnown, CheckPoolType, FetchError, chainVars,
                 channelVars, TypeOK, DiscoveryPC
  <1>13. ASSUME NEW d \in Logs, FetchPool(d) PROVE TypeOK'
    <2>1. PICK ps \in {[fetched |-> TRUE, applied |-> {},
                        seen |-> SwapsOnChain(PoolOf[d])], NewPoolState} :
            fetched' = [fetched EXCEPT ![d] = ps]
      BY <1>13 DEF FetchPool
    <2>2. SwapsOnChain(PoolOf[d]) \in SUBSET Logs
      BY DEF TypeOK, SwapsOnChain
    <2>3. ps \in PoolState
      <3>1. NewPoolState \in PoolState
        BY DEF NewPoolState, PoolState
      <3>2. ASSUME NEW S \in SUBSET Logs
            PROVE  [fetched |-> TRUE, applied |-> {}, seen |-> S] \in PoolState
        BY DEF PoolState
      <3> QED BY <2>2, <3>1, <3>2
    <2> QED
      BY <1>13, <2>1, <2>3 DEF FetchPool, chainVars, channelVars, TypeOK, DiscoveryPC
  <1>14. ASSUME NEW d \in Logs, InsertPool(d) PROVE TypeOK'
    BY <1>14, AppendFacts DEF InsertPool, chainVars, channelVars, TypeOK, DiscoveryPC
  <1>15. ASSUME NEW d \in Logs, SavePool(d) \/ LogAndCacheFailure(d) PROVE TypeOK'
    BY <1>15 DEF SavePool, LogAndCacheFailure, chainVars, channelVars, TypeOK,
                 DiscoveryPC
  <1>16. ASSUME NEW d \in Logs, TakePendingLogs(d) PROVE TypeOK'
    BY <1>16 DEF TakePendingLogs, chainVars, channelVars, TypeOK, DiscoveryPC
  <1>17. ASSUME NEW d \in Logs, ProcessNextPending(d) PROVE TypeOK'
    <2>1. batch[d] # << >> /\ IsKnown(PoolOf[d])
      BY <1>17 DEF ProcessNextPending, BatchInv, KnownInv
    <2>2. batch[d] \in Seq(Logs)
      BY DEF TypeOK
    <2>3. /\ Head(batch[d]) \in Logs /\ Tail(batch[d]) \in Seq(Logs)
          /\ Head(batch[d]) \in Range(batch[d])
      BY <2>1, <2>2, HeadTailFacts
    <2>4. PoolOf[Head(batch[d])] = PoolOf[d]
      BY <2>3 DEF OwnPoolInv
    <2>5. poolStates' \in [Pools -> Seq(PoolState)] /\ dropped' \subseteq Logs
      BY <1>17, <2>1, <2>3, <2>4, ProcessSwapFacts DEF ProcessNextPending, TypeOK
    <2> QED
      BY <1>17, <2>3, <2>5 DEF ProcessNextPending, chainVars, channelVars, TypeOK,
                               DiscoveryPC
  <1>18. ASSUME NEW d \in Logs, CleanupPendingLogs(d) PROVE TypeOK'
    <2>1. Range(pendingLogs[PoolOf[d]]) \subseteq Logs
      BY RangeType DEF TypeOK
    <2> QED
      BY <1>18, <2>1 DEF CleanupPendingLogs, chainVars, channelVars, TypeOK,
                         DiscoveryPC
  <1> QED
    BY <1>1, <1>2, <1>3, <1>4, <1>5, <1>6, <1>7, <1>8, <1>9, <1>10, <1>11, <1>12,
       <1>13, <1>14, <1>15, <1>16, <1>17, <1>18, NextCases

(* A log on its way to a handler is in one channel, once.                  *)
LEMMA WireStep == IInv /\ [Next]_vars => WireInv'
  <1> SUFFICES ASSUME IInv, [Next]_vars PROVE WireInv'
    OBVIOUS
  <1> USE DEF IInv
  <1>1. CASE \/ UNCHANGED vars \/ Subscribe \/ StartDiscovery
             \/ \E d \in Logs :
                  \/ CheckFailed(d) \/ CheckKnown(d) \/ CheckPoolType(d)
                  \/ FetchPool(d) \/ FetchError(d) \/ InsertPool(d)
                  \/ SavePool(d) \/ TakePendingLogs(d) \/ ProcessNextPending(d)
                  \/ LogAndCacheFailure(d) \/ CleanupPendingLogs(d)
    <2>1. UNCHANGED <<inner, appLogs, handler>>
      BY <1>1 DEF vars, Subscribe, StartDiscovery, CheckFailed, CheckKnown,
           CheckPoolType, FetchPool, FetchError, InsertPool, SavePool,
           TakePendingLogs, ProcessNextPending, LogAndCacheFailure,
           CleanupPendingLogs, channelVars
    <2> QED BY <2>1 DEF WireInv
  <1>2. CASE Forward
    BY <1>2, HeadTailFacts, AppendFacts DEF Forward, TypeOK, WireInv
  <1>3. CASE DropLog
    BY <1>3, HeadTailFacts DEF DropLog, TypeOK, WireInv
  <1>4. CASE StartHandler
    BY <1>4, HeadTailFacts DEF StartHandler, TypeOK, WireInv
  <1>5. ASSUME NEW l \in Logs, ChainSwap(l) PROVE WireInv'
    BY <1>5, AppendFacts DEF ChainSwap, TypeOK, WireInv
  <1>6. ASSUME NEW l \in Logs,
               \/ LookupPool(l) \/ HandleKnown(l) \/ CheckPending(l)
               \/ SendDiscovery(l) \/ AddPendingLog(l)
        PROVE  WireInv'
    <2>1. /\ UNCHANGED <<inner, appLogs>>
          /\ handler[l] # "wire"
          /\ \A m \in Logs : m # l => handler'[m] = handler[m]
      BY <1>6 DEF LookupPool, HandleKnown, CheckPending, SendDiscovery,
                  AddPendingLog, channelVars, TypeOK
    <2>2. Range(inner) \subseteq Logs /\ Range(appLogs) \subseteq Logs
      BY RangeType DEF TypeOK
    <2> QED BY <2>1, <2>2 DEF WireInv
  <1> QED BY <1>1, <1>2, <1>3, <1>4, <1>5, <1>6, NextCases

(* A handler that has not sent its request has no discovery, and a request *)
(* waits in the queue once, until its discovery starts.                    *)
LEMMA RequestStep == IInv /\ [Next]_vars => RequestInv'
  <1> SUFFICES ASSUME IInv, [Next]_vars PROVE RequestInv'
    OBVIOUS
  <1> USE DEF IInv
  <1>0. Range(discoveryQueue) \subseteq Logs
    BY RangeType DEF TypeOK
  <1>1. CASE UNCHANGED vars \/ Subscribe \/ Forward
    BY <1>1 DEF vars, Subscribe, Forward, discoveryVars, RequestInv
  <1>2. CASE DropLog
    BY <1>2, HeadTailFacts DEF DropLog, discoveryVars, TypeOK, RequestInv, WireInv,
                               HandlerPC
  <1>3. CASE StartHandler
    BY <1>3, HeadTailFacts DEF StartHandler, discoveryVars, TypeOK, RequestInv,
                               WireInv, HandlerPC
  <1>4. CASE StartDiscovery
    BY <1>4, HeadTailFacts DEF StartDiscovery, TypeOK, RequestInv
  <1>5. ASSUME NEW l \in Logs,
               \/ ChainSwap(l) \/ LookupPool(l) \/ HandleKnown(l)
               \/ CheckPending(l) \/ AddPendingLog(l)
        PROVE  RequestInv'
    BY <1>5 DEF ChainSwap, LookupPool, HandleKnown, CheckPending, AddPendingLog,
                discoveryVars, TypeOK, RequestInv, HandlerPC
  <1>6. ASSUME NEW l \in Logs, SendDiscovery(l) PROVE RequestInv'
    <2>1. discovery[l] = "none"
      BY <1>6 DEF SendDiscovery, RequestInv, HandlerPC
    <2>2. /\ discoveryQueue' = Append(discoveryQueue, l)
          /\ discovery' = [discovery EXCEPT ![l] = "queued"]
          /\ handler' = [handler EXCEPT ![l] = "addPending"]
          /\ discoveryQueue \in Seq(Logs)
          /\ discovery \in [Logs -> DiscoveryPC]
          /\ handler \in [Logs -> HandlerPC]
      BY <1>6 DEF SendDiscovery, TypeOK
    <2>3. l \notin Range(discoveryQueue)
      BY <2>1 DEF RequestInv
    <2>4. /\ Range(discoveryQueue') = Range(discoveryQueue) \cup {l}
          /\ IsInjective(discoveryQueue')
      BY <2>2, <2>3, AppendFacts DEF RequestInv
    <2>5. \A d \in Logs : handler'[d] \in HandlerPC \ {"addPending", "done"}
                           => discovery'[d] = "none"
      BY <2>2 DEF RequestInv
    <2>6. \A d \in Range(discoveryQueue') : discovery'[d] = "queued"
      BY <1>0, <2>2, <2>4 DEF RequestInv
    <2> QED BY <2>4, <2>5, <2>6 DEF RequestInv
  <1>7. ASSUME NEW d \in Logs,
               \/ CheckFailed(d) \/ CheckKnown(d) \/ CheckPoolType(d)
               \/ FetchPool(d) \/ FetchError(d) \/ InsertPool(d)
               \/ SavePool(d) \/ TakePendingLogs(d) \/ ProcessNextPending(d)
               \/ LogAndCacheFailure(d) \/ CleanupPendingLogs(d)
        PROVE  RequestInv'
    <2>1. /\ UNCHANGED <<handler, discoveryQueue>>
          /\ discovery[d] \notin {"none", "queued"}
          /\ \A e \in Logs : e # d => discovery'[e] = discovery[e]
      BY <1>7 DEF CheckFailed, CheckKnown, CheckPoolType, FetchPool, FetchError,
           InsertPool, SavePool, TakePendingLogs, ProcessNextPending,
           LogAndCacheFailure, CleanupPendingLogs, TypeOK
    <2> QED BY <1>0, <2>1 DEF RequestInv
  <1> QED BY <1>1, <1>2, <1>3, <1>4, <1>5, <1>6, <1>7, NextCases

(* A discovery has logs in hand exactly while it is processing them.       *)
LEMMA BatchStep == IInv /\ [Next]_vars => BatchInv'
  <1> SUFFICES ASSUME IInv, [Next]_vars PROVE BatchInv'
    OBVIOUS
  <1> USE DEF IInv
  <1>1. CASE \/ UNCHANGED vars \/ Subscribe \/ Forward \/ DropLog \/ StartHandler
             \/ \E l \in Logs :
                  \/ ChainSwap(l) \/ LookupPool(l) \/ HandleKnown(l)
                  \/ CheckPending(l) \/ AddPendingLog(l)
    BY <1>1 DEF vars, Subscribe, Forward, DropLog, StartHandler, ChainSwap,
         LookupPool, HandleKnown, CheckPending, AddPendingLog, discoveryVars,
         BatchInv
  <1>2. CASE StartDiscovery
    BY <1>2, HeadTailFacts DEF StartDiscovery, TypeOK, BatchInv, RequestInv
  <1>3. ASSUME NEW l \in Logs, SendDiscovery(l) PROVE BatchInv'
    BY <1>3 DEF SendDiscovery, TypeOK, BatchInv, RequestInv, HandlerPC
  <1>4. ASSUME NEW d \in Logs,
               \/ CheckFailed(d) \/ CheckKnown(d) \/ CheckPoolType(d)
               \/ FetchPool(d) \/ FetchError(d) \/ InsertPool(d) \/ SavePool(d)
               \/ LogAndCacheFailure(d) \/ CleanupPendingLogs(d)
        PROVE  BatchInv'
    BY <1>4 DEF CheckFailed, CheckKnown, CheckPoolType, FetchPool, FetchError,
         InsertPool, SavePool, LogAndCacheFailure, CleanupPendingLogs, TypeOK,
         BatchInv
  <1>5. ASSUME NEW d \in Logs, TakePendingLogs(d) PROVE BatchInv'
    BY <1>5 DEF TakePendingLogs, IsPending, TypeOK, BatchInv
  <1>6. ASSUME NEW d \in Logs, ProcessNextPending(d) PROVE BatchInv'
    BY <1>6, HeadTailFacts DEF ProcessNextPending, TypeOK, BatchInv
  <1> QED BY <1>1, <1>2, <1>3, <1>4, <1>5, <1>6, NextCases

(* What waits for or is processed by a discovery belongs to its pool.      *)
LEMMA OwnPoolStep == IInv /\ [Next]_vars => OwnPoolInv'
  <1> SUFFICES ASSUME IInv, [Next]_vars PROVE OwnPoolInv'
    OBVIOUS
  <1> USE LogsAssumption DEF IInv
  <1>1. CASE \/ UNCHANGED vars \/ Subscribe \/ Forward \/ DropLog \/ StartHandler
             \/ StartDiscovery
             \/ \E l \in Logs :
                  \/ ChainSwap(l) \/ LookupPool(l) \/ HandleKnown(l)
                  \/ CheckPending(l) \/ SendDiscovery(l)
                  \/ CheckFailed(l) \/ CheckKnown(l) \/ CheckPoolType(l)
                  \/ FetchPool(l) \/ FetchError(l) \/ InsertPool(l) \/ SavePool(l)
                  \/ LogAndCacheFailure(l)
    <2>1. UNCHANGED <<pendingLogs, batch>>
      BY <1>1 DEF vars, Subscribe, Forward, DropLog, StartHandler, StartDiscovery,
           ChainSwap, LookupPool, HandleKnown, CheckPending, SendDiscovery,
           CheckFailed, CheckKnown, CheckPoolType, FetchPool, FetchError,
           InsertPool, SavePool, LogAndCacheFailure, discoveryVars
    <2> QED BY <2>1 DEF OwnPoolInv
  <1>2. ASSUME NEW l \in Logs, AddPendingLog(l) PROVE OwnPoolInv'
    BY <1>2, AppendFacts DEF AddPendingLog, discoveryVars, TypeOK, OwnPoolInv
  <1>3. ASSUME NEW d \in Logs, TakePendingLogs(d) PROVE OwnPoolInv'
    BY <1>3, EmptyFacts DEF TakePendingLogs, TypeOK, OwnPoolInv
  <1>4. ASSUME NEW d \in Logs, ProcessNextPending(d) PROVE OwnPoolInv'
    BY <1>4, HeadTailFacts DEF ProcessNextPending, TypeOK, OwnPoolInv, BatchInv
  <1>5. ASSUME NEW d \in Logs, CleanupPendingLogs(d) PROVE OwnPoolInv'
    BY <1>5, EmptyFacts DEF CleanupPendingLogs, TypeOK, OwnPoolInv
  <1> QED BY <1>1, <1>2, <1>3, <1>4, <1>5, NextCases

(* The lists of pool states only grow: a pool once known stays known.      *)
LEMMA KnownMonotone ==
  ASSUME IInv, [Next]_vars, NEW p \in Pools, IsKnown(p)
  PROVE  IsKnown(p)'
  <1> USE LogsAssumption DEF IInv
  <1>1. CASE \/ UNCHANGED vars \/ Subscribe \/ Forward \/ DropLog \/ StartHandler
             \/ StartDiscovery
             \/ \E l \in Logs :
                  \/ ChainSwap(l) \/ LookupPool(l) \/ CheckPending(l)
                  \/ SendDiscovery(l) \/ AddPendingLog(l)
                  \/ CheckFailed(l) \/ CheckKnown(l) \/ CheckPoolType(l)
                  \/ FetchPool(l) \/ FetchError(l) \/ SavePool(l)
                  \/ TakePendingLogs(l) \/ LogAndCacheFailure(l)
                  \/ CleanupPendingLogs(l)
    <2>1. UNCHANGED poolStates
      BY <1>1 DEF vars, Subscribe, Forward, DropLog, StartHandler, StartDiscovery,
           ChainSwap, LookupPool, CheckPending, SendDiscovery, AddPendingLog,
           CheckFailed, CheckKnown, CheckPoolType, FetchPool, FetchError, SavePool,
           TakePendingLogs, LogAndCacheFailure, CleanupPendingLogs
    <2> QED BY <2>1 DEF IsKnown
  <1>2. ASSUME NEW l \in Logs, HandleKnown(l) PROVE IsKnown(p)'
    BY <1>2, ProcessSwapFacts DEF HandleKnown, KnownInv
  <1>3. ASSUME NEW d \in Logs, InsertPool(d) PROVE IsKnown(p)'
    <2>1. /\ poolStates \in [Pools -> Seq(PoolState)] /\ fetched[d] \in PoolState
          /\ PoolOf[d] \in Pools
          /\ poolStates' = [poolStates EXCEPT ![PoolOf[d]] = Append(@, fetched[d])]
      BY <1>3, LogsAssumption DEF InsertPool, TypeOK
    <2>2. Append(poolStates[PoolOf[d]], fetched[d]) # << >>
      BY <2>1, AppendFacts
    <2> QED BY <2>1, <2>2 DEF IsKnown
  <1>4. ASSUME NEW d \in Logs, ProcessNextPending(d) PROVE IsKnown(p)'
    <2>1. Head(batch[d]) \in Logs /\ PoolOf[Head(batch[d])] = PoolOf[d]
      BY <1>4, HeadTailFacts DEF ProcessNextPending, BatchInv, OwnPoolInv, TypeOK
    <2>2. IsKnown(PoolOf[d])
      BY <1>4 DEF ProcessNextPending, KnownInv
    <2> QED BY <1>4, <2>1, <2>2, ProcessSwapFacts DEF ProcessNextPending
  <1> QED BY <1>1, <1>2, <1>3, <1>4, NextCases

(* What each program point knows about the cache.                          *)
LEMMA KnownStep == IInv /\ [Next]_vars => KnownInv'
  <1> SUFFICES ASSUME IInv, [Next]_vars PROVE KnownInv'
    OBVIOUS
  <1> USE LogsAssumption DEF IInv
  <1>1. \A p \in Pools : IsKnown(p) => IsKnown(p)'
    BY KnownMonotone
  <1>2. ASSUME NEW d \in Logs,
               discovery'[d] \in {"save", "takePending", "processPending"},
               discovery[d] \notin {"save", "takePending", "processPending"}
        PROVE  IsKnown(PoolOf[d])'
    <2>1. UNCHANGED discovery => FALSE
      BY <1>2
    <2>2. CASE \/ UNCHANGED vars \/ Subscribe \/ Forward \/ DropLog \/ StartHandler
               \/ \E l \in Logs :
                    \/ ChainSwap(l) \/ LookupPool(l) \/ HandleKnown(l)
                    \/ CheckPending(l) \/ AddPendingLog(l)
      BY <2>1, <2>2 DEF vars, Subscribe, Forward, DropLog, StartHandler, ChainSwap,
           LookupPool, HandleKnown, CheckPending, AddPendingLog, discoveryVars
    <2>3. CASE StartDiscovery \/ \E l \in Logs : SendDiscovery(l)
      BY <1>2, <2>3, HeadTailFacts DEF StartDiscovery, SendDiscovery, TypeOK
    <2>4. ASSUME NEW l \in Logs,
                 \/ CheckFailed(l) \/ CheckKnown(l) \/ CheckPoolType(l) \/ FetchPool(l)
                 \/ FetchError(l) \/ LogAndCacheFailure(l) \/ CleanupPendingLogs(l)
          PROVE  FALSE
      BY <1>2, <2>4 DEF CheckFailed, CheckKnown, CheckPoolType, FetchPool, FetchError,
           LogAndCacheFailure, CleanupPendingLogs, TypeOK
    <2>5. ASSUME NEW l \in Logs,
                 SavePool(l) \/ TakePendingLogs(l) \/ ProcessNextPending(l)
          PROVE  FALSE
      BY <1>2, <2>5 DEF SavePool, TakePendingLogs, ProcessNextPending, TypeOK
    <2>6. ASSUME NEW l \in Logs, InsertPool(l) PROVE IsKnown(PoolOf[d])'
      <3>1. InsertPool(d)
        BY <1>2, <2>6 DEF InsertPool, TypeOK
      <3> QED BY <3>1, AppendFacts DEF InsertPool, IsKnown, TypeOK
    <2> QED BY <2>2, <2>3, <2>4, <2>5, <2>6, NextCases
  <1>3. ASSUME NEW l \in Logs, handler'[l] = "processSwap",
               handler[l] # "processSwap"
        PROVE  IsKnown(PoolOf[l])'
    <2>1. LookupPool(l) /\ IsKnown(PoolOf[l])
      BY <1>3, NextCases DEF vars, Subscribe, Forward, DropLog, StartHandler,
           StartDiscovery, ChainSwap, LookupPool, HandleKnown, CheckPending,
           SendDiscovery, AddPendingLog, CheckFailed, CheckKnown, CheckPoolType,
           FetchPool, FetchError, InsertPool, SavePool, TakePendingLogs,
           ProcessNextPending, LogAndCacheFailure, CleanupPendingLogs,
           discoveryVars, TypeOK
    <2> QED BY <1>1, <2>1
  <1> QED BY <1>1, <1>2, <1>3 DEF KnownInv

(* A pool state enters the cache without any swap applied.                 *)
LEMMA FreshStep == IInv /\ [Next]_vars => FreshInv'
  <1> SUFFICES ASSUME IInv, [Next]_vars PROVE FreshInv'
    OBVIOUS
  <1> USE DEF IInv
  <1>1. CASE \E d \in Logs : FetchPool(d)
    BY <1>1 DEF FetchPool, NewPoolState, FreshInv, TypeOK
  <1>2. CASE ~ \E d \in Logs : FetchPool(d)
    <2>1. UNCHANGED fetched
      BY <1>2, NextCases DEF vars, Subscribe, Forward, DropLog, StartHandler,
           StartDiscovery, ChainSwap, LookupPool, HandleKnown, CheckPending,
           SendDiscovery, AddPendingLog, CheckFailed, CheckKnown, CheckPoolType,
           FetchError, InsertPool, SavePool, TakePendingLogs,
           ProcessNextPending, LogAndCacheFailure, CleanupPendingLogs,
           discoveryVars
    <2> QED BY <2>1 DEF FreshInv
  <1> QED BY <1>1, <1>2

(* Inserting a pool state applies no swap.                                 *)
LEMMA InsertFacts ==
  ASSUME IInv, NEW d \in Logs, InsertPool(d)
  PROVE  \A m \in Logs : Applied(m)' <=> Applied(m)
  <1> DEFINE q == PoolOf[d]
             ps == poolStates[q]
             new == Append(ps, fetched[d])
  <1> USE LogsAssumption DEF IInv
  <1>1. /\ q \in Pools /\ ps \in Seq(PoolState) /\ fetched[d] \in PoolState
        /\ fetched[d].applied = {}
    BY DEF TypeOK, FreshInv
  <1>2. /\ poolStates'[q] = new
        /\ \A p \in Pools : p # q => poolStates'[p] = poolStates[p]
    BY <1>1 DEF InsertPool, TypeOK
  <1>3. /\ DOMAIN new = 1..(Len(ps) + 1) /\ DOMAIN ps = 1..Len(ps) /\ Len(ps) \in Nat
        /\ new[Len(ps) + 1] = fetched[d]
        /\ \A i \in DOMAIN ps : new[i] = ps[i]
    BY <1>1
  <1> HIDE DEF new
  <1>4. ASSUME NEW m \in Logs PROVE Applied(m)' <=> Applied(m)
    <2>1. CASE PoolOf[m] # q
      BY <1>2, <2>1 DEF Applied
    <2>2. CASE PoolOf[m] = q
      <3>1. Applied(m) <=> \E i \in DOMAIN ps : m \in ps[i].applied
        BY <2>2 DEF Applied
      <3>2. Applied(m)' <=> \E i \in DOMAIN new : m \in new[i].applied
        BY <1>2, <2>2 DEF Applied
      <3> QED BY <1>1, <1>3, <3>1, <3>2
    <2> QED BY <2>1, <2>2
  <1> QED BY <1>4

(* The two accounting invariants together: every action moves a swap from  *)
(* one place to another.                                                   *)
LEMMA HoldStep == IInv /\ [Next]_vars => NoSwapHeldTwice' /\ NoSwapVanishes'
  <1> SUFFICES ASSUME IInv, [Next]_vars PROVE NoSwapHeldTwice' /\ NoSwapVanishes'
    OBVIOUS
  <1> USE LogsAssumption DEF IInv
  <1>1. CASE \/ UNCHANGED vars \/ Subscribe \/ Forward \/ DropLog \/ StartHandler
             \/ StartDiscovery
             \/ \E l \in Logs :
                  \/ ChainSwap(l) \/ LookupPool(l) \/ CheckPending(l)
                  \/ SendDiscovery(l)
                  \/ CheckFailed(l) \/ CheckKnown(l) \/ CheckPoolType(l)
                  \/ FetchPool(l) \/ FetchError(l) \/ SavePool(l)
                  \/ LogAndCacheFailure(l)
    <2>1. UNCHANGED <<pendingLogs, batch, poolStates, dropped, discarded>>
      BY <1>1 DEF vars, Subscribe, Forward, DropLog, StartHandler, StartDiscovery,
           ChainSwap, LookupPool, CheckPending, SendDiscovery, CheckFailed,
           CheckKnown, CheckPoolType, FetchPool, FetchError, SavePool,
           LogAndCacheFailure, discoveryVars
    <2>2. \A l \in Logs : handler'[l] = "done" <=> handler[l] = "done"
      <3>1. CASE DropLog \/ StartHandler
        <4>1. PICK h \in Logs, pc \in {"lost", "lookup"} :
                /\ handler[h] = "wire"
                /\ handler' = [handler EXCEPT ![h] = pc]
          <5>1. CASE DropLog
            <6>1. Head(inner) \in Logs /\ Head(inner) \in Range(inner)
              BY <5>1, HeadTailFacts DEF DropLog, TypeOK
            <6> QED BY <5>1, <6>1 DEF DropLog, WireInv
          <5>2. CASE StartHandler
            <6>1. Head(appLogs) \in Logs /\ Head(appLogs) \in Range(appLogs)
              BY <5>2, HeadTailFacts DEF StartHandler, TypeOK
            <6> QED BY <5>2, <6>1 DEF StartHandler, WireInv
          <5> QED BY <3>1, <5>1, <5>2
        <4> QED BY <4>1 DEF TypeOK
      <3>2. CASE \E l \in Logs : \/ ChainSwap(l) \/ LookupPool(l)
                                 \/ CheckPending(l) \/ SendDiscovery(l)
        BY <3>2 DEF ChainSwap, LookupPool, CheckPending, SendDiscovery, TypeOK
      <3>3. CASE UNCHANGED handler
        BY <3>3
      <3>4. \/ UNCHANGED handler \/ DropLog \/ StartHandler
            \/ \E l \in Logs : \/ ChainSwap(l) \/ LookupPool(l)
                               \/ CheckPending(l) \/ SendDiscovery(l)
        BY <1>1 DEF vars, Subscribe, Forward, StartDiscovery, CheckFailed,
             CheckKnown, CheckPoolType, FetchPool, FetchError, SavePool,
             LogAndCacheFailure
      <3> QED BY <3>1, <3>2, <3>3, <3>4
    <2>3. \A l \in Logs : /\ Parked(l)' <=> Parked(l)
                          /\ Batched(l)' <=> Batched(l)
                          /\ Applied(l)' <=> Applied(l)
      BY <2>1 DEF Parked, Batched, Applied
    <2> QED BY <2>1, <2>2, <2>3 DEF Processed, NoSwapHeldTwice, NoSwapVanishes
  <1>2. ASSUME NEW d \in Logs, InsertPool(d)
        PROVE  NoSwapHeldTwice' /\ NoSwapVanishes'
    <2>1. UNCHANGED <<pendingLogs, batch, handler, dropped, discarded>>
      BY <1>2 DEF InsertPool
    <2>2. \A l \in Logs : /\ Parked(l)' <=> Parked(l)
                          /\ Batched(l)' <=> Batched(l)
                          /\ Applied(l)' <=> Applied(l)
      BY <1>2, <2>1, InsertFacts DEF Parked, Batched
    <2> QED BY <2>1, <2>2 DEF Processed, NoSwapHeldTwice, NoSwapVanishes
  <1>3. ASSUME NEW l \in Logs, HandleKnown(l)
        PROVE  NoSwapHeldTwice' /\ NoSwapVanishes'
    <2>1. /\ UNCHANGED <<pendingLogs, batch, discarded>>
          /\ handler[l] = "processSwap"
          /\ handler' = [handler EXCEPT ![l] = "done"]
          /\ handler \in [Logs -> HandlerPC]
      BY <1>3 DEF HandleKnown, discoveryVars, TypeOK
    <2>2. /\ \A m \in Logs : Processed(m)' <=> Processed(m) \/ m = l
          /\ \A m \in Logs : m # l => /\ Applied(m)' <=> Applied(m)
                                      /\ m \in dropped' <=> m \in dropped
          /\ ~Processed(l) => ~(Applied(l)' /\ l \in dropped')
      BY <1>3, ProcessedFacts DEF HandleKnown, KnownInv
    <2>3. \A m \in Logs : (Parked(m)' <=> Parked(m)) /\ (Batched(m)' <=> Batched(m))
      BY <2>1 DEF Parked, Batched
    <2> QED BY <2>1, <2>2, <2>3 DEF NoSwapHeldTwice, NoSwapVanishes
  <1>4. ASSUME NEW l \in Logs, AddPendingLog(l)
        PROVE  NoSwapHeldTwice' /\ NoSwapVanishes'
    <2>1. /\ UNCHANGED <<poolStates, batch, dropped, discarded>>
          /\ handler[l] = "addPending"
          /\ handler' = [handler EXCEPT ![l] = "done"]
          /\ handler \in [Logs -> HandlerPC]
          /\ pendingLogs \in [Pools -> Seq(Logs)]
          /\ pendingLogs' = [pendingLogs EXCEPT ![PoolOf[l]] = Append(@, l)]
      BY <1>4 DEF AddPendingLog, discoveryVars, TypeOK
    <2>2. ~Parked(l) /\ ~Batched(l) /\ ~Processed(l) /\ l \notin discarded
      BY <2>1 DEF NoSwapHeldTwice
    <2>3. \A m \in Logs : /\ Batched(m)' <=> Batched(m)
                          /\ Applied(m)' <=> Applied(m)
                          /\ Processed(m)' <=> Processed(m)
      BY <2>1 DEF Batched, Applied, Processed
    <2>4. \A m \in Logs : Parked(m)' <=> Parked(m) \/ m = l
      BY <2>1, AppendFacts DEF Parked
    <2>5. \A p \in Pools : IsInjective(pendingLogs'[p])
      BY <2>1, <2>2, AppendFacts DEF Parked, NoSwapHeldTwice
    <2> QED BY <2>1, <2>2, <2>3, <2>4, <2>5 DEF NoSwapHeldTwice, NoSwapVanishes
  <1>5. ASSUME NEW d \in Logs, TakePendingLogs(d)
        PROVE  NoSwapHeldTwice' /\ NoSwapVanishes'
    <2>1. /\ UNCHANGED <<poolStates, handler, dropped, discarded>>
          /\ batch[d] = << >>
          /\ batch' = [batch EXCEPT ![d] = pendingLogs[PoolOf[d]]]
          /\ pendingLogs' = [pendingLogs EXCEPT ![PoolOf[d]] = << >>]
          /\ batch \in [Logs -> Seq(Logs)]
          /\ pendingLogs \in [Pools -> Seq(Logs)]
      BY <1>5 DEF TakePendingLogs, TypeOK, BatchInv
    <2>2. \A m \in Logs : Parked(m)' <=> Parked(m) /\ PoolOf[m] # PoolOf[d]
      BY <2>1, EmptyFacts DEF Parked
    <2>3. \A m \in Logs :
            m \in Range(pendingLogs[PoolOf[d]]) <=> Parked(m) /\ PoolOf[m] = PoolOf[d]
      BY DEF Parked, OwnPoolInv
    <2>4. \A m \in Logs :
            Batched(m)' <=> Batched(m) \/ (Parked(m) /\ PoolOf[m] = PoolOf[d])
      BY <2>1, <2>3, EmptyFacts DEF Batched
    <2>5. \A m \in Logs : /\ Applied(m)' <=> Applied(m)
                          /\ Processed(m)' <=> Processed(m)
      BY <2>1 DEF Applied, Processed
    <2>6. \A e, f \in Logs : e # f => Range(batch'[e]) \cap Range(batch'[f]) = {}
      <3>1. \A e \in Logs : e # d =>
              Range(batch[e]) \cap Range(pendingLogs[PoolOf[d]]) = {}
        <4>1. Range(pendingLogs[PoolOf[d]]) \subseteq Logs
          BY <2>1, RangeType
        <4> QED BY <2>3, <4>1 DEF Batched, NoSwapHeldTwice
      <3> QED BY <2>1, <3>1 DEF NoSwapHeldTwice
    <2>7. /\ \A e \in Logs : IsInjective(batch'[e])
          /\ \A p \in Pools : IsInjective(pendingLogs'[p])
      BY <2>1, EmptyFacts DEF NoSwapHeldTwice
    <2> QED
      BY <2>1, <2>2, <2>4, <2>5, <2>6, <2>7 DEF NoSwapHeldTwice, NoSwapVanishes
  <1>6. ASSUME NEW d \in Logs, ProcessNextPending(d)
        PROVE  NoSwapHeldTwice' /\ NoSwapVanishes'
    <2>0. PICK h \in Logs : h = Head(batch[d])
      BY <1>6, HeadTailFacts DEF ProcessNextPending, TypeOK, BatchInv
    <2>1. /\ UNCHANGED <<pendingLogs, handler, discarded>>
          /\ batch[d] # << >> /\ batch[d] \in Seq(Logs)
          /\ batch' = [batch EXCEPT ![d] = Tail(@)]
          /\ batch \in [Logs -> Seq(Logs)]
          /\ ProcessSwap(h) /\ IsKnown(PoolOf[d])
      BY <1>6, <2>0 DEF ProcessNextPending, TypeOK, BatchInv, KnownInv
    <2>2. /\ h \in Range(batch[d])
          /\ Range(batch[d]) = {h} \cup Range(Tail(batch[d]))
          /\ h \notin Range(Tail(batch[d])) /\ IsInjective(Tail(batch[d]))
      BY <2>0, <2>1, HeadTailFacts DEF NoSwapHeldTwice
    <2>3. PoolOf[h] = PoolOf[d]
      BY <2>2 DEF OwnPoolInv
    <2>4. /\ \A m \in Logs : Processed(m)' <=> Processed(m) \/ m = h
          /\ \A m \in Logs : m # h => /\ Applied(m)' <=> Applied(m)
                                      /\ m \in dropped' <=> m \in dropped
          /\ ~Processed(h) => ~(Applied(h)' /\ h \in dropped')
      BY <2>1, <2>2, <2>3, ProcessedFacts
    <2>5. \A e \in Logs : e # d => h \notin Range(batch[e])
      BY <2>2 DEF NoSwapHeldTwice
    <2>6. \A m \in Logs : Batched(m)' <=> Batched(m) /\ m # h
      BY <2>1, <2>2, <2>5 DEF Batched
    <2>7. \A m \in Logs : Parked(m)' <=> Parked(m)
      BY <2>1 DEF Parked
    <2>8. Batched(h)
      BY <2>2 DEF Batched
    <2>9. /\ \A e, f \in Logs : e # f => Range(batch'[e]) \cap Range(batch'[f]) = {}
          /\ \A e \in Logs : IsInjective(batch'[e])
      BY <2>1, <2>2 DEF NoSwapHeldTwice
    <2> QED
      BY <2>1, <2>2, <2>4, <2>6, <2>7, <2>8, <2>9
         DEF NoSwapHeldTwice, NoSwapVanishes
  <1>7. ASSUME NEW d \in Logs, CleanupPendingLogs(d)
        PROVE  NoSwapHeldTwice' /\ NoSwapVanishes'
    <2>1. /\ UNCHANGED <<poolStates, handler, batch, dropped>>
          /\ discarded' = discarded \cup Range(pendingLogs[PoolOf[d]])
          /\ pendingLogs' = [pendingLogs EXCEPT ![PoolOf[d]] = << >>]
          /\ pendingLogs \in [Pools -> Seq(Logs)]
      BY <1>7 DEF CleanupPendingLogs, TypeOK
    <2>2. \A m \in Logs : Parked(m)' <=> Parked(m) /\ PoolOf[m] # PoolOf[d]
      BY <2>1, EmptyFacts DEF Parked
    <2>3. \A m \in Logs :
            m \in discarded' <=> m \in discarded \/ (Parked(m) /\ PoolOf[m] = PoolOf[d])
      BY <2>1 DEF Parked, OwnPoolInv
    <2>4. \A m \in Logs : /\ Batched(m)' <=> Batched(m)
                          /\ Applied(m)' <=> Applied(m)
                          /\ Processed(m)' <=> Processed(m)
      BY <2>1 DEF Batched, Applied, Processed
    <2>5. \A p \in Pools : IsInjective(pendingLogs'[p])
      BY <2>1, EmptyFacts DEF NoSwapHeldTwice
    <2> QED BY <2>1, <2>2, <2>3, <2>4, <2>5 DEF NoSwapHeldTwice, NoSwapVanishes
  <1> QED BY <1>1, <1>2, <1>3, <1>4, <1>5, <1>6, <1>7, NextCases

----------------------------------------------------------------------------
LEMMA InitIInv == Init => IInv
  <1> SUFFICES ASSUME Init PROVE IInv
    OBVIOUS
  <1> USE LogsAssumption, PoolsAssumption, EmptyFacts DEF Init
  <1>1. \A p \in Pools :
          /\ poolStates[p] \in Seq(PoolState)
          /\ \A i \in DOMAIN poolStates[p] : i = 1 /\ poolStates[p][i].applied = {}
    <2>1. [NewPoolState EXCEPT !.fetched = TRUE] \in PoolState
      BY DEF NewPoolState, PoolState
    <2>2. [NewPoolState EXCEPT !.fetched = TRUE].applied = {}
      BY DEF NewPoolState
    <2>3. \A x \in PoolState : <<x>> \in Seq(PoolState) /\ DOMAIN <<x>> = {1} /\ <<x>>[1] = x
      OBVIOUS
    <2>4. << >> \in Seq(PoolState) /\ DOMAIN << >> = {}
      OBVIOUS
    <2>5. SUFFICES ASSUME NEW p \in Pools
                   PROVE  /\ poolStates[p] \in Seq(PoolState)
                          /\ \A i \in DOMAIN poolStates[p] :
                               i = 1 /\ poolStates[p][i].applied = {}
      OBVIOUS
    <2>6. CASE p \in Preloaded
      BY <2>1, <2>2, <2>3, <2>6
    <2>7. CASE p \notin Preloaded
      BY <2>4, <2>7
    <2> QED BY <2>6, <2>7
  <1>2. NewPoolState \in PoolState /\ NewPoolState.applied = {}
    BY DEF NewPoolState, PoolState
  <1>3. TypeOK
    <2>1. << >> \in Seq(Logs)
      OBVIOUS
    <2>2. poolStates \in [Pools -> Seq(PoolState)]
      BY <1>1
    <2> HIDE DEF NewPoolState
    <2>3. fetched \in [Logs -> PoolState]
      BY <1>2
    <2> QED BY <2>1, <2>2, <2>3 DEF TypeOK, HandlerPC, DiscoveryPC
  <1>4. WireInv /\ RequestInv /\ BatchInv /\ OwnPoolInv /\ KnownInv /\ FreshInv
    BY <1>2 DEF WireInv, RequestInv, BatchInv, OwnPoolInv, KnownInv, FreshInv
  <1>5. \A l \in Logs : ~Parked(l) /\ ~Batched(l) /\ ~Processed(l)
    BY <1>1 DEF Parked, Batched, Applied, Processed
  <1>6. NoSwapHeldTwice /\ NoSwapVanishes
    BY <1>5 DEF Processed, NoSwapHeldTwice, NoSwapVanishes
  <1> QED BY <1>3, <1>4, <1>6 DEF IInv

(* The inductive invariant holds in every reachable state, for every set   *)
(* of logs and pools and every capacity of the queues.                     *)
THEOREM Invariance == Spec => []IInv
  <1>1. IInv /\ [Next]_vars => IInv'
    BY TypeStep, WireStep, RequestStep, BatchStep, OwnPoolStep, KnownStep,
       FreshStep, HoldStep DEF IInv
  <1> QED BY InitIInv, <1>1, PTL DEF Spec

(* Every variable keeps its type. *)
THEOREM TypeCorrect == Spec => []TypeOK
  BY Invariance, PTL DEF IInv

(* No swap delta can be applied twice, whatever goroutines race for it.    *)
THEOREM SwapHeldOnce == Spec => []NoSwapHeldTwice
  BY Invariance, PTL DEF IInv

(* No handled log vanishes: it waits, is in a batch or in the reserves,    *)
(* or was given up in one of two named ways, as unparsable by ProcessSwap  *)
(* or by CleanupPendingLogs.                                               *)
THEOREM SwapAccountedFor == Spec => []NoSwapVanishes
  BY Invariance, PTL DEF IInv

----------------------------------------------------------------------------
(* From the moment a discovery goes on to the pending swaps, the DB writer *)
(* has the requests for its pool.                                          *)
SavedInv ==
  \A d \in Logs :
    discovery[d] \in {"takePending", "processPending"} => PoolOf[d] \in saveRequested

LEMMA SavedStep == TypeOK /\ SavedInv /\ [Next]_vars => SavedInv'
  <1> SUFFICES ASSUME TypeOK, SavedInv, [Next]_vars PROVE SavedInv'
    OBVIOUS
  <1>1. CASE \/ UNCHANGED vars \/ Subscribe \/ Forward \/ DropLog \/ StartHandler
             \/ \E l \in Logs :
                  \/ ChainSwap(l) \/ LookupPool(l) \/ HandleKnown(l)
                  \/ CheckPending(l) \/ AddPendingLog(l)
    BY <1>1 DEF vars, Subscribe, Forward, DropLog, StartHandler, ChainSwap,
         LookupPool, HandleKnown, CheckPending, AddPendingLog, discoveryVars, SavedInv
  <1>2. CASE StartDiscovery
    BY <1>2, HeadTailFacts DEF StartDiscovery, TypeOK, SavedInv
  <1>3. ASSUME NEW l \in Logs, SendDiscovery(l) PROVE SavedInv'
    BY <1>3 DEF SendDiscovery, TypeOK, SavedInv
  <1>4. ASSUME NEW d \in Logs,
               \/ CheckFailed(d) \/ CheckKnown(d) \/ CheckPoolType(d)
               \/ FetchPool(d) \/ FetchError(d) \/ InsertPool(d)
               \/ LogAndCacheFailure(d) \/ CleanupPendingLogs(d)
        PROVE  SavedInv'
    BY <1>4 DEF CheckFailed, CheckKnown, CheckPoolType, FetchPool, FetchError,
         InsertPool, LogAndCacheFailure, CleanupPendingLogs, TypeOK, SavedInv
  <1>5. ASSUME NEW d \in Logs, SavePool(d) PROVE SavedInv'
    BY <1>5 DEF SavePool, TypeOK, SavedInv
  <1>6. ASSUME NEW d \in Logs, TakePendingLogs(d) \/ ProcessNextPending(d)
        PROVE  SavedInv'
    BY <1>6 DEF TakePendingLogs, ProcessNextPending, TypeOK, SavedInv
  <1> QED BY <1>1, <1>2, <1>3, <1>4, <1>5, <1>6, NextCases

(* The records of a discovered pool are handed to the DB writer before any *)
(* of the swaps that waited for its discovery is processed, whichever of   *)
(* several discoveries of the address takes them.                          *)
THEOREM SavedFirst == Spec => []SavedBeforePendingSwaps
  <1>1. Init => SavedInv
    BY DEF Init, SavedInv
  <1>2. IInv /\ SavedInv /\ [Next]_vars => SavedInv'
    BY SavedStep DEF IInv
  <1>3. IInv /\ SavedInv => SavedBeforePendingSwaps
    BY DEF IInv, BatchInv, SavedInv, SavedBeforePendingSwaps
  <1> QED BY Invariance, <1>1, <1>2, <1>3, PTL DEF Spec

----------------------------------------------------------------------------
(* A discovery is open from its request until its pool is in the cache or  *)
(* remembered as failed.                                                   *)
Open(d) == discovery[d] \in {"queued", "failedCheck", "knownCheck", "checkType",
                             "fetch", "insert", "logFailure"}

(* Whoever waits, or is about to, has had a discovery of its pool asked    *)
(* for; and a discovery of a pool ends with the pool in the cache or among *)
(* the failed ones.                                                        *)
Asked(p) == \E d \in Logs : PoolOf[d] = p /\ discovery[d] # "none"

AskedInv ==
  \A l \in Logs : Parked(l) \/ handler[l] = "addPending" => Asked(PoolOf[l])

EndedInv ==
  \A d \in Logs :
    PoolOf[d] \in RealPools /\ discovery[d] \in {"cleanup", "done"}
      => IsKnown(PoolOf[d]) \/ PoolOf[d] \in failed

(* EventRouter.go:42: the log is queued `to be processed after discovery   *)
(* is complete'.  As long as the discovery of a pool has had no outcome,   *)
(* every swap that waits for it has one on its way: a log is left behind   *)
(* only after a discovery of its pool has succeeded or failed.             *)
WaitingIsServed ==
  \A l \in Logs : Parked(l) /\ PoolOf[l] \in RealPools =>
    \/ IsKnown(PoolOf[l]) \/ PoolOf[l] \in failed
    \/ \E d \in Logs : PoolOf[d] = PoolOf[l] /\ Open(d)

(* A discovery once asked for is never forgotten. *)
LEMMA DiscoveryMonotone ==
  ASSUME IInv, [Next]_vars, NEW d \in Logs, discovery[d] # "none"
  PROVE  discovery'[d] # "none"
  <1> USE DEF IInv
  <1>1. CASE \/ UNCHANGED vars \/ Subscribe \/ Forward \/ DropLog \/ StartHandler
             \/ \E l \in Logs :
                  \/ ChainSwap(l) \/ LookupPool(l) \/ HandleKnown(l)
                  \/ CheckPending(l) \/ AddPendingLog(l)
    BY <1>1 DEF vars, Subscribe, Forward, DropLog, StartHandler, ChainSwap,
         LookupPool, HandleKnown, CheckPending, AddPendingLog, discoveryVars
  <1>2. CASE StartDiscovery \/ \E l \in Logs : SendDiscovery(l)
    BY <1>2, HeadTailFacts DEF StartDiscovery, SendDiscovery, TypeOK
  <1>3. ASSUME NEW l \in Logs,
               \/ CheckFailed(l) \/ CheckKnown(l) \/ CheckPoolType(l)
               \/ FetchPool(l) \/ FetchError(l) \/ InsertPool(l)
               \/ SavePool(l) \/ TakePendingLogs(l) \/ ProcessNextPending(l)
               \/ LogAndCacheFailure(l) \/ CleanupPendingLogs(l)
        PROVE  discovery'[d] # "none"
    BY <1>3 DEF CheckFailed, CheckKnown, CheckPoolType, FetchPool, FetchError,
         InsertPool, SavePool, TakePendingLogs, ProcessNextPending,
         LogAndCacheFailure, CleanupPendingLogs, TypeOK
  <1> QED BY <1>1, <1>2, <1>3, NextCases

LEMMA AskedStep == IInv /\ AskedInv /\ [Next]_vars => AskedInv'
  <1> SUFFICES ASSUME IInv, AskedInv, [Next]_vars PROVE AskedInv'
    OBVIOUS
  <1> USE LogsAssumption DEF IInv
  <1>1. \A p \in Pools : Asked(p) => Asked(p)'
    BY DiscoveryMonotone DEF Asked
  <1>2. SUFFICES ASSUME NEW l \in Logs, (Parked(l) \/ handler[l] = "addPending")',
                        ~Parked(l), handler[l] # "addPending"
                 PROVE  Asked(PoolOf[l])'
    BY <1>1 DEF AskedInv
  <1>3. CASE \/ UNCHANGED vars \/ Subscribe \/ Forward \/ StartDiscovery
             \/ \E d \in Logs :
                  \/ CheckFailed(d) \/ CheckKnown(d) \/ CheckPoolType(d)
                  \/ FetchPool(d) \/ FetchError(d) \/ InsertPool(d)
                  \/ SavePool(d) \/ ProcessNextPending(d) \/ LogAndCacheFailure(d)
    <2>1. UNCHANGED <<handler, pendingLogs>>
      BY <1>3 DEF vars, Subscribe, Forward, StartDiscovery, CheckFailed, CheckKnown,
           CheckPoolType, FetchPool, FetchError, InsertPool, SavePool,
           ProcessNextPending, LogAndCacheFailure
    <2> QED BY <1>2, <2>1 DEF Parked
  <1>4. CASE DropLog \/ StartHandler
    <2>1. UNCHANGED pendingLogs
      BY <1>4 DEF DropLog, StartHandler
    <2>2. handler'[l] # "addPending"
      BY <1>2, <1>4 DEF DropLog, StartHandler, TypeOK
    <2> QED BY <1>2, <2>1, <2>2 DEF Parked
  <1>5. ASSUME NEW m \in Logs, ChainSwap(m) \/ LookupPool(m) \/ HandleKnown(m)
        PROVE  FALSE
    <2>1. UNCHANGED pendingLogs /\ handler'[l] # "addPending"
      BY <1>2, <1>5 DEF ChainSwap, LookupPool, HandleKnown, TypeOK
    <2> QED BY <1>2, <2>1 DEF Parked
  <1>6. ASSUME NEW m \in Logs, CheckPending(m) PROVE Asked(PoolOf[l])'
    <2>1. UNCHANGED pendingLogs /\ l = m /\ IsPending(PoolOf[l])
      BY <1>2, <1>6 DEF CheckPending, TypeOK, Parked
    <2>2. pendingLogs[PoolOf[l]] \in Seq(Logs) /\ PoolOf[l] \in Pools
      BY DEF TypeOK
    <2>3. PICK h \in Logs : h \in Range(pendingLogs[PoolOf[l]])
      BY <2>1, <2>2, HeadTailFacts DEF IsPending
    <2>4. PoolOf[h] = PoolOf[l] /\ Parked(h)
      BY <2>2, <2>3 DEF OwnPoolInv, Parked
    <2> QED BY <1>1, <2>2, <2>4 DEF AskedInv
  <1>7. ASSUME NEW m \in Logs, SendDiscovery(m) PROVE Asked(PoolOf[l])'
    <2>1. UNCHANGED pendingLogs /\ l = m /\ discovery'[l] = "queued"
      BY <1>2, <1>7 DEF SendDiscovery, TypeOK, Parked
    <2> QED BY <2>1 DEF Asked
  <1>8. ASSUME NEW m \in Logs, AddPendingLog(m) PROVE Asked(PoolOf[l])'
    <2>1. l = m
      BY <1>2, <1>8, AppendFacts DEF AddPendingLog, TypeOK, Parked
    <2> QED BY <1>2, <1>8, <2>1 DEF AddPendingLog
  <1>9. ASSUME NEW d \in Logs, TakePendingLogs(d) \/ CleanupPendingLogs(d)
        PROVE  FALSE
    <2>1. UNCHANGED handler
      BY <1>9 DEF TakePendingLogs, CleanupPendingLogs
    <2>2. pendingLogs' = [pendingLogs EXCEPT ![PoolOf[d]] = << >>]
      BY <1>9 DEF TakePendingLogs, CleanupPendingLogs
    <2> QED BY <1>2, <2>1, <2>2, EmptyFacts DEF TypeOK, Parked
  <1> QED BY <1>3, <1>4, <1>5, <1>6, <1>7, <1>8, <1>9, NextCases

LEMMA EndedStep == IInv /\ EndedInv /\ [Next]_vars => EndedInv'
  <1> SUFFICES ASSUME IInv, EndedInv, [Next]_vars PROVE EndedInv'
    OBVIOUS
  <1> USE LogsAssumption DEF IInv
  <1>1. \A p \in Pools : IsKnown(p) => IsKnown(p)'
    BY KnownMonotone
  <1>2. failed \subseteq failed'
    BY NextCases DEF vars, Subscribe, Forward, DropLog, StartHandler, StartDiscovery,
         ChainSwap, LookupPool, HandleKnown, CheckPending, SendDiscovery,
         AddPendingLog, CheckFailed, CheckKnown, CheckPoolType, FetchPool,
         FetchError, InsertPool, SavePool, TakePendingLogs, ProcessNextPending,
         LogAndCacheFailure, CleanupPendingLogs, discoveryVars
  <1>3. SUFFICES ASSUME NEW d \in Logs, PoolOf[d] \in RealPools,
                        discovery'[d] \in {"cleanup", "done"},
                        discovery[d] \notin {"cleanup", "done"}
                 PROVE  IsKnown(PoolOf[d])' \/ PoolOf[d] \in failed'
    BY <1>1, <1>2 DEF EndedInv
  <1>4. CASE \/ UNCHANGED vars \/ Subscribe \/ Forward \/ DropLog \/ StartHandler
             \/ \E l \in Logs :
                  \/ ChainSwap(l) \/ LookupPool(l) \/ HandleKnown(l)
                  \/ CheckPending(l) \/ AddPendingLog(l)
    BY <1>3, <1>4 DEF vars, Subscribe, Forward, DropLog, StartHandler, ChainSwap,
         LookupPool, HandleKnown, CheckPending, AddPendingLog, discoveryVars
  <1>5. CASE StartDiscovery \/ \E l \in Logs : SendDiscovery(l)
    BY <1>3, <1>5, HeadTailFacts DEF StartDiscovery, SendDiscovery, TypeOK
  <1>6. ASSUME NEW e \in Logs,
               FetchPool(e) \/ FetchError(e) \/ InsertPool(e) \/ SavePool(e)
        PROVE  FALSE
    BY <1>3, <1>6 DEF FetchPool, FetchError, InsertPool, SavePool, TypeOK
  <1>7. ASSUME NEW e \in Logs, CheckFailed(e) \/ CheckKnown(e)
        PROVE  IsKnown(PoolOf[d])' \/ PoolOf[d] \in failed'
    <2>1. e = d /\ (IsKnown(PoolOf[d]) \/ PoolOf[d] \in failed)
      BY <1>3, <1>7 DEF CheckFailed, CheckKnown, TypeOK
    <2> QED BY <1>1, <1>2, <2>1
  <1>8. ASSUME NEW e \in Logs, CheckPoolType(e) PROVE FALSE
    BY <1>3, <1>8 DEF CheckPoolType, TypeOK
  <1>9. ASSUME NEW e \in Logs, LogAndCacheFailure(e)
        PROVE  PoolOf[d] \in failed'
    <2>1. e = d
      BY <1>3, <1>9 DEF LogAndCacheFailure, TypeOK
    <2> QED BY <1>9, <2>1 DEF LogAndCacheFailure
  <1>10. ASSUME NEW e \in Logs, CleanupPendingLogs(e) PROVE FALSE
    BY <1>3, <1>10 DEF CleanupPendingLogs, TypeOK
  <1>11. ASSUME NEW e \in Logs, TakePendingLogs(e) \/ ProcessNextPending(e)
         PROVE  IsKnown(PoolOf[d])'
    <2>1. e = d /\ discovery[e] \in {"takePending", "processPending"}
      BY <1>3, <1>11 DEF TakePendingLogs, ProcessNextPending, TypeOK
    <2> QED BY <1>1, <2>1 DEF KnownInv
  <1> QED BY <1>4, <1>5, <1>6, <1>7, <1>8, <1>9, <1>10, <1>11, NextCases

(* What run discovery_stranded shows is all that can go wrong: no swap of  *)
(* a pool waits for a discovery that nobody has asked for, or that was     *)
(* given up without an outcome, whatever handlers and discoveries race.    *)
THEOREM DiscoveryComes == Spec => []WaitingIsServed
  <1>1. Init => AskedInv /\ EndedInv
    BY EmptyFacts, LogsAssumption DEF Init, AskedInv, EndedInv, Parked
  <1>2. IInv /\ AskedInv /\ EndedInv /\ [Next]_vars => AskedInv' /\ EndedInv'
    BY AskedStep, EndedStep
  <1>3. IInv /\ AskedInv /\ EndedInv => WaitingIsServed
    <2> SUFFICES ASSUME IInv, AskedInv, EndedInv, NEW l \in Logs, Parked(l),
                        PoolOf[l] \in RealPools, ~IsKnown(PoolOf[l]),
                        PoolOf[l] \notin failed
                 PROVE  \E d \in Logs : PoolOf[d] = PoolOf[l] /\ Open(d)
      BY DEF WaitingIsServed
    <2>1. PICK d \in Logs : PoolOf[d] = PoolOf[l] /\ discovery[d] # "none"
      BY DEF AskedInv, Asked
    <2>2. discovery[d] \notin {"save", "takePending", "processPending"}
      BY <2>1 DEF IInv, KnownInv
    <2>3. discovery[d] \notin {"cleanup", "done"}
      BY <2>1 DEF EndedInv
    <2>4. discovery[d] \in DiscoveryPC
      BY DEF IInv, TypeOK
    <2> QED BY <2>1, <2>2, <2>3, <2>4 DEF Open, DiscoveryPC
  <1> QED BY Invariance, <1>1, <1>2, <1>3, PTL DEF Spec

----------------------------------------------------------------------------
(* PoolDiscovery implements SwapLedger.  What a step does to the fates: it *)
(* leaves all of them, or settles that of one swap.                        *)
LEMMA SameFates ==
  ASSUME \A l \in Logs : FateOf(l)' = FateOf(l)
  PROVE  Fate' = Fate
  BY DEF Fate

LEMMA NewFate ==
  ASSUME NEW l \in Logs, NEW f, FateOf(l)' = f,
         \A m \in Logs : m # l => FateOf(m)' = FateOf(m)
  PROVE  Fate' = [Fate EXCEPT ![l] = f]
  <1> DEFINE old == FateOf(l)
  <1>1. Fate' = [m \in Logs |-> IF m = l THEN f ELSE FateOf(m)]
    BY DEF Fate
  <1>2. [Fate EXCEPT ![l] = f] = [m \in Logs |-> IF m = l THEN f ELSE FateOf(m)]
    BY DEF Fate
  <1> QED BY <1>1, <1>2

LEMMA Undecided ==
  ASSUME IInv, NEW l \in Logs, handler[l] \notin {"future", "lost", "done"}
  PROVE  /\ ~Applied(l) /\ l \notin dropped /\ l \notin discarded
         /\ Fate[l] = "travelling"
  BY DEF IInv, NoSwapHeldTwice, Processed, Fate, FateOf

LEMMA LedgerStep == IInv /\ [Next]_vars => [Ledger!Next]_Fate
  <1> SUFFICES ASSUME IInv, [Next]_vars PROVE [Ledger!Next]_Fate
    OBVIOUS
  <1> USE LogsAssumption DEF IInv
  <1>1. CASE \/ UNCHANGED vars \/ Subscribe \/ Forward \/ StartDiscovery
             \/ \E d \in Logs :
                  \/ CheckFailed(d) \/ CheckKnown(d) \/ CheckPoolType(d)
                  \/ FetchPool(d) \/ FetchError(d) \/ SavePool(d)
                  \/ TakePendingLogs(d) \/ LogAndCacheFailure(d)
    <2>1. UNCHANGED <<handler, poolStates, dropped, discarded>>
      BY <1>1 DEF vars, Subscribe, Forward, StartDiscovery, CheckFailed, CheckKnown,
           CheckPoolType, FetchPool, FetchError, SavePool, TakePendingLogs,
           LogAndCacheFailure
    <2> QED BY <2>1, SameFates DEF FateOf, Applied
  <1>2. ASSUME NEW d \in Logs, InsertPool(d) PROVE Fate' = Fate
    <2>1. UNCHANGED <<handler, dropped, discarded>>
      BY <1>2 DEF InsertPool
    <2> QED BY <1>2, <2>1, InsertFacts, SameFates DEF FateOf
  <1>3. CASE StartHandler \/ \E l \in Logs : \/ LookupPool(l) \/ CheckPending(l)
                                            \/ SendDiscovery(l) \/ AddPendingLog(l)
    <2>1. PICK h \in Logs, pc \in HandlerPC \ {"future", "lost"} :
            /\ handler[h] \notin {"future", "lost", "done"}
            /\ handler' = [handler EXCEPT ![h] = pc]
      <3>1. CASE StartHandler
        <4>1. Head(appLogs) \in Logs /\ Head(appLogs) \in Range(appLogs)
          BY <3>1, HeadTailFacts DEF StartHandler, TypeOK
        <4> QED BY <3>1, <4>1 DEF StartHandler, WireInv, HandlerPC
      <3>2. ASSUME NEW l \in Logs,
                   \/ LookupPool(l) \/ CheckPending(l)
                   \/ SendDiscovery(l) \/ AddPendingLog(l)
            PROVE  \E pc \in HandlerPC \ {"future", "lost"} :
                     /\ handler[l] \notin {"future", "lost", "done"}
                     /\ handler' = [handler EXCEPT ![l] = pc]
        BY <3>2 DEF LookupPool, CheckPending, SendDiscovery, AddPendingLog, HandlerPC
      <3> QED BY <1>3, <3>1, <3>2
    <2>2. UNCHANGED <<poolStates, dropped, discarded>>
      BY <1>3 DEF StartHandler, LookupPool, CheckPending, SendDiscovery, AddPendingLog
    <2>3. \A l \in Logs : FateOf(l)' = FateOf(l)
      BY <2>1, <2>2, Undecided DEF FateOf, Applied, TypeOK
    <2> QED BY <2>3, SameFates
  <1>4. ASSUME NEW l \in Logs, ChainSwap(l) PROVE Ledger!Next
    <2>1. PICK pc \in {"wire", "lost"} : handler' = [handler EXCEPT ![l] = pc]
      BY <1>4 DEF ChainSwap
    <2>2. handler[l] = "future" /\ UNCHANGED <<poolStates, dropped, discarded>>
      BY <1>4 DEF ChainSwap
    <2>3. \A m \in Logs : m # l => FateOf(m)' = FateOf(m)
      BY <2>1, <2>2 DEF FateOf, Applied, TypeOK
    <2>4. FateOf(l)' \in {"travelling", "lost"}
      <3>1. ~Applied(l) /\ l \notin dropped /\ l \notin discarded
        BY <2>2 DEF NoSwapHeldTwice, Processed
      <3> QED BY <2>1, <2>2, <3>1 DEF FateOf, Applied, TypeOK
    <2>5. Fate[l] = "future"
      BY <2>2 DEF Fate, FateOf
    <2> QED BY <2>3, <2>4, <2>5, NewFate DEF Ledger!Next, Ledger!Happen
  <1>5. CASE DropLog
    <2>1. PICK l \in Logs : l = Head(inner) /\ handler[l] = "wire"
      BY <1>5, HeadTailFacts DEF DropLog, TypeOK, WireInv
    <2>2. /\ handler' = [handler EXCEPT ![l] = "lost"]
          /\ UNCHANGED <<poolStates, dropped, discarded>>
      BY <1>5, <2>1 DEF DropLog
    <2>3. FateOf(l)' = "lost" /\ \A m \in Logs : m # l => FateOf(m)' = FateOf(m)
      BY <2>1, <2>2 DEF FateOf, Applied, TypeOK
    <2>4. Fate[l] = "travelling"
      BY <2>1, Undecided
    <2>5. Fate' = [Fate EXCEPT ![l] = "lost"]
      BY <2>1, <2>3, NewFate
    <2> QED BY <2>1, <2>4, <2>5 DEF Ledger!Next, Ledger!Settle
  <1>6. ASSUME NEW l \in Logs, HandleKnown(l) PROVE Ledger!Next
    <2>1. /\ handler[l] = "processSwap" /\ UNCHANGED discarded
          /\ handler' = [handler EXCEPT ![l] = "done"]
      BY <1>6 DEF HandleKnown
    <2>2. /\ Processed(l)'
          /\ \A m \in Logs : m # l => /\ Applied(m)' <=> Applied(m)
                                      /\ m \in dropped' <=> m \in dropped
      BY <1>6, ProcessedFacts DEF HandleKnown, KnownInv
    <2>3. /\ FateOf(l)' \in {"counted", "dropped"}
          /\ \A m \in Logs : m # l => FateOf(m)' = FateOf(m)
      BY <2>1, <2>2 DEF FateOf, Processed, TypeOK
    <2>4. Fate[l] = "travelling"
      BY <2>1, Undecided
    <2> QED BY <2>3, <2>4, NewFate DEF Ledger!Next, Ledger!Settle
  <1>7. ASSUME NEW d \in Logs, ProcessNextPending(d) PROVE Ledger!Next
    <2>1. /\ UNCHANGED <<handler, discarded>> /\ ProcessSwap(Head(batch[d]))
          /\ IsKnown(PoolOf[d]) /\ batch[d] # << >> /\ batch[d] \in Seq(Logs)
      BY <1>7 DEF ProcessNextPending, TypeOK, BatchInv, KnownInv
    <2>2. PICK h \in Logs : /\ h = Head(batch[d]) /\ h \in Range(batch[d])
                            /\ PoolOf[h] = PoolOf[d]
      BY <2>1, HeadTailFacts DEF OwnPoolInv
    <2>3. /\ Processed(h)'
          /\ \A m \in Logs : m # h => /\ Applied(m)' <=> Applied(m)
                                      /\ m \in dropped' <=> m \in dropped
      BY <2>1, <2>2, ProcessedFacts
    <2>4. handler[h] = "done" /\ ~Processed(h) /\ h \notin discarded
      BY <2>2 DEF Batched, NoSwapHeldTwice
    <2>5. /\ FateOf(h)' \in {"counted", "dropped"}
          /\ \A m \in Logs : m # h => FateOf(m)' = FateOf(m)
      BY <2>1, <2>2, <2>3, <2>4 DEF FateOf, Processed
    <2>6. Fate[h] = "travelling"
      BY <2>2, <2>4 DEF Fate, FateOf, Processed
    <2> QED BY <2>2, <2>5, <2>6, NewFate DEF Ledger!Next, Ledger!Settle
  <1>8. ASSUME NEW d \in Logs, CleanupPendingLogs(d) PROVE Ledger!Next
    <2> DEFINE p == PoolOf[d]
               S == {l \in Logs : Parked(l) /\ PoolOf[l] = p}
    <2>1. /\ UNCHANGED <<handler, poolStates, dropped>>
          /\ discarded' = discarded \cup Range(pendingLogs[p])
      BY <1>8 DEF CleanupPendingLogs
    <2>2. \A l \in Logs : l \in discarded' <=> l \in discarded \/ l \in S
      BY <2>1 DEF Parked, OwnPoolInv
    <2>3. \A l \in S : /\ handler[l] = "done"
                       /\ ~Applied(l) /\ l \notin dropped /\ l \notin discarded
      BY DEF NoSwapHeldTwice, Processed
    <2>4. \A l \in Logs : FateOf(l)' = IF l \in S THEN "discarded" ELSE FateOf(l)
      BY <2>1, <2>2, <2>3 DEF FateOf, Applied
    <2>5. S \in SUBSET Ledger!Travelling(p)
      BY <2>3 DEF Ledger!Travelling, Fate, FateOf
    <2> HIDE DEF S
    <2>6. Fate' = [l \in Logs |-> IF l \in S THEN "discarded" ELSE Fate[l]]
      BY <2>4 DEF Fate
    <2> QED BY <2>5, <2>6 DEF Ledger!Next, Ledger!Discard
  <1> QED BY <1>1, <1>2, <1>3, <1>4, <1>5, <1>6, <1>7, <1>8, NextCases

(* The fate of every swap is final: counted swaps stay counted when their  *)
(* pool is discovered again, dropped and discarded ones are never counted, *)
(* and all that a failed discovery discards was waiting for its own pool.  *)
THEOREM FatesAreFinal == Spec => ImplementsLedger
  <1>1. Init => Ledger!Init
    <2> SUFFICES ASSUME Init PROVE Ledger!Init
      OBVIOUS
    <2>1. \A l \in Logs : handler[l] = "future"
      BY DEF Init
    <2> QED BY <2>1 DEF Ledger!Init, Fate, FateOf
  <1>2. IInv /\ [Next]_vars => [Ledger!Next]_Fate
    BY LedgerStep
  <1> QED BY Invariance, <1>1, <1>2, PTL DEF Spec, ImplementsLedger, Ledger!Spec
=============================================================================
