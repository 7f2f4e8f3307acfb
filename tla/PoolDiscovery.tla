--------------------------- MODULE PoolDiscovery ---------------------------
(***************************************************************************)
(* From the log subscription to the market cache (bot-v2-alpha,            *)
(* dispatcher mode): the subscription's two channels, App.Run, one         *)
(* EventRouter.HandleLog goroutine per log, the pending logs kept by       *)
(* Market.Service, the discovery queue, one processDiscovery goroutine per *)
(* queued address, and the insertion of a pool into the market cache.      *)
(*                                                                         *)
(* Data abstraction.  A log is an identifier; the address that emitted it  *)
(* is PoolOf[l].  A V2 pool's reserves are a fetched chain state plus      *)
(* swap deltas, and deltas commute, so a pool state is represented by      *)
(* WHICH swaps its reserves count: `seen' holds the swaps the fetched      *)
(* chain state already reflected, `applied' the swaps ProcessSwap added.   *)
(*                                                                         *)
(* Every discovery request is sent by one HandleLog goroutine and every    *)
(* HandleLog goroutine sends at most one, so the processDiscovery          *)
(* goroutine is named after the log whose handler asked for it.            *)
(***************************************************************************)
EXTENDS Naturals, Sequences, FiniteSets, Functions

CONSTANTS
  Logs,          \* identifiers of the Swap logs the chain may emit
  Pools,         \* the addresses that emit them
  PoolOf,        \* PoolOf[l]: vLog.Address
  RealPools,     \* the addresses the on-chain checker accepts as pools
  Preloaded,     \* the pools loadAndCacheFromDB puts in the cache
  Unparsable,    \* the logs the parser rejects
  LogsCap,       \* capacity of App.Logs (1000 in the code)
  DiscoveryCap   \* capacity of the discovery queue (1000 in the code)

ASSUME LogsAssumption == PoolOf \in [Logs -> Pools]
ASSUME ParserAssumption == Unparsable \subseteq Logs
ASSUME PoolsAssumption ==
  RealPools \subseteq Pools /\ Preloaded \subseteq RealPools
ASSUME CapAssumption == LogsCap \in Nat \ {0} /\ DiscoveryCap \in Nat \ {0}

VARIABLES
  subscribed,        \* App.Run has called SubscribeFilterLogs
  emitted,           \* the swaps that have happened on chain
  inner,             \* the subscription's own channel
  appLogs,           \* App.Logs
  handler,           \* control state of HandleLog(l)
  pendingLogs,       \* Market.Service.pendingLogs; no entry is << >>
  discoveryQueue,    \* Discovery.Service.DiscoveryQueue
  discovery,         \* control state of processDiscovery
  fetched,           \* the PoolState a discovery is building
  batch,             \* logsToProcess, what is left of it
  failed,            \* Discovery.Service.failedDiscoveries
  poolStates,        \* the PoolStates the cache lists for an address
  saveRequested,     \* pools whose records were handed to the DB writer
  dropped,           \* logs ProcessSwap gave up because they did not parse
  discarded          \* logs deleted by CleanupPendingLogs

chainVars     == <<subscribed, emitted>>
channelVars   == <<inner, appLogs>>
discoveryVars == <<discovery, fetched, batch, failed>>
vars == <<subscribed, emitted, inner, appLogs, handler, pendingLogs,
          discoveryQueue, discovery, fetched, batch, failed, poolStates,
          saveRequested, dropped, discarded>>

----------------------------------------------------------------------------
PoolState == [fetched : BOOLEAN, seen : SUBSET Logs, applied : SUBSET Logs]

NewPoolState == [fetched |-> FALSE, seen |-> {}, applied |-> {}]

HandlerPC == {"future", "wire", "lost", "lookup", "processSwap", "isPending",
              "send", "addPending", "done"}

DiscoveryPC == {"none", "queued", "failedCheck", "knownCheck", "checkType",
                "fetch", "insert", "save", "takePending", "processPending",
                "logFailure", "cleanup", "done"}

(* HandleLog goroutines that still hold their log. *)
Routing == {"lookup", "processSwap", "isPending", "send", "addPending"}

(* PoolToTicker has the address: it is set together with the append to     *)
(* TickerToPools, under the cache's write lock, and never deleted.         *)
IsKnown(p) == poolStates[p] # << >>

IsPending(p) == pendingLogs[p] # << >>

(* The swaps of p that the chain's current state reflects. *)
SwapsOnChain(p) == {l \in emitted : PoolOf[l] = p}

(* ProcessSwap: the early return for an unknown pool, the one for a log    *)
(* that does not parse, else the swap is added to the FIRST PoolState      *)
(* listed for the address.  A log is parsed in the style of that PoolState,*)
(* which never changes: whether it parses does not depend on when.  What   *)
(* happens to the fields, under which locks, is the subject of module      *)
(* MarketState.                                                            *)
ProcessSwap(l) ==
  \/ /\ ~IsKnown(PoolOf[l])
     /\ UNCHANGED <<poolStates, dropped>>
  \/ /\ IsKnown(PoolOf[l]) /\ l \in Unparsable
     /\ dropped' = dropped \cup {l}
     /\ UNCHANGED poolStates
  \/ /\ IsKnown(PoolOf[l]) /\ l \notin Unparsable
     /\ poolStates' = [poolStates EXCEPT ![PoolOf[l]][1].applied = @ \cup {l}]
     /\ UNCHANGED dropped

Init ==
  /\ subscribed = FALSE
  /\ emitted = {}
  /\ inner = << >>
  /\ appLogs = << >>
  /\ handler = [l \in Logs |-> "future"]
  /\ pendingLogs = [p \in Pools |-> << >>]
  /\ discoveryQueue = << >>
  /\ discovery = [l \in Logs |-> "none"]
  /\ fetched = [l \in Logs |-> NewPoolState]
  /\ batch = [l \in Logs |-> << >>]
  /\ failed = {}
  /\ poolStates = [p \in Pools |->
       IF p \in Preloaded THEN <<[NewPoolState EXCEPT !.fetched = TRUE]>>
                          ELSE << >>]
  /\ saveRequested = {}
  /\ dropped = {}
  /\ discarded = {}

----------------------------------------------------------------------------
(* The chain, the subscription and App.Run.                                *)

(* A swap happens on chain.  Before the subscription exists nobody hears   *)
(* of it; afterwards it is delivered to the subscription's channel.        *)
ChainSwap(l) ==
  /\ handler[l] = "future"
  /\ emitted' = emitted \cup {l}
  /\ inner' = IF subscribed THEN Append(inner, l) ELSE inner
  /\ handler' = [handler EXCEPT ![l] = IF subscribed THEN "wire" ELSE "lost"]
  /\ UNCHANGED <<subscribed, appLogs, pendingLogs, discoveryQueue,
                 discoveryVars, poolStates, saveRequested, dropped, discarded>>

Subscribe ==
  /\ ~subscribed
  /\ subscribed' = TRUE
  /\ UNCHANGED <<emitted, channelVars, handler, pendingLogs, discoveryQueue,
                 discoveryVars, poolStates, saveRequested, dropped, discarded>>

(* Subscription's forwarder: the non-blocking send succeeds ...            *)
Forward ==
  /\ inner # << >>
  /\ Len(appLogs) < LogsCap
  /\ appLogs' = Append(appLogs, Head(inner))
  /\ inner' = Tail(inner)
  /\ UNCHANGED <<chainVars, handler, pendingLogs, discoveryQueue,
                 discoveryVars, poolStates, saveRequested, dropped, discarded>>

(* ... or App.Logs is full and the log is dropped.                         *)
DropLog ==
  /\ inner # << >>
  /\ Len(appLogs) >= LogsCap
  /\ inner' = Tail(inner)
  /\ handler' = [handler EXCEPT ![Head(inner)] = "lost"]
  /\ UNCHANGED <<chainVars, appLogs, pendingLogs, discoveryQueue,
                 discoveryVars, poolStates, saveRequested, dropped, discarded>>

(* App.Run: one goroutine per log.                                         *)
StartHandler ==
  /\ appLogs # << >>
  /\ appLogs' = Tail(appLogs)
  /\ handler' = [handler EXCEPT ![Head(appLogs)] = "lookup"]
  /\ UNCHANGED <<chainVars, inner, pendingLogs, discoveryQueue,
                 discoveryVars, poolStates, saveRequested, dropped, discarded>>

----------------------------------------------------------------------------
(* EventRouter.HandleLog.                                                  *)

(* Mutant: `ok' is not looked at. *)
LookupPool_Unchecked(l) ==
  /\ handler[l] = "lookup"
  /\ handler' = [handler EXCEPT ![l] = "processSwap"]
  /\ UNCHANGED <<chainVars, channelVars, pendingLogs, discoveryQueue,
                 discoveryVars, poolStates, saveRequested, dropped, discarded>>

(* The read of PoolToTicker under the cache's read lock. *)
LookupPool(l) ==
  /\ handler[l] = "lookup"
  /\ handler' = [handler EXCEPT ![l] =
                   IF IsKnown(PoolOf[l]) THEN "processSwap" ELSE "isPending"]
  /\ UNCHANGED <<chainVars, channelVars, pendingLogs, discoveryQueue,
                 discoveryVars, poolStates, saveRequested, dropped, discarded>>

HandleKnown(l) ==
  /\ handler[l] = "processSwap"
  /\ ProcessSwap(l)
  /\ handler' = [handler EXCEPT ![l] = "done"]
  /\ UNCHANGED <<chainVars, channelVars, pendingLogs, discoveryQueue,
                 discoveryVars, saveRequested, discarded>>

CheckPending(l) ==
  /\ handler[l] = "isPending"
  /\ handler' = [handler EXCEPT ![l] =
                   IF IsPending(PoolOf[l]) THEN "addPending" ELSE "send"]
  /\ UNCHANGED <<chainVars, channelVars, pendingLogs, discoveryQueue,
                 discoveryVars, poolStates, saveRequested, dropped, discarded>>

(* The send on DiscoveryQueue blocks while the queue is full. *)
SendDiscovery(l) ==
  /\ handler[l] = "send"
  /\ Len(discoveryQueue) < DiscoveryCap
  /\ discoveryQueue' = Append(discoveryQueue, l)
  /\ discovery' = [discovery EXCEPT ![l] = "queued"]
  /\ handler' = [handler EXCEPT ![l] = "addPending"]
  /\ UNCHANGED <<chainVars, channelVars, pendingLogs, fetched, batch, failed,
                 poolStates, saveRequested, dropped, discarded>>

(* Mutant: the entry is replaced, not appended to. *)
AddPendingLog_Replace(l) ==
  /\ handler[l] = "addPending"
  /\ pendingLogs' = [pendingLogs EXCEPT ![PoolOf[l]] = <<l>>]
  /\ handler' = [handler EXCEPT ![l] = "done"]
  /\ UNCHANGED <<chainVars, channelVars, discoveryQueue, discoveryVars,
                 poolStates, saveRequested, dropped, discarded>>

AddPendingLog(l) ==
  /\ handler[l] = "addPending"
  /\ pendingLogs' = [pendingLogs EXCEPT ![PoolOf[l]] = Append(@, l)]
  /\ handler' = [handler EXCEPT ![l] = "done"]
  /\ UNCHANGED <<chainVars, channelVars, discoveryQueue, discoveryVars,
                 poolStates, saveRequested, dropped, discarded>>

----------------------------------------------------------------------------
(* Discovery.Run and processDiscovery.                                     *)

(* Mutant: Run is left once a discovery has failed, and the queue fills up.*)
StartDiscovery_Leave ==
  /\ discoveryQueue # << >>
  /\ failed = {}
  /\ discoveryQueue' = Tail(discoveryQueue)
  /\ discovery' = [discovery EXCEPT ![Head(discoveryQueue)] = "failedCheck"]
  /\ UNCHANGED <<chainVars, channelVars, handler, pendingLogs, fetched, batch,
                 failed, poolStates, saveRequested, dropped, discarded>>

(* Run receives for as long as the program runs, one goroutine per address.*)
StartDiscovery ==
  /\ discoveryQueue # << >>
  /\ discoveryQueue' = Tail(discoveryQueue)
  /\ discovery' = [discovery EXCEPT ![Head(discoveryQueue)] = "failedCheck"]
  /\ UNCHANGED <<chainVars, channelVars, handler, pendingLogs, fetched, batch,
                 failed, poolStates, saveRequested, dropped, discarded>>

(* Both early returns leave the pending logs of the address alone. *)
CheckFailed(d) ==
  /\ discovery[d] = "failedCheck"
  /\ discovery' = [discovery EXCEPT ![d] =
                     IF PoolOf[d] \in failed THEN "done" ELSE "knownCheck"]
  /\ UNCHANGED <<chainVars, channelVars, handler, pendingLogs, discoveryQueue,
                 fetched, batch, failed, poolStates, saveRequested,
                 dropped, discarded>>

CheckKnown(d) ==
  /\ discovery[d] = "knownCheck"
  /\ discovery' = [discovery EXCEPT ![d] =
                     IF IsKnown(PoolOf[d]) THEN "done" ELSE "checkType"]
  /\ UNCHANGED <<chainVars, channelVars, handler, pendingLogs, discoveryQueue,
                 fetched, batch, failed, poolStates, saveRequested,
                 dropped, discarded>>

(* The on-chain PoolTypeChecker answers: a pool goes on to be fetched, an  *)
(* address that reverts or has type NONE is cleaned up without being       *)
(* remembered, and a failed call is remembered.                            *)
CheckPoolType(d) ==
  /\ discovery[d] = "checkType"
  /\ \E answer \in {IF PoolOf[d] \in RealPools THEN "fetch" ELSE "cleanup",
                    "logFailure"} :
       discovery' = [discovery EXCEPT ![d] = answer]
  /\ UNCHANGED <<chainVars, channelVars, handler, pendingLogs, discoveryQueue,
                 fetched, batch, failed, poolStates, saveRequested,
                 dropped, discarded>>

(* discoverAndCachePool up to the insertion: the reserves are read at the  *)
(* latest block, so they already count every swap emitted so far; when the *)
(* batch has no entry for the pool they stay zero.                         *)
FetchPool(d) ==
  /\ discovery[d] = "fetch"
  /\ \E ps \in {[fetched |-> TRUE, applied |-> {},
                 seen |-> SwapsOnChain(PoolOf[d])], NewPoolState} :
       fetched' = [fetched EXCEPT ![d] = ps]
  /\ discovery' = [discovery EXCEPT ![d] = "insert"]
  /\ UNCHANGED <<chainVars, channelVars, handler, pendingLogs, discoveryQueue,
                 batch, failed, poolStates, saveRequested, dropped, discarded>>

FetchError(d) ==
  /\ discovery[d] = "fetch"
  /\ discovery' = [discovery EXCEPT ![d] = "logFailure"]
  /\ UNCHANGED <<chainVars, channelVars, handler, pendingLogs, discoveryQueue,
                 fetched, batch, failed, poolStates, saveRequested,
                 dropped, discarded>>

(* Mutant: the pending logs are processed before the records are sent. *)
InsertPool_SaveLater(d) ==
  /\ discovery[d] = "insert"
  /\ poolStates' = [poolStates EXCEPT ![PoolOf[d]] = Append(@, fetched[d])]
  /\ discovery' = [discovery EXCEPT ![d] = "takePending"]
  /\ UNCHANGED <<chainVars, channelVars, handler, pendingLogs, discoveryQueue,
                 fetched, batch, failed, saveRequested, dropped, discarded>>

(* Mutant: the entry of the address is replaced. *)
InsertPool_Replace(d) ==
  /\ discovery[d] = "insert"
  /\ poolStates' = [poolStates EXCEPT ![PoolOf[d]] = <<fetched[d]>>]
  /\ discovery' = [discovery EXCEPT ![d] = "save"]
  /\ UNCHANGED <<chainVars, channelVars, handler, pendingLogs, discoveryQueue,
                 fetched, batch, failed, saveRequested, dropped, discarded>>

(* The append under the cache's write lock; nothing looks for an entry of  *)
(* the same address.                                                       *)
InsertPool(d) ==
  /\ discovery[d] = "insert"
  /\ poolStates' = [poolStates EXCEPT ![PoolOf[d]] = Append(@, fetched[d])]
  /\ discovery' = [discovery EXCEPT ![d] = "save"]
  /\ UNCHANGED <<chainVars, channelVars, handler, pendingLogs, discoveryQueue,
                 fetched, batch, failed, saveRequested, dropped, discarded>>

(* The three sends to the DB writer (their order is the subject of module  *)
(* DBWriter; here it only matters that they precede ProcessPendingLogs).   *)
SavePool(d) ==
  /\ discovery[d] = "save"
  /\ saveRequested' = saveRequested \cup {PoolOf[d]}
  /\ discovery' = [discovery EXCEPT ![d] = "takePending"]
  /\ UNCHANGED <<chainVars, channelVars, handler, pendingLogs, discoveryQueue,
                 fetched, batch, failed, poolStates, dropped, discarded>>

(* Mutant: the entry is read but not deleted. *)
TakePendingLogs_Keep(d) ==
  /\ discovery[d] = "takePending"
  /\ batch' = [batch EXCEPT ![d] = pendingLogs[PoolOf[d]]]
  /\ discovery' = [discovery EXCEPT ![d] =
                     IF IsPending(PoolOf[d]) THEN "processPending" ELSE "done"]
  /\ UNCHANGED <<chainVars, channelVars, handler, pendingLogs, discoveryQueue,
                 fetched, failed, poolStates, saveRequested,
                 dropped, discarded>>

(* ProcessPendingLogs: the entry is taken and deleted under pendingLock.   *)
TakePendingLogs(d) ==
  /\ discovery[d] = "takePending"
  /\ batch' = [batch EXCEPT ![d] = pendingLogs[PoolOf[d]]]
  /\ pendingLogs' = [pendingLogs EXCEPT ![PoolOf[d]] = << >>]
  /\ discovery' = [discovery EXCEPT ![d] =
                     IF IsPending(PoolOf[d]) THEN "processPending" ELSE "done"]
  /\ UNCHANGED <<chainVars, channelVars, handler, discoveryQueue, fetched,
                 failed, poolStates, saveRequested, dropped, discarded>>

(* Mutant: the loop does not advance. *)
ProcessNextPending_Again(d) ==
  /\ discovery[d] = "processPending"
  /\ ProcessSwap(Head(batch[d]))
  /\ discovery' = [discovery EXCEPT ![d] =
                     IF Len(batch[d]) = 1 THEN "done" ELSE "processPending"]
  /\ UNCHANGED <<chainVars, channelVars, handler, pendingLogs, discoveryQueue,
                 fetched, batch, failed, saveRequested, discarded>>

ProcessNextPending(d) ==
  /\ discovery[d] = "processPending"
  /\ ProcessSwap(Head(batch[d]))
  /\ batch' = [batch EXCEPT ![d] = Tail(@)]
  /\ discovery' = [discovery EXCEPT ![d] =
                     IF Len(batch[d]) = 1 THEN "done" ELSE "processPending"]
  /\ UNCHANGED <<chainVars, channelVars, handler, pendingLogs, discoveryQueue,
                 fetched, failed, saveRequested, discarded>>

(* Mutants: the failure is remembered under the wrong key, or the pending  *)
(* logs are not cleaned up after it.                                       *)
LogAndCacheFailure_WrongKey(d) ==
  /\ discovery[d] = "logFailure"
  /\ failed' = failed \cup {d}
  /\ discovery' = [discovery EXCEPT ![d] = "cleanup"]
  /\ UNCHANGED <<chainVars, channelVars, handler, pendingLogs, discoveryQueue,
                 fetched, batch, poolStates, saveRequested,
                 dropped, discarded>>

LogAndCacheFailure_NoCleanup(d) ==
  /\ discovery[d] = "logFailure"
  /\ failed' = failed \cup {PoolOf[d]}
  /\ discovery' = [discovery EXCEPT ![d] = "done"]
  /\ UNCHANGED <<chainVars, channelVars, handler, pendingLogs, discoveryQueue,
                 fetched, batch, poolStates, saveRequested,
                 dropped, discarded>>

LogAndCacheFailure(d) ==
  /\ discovery[d] = "logFailure"
  /\ failed' = failed \cup {PoolOf[d]}
  /\ discovery' = [discovery EXCEPT ![d] = "cleanup"]
  /\ UNCHANGED <<chainVars, channelVars, handler, pendingLogs, discoveryQueue,
                 fetched, batch, poolStates, saveRequested,
                 dropped, discarded>>

CleanupPendingLogs(d) ==
  /\ discovery[d] = "cleanup"
  /\ discarded' = discarded \cup Range(pendingLogs[PoolOf[d]])
  /\ pendingLogs' = [pendingLogs EXCEPT ![PoolOf[d]] = << >>]
  /\ discovery' = [discovery EXCEPT ![d] = "done"]
  /\ UNCHANGED <<chainVars, channelVars, handler, discoveryQueue, fetched,
                 batch, failed, poolStates, saveRequested, dropped>>

----------------------------------------------------------------------------
Feed == Subscribe \/ Forward \/ DropLog \/ StartHandler

HandleLog(l) ==
  \/ LookupPool(l) \/ HandleKnown(l) \/ CheckPending(l)
  \/ SendDiscovery(l) \/ AddPendingLog(l)

ProcessDiscovery(d) ==
  \/ CheckFailed(d) \/ CheckKnown(d) \/ CheckPoolType(d)
  \/ FetchPool(d) \/ FetchError(d) \/ InsertPool(d) \/ SavePool(d)
  \/ TakePendingLogs(d) \/ ProcessNextPending(d)
  \/ LogAndCacheFailure(d) \/ CleanupPendingLogs(d)

Next ==
  \/ Feed
  \/ StartDiscovery
  \/ \E l \in Logs : ChainSwap(l) \/ HandleLog(l) \/ ProcessDiscovery(l)

Spec == Init /\ [][Next]_vars

(* The Go scheduler runs every goroutine that can run, and every RPC call  *)
(* returns; the chain owes nothing.  ProcessSwap is one step here: that it *)
(* returns is an assumption, which a goroutine holding the cache's lock    *)
(* for ever breaks (module MarketState, run market_refresh).               *)
Fairness ==
  /\ WF_vars(Feed)
  /\ WF_vars(StartDiscovery)
  /\ \A l \in Logs : WF_vars(HandleLog(l)) /\ WF_vars(ProcessDiscovery(l))

FairSpec == Spec /\ Fairness

----------------------------------------------------------------------------
(* Properties.                                                             *)

TypeOK ==
  /\ subscribed \in BOOLEAN
  /\ emitted \subseteq Logs
  /\ inner \in Seq(Logs)
  /\ appLogs \in Seq(Logs)
  /\ handler \in [Logs -> HandlerPC]
  /\ pendingLogs \in [Pools -> Seq(Logs)]
  /\ discoveryQueue \in Seq(Logs)
  /\ discovery \in [Logs -> DiscoveryPC]
  /\ fetched \in [Logs -> PoolState]
  /\ batch \in [Logs -> Seq(Logs)]
  /\ failed \subseteq Pools
  /\ poolStates \in [Pools -> Seq(PoolState)]
  /\ saveRequested \subseteq Pools
  /\ dropped \subseteq Logs
  /\ discarded \subseteq Logs

(* Where a log whose handler has finished can be. *)
Parked(l)  == l \in Range(pendingLogs[PoolOf[l]])
Batched(l) == \E d \in Logs : l \in Range(batch[d])
Applied(l) == \E i \in DOMAIN poolStates[PoolOf[l]] :
                 l \in poolStates[PoolOf[l]][i].applied

(* ProcessSwap is through with it. *)
Processed(l) == Applied(l) \/ l \in dropped

(* No swap is held twice: while its handler still runs it is nowhere else, *)
(* and afterwards it is in at most one of the pending queue, one batch,    *)
(* one applied set, the dropped and the discarded logs, once.  Two         *)
(* processDiscovery goroutines of one pool draining the same pendingLogs   *)
(* entry, or a handler adding to it while it is being taken, must never    *)
(* apply one swap's delta twice.                                           *)
NoSwapHeldTwice ==
  /\ \A l \in Logs :
       (Parked(l) \/ Batched(l) \/ Processed(l) \/ l \in discarded)
         => handler[l] = "done"
  /\ \A l \in Logs :
       /\ Parked(l) => ~Batched(l) /\ ~Processed(l) /\ l \notin discarded
       /\ Batched(l) => ~Processed(l) /\ l \notin discarded
       /\ Processed(l) => l \notin discarded
       /\ Applied(l) => l \notin dropped
  /\ \A d, e \in Logs :
       d # e => Range(batch[d]) \cap Range(batch[e]) = {}
  /\ \A d \in Logs : IsInjective(batch[d])
  /\ \A p \in Pools : IsInjective(pendingLogs[p])

(* No swap vanishes: once HandleLog has returned, its log is waiting, about *)
(* to be processed, applied, was deleted by CleanupPendingLogs, or was      *)
(* dropped because it does not parse.  In particular ProcessSwap's silent   *)
(* return for an unknown pool is never taken, although the lookup and the   *)
(* update are in different critical sections and the pending logs are       *)
(* drained by another goroutine.                                            *)
NoSwapVanishes ==
  \A l \in Logs : handler[l] = "done" =>
    Parked(l) \/ Batched(l) \/ Processed(l) \/ l \in discarded

(* Every pool in the cache that discovery put there is handed to the DB    *)
(* writer before any of its waiting swaps is processed.                    *)
SavedBeforePendingSwaps ==
  \A d \in Logs : batch[d] # << >> => PoolOf[d] \in saveRequested

(* The inductive invariant behind the three invariants above: who holds a  *)
(* log before its handler starts, who holds a request before its discovery *)
(* starts, and what each program point knows about the cache.              *)
WireInv ==
  /\ \A l \in Range(inner) \cup Range(appLogs) : handler[l] = "wire"
  /\ Range(inner) \cap Range(appLogs) = {}
  /\ IsInjective(inner) /\ IsInjective(appLogs)

RequestInv ==
  /\ \A d \in Logs :
       handler[d] \in HandlerPC \ {"addPending", "done"}
         => discovery[d] = "none"
  /\ \A d \in Range(discoveryQueue) : discovery[d] = "queued"
  /\ IsInjective(discoveryQueue)

BatchInv ==
  \A d \in Logs : batch[d] # << >> <=> discovery[d] = "processPending"

OwnPoolInv ==
  /\ \A p \in Pools : \A l \in Range(pendingLogs[p]) : PoolOf[l] = p
  /\ \A d \in Logs : \A l \in Range(batch[d]) : PoolOf[l] = PoolOf[d]

KnownInv ==
  /\ \A d \in Logs :
       discovery[d] \in {"save", "takePending", "processPending"}
         => IsKnown(PoolOf[d])
  /\ \A l \in Logs : handler[l] = "processSwap" => IsKnown(PoolOf[l])

FreshInv == \A d \in Logs : fetched[d].applied = {}

(* The whole inductive invariant. *)
IInv ==
  /\ TypeOK
  /\ WireInv
  /\ RequestInv
  /\ BatchInv
  /\ OwnPoolInv
  /\ KnownInv
  /\ FreshInv
  /\ NoSwapHeldTwice
  /\ NoSwapVanishes

(* What SwapLedger calls the fate of a swap. *)
FateOf(l) ==
  IF handler[l] \in {"future", "lost"} THEN handler[l]
  ELSE IF Applied(l) THEN "counted"
  ELSE IF l \in dropped THEN "dropped"
  ELSE IF l \in discarded THEN "discarded"
  ELSE "travelling"

Fate == [l \in Logs |-> FateOf(l)]

(* The fate of every swap is decided once and for all, whatever handlers   *)
(* and discoveries race for it: a swap in the reserves stays in them when  *)
(* its pool is discovered again, one that was dropped or discarded never   *)
(* gets there, and what a failed discovery discards are swaps of its own   *)
(* pool.                                                                   *)
Ledger == INSTANCE SwapLedger WITH fate <- Fate
ImplementsLedger == Ledger!Spec

(* Every HandleLog goroutine returns, although it may block on a full      *)
(* discovery queue.  Like the two below it assumes that ProcessSwap        *)
(* returns (Fairness).                                                     *)
HandlersFinish ==
  \A l \in Logs : handler[l] = "lookup" ~> handler[l] = "done"

(* Every queued discovery runs to its end. *)
DiscoveriesFinish ==
  \A d \in Logs : discovery[d] = "queued" ~> discovery[d] = "done"

(* A discovery that got past both early returns always empties the pending *)
(* queue of its address: what waits there is processed or deleted.         *)
ActiveDiscoveryDrains ==
  \A l \in Logs :
    (/\ Parked(l)
     /\ \E d \in Logs : PoolOf[d] = PoolOf[l] /\ discovery[d] = "checkType")
      ~> ~Parked(l)

(* EventRouter.go:42: `Queue the log to be processed after discovery is    *)
(* complete': a queued log does not wait forever.                          *)
NoStrandedLog == \A l \in Logs : Parked(l) ~> ~Parked(l)

(* App Summary: ProcessPendingLogs handles the swaps `that occurred during *)
(* the discovery process': a swap the fetched reserves already count is    *)
(* not added to them again.                                                *)
NoSwapCountedTwice ==
  \A p \in Pools : \A i \in DOMAIN poolStates[p] :
    poolStates[p][i].seen \cap poolStates[p][i].applied = {}
=============================================================================
