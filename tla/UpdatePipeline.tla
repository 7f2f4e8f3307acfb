--------------------------- MODULE UpdatePipeline ---------------------------
(***************************************************************************)
(* How cmd/bot-v2 gets a pool's data from the chain into the memory cache  *)
(* and into SQLite: the initial fetches and the event loop of a listener,  *)
(* processedDataChan, the cache updater, dbWriteChan and the DB writer,    *)
(* with restarts of the listeners and the shutdown.                        *)
(*                                                                         *)
(* The data of a pool is its version: 1 for its first log from             *)
(* cfg.StartBlock on, one more with every swap since, 0 for no data.  A    *)
(* listener asks for the logs from cfg.StartBlock on: the node may send    *)
(* those of the past again, as the listeners expect, or, like many nodes,  *)
(* only new ones.  Logs that a reorganisation removes or that do not parse *)
(* are ignored by the listeners, and left out.                             *)
(*                                                                         *)
(* When a listener is started, and with which pools, is PoolTracking's;    *)
(* here it has all the pools of its protocol.                              *)
(***************************************************************************)
EXTENDS Naturals, Sequences, Functions

CONSTANTS
  Protocols,     \* V2 and V3
  Pools,
  ProtocolOf,    \* the protocol of each pool
  Caching,       \* the protocols whose fetches store the pool's tokens: V3
  DataCap,       \* capacity of processedDataChan (1024 in the code)
  WriteCap,      \* capacity of dbWriteChan (1024 in the code)
  MaxReplay,     \* bound on the past logs a node sends, 0: StartBlock is not set
  MaxVersion,    \* bound on the version of each pool
  MaxStarts      \* bound on the listeners started for each protocol

ASSUME PipelineAssumption ==
  /\ ProtocolOf \in [Pools -> Protocols] /\ Caching \subseteq Protocols
  /\ \A pr \in Protocols : \E p \in Pools : ProtocolOf[p] = pr
  /\ DataCap \in Nat \ {0} /\ WriteCap \in Nat \ {0} /\ MaxReplay \in Nat
  /\ MaxVersion \in [Pools -> Nat \ {0}] /\ MaxStarts \in [Protocols -> Nat]

VARIABLES
  chain,         \* the version of each pool on chain
  manager,       \* control state of each managePoolListener
  starts,        \* listeners each has started
  cancelled,     \* listenerCancel was called
  listener,      \* control state of its current listener
  fetch,         \* control state of each initial fetch
  fetched,       \* the version it read, 0 before and after
  tokensKnown,   \* the keys of localV3PoolTokenCache (localPairTokenCache has none)
  logs,          \* what the current subscription has delivered
  event,         \* the update the event loop is sending
  processed,     \* processedDataChan
  updater,       \* control state of the cache updater
  item,          \* the update it is forwarding
  memCache,      \* MemoryCache.latestData: the version of each pool, 0 for none
  dbWrite,       \* dbWriteChan
  writer,        \* control state of the DB writer
  stored,        \* the version in the last row inserted for each pool
  owed,          \* updates still in dbWriteChan that were there when ctx was done
  shutdown       \* ctx is done

listenerVars == <<starts, cancelled, listener, fetch, fetched, tokensKnown, logs,
                  event>>
updaterVars  == <<updater, item, memCache>>
writerVars   == <<writer, stored>>

vars == <<chain, manager, listenerVars, processed, updaterVars, dbWrite,
          writerVars, owed, shutdown>>

Versions == UNION {0..MaxVersion[p] : p \in Pools}
Updates  == [pool : Pools, version : Versions, replayed : BOOLEAN]

(* What a fetch or a new log says.  Only the model tells it from a log of  *)
(* the past.                                                               *)
News(p, v) == [pool |-> p, version |-> v, replayed |-> FALSE]

OfProtocol(pr) == {p \in Pools : ProtocolOf[p] = pr}

(* The logs since cfg.StartBlock, and the orders in which a node may send  *)
(* them: those of one pool follow each other as on chain.                  *)
Past(pr) ==
  {u \in Updates : /\ u.pool \in OfProtocol(pr) /\ u.replayed
                   /\ u.version \in 1..chain[u.pool]}

Replays(pr) ==
  {s \in UNION {[1..n -> Past(pr)] : n \in 0..MaxReplay} :
     /\ Range(s) = Past(pr)
     /\ \A i, j \in DOMAIN s :
          i < j /\ s[i].pool = s[j].pool => s[i].version < s[j].version}

(* listenerCtx.Done(): it is derived from ctx. *)
Done(pr) == shutdown \/ cancelled[pr]

(* No listener, or its goroutine has returned. *)
Stopped(pr) == listener[pr] = "stopped"

Init ==
  /\ chain = [p \in Pools |-> 1]
  /\ manager = [pr \in Protocols |-> "select"]
  /\ starts = [pr \in Protocols |-> 0]
  /\ cancelled = [pr \in Protocols |-> FALSE]
  /\ listener = [pr \in Protocols |-> "stopped"]
  /\ fetch = [p \in Pools |-> "done"]
  /\ fetched = [p \in Pools |-> 0]
  /\ tokensKnown = {}
  /\ logs = [pr \in Protocols |-> << >>]
  /\ event = [pr \in Protocols |-> << >>]
  /\ processed = << >>
  /\ updater = "receive"
  /\ item = << >>
  /\ memCache = [p \in Pools |-> 0]
  /\ dbWrite = << >>
  /\ writer = "write"
  /\ stored = [p \in Pools |-> 0]
  /\ owed = 0
  /\ shutdown = FALSE

----------------------------------------------------------------------------
(* The chain and the managers.                                             *)

(* A swap: a subscription that is up delivers its log. *)
Swap(p) ==
  /\ chain[p] < MaxVersion[p]
  /\ chain' = [chain EXCEPT ![p] = @ + 1]
  /\ logs' = IF listener[ProtocolOf[p]] \in {"listen", "send"}
             THEN [logs EXCEPT ![ProtocolOf[p]] =
                     Append(@, News(p, chain'[p]))]
             ELSE logs
  /\ UNCHANGED <<manager, starts, cancelled, listener, fetch, fetched,
                 tokensKnown, event, processed, updaterVars, dbWrite,
                 writerVars, owed, shutdown>>

(* A restart signal: the previous listener is cancelled ... *)
TakeSignal(pr) ==
  /\ manager[pr] = "select"
  /\ starts[pr] < MaxStarts[pr]
  /\ manager' = [manager EXCEPT ![pr] = "wait"]
  /\ cancelled' = [cancelled EXCEPT ![pr] = TRUE]
  /\ UNCHANGED <<chain, starts, listener, fetch, fetched, tokensKnown, logs,
                 event, processed, updaterVars, dbWrite, writerVars, owed,
                 shutdown>>

(* ... and when it has returned, a new one starts to fetch its pools. *)
StartListener(pr) ==
  /\ manager[pr] = "wait"
  /\ Stopped(pr)
  /\ manager' = [manager EXCEPT ![pr] = "select"]
  /\ starts' = [starts EXCEPT ![pr] = @ + 1]
  /\ cancelled' = [cancelled EXCEPT ![pr] = FALSE]
  /\ listener' = [listener EXCEPT ![pr] = "fetch"]
  /\ fetch' = [p \in Pools |-> IF ProtocolOf[p] = pr THEN "ask" ELSE fetch[p]]
  /\ UNCHANGED <<chain, fetched, tokensKnown, logs, event, processed,
                 updaterVars, dbWrite, writerVars, owed, shutdown>>

StopManager(pr) ==
  /\ manager[pr] = "select"
  /\ shutdown
  /\ Stopped(pr)
  /\ manager' = [manager EXCEPT ![pr] = "done"]
  /\ UNCHANGED <<chain, listenerVars, processed, updaterVars, dbWrite,
                 writerVars, owed, shutdown>>

----------------------------------------------------------------------------
(* fetchAndProcessV2InitialState and fetchAndProcessV3InitialState.        *)

(* Mutant: the tokens are not stored. *)
FetchPool_NotCached(p) ==
  /\ fetch[p] = "ask"
  /\ fetch' = [fetch EXCEPT ![p] = "send"]
  /\ fetched' = [fetched EXCEPT ![p] = chain[p]]
  /\ UNCHANGED <<chain, manager, starts, cancelled, listener, tokensKnown, logs,
                 event, processed, updaterVars, dbWrite, writerVars, owed,
                 shutdown>>

(* The node's answer; V3 stores the pool's tokens, before it sends. *)
FetchPool(p) ==
  /\ fetch[p] = "ask"
  /\ fetch' = [fetch EXCEPT ![p] = "send"]
  /\ fetched' = [fetched EXCEPT ![p] = chain[p]]
  /\ tokensKnown' = IF ProtocolOf[p] \in Caching THEN tokensKnown \cup {p}
                                                 ELSE tokensKnown
  /\ UNCHANGED <<chain, manager, starts, cancelled, listener, logs, event,
                 processed, updaterVars, dbWrite, writerVars, owed, shutdown>>

(* Mutant: the channel is replaced by an unbounded queue. *)
SendInitial_NoBlock(p) ==
  /\ fetch[p] = "send"
  /\ fetch' = [fetch EXCEPT ![p] = "done"]
  /\ fetched' = [fetched EXCEPT ![p] = 0]
  /\ processed' = Append(processed, News(p, fetched[p]))
  /\ UNCHANGED <<chain, manager, starts, cancelled, listener, tokensKnown, logs,
                 event, updaterVars, dbWrite, writerVars, owed, shutdown>>

SendInitial(p) ==
  /\ fetch[p] = "send"
  /\ Len(processed) < DataCap
  /\ fetch' = [fetch EXCEPT ![p] = "done"]
  /\ fetched' = [fetched EXCEPT ![p] = 0]
  /\ processed' = Append(processed, News(p, fetched[p]))
  /\ UNCHANGED <<chain, manager, starts, cancelled, listener, tokensKnown, logs,
                 event, updaterVars, dbWrite, writerVars, owed, shutdown>>

(* Mutant: the send does not watch the context. *)
GiveUpFetch_OnlyAsk(p) ==
  /\ fetch[p] = "ask"
  /\ fetch' = [fetch EXCEPT ![p] = "done"]
  /\ fetched' = [fetched EXCEPT ![p] = 0]
  /\ UNCHANGED <<chain, manager, starts, cancelled, listener, tokensKnown, logs,
                 event, processed, updaterVars, dbWrite, writerVars, owed,
                 shutdown>>

(* The fetch fails, or its context, which has a timeout, is done. *)
GiveUpFetch(p) ==
  /\ fetch[p] \in {"ask", "send"}
  /\ fetch' = [fetch EXCEPT ![p] = "done"]
  /\ fetched' = [fetched EXCEPT ![p] = 0]
  /\ UNCHANGED <<chain, manager, starts, cancelled, listener, tokensKnown, logs,
                 event, processed, updaterVars, dbWrite, writerVars, owed,
                 shutdown>>

----------------------------------------------------------------------------
(* ListenV2Events and ListenV3Events.                                      *)

(* Mutant: without initialStateWg.Wait(). *)
Subscribe_NoWait(pr) ==
  /\ listener[pr] = "fetch"
  /\ ~Done(pr)
  /\ listener' = [listener EXCEPT ![pr] = "listen"]
  /\ \E s \in {<< >>} \cup Replays(pr) : logs' = [logs EXCEPT ![pr] = s]
  /\ UNCHANGED <<chain, manager, starts, cancelled, fetch, fetched, tokensKnown,
                 event, processed, updaterVars, dbWrite, writerVars, owed,
                 shutdown>>

(* The fetches are over and the subscription succeeds; the node sends the  *)
(* logs from query.FromBlock on, or only new ones.                         *)
Subscribe(pr) ==
  /\ listener[pr] = "fetch"
  /\ \A p \in OfProtocol(pr) : fetch[p] = "done"
  /\ ~Done(pr)
  /\ listener' = [listener EXCEPT ![pr] = "listen"]
  /\ \E s \in {<< >>} \cup Replays(pr) : logs' = [logs EXCEPT ![pr] = s]
  /\ UNCHANGED <<chain, manager, starts, cancelled, fetch, fetched, tokensKnown,
                 event, processed, updaterVars, dbWrite, writerVars, owed,
                 shutdown>>

(* The event loop: a log of a pool whose tokens are not stored is skipped. *)
TakeLog(pr) ==
  /\ listener[pr] = "listen"
  /\ logs[pr] # << >>
  /\ logs' = [logs EXCEPT ![pr] = Tail(@)]
  /\ IF Head(logs[pr]).pool \in tokensKnown
     THEN /\ listener' = [listener EXCEPT ![pr] = "send"]
          /\ event' = [event EXCEPT ![pr] = <<Head(logs[pr])>>]
     ELSE UNCHANGED <<listener, event>>
  /\ UNCHANGED <<chain, manager, starts, cancelled, fetch, fetched, tokensKnown,
                 processed, updaterVars, dbWrite, writerVars, owed, shutdown>>

SendEvent(pr) ==
  /\ listener[pr] = "send"
  /\ Len(processed) < DataCap
  /\ listener' = [listener EXCEPT ![pr] = "listen"]
  /\ processed' = processed \o event[pr]
  /\ event' = [event EXCEPT ![pr] = << >>]
  /\ UNCHANGED <<chain, manager, starts, cancelled, fetch, fetched, tokensKnown,
                 logs, updaterVars, dbWrite, writerVars, owed, shutdown>>

(* The listener returns: with its context, whatever it is waiting for      *)
(* (but it does wait for its fetches), or when its subscription breaks.    *)
EndListener(pr) ==
  /\ \/ /\ listener[pr] = "fetch" /\ Done(pr)
        /\ \A p \in OfProtocol(pr) : fetch[p] = "done"
     \/ listener[pr] = "send" /\ Done(pr)
     \/ listener[pr] = "listen"
  /\ listener' = [listener EXCEPT ![pr] = "stopped"]
  /\ logs' = [logs EXCEPT ![pr] = << >>]
  /\ event' = [event EXCEPT ![pr] = << >>]
  /\ UNCHANGED <<chain, manager, starts, cancelled, fetch, fetched, tokensKnown,
                 processed, updaterVars, dbWrite, writerVars, owed, shutdown>>

----------------------------------------------------------------------------
(* The cache updater.                                                      *)

(* An update is taken and stored in the memory cache. *)
UpdateCache ==
  /\ updater = "receive"
  /\ processed # << >>
  /\ processed' = Tail(processed)
  /\ memCache' = [memCache EXCEPT ![Head(processed).pool] = Head(processed).version]
  /\ updater' = "forward"
  /\ item' = <<Head(processed)>>
  /\ UNCHANGED <<chain, manager, listenerVars, dbWrite, writerVars, owed, shutdown>>

Forward ==
  /\ updater = "forward"
  /\ Len(dbWrite) < WriteCap
  /\ dbWrite' = dbWrite \o item
  /\ updater' = "receive"
  /\ item' = << >>
  /\ UNCHANGED <<chain, manager, listenerVars, processed, memCache, writerVars,
                 owed, shutdown>>

(* dbWriteChan has been full for two seconds, or ctx is done. *)
Discard ==
  /\ updater = "forward"
  /\ Len(dbWrite) = WriteCap \/ shutdown
  /\ updater' = "receive"
  /\ item' = << >>
  /\ UNCHANGED <<chain, manager, listenerVars, processed, memCache, dbWrite,
                 writerVars, owed, shutdown>>

StopUpdater ==
  /\ updater = "receive"
  /\ shutdown
  /\ updater' = "done"
  /\ UNCHANGED <<chain, manager, listenerVars, processed, item, memCache,
                 dbWrite, writerVars, owed, shutdown>>

----------------------------------------------------------------------------
(* The DB writer.                                                          *)

(* An update is taken and inserted; the insert may fail. *)
Save ==
  /\ writer \in {"write", "drain"}
  /\ dbWrite # << >>
  /\ dbWrite' = Tail(dbWrite)
  /\ owed' = IF owed > 0 THEN owed - 1 ELSE 0
  /\ \/ stored' = [stored EXCEPT ![Head(dbWrite).pool] = Head(dbWrite).version]
     \/ UNCHANGED stored
  /\ UNCHANGED <<chain, manager, listenerVars, processed, updaterVars, writer,
                 shutdown>>

(* Mutant: the channel is not drained. *)
StartDrain_Skip ==
  /\ writer = "write"
  /\ shutdown
  /\ writer' = "done"
  /\ UNCHANGED <<chain, manager, listenerVars, processed, updaterVars, dbWrite,
                 stored, owed, shutdown>>

StartDrain ==
  /\ writer = "write"
  /\ shutdown
  /\ writer' = "drain"
  /\ UNCHANGED <<chain, manager, listenerVars, processed, updaterVars, dbWrite,
                 stored, owed, shutdown>>

(* len(dbWriteChan) = 0 *)
EndDrain ==
  /\ writer = "drain"
  /\ dbWrite = << >>
  /\ writer' = "done"
  /\ UNCHANGED <<chain, manager, listenerVars, processed, updaterVars, dbWrite,
                 stored, owed, shutdown>>

(* main: cancel() after the signal. *)
Shutdown ==
  /\ ~shutdown
  /\ shutdown' = TRUE
  /\ owed' = Len(dbWrite)
  /\ UNCHANGED <<chain, manager, listenerVars, processed, updaterVars, dbWrite,
                 writerVars>>

----------------------------------------------------------------------------
Manage(pr) == TakeSignal(pr) \/ StartListener(pr) \/ StopManager(pr)
Fetch(p)   == FetchPool(p) \/ SendInitial(p) \/ GiveUpFetch(p)
Listen(pr) == Subscribe(pr) \/ TakeLog(pr) \/ SendEvent(pr) \/ EndListener(pr)
RunUpdater == UpdateCache \/ Forward \/ Discard \/ StopUpdater
RunWriter  == Save \/ StartDrain \/ EndDrain

Next ==
  \/ \E p \in Pools : Swap(p) \/ Fetch(p)
  \/ \E pr \in Protocols : Manage(pr) \/ Listen(pr)
  \/ RunUpdater \/ RunWriter \/ Shutdown

Spec == Init /\ [][Next]_vars

(* The goroutines as a whole do not stop while one of them can go on: no   *)
(* more is needed, because between two steps of the environment each can   *)
(* only take finitely many.  The chain, the signals and the subscriptions  *)
(* owe nothing, and neither does main the shutdown.                        *)
Progress ==
  \/ \E p \in Pools : Fetch(p)
  \/ \E pr \in Protocols :
       \/ StartListener(pr) \/ StopManager(pr) \/ TakeLog(pr) \/ SendEvent(pr)
       \/ Done(pr) /\ EndListener(pr)
  \/ RunUpdater \/ RunWriter

Fairness == WF_vars(Progress)

FairSpec == Spec /\ Fairness

----------------------------------------------------------------------------
TypeOK ==
  /\ chain \in [Pools -> Versions]
  /\ manager \in [Protocols -> {"select", "wait", "done"}]
  /\ starts \in [Protocols -> Nat]
  /\ cancelled \in [Protocols -> BOOLEAN]
  /\ listener \in [Protocols -> {"fetch", "listen", "send", "stopped"}]
  /\ fetch \in [Pools -> {"ask", "send", "done"}]
  /\ fetched \in [Pools -> Versions]
  /\ tokensKnown \subseteq Pools
  /\ logs \in [Protocols -> Seq(Updates)]
  /\ event \in [Protocols -> Seq(Updates)]
  /\ processed \in Seq(Updates) /\ Len(processed) <= DataCap
  /\ updater \in {"receive", "forward", "done"}
  /\ item \in Seq(Updates)
  /\ memCache \in [Pools -> Versions]
  /\ dbWrite \in Seq(Updates) /\ Len(dbWrite) <= WriteCap
  /\ writer \in {"write", "drain", "done"}
  /\ stored \in [Pools -> Versions]
  /\ owed \in Nat
  /\ shutdown \in BOOLEAN

(* What a fetch or a new log says never replaces newer data, in the cache  *)
(* or in the rows, although neither MemoryCache.Set nor SavePoolUpdate     *)
(* compares what it gets with what it has: the initial fetches, the events *)
(* of one listener and the listeners that replace one another follow each  *)
(* other through two queues.  Only a log of the past (listener_v3.go:111)  *)
(* takes a pool back: without cfg.StartBlock nothing does.                 *)
OnlyReplaysGoBack ==
  [][\A p \in Pools :
       /\ memCache'[p] < memCache[p] => Head(processed).replayed
       /\ stored'[p] < stored[p] => Head(dbWrite).replayed]_vars

(* main.go:116: what had been forwarded when ctx was cancelled is taken    *)
(* before the DB writer returns.  What the cache updater still forwards    *)
(* after that (main.go:148) stays behind in the channel.                   *)
DrainIsComplete == writer = "done" => owed = 0

(* The event of a V3 pool that has been fetched once reaches the cache     *)
(* (or a newer one has), however many updates are discarded on their way   *)
(* to the DB writer, unless the listener is stopped or loses its           *)
(* subscription.  So a pool that the logs of the past took back catches up *)
(* with the last of them.                                                  *)
EventReachesCache ==
  \A p \in Pools : \A v \in 2..MaxVersion[p] :
    LET pr == ProtocolOf[p]
    IN  (/\ pr \in Caching /\ memCache[p] > 0
         /\ \E u \in Range(event[pr] \o logs[pr]) : u.pool = p /\ u.version = v)
          ~> (memCache[p] >= v \/ Done(pr) \/ Stopped(pr))

(* After the shutdown every goroutine of the pipeline returns, although    *)
(* each may be waiting for room in a channel whose reader is gone.         *)
PipelineStops ==
  shutdown ~> /\ updater = "done" /\ writer = "done"
              /\ \A pr \in Protocols : manager[pr] = "done"
=============================================================================
