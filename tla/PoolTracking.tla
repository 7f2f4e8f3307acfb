---------------------------- MODULE PoolTracking ----------------------------
(***************************************************************************)
(* How cmd/bot-v2 keeps its listeners up to date: per protocol a factory   *)
(* listener that reports new pools, one New Pool Manager that verifies and *)
(* adds them and asks for a restart over a channel of capacity one, and a  *)
(* managePoolListener that stops its event listener and starts another one *)
(* with the pools known by then; from the start-up to the shutdown.        *)
(*                                                                         *)
(* As far as they are modelled, the factory listeners and the event        *)
(* listeners are the same code for V2 and V3, so they are parameterised by *)
(* the protocol.  What an event listener sends, and everything behind      *)
(* processedDataChan, is left out: its consumer always comes back to       *)
(* receive or the send is abandoned.                                       *)
(***************************************************************************)
EXTENDS Naturals, Sequences

CONSTANTS
  Protocols,     \* V2 and V3
  Pools,
  ProtocolOf,    \* the protocol of each pool
  Manual,        \* TrackedV2Pairs and TrackedV3Pools, as far as they are addresses
  Configured,    \* the protocols whose configured list is not empty
  NewPoolCap,    \* capacity of newPoolChan (256 in the code)
  NoPool

ASSUME PoolsAssumption ==
  /\ ProtocolOf \in [Pools -> Protocols]
  /\ Manual \subseteq Pools /\ NoPool \notin Pools
ASSUME ConfiguredAssumption ==
  Configured \subseteq Protocols /\ \A p \in Manual : ProtocolOf[p] \in Configured
ASSUME CapAssumption == NewPoolCap \in Nat \ {0}

VARIABLES
  created,     \* the pools that exist on chain
  factory,     \* control state of each factory listener
  heard,       \* pools it has read from the node and not yet reported
  inHand,      \* the pool of the live log it is reporting, or NoPool
  newPoolChan,
  poolManager, \* control state of the New Pool Manager
  candidate,   \* the pool it is dealing with, or NoPool
  active,      \* activeV2Pools and activeV3Pools, under poolsMutex
  restart,     \* whether restartV2/V3ListenerChan holds a signal
  main,        \* control state of main
  signalled,   \* the protocols main has sent its first signal for
  manager,     \* control state of each managePoolListener
  listeners    \* per protocol, every event listener it has started

vars == <<created, factory, heard, inHand, newPoolChan, poolManager, candidate,
          active, restart, main, signalled, manager, listeners>>

factoryVars == <<factory, heard, inHand>>
poolVars    == <<poolManager, candidate, active>>
mainVars    == <<main, signalled>>

ListenerState == [pools : SUBSET Pools, cancelled : BOOLEAN,
                  state : {"fetch", "subscribe", "listen", "stopped"}]

OfProtocol(pr) == {p \in Pools : ProtocolOf[p] = pr}

(* ctx, derived from by every context but that of the historical scan. *)
Cancelled == main = "shutdown"

(* listenerCancel # nil, and what it belongs to. *)
HasListener(pr) == listeners[pr] # << >>
Latest(pr)      == listeners[pr][Len(listeners[pr])]

Stopped(pr) == \A i \in DOMAIN listeners[pr] : listeners[pr][i].state = "stopped"

Init ==
  /\ created = Manual
  /\ factory \in [Protocols -> {"scan", "done"}]   \* DiscoverV2Pools, DiscoverV3Pools
  /\ heard = [pr \in Protocols |-> {}]
  /\ inHand = [pr \in Protocols |-> NoPool]
  /\ newPoolChan = << >>
  /\ poolManager = "select"
  /\ candidate = NoPool
  /\ active = [pr \in Protocols |-> Manual \cap OfProtocol(pr)]
  /\ restart = [pr \in Protocols |-> FALSE]
  /\ main = "start"
  /\ signalled = {}
  /\ manager = [pr \in Protocols |-> "select"]
  /\ listeners = [pr \in Protocols |-> << >>]

----------------------------------------------------------------------------
(* ListenV2FactoryEvents and ListenV3FactoryEvents.                        *)

(* A pool is created: a subscribed factory listener hears of it. *)
CreatePool(p) ==
  /\ p \notin created
  /\ created' = created \cup {p}
  /\ heard' = IF factory[ProtocolOf[p]] \in {"listen", "send"}
              THEN [heard EXCEPT ![ProtocolOf[p]] = @ \cup {p}]
              ELSE heard
  /\ UNCHANGED <<factory, inHand, newPoolChan, poolVars, restart, mainVars,
                 manager, listeners>>

(* The historical scan: the pools from its first block on, none if it      *)
(* fails.  Its context is not derived from ctx.                            *)
ScanHistory(pr) ==
  /\ factory[pr] = "scan"
  /\ \E past \in SUBSET (created \cap OfProtocol(pr)) :
       heard' = [heard EXCEPT ![pr] = past]
  /\ factory' = [factory EXCEPT ![pr] = "report"]
  /\ UNCHANGED <<created, inHand, newPoolChan, poolVars, restart, mainVars,
                 manager, listeners>>

(* Each past pool is sent, unless ctx is done first. *)
ReportPast(pr) ==
  /\ factory[pr] = "report"
  /\ Len(newPoolChan) < NewPoolCap
  /\ \E p \in heard[pr] :
       /\ newPoolChan' = Append(newPoolChan, p)
       /\ heard' = [heard EXCEPT ![pr] = @ \ {p}]
  /\ UNCHANGED <<created, factory, inHand, poolVars, restart, mainVars, manager,
                 listeners>>

EndHistory(pr) ==
  /\ factory[pr] = "report"
  /\ heard[pr] = {}
  /\ factory' = [factory EXCEPT ![pr] = "subscribe"]
  /\ UNCHANGED <<created, heard, inHand, newPoolChan, poolVars, restart, mainVars,
                 manager, listeners>>

(* The subscription is tried until it succeeds or ctx is done. *)
SubscribeFactory(pr) ==
  /\ factory[pr] = "subscribe"
  /\ factory' = [factory EXCEPT ![pr] = "listen"]
  /\ UNCHANGED <<created, heard, inHand, newPoolChan, poolVars, restart, mainVars,
                 manager, listeners>>

TakeLog(pr) ==
  /\ factory[pr] = "listen"
  /\ \E p \in heard[pr] :
       /\ inHand' = [inHand EXCEPT ![pr] = p]
       /\ heard' = [heard EXCEPT ![pr] = @ \ {p}]
  /\ factory' = [factory EXCEPT ![pr] = "send"]
  /\ UNCHANGED <<created, newPoolChan, poolVars, restart, mainVars, manager,
                 listeners>>

(* Mutant: the channel is replaced by an unbounded queue. *)
ReportNew_NoBlock(pr) ==
  /\ factory[pr] = "send"
  /\ newPoolChan' = Append(newPoolChan, inHand[pr])
  /\ inHand' = [inHand EXCEPT ![pr] = NoPool]
  /\ factory' = [factory EXCEPT ![pr] = "listen"]
  /\ UNCHANGED <<created, heard, poolVars, restart, mainVars, manager, listeners>>

ReportNew(pr) ==
  /\ factory[pr] = "send"
  /\ Len(newPoolChan) < NewPoolCap
  /\ newPoolChan' = Append(newPoolChan, inHand[pr])
  /\ inHand' = [inHand EXCEPT ![pr] = NoPool]
  /\ factory' = [factory EXCEPT ![pr] = "listen"]
  /\ UNCHANGED <<created, heard, poolVars, restart, mainVars, manager, listeners>>

(* A subscription error ends the listener, and so does ctx wherever the    *)
(* code waits for something that ctx can interrupt.                        *)
StopFactory(pr) ==
  /\ \/ factory[pr] = "listen"
     \/ factory[pr] \in {"report", "subscribe", "send"} /\ Cancelled
  /\ factory' = [factory EXCEPT ![pr] = "done"]
  /\ heard' = [heard EXCEPT ![pr] = {}]
  /\ inHand' = [inHand EXCEPT ![pr] = NoPool]
  /\ UNCHANGED <<created, newPoolChan, poolVars, restart, mainVars, manager,
                 listeners>>

----------------------------------------------------------------------------
(* The New Pool Manager.                                                   *)

ReceivePool ==
  /\ poolManager = "select"
  /\ newPoolChan # << >>
  /\ candidate' = Head(newPoolChan)
  /\ newPoolChan' = Tail(newPoolChan)
  /\ poolManager' = "verify"
  /\ UNCHANGED <<created, factoryVars, active, restart, mainVars, manager, listeners>>

RejectPool ==
  /\ poolManager = "verify"
  /\ poolManager' = "select"
  /\ candidate' = NoPool
  /\ UNCHANGED <<created, factoryVars, newPoolChan, active, restart, mainVars,
                 manager, listeners>>

(* A verified pool is added under poolsMutex; one that is already there    *)
(* needs no restart.                                                       *)
AddPool ==
  /\ poolManager = "verify"
  /\ LET pr == ProtocolOf[candidate]
     IN  /\ active' = [active EXCEPT ![pr] = @ \cup {candidate}]
         /\ \/ /\ candidate \notin active[pr]
               /\ poolManager' = "signal"
               /\ UNCHANGED candidate
            \/ /\ candidate \in active[pr]
               /\ poolManager' = "select"
               /\ candidate' = NoPool
  /\ UNCHANGED <<created, factoryVars, newPoolChan, restart, mainVars, manager,
                 listeners>>

(* Mutant: only a listener that exists is restarted. *)
SignalRestart_IfListening ==
  /\ poolManager = "signal"
  /\ LET pr == ProtocolOf[candidate]
     IN  restart' = [restart EXCEPT ![pr] = @ \/ HasListener(pr)]
  /\ poolManager' = "select"
  /\ candidate' = NoPool
  /\ UNCHANGED <<created, factoryVars, newPoolChan, active, mainVars, manager,
                 listeners>>

(* The non-blocking send: if the channel is full, a signal is there. *)
SignalRestart ==
  /\ poolManager = "signal"
  /\ restart' = [restart EXCEPT ![ProtocolOf[candidate]] = TRUE]
  /\ poolManager' = "select"
  /\ candidate' = NoPool
  /\ UNCHANGED <<created, factoryVars, newPoolChan, active, mainVars, manager,
                 listeners>>

StopPoolManager ==
  /\ poolManager = "select"
  /\ Cancelled
  /\ poolManager' = "done"
  /\ UNCHANGED <<created, factoryVars, newPoolChan, candidate, active, restart,
                 mainVars, manager, listeners>>

----------------------------------------------------------------------------
(* managePoolListener.                                                     *)

CancelLatest(pr) ==
  listeners' = IF HasListener(pr)
               THEN [listeners EXCEPT ![pr][Len(listeners[pr])].cancelled = TRUE]
               ELSE listeners

(* Mutant: the previous listener is waited for without being cancelled. *)
TakeSignal_NoCancel(pr) ==
  /\ manager[pr] = "select"
  /\ restart[pr]
  /\ restart' = [restart EXCEPT ![pr] = FALSE]
  /\ manager' = [manager EXCEPT ![pr] = "wait"]
  /\ UNCHANGED <<created, factoryVars, newPoolChan, poolVars, mainVars, listeners>>

TakeSignal(pr) ==
  /\ manager[pr] = "select"
  /\ restart[pr]
  /\ restart' = [restart EXCEPT ![pr] = FALSE]
  /\ CancelLatest(pr)
  /\ manager' = [manager EXCEPT ![pr] = "wait"]
  /\ UNCHANGED <<created, factoryVars, newPoolChan, poolVars, mainVars>>

(* Mutant: the previous listener is cancelled but not waited for. *)
StartListener_NoWait(pr) ==
  /\ manager[pr] = "wait"
  /\ listeners' =
       IF active[pr] = {} THEN listeners
       ELSE [listeners EXCEPT ![pr] =
               Append(@, [pools |-> active[pr], cancelled |-> FALSE,
                          state |-> "fetch"])]
  /\ manager' = [manager EXCEPT ![pr] = "select"]
  /\ UNCHANGED <<created, factoryVars, newPoolChan, poolVars, restart, mainVars>>

(* listenerWg.Wait, the copy of the pools under poolsMutex, and the start  *)
(* of a listener for them, if there are any.                               *)
StartListener(pr) ==
  /\ manager[pr] = "wait"
  /\ Stopped(pr)
  /\ listeners' =
       IF active[pr] = {} THEN listeners
       ELSE [listeners EXCEPT ![pr] =
               Append(@, [pools |-> active[pr], cancelled |-> FALSE,
                          state |-> "fetch"])]
  /\ manager' = [manager EXCEPT ![pr] = "select"]
  /\ UNCHANGED <<created, factoryVars, newPoolChan, poolVars, restart, mainVars>>

(* ctx is done: the listener is cancelled and waited for. *)
StopManager(pr) ==
  /\ manager[pr] = "select"
  /\ Cancelled
  /\ CancelLatest(pr)
  /\ manager' = [manager EXCEPT ![pr] = "stop"]
  /\ UNCHANGED <<created, factoryVars, newPoolChan, poolVars, restart, mainVars>>

(* Mutant: the manager returns without waiting for its listener. *)
ManagerDone_NoWait(pr) ==
  /\ manager[pr] = "stop"
  /\ manager' = [manager EXCEPT ![pr] = "done"]
  /\ UNCHANGED <<created, factoryVars, newPoolChan, poolVars, restart, mainVars,
                 listeners>>

ManagerDone(pr) ==
  /\ manager[pr] = "stop"
  /\ Stopped(pr)
  /\ manager' = [manager EXCEPT ![pr] = "done"]
  /\ UNCHANGED <<created, factoryVars, newPoolChan, poolVars, restart, mainVars,
                 listeners>>

----------------------------------------------------------------------------
(* ListenV2Events and ListenV3Events: the i-th listener of a protocol.     *)

Listener(pr, i, from, to) ==
  /\ i \in DOMAIN listeners[pr]
  /\ listeners[pr][i].state = from
  /\ listeners' = [listeners EXCEPT ![pr][i].state = to]
  /\ UNCHANGED <<created, factoryVars, newPoolChan, poolVars, restart, mainVars,
                 manager>>

(* Every initial fetch ends: by its answer, an error, its timeout or ctx. *)
FetchInitial(pr, i) == Listener(pr, i, "fetch", "subscribe")

SubscribeEvents(pr, i) == Listener(pr, i, "subscribe", "listen")

(* Mutant: while it subscribes, the listener does not look at its context. *)
ListenerDone_NotThere(pr, i) ==
  /\ i \in DOMAIN listeners[pr]
  /\ listeners[pr][i].cancelled
  /\ Listener(pr, i, "listen", "stopped")

(* The listener's context, or the parent of it, is done. *)
ListenerDone(pr, i) ==
  /\ i \in DOMAIN listeners[pr]
  /\ listeners[pr][i].cancelled \/ Cancelled
  /\ \E state \in {"subscribe", "listen"} : Listener(pr, i, state, "stopped")

(* `Listener will terminate': nobody is told. *)
SubscriptionError(pr, i) == Listener(pr, i, "listen", "stopped")

----------------------------------------------------------------------------
(* main.                                                                   *)

FirstSignal(pr) ==
  /\ main = "start"
  /\ pr \in Configured \ signalled
  /\ signalled' = signalled \cup {pr}
  /\ restart' = [restart EXCEPT ![pr] = TRUE]
  /\ UNCHANGED <<created, factoryVars, newPoolChan, poolVars, main, manager, listeners>>

WaitForSignal ==
  /\ main = "start"
  /\ signalled = Configured
  /\ main' = "run"
  /\ UNCHANGED <<created, factoryVars, newPoolChan, poolVars, restart, signalled,
                 manager, listeners>>

Shutdown ==
  /\ main = "run"
  /\ main' = "shutdown"
  /\ UNCHANGED <<created, factoryVars, newPoolChan, poolVars, restart, signalled,
                 manager, listeners>>

----------------------------------------------------------------------------
Factory(pr) ==
  \/ ScanHistory(pr) \/ ReportPast(pr) \/ EndHistory(pr)
  \/ TakeLog(pr) \/ ReportNew(pr)

PoolManager ==
  ReceivePool \/ RejectPool \/ AddPool \/ SignalRestart \/ StopPoolManager

Manager(pr) ==
  TakeSignal(pr) \/ StartListener(pr) \/ StopManager(pr) \/ ManagerDone(pr)

RunListener(pr, i) == FetchInitial(pr, i) \/ ListenerDone(pr, i)

(* What the node may grant or break off. *)
Subscription(pr) ==
  \/ SubscribeFactory(pr) \/ StopFactory(pr)
  \/ \E i \in DOMAIN listeners[pr] :
       SubscribeEvents(pr, i) \/ SubscriptionError(pr, i)

Main == WaitForSignal \/ \E pr \in Protocols : FirstSignal(pr)

Next ==
  \/ \E p \in Pools : CreatePool(p)
  \/ Main \/ Shutdown
  \/ PoolManager
  \/ \E pr \in Protocols :
       \/ Factory(pr) \/ Manager(pr) \/ Subscription(pr)
       \/ \E i \in DOMAIN listeners[pr] : RunListener(pr, i)

Spec == Init /\ [][Next]_vars

(* Goroutines that can run do run, the historical scan and the initial     *)
(* fetches return within their timeouts, and a select in which ctx stays   *)
(* done takes that case eventually.  New pools, subscriptions that succeed *)
(* or break and the shutdown are not owed.                                 *)
Fairness ==
  /\ WF_vars(Main)
  /\ WF_vars(PoolManager)
  /\ \A pr \in Protocols :
       /\ WF_vars(Factory(pr))
       /\ WF_vars(Cancelled /\ StopFactory(pr))
       /\ WF_vars(Manager(pr))
       /\ WF_vars(\E i \in DOMAIN listeners[pr] : RunListener(pr, i))

FairSpec == Spec /\ Fairness

----------------------------------------------------------------------------
(* Properties.                                                             *)

TypeOK ==
  /\ created \subseteq Pools
  /\ factory \in [Protocols -> {"scan", "report", "subscribe", "listen", "send", "done"}]
  /\ heard \in [Protocols -> SUBSET Pools]
  /\ inHand \in [Protocols -> Pools \cup {NoPool}]
  /\ newPoolChan \in Seq(Pools) /\ Len(newPoolChan) <= NewPoolCap
  /\ poolManager \in {"select", "verify", "signal", "done"}
  /\ candidate \in Pools \cup {NoPool}
  /\ active \in [Protocols -> SUBSET Pools]
  /\ restart \in [Protocols -> BOOLEAN]
  /\ main \in {"start", "run", "shutdown"}
  /\ signalled \subseteq Configured
  /\ manager \in [Protocols -> {"select", "wait", "stop", "done"}]
  /\ listeners \in [Protocols -> Seq(ListenerState)]

(* No pool is forgotten between the three goroutines that hand it over: an *)
(* active pool is in the list of the latest listener, or a signal that     *)
(* will have the list read again is there or on its way.  The channel has  *)
(* room for one signal only and further ones are dropped.                  *)
Covered(pr, p) == HasListener(pr) /\ p \in Latest(pr).pools

CoveredOrSignalled ==
  \A pr \in Protocols : \A p \in active[pr] :
    \/ Covered(pr, p)
    \/ restart[pr]
    \/ manager[pr] = "wait"
    \/ poolManager = "signal" /\ candidate = p
    \/ p \in Manual /\ pr \notin signalled

(* Never two listeners of one protocol at once, which would report every   *)
(* event twice; and none outlives its manager.                             *)
OneListener ==
  \A pr \in Protocols :
    /\ \A i \in DOMAIN listeners[pr] :
         i < Len(listeners[pr]) => listeners[pr][i].state = "stopped"
    /\ manager[pr] = "done" => Stopped(pr)

(* The inductive invariant behind the two. *)
OwnProtocol == \A pr \in Protocols : active[pr] \subseteq OfProtocol(pr)

Candidate ==
  /\ poolManager \in {"verify", "signal"} => candidate \in Pools
  /\ \A pr \in Protocols : factory[pr] = "send" => inHand[pr] \in Pools

IInv ==
  /\ TypeOK
  /\ OwnProtocol
  /\ Candidate
  /\ CoveredOrSignalled
  /\ OneListener

(* Every active pool gets into the list of a listener, unless the program  *)
(* is shut down first: each listener that is replaced does stop.           *)
ActiveIsCovered ==
  \A p \in Pools :
    p \in active[ProtocolOf[p]] ~> Covered(ProtocolOf[p], p) \/ Cancelled

(* After the shutdown signal each of these goroutines, for which main      *)
(* waits, returns, whatever channel it is blocked on.  (That main gives up *)
(* waiting after 45 seconds ends the process and is not in the model.)     *)
Finished ==
  /\ poolManager = "done"
  /\ \A pr \in Protocols :
       factory[pr] = "done" /\ manager[pr] = "done" /\ Stopped(pr)

ShutdownCompletes == Cancelled ~> Finished
=============================================================================
