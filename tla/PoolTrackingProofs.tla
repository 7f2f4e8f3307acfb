------------------------ MODULE PoolTrackingProofs -------------------------
(***************************************************************************)
(* Proofs about PoolTracking for any pools, protocols and channel size: no *)
(* active pool is forgotten between the New Pool Manager and the listener  *)
(* managers, a protocol never has two listeners at once, a pool that is    *)
(* listened to once is in every later list, and no goroutine waits for     *)
(* another that has not been told to go on or to return.                   *)
(***************************************************************************)
EXTENDS PoolTracking, TLAPS

(* What the control state of a pool's hand-over depends on. *)
handOver == <<poolVars, restart, signalled, manager, listeners>>

LEMMA InitIInv == Init => IInv
  <1> SUFFICES ASSUME Init PROVE IInv
    OBVIOUS
  <1> USE PoolsAssumption, ConfiguredAssumption, CapAssumption DEF Init
  <1>1. TypeOK
    BY DEF TypeOK
  <1>2. OwnProtocol /\ Candidate
    BY DEF OwnProtocol, Candidate, OfProtocol
  <1>3. CoveredOrSignalled
    BY DEF CoveredOrSignalled
  <1>4. OneListener
    <2>1. \A pr \in Protocols : listeners[pr] = << >> /\ manager[pr] = "select"
      OBVIOUS
    <2>2. DOMAIN << >> = {}
      OBVIOUS
    <2> QED BY <2>1, <2>2 DEF OneListener
  <1> QED BY <1>1, <1>2, <1>3, <1>4 DEF IInv

(* Steps of the factory listeners and of main before and after. *)
LEMMA HandOverUnchanged ==
  ASSUME IInv, UNCHANGED handOver, TypeOK', Candidate'
  PROVE  IInv'
  <1>1. OwnProtocol' /\ CoveredOrSignalled' /\ OneListener'
    BY DEF handOver, poolVars, IInv, OwnProtocol, CoveredOrSignalled, Covered,
           HasListener, Latest, OneListener, Stopped
  <1> QED BY <1>1 DEF IInv

(* A listener that changes its state keeps its pools. *)
LEMMA CoveredKept ==
  ASSUME \A pr \in Protocols :
           /\ DOMAIN listeners'[pr] = DOMAIN listeners[pr]
           /\ Len(listeners'[pr]) = Len(listeners[pr])
           /\ HasListener(pr)' <=> HasListener(pr)
           /\ HasListener(pr) => Len(listeners[pr]) \in DOMAIN listeners[pr]
           /\ \A i \in DOMAIN listeners[pr] :
                listeners'[pr][i].pools = listeners[pr][i].pools
  PROVE  \A pr \in Protocols : \A p \in Pools : Covered(pr, p)' <=> Covered(pr, p)
  BY DEF Covered, Latest

(* One listener of a protocol is replaced by one with the same pools. *)
LEMMA ReplaceListener ==
  ASSUME TypeOK, NEW pr \in Protocols, NEW i \in DOMAIN listeners[pr],
         NEW l \in ListenerState, l.pools = listeners[pr][i].pools,
         listeners' = [listeners EXCEPT ![pr] = [@ EXCEPT ![i] = l]]
  PROVE  /\ listeners' \in [Protocols -> Seq(ListenerState)]
         /\ \A q \in Protocols :
              /\ DOMAIN listeners'[q] = DOMAIN listeners[q]
              /\ Len(listeners'[q]) = Len(listeners[q])
              /\ \A j \in DOMAIN listeners[q] :
                   listeners'[q][j] = IF q = pr /\ j = i THEN l ELSE listeners[q][j]
         /\ \A q \in Protocols : \A p \in Pools : Covered(q, p)' <=> Covered(q, p)
  <1>1. /\ listeners \in [Protocols -> Seq(ListenerState)]
        /\ \A q \in Protocols : /\ listeners[q] \in Seq(ListenerState)
                                /\ Len(listeners[q]) \in Nat
                                /\ DOMAIN listeners[q] = 1..Len(listeners[q])
    BY DEF TypeOK
  <1>2. [listeners[pr] EXCEPT ![i] = l] \in Seq(ListenerState)
    BY <1>1
  <1>3. listeners' \in [Protocols -> Seq(ListenerState)]
    BY <1>1, <1>2
  <1>4. \A q \in Protocols :
           /\ DOMAIN listeners'[q] = DOMAIN listeners[q]
           /\ Len(listeners'[q]) = Len(listeners[q])
           /\ \A j \in DOMAIN listeners[q] :
                listeners'[q][j] = IF q = pr /\ j = i THEN l ELSE listeners[q][j]
    BY <1>1, <1>2
  <1>5. \A q \in Protocols :
           /\ HasListener(q)' <=> HasListener(q)
           /\ HasListener(q) => Len(listeners[q]) \in DOMAIN listeners[q]
    BY <1>1, <1>3, <1>4 DEF HasListener
  <1>6. \A q \in Protocols : \A j \in DOMAIN listeners[q] :
           listeners'[q][j].pools = listeners[q][j].pools
    BY <1>4
  <1>7. \A q \in Protocols : \A p \in Pools : Covered(q, p)' <=> Covered(q, p)
    BY <1>4, <1>5, <1>6, CoveredKept
  <1> QED BY <1>3, <1>4, <1>7

(* Cancelling the latest listener changes no pool and no state. *)
LEMMA CancelKeeps ==
  ASSUME TypeOK, NEW pr \in Protocols, CancelLatest(pr)
  PROVE  /\ listeners' \in [Protocols -> Seq(ListenerState)]
         /\ \A q \in Protocols : \A p \in Pools : Covered(q, p)' <=> Covered(q, p)
         /\ \A q \in Protocols :
              /\ DOMAIN listeners'[q] = DOMAIN listeners[q]
              /\ Len(listeners'[q]) = Len(listeners[q])
              /\ \A j \in DOMAIN listeners[q] :
                   listeners'[q][j].state = listeners[q][j].state
  <1>1. CASE ~HasListener(pr)
    BY <1>1 DEF CancelLatest, TypeOK, Covered, HasListener, Latest
  <1>2. CASE HasListener(pr)
    <2> DEFINE i == Len(listeners[pr])
               l == [listeners[pr][i] EXCEPT !.cancelled = TRUE]
    <2>1. listeners[pr] \in Seq(ListenerState) /\ listeners[pr] # << >>
      BY <1>2 DEF TypeOK, HasListener
    <2>2. i \in DOMAIN listeners[pr] /\ listeners[pr][i] \in ListenerState
      BY <2>1
    <2>3. /\ l \in ListenerState /\ l.pools = listeners[pr][i].pools
          /\ l.state = listeners[pr][i].state
      BY <2>2 DEF ListenerState
    <2>4. listeners' = [listeners EXCEPT ![pr] = [@ EXCEPT ![i] = l]]
      BY <1>2 DEF CancelLatest
    <2> HIDE DEF i, l
    <2> QED BY <2>2, <2>3, <2>4, ReplaceListener
  <1> QED BY <1>1, <1>2

(* A listener of pr moves on; only the latest one can, the others having   *)
(* stopped.                                                                *)
LEMMA ListenerStep ==
  ASSUME IInv, NEW pr \in Protocols, NEW i \in DOMAIN listeners[pr],
         NEW from \in {"fetch", "subscribe", "listen"},
         NEW to \in {"subscribe", "listen", "stopped"},
         Listener(pr, i, from, to)
  PROVE  IInv'
  <1> DEFINE l == [listeners[pr][i] EXCEPT !.state = to]
  <1>1. listeners[pr] \in Seq(ListenerState) /\ listeners[pr][i] \in ListenerState
    BY DEF IInv, TypeOK
  <1>2. l \in ListenerState /\ l.pools = listeners[pr][i].pools /\ l.state = to
    BY <1>1 DEF ListenerState
  <1>3. listeners' = [listeners EXCEPT ![pr] = [@ EXCEPT ![i] = l]]
    BY DEF Listener
  <1> HIDE DEF l
  <1>4. /\ listeners' \in [Protocols -> Seq(ListenerState)]
        /\ \A q \in Protocols :
             /\ DOMAIN listeners'[q] = DOMAIN listeners[q]
             /\ Len(listeners'[q]) = Len(listeners[q])
             /\ \A j \in DOMAIN listeners[q] :
                  listeners'[q][j] = IF q = pr /\ j = i THEN l ELSE listeners[q][j]
        /\ \A q \in Protocols : \A p \in Pools : Covered(q, p)' <=> Covered(q, p)
    BY <1>2, <1>3, ReplaceListener DEF IInv
  <1>5. TypeOK' /\ OwnProtocol' /\ Candidate'
    BY <1>4 DEF Listener, factoryVars, poolVars, mainVars, IInv, TypeOK,
                OwnProtocol, Candidate
  <1>6. active \in [Protocols -> SUBSET Pools]
    BY DEF IInv, TypeOK
  <1>7. CoveredOrSignalled'
    BY <1>4, <1>6 DEF Listener, poolVars, mainVars, IInv, CoveredOrSignalled
  <1>8. ~(i < Len(listeners[pr])) /\ manager[pr] # "done"
    BY DEF Listener, IInv, OneListener, Stopped
  <1>9. OneListener'
    BY <1>4, <1>8 DEF Listener, IInv, OneListener, Stopped
  <1> QED BY <1>5, <1>7, <1>9 DEF IInv

----------------------------------------------------------------------------
(* The factory listeners and main.                                         *)

LEMMA FactoryStep ==
  ASSUME IInv, NEW pr \in Protocols,
         Factory(pr) \/ SubscribeFactory(pr) \/ StopFactory(pr)
  PROVE  IInv'
  <1>1. CASE ScanHistory(pr)
    <2>1. PICK past \in SUBSET (created \cap OfProtocol(pr)) :
            heard' = [heard EXCEPT ![pr] = past]
      BY <1>1 DEF ScanHistory
    <2>2. past \subseteq Pools
      BY <2>1 DEF OfProtocol
    <2>3. TypeOK' /\ Candidate'
      BY <1>1, <2>1, <2>2 DEF ScanHistory, poolVars, mainVars, IInv, TypeOK, Candidate
    <2> QED BY <1>1, <2>3, HandOverUnchanged DEF ScanHistory, handOver, poolVars, mainVars
  <1>2. CASE ReportPast(pr)
    <2>1. PICK p \in heard[pr] :
            /\ newPoolChan' = Append(newPoolChan, p)
            /\ heard' = [heard EXCEPT ![pr] = @ \ {p}]
      BY <1>2 DEF ReportPast
    <2>2. p \in Pools
      BY <2>1 DEF IInv, TypeOK
    <2>3. newPoolChan' \in Seq(Pools) /\ Len(newPoolChan') <= NewPoolCap
      BY <1>2, <2>1, <2>2, CapAssumption DEF ReportPast, IInv, TypeOK
    <2>4. TypeOK' /\ Candidate'
      BY <1>2, <2>1, <2>3 DEF ReportPast, poolVars, mainVars, IInv, TypeOK, Candidate
    <2> QED BY <1>2, <2>4, HandOverUnchanged DEF ReportPast, handOver, poolVars, mainVars
  <1>3. CASE EndHistory(pr) \/ SubscribeFactory(pr) \/ StopFactory(pr)
    <2>1. TypeOK' /\ Candidate'
      BY <1>3 DEF EndHistory, SubscribeFactory, StopFactory, poolVars, mainVars,
                  IInv, TypeOK, Candidate
    <2> QED BY <1>3, <2>1, HandOverUnchanged
            DEF EndHistory, SubscribeFactory, StopFactory, handOver, poolVars, mainVars
  <1>4. CASE TakeLog(pr)
    <2>1. PICK p \in heard[pr] :
            /\ inHand' = [inHand EXCEPT ![pr] = p]
            /\ heard' = [heard EXCEPT ![pr] = @ \ {p}]
      BY <1>4 DEF TakeLog
    <2>2. p \in Pools
      BY <2>1 DEF IInv, TypeOK
    <2>3. TypeOK' /\ Candidate'
      BY <1>4, <2>1, <2>2 DEF TakeLog, poolVars, mainVars, IInv, TypeOK, Candidate
    <2> QED BY <1>4, <2>3, HandOverUnchanged DEF TakeLog, handOver, poolVars, mainVars
  <1>5. CASE ReportNew(pr)
    <2>1. inHand[pr] \in Pools
      BY <1>5 DEF ReportNew, IInv, Candidate
    <2>2. newPoolChan' \in Seq(Pools) /\ Len(newPoolChan') <= NewPoolCap
      BY <1>5, <2>1, CapAssumption DEF ReportNew, IInv, TypeOK
    <2>3. TypeOK' /\ Candidate'
      BY <1>5, <2>2 DEF ReportNew, poolVars, mainVars, IInv, TypeOK, Candidate
    <2> QED BY <1>5, <2>3, HandOverUnchanged DEF ReportNew, handOver, poolVars, mainVars
  <1> QED BY <1>1, <1>2, <1>3, <1>4, <1>5 DEF Factory

(* A pool is created, or main goes from its start to the shutdown. *)
LEMMA OutsideStep ==
  ASSUME IInv, (\E p \in Pools : CreatePool(p)) \/ WaitForSignal \/ Shutdown
  PROVE  IInv'
  <1>1. CASE \E p \in Pools : CreatePool(p)
    <2>1. PICK p \in Pools : CreatePool(p)
      BY <1>1
    <2>2. ProtocolOf[p] \in Protocols
      BY PoolsAssumption
    <2>3. TypeOK' /\ Candidate'
      BY <2>1, <2>2 DEF CreatePool, poolVars, mainVars, IInv, TypeOK, Candidate
    <2> QED BY <2>1, <2>3, HandOverUnchanged DEF CreatePool, handOver, poolVars, mainVars
  <1>2. CASE WaitForSignal \/ Shutdown
    <2>1. TypeOK' /\ Candidate'
      BY <1>2 DEF WaitForSignal, Shutdown, factoryVars, poolVars, IInv, TypeOK, Candidate
    <2> QED BY <1>2, <2>1, HandOverUnchanged
            DEF WaitForSignal, Shutdown, handOver, poolVars
  <1> QED BY <1>1, <1>2

(* main's first signal is what the configured pools wait for. *)
LEMMA FirstSignalStep ==
  ASSUME IInv, NEW pr \in Protocols, FirstSignal(pr)
  PROVE  IInv'
  <1>1. TypeOK' /\ OwnProtocol' /\ Candidate' /\ OneListener'
    BY DEF FirstSignal, factoryVars, poolVars, IInv, TypeOK, OwnProtocol, Candidate,
           OneListener, Stopped
  <1>2. \A q \in Protocols : \A p \in Pools : Covered(q, p)' <=> Covered(q, p)
    BY DEF FirstSignal, Covered, HasListener, Latest
  <1>3. CoveredOrSignalled'
    <2> SUFFICES ASSUME NEW q \in Protocols, NEW p \in active[q]
                 PROVE  \/ Covered(q, p)' \/ restart'[q] \/ manager[q] = "wait"
                        \/ poolManager = "signal" /\ candidate = p
                        \/ p \in Manual /\ q \notin signalled'
      BY DEF CoveredOrSignalled, FirstSignal, poolVars
    <2>1. p \in Pools
      BY DEF IInv, TypeOK
    <2> QED BY <1>2, <2>1 DEF FirstSignal, IInv, CoveredOrSignalled, TypeOK
  <1> QED BY <1>1, <1>3 DEF IInv

----------------------------------------------------------------------------
(* The New Pool Manager.                                                   *)

LEMMA PoolManagerStep ==
  ASSUME IInv, PoolManager
  PROVE  IInv'
  <1>1. UNCHANGED <<manager, listeners, signalled>>
    BY DEF PoolManager, ReceivePool, RejectPool, AddPool, SignalRestart,
           StopPoolManager, mainVars
  <1>2. OneListener' /\ \A q \in Protocols : \A p \in Pools : Covered(q, p)' <=> Covered(q, p)
    BY <1>1 DEF IInv, OneListener, Stopped, Covered, HasListener, Latest
  <1>3. CASE ReceivePool
    <2>1. Head(newPoolChan) \in Pools /\ Tail(newPoolChan) \in Seq(Pools)
      BY <1>3 DEF ReceivePool, IInv, TypeOK
    <2>2. Len(Tail(newPoolChan)) <= NewPoolCap
      BY <1>3, CapAssumption DEF ReceivePool, IInv, TypeOK
    <2>3. TypeOK' /\ OwnProtocol' /\ Candidate'
      BY <1>3, <2>1, <2>2 DEF ReceivePool, factoryVars, mainVars, IInv, TypeOK,
                              OwnProtocol, Candidate
    <2>4. CoveredOrSignalled'
      BY <1>2, <1>3 DEF ReceivePool, mainVars, IInv, TypeOK, CoveredOrSignalled
    <2> QED BY <1>2, <2>3, <2>4 DEF IInv
  <1>4. CASE RejectPool \/ StopPoolManager
    <2>1. TypeOK' /\ OwnProtocol' /\ Candidate'
      BY <1>4 DEF RejectPool, StopPoolManager, factoryVars, mainVars, IInv, TypeOK,
                  OwnProtocol, Candidate
    <2>2. CoveredOrSignalled'
      BY <1>2, <1>4 DEF RejectPool, StopPoolManager, mainVars, IInv, TypeOK,
                        CoveredOrSignalled
    <2> QED BY <1>2, <2>1, <2>2 DEF IInv
  <1>5. CASE AddPool
    <2> DEFINE pr == ProtocolOf[candidate]
    <2>1. candidate \in Pools /\ pr \in Protocols
      BY <1>5, PoolsAssumption DEF AddPool, IInv, Candidate
    <2>2. /\ active' = [active EXCEPT ![pr] = @ \cup {candidate}]
          /\ restart' = restart
          /\ \/ poolManager' = "signal" /\ candidate' = candidate
             \/ poolManager' = "select" /\ candidate' = NoPool /\ candidate \in active[pr]
      BY <1>5 DEF AddPool
    <2>3. TypeOK' /\ Candidate'
      BY <1>5, <2>1, <2>2 DEF AddPool, factoryVars, mainVars, IInv, TypeOK, Candidate
    <2>4. OwnProtocol'
      BY <2>1, <2>2 DEF IInv, TypeOK, OwnProtocol, OfProtocol
    <2>5. CoveredOrSignalled'
      <3> SUFFICES ASSUME NEW q \in Protocols, NEW p \in active'[q]
                   PROVE  \/ Covered(q, p) \/ restart[q] \/ manager[q] = "wait"
                          \/ poolManager' = "signal" /\ candidate' = p
                          \/ p \in Manual /\ q \notin signalled
        BY <1>1, <1>2, <2>2, <2>3 DEF CoveredOrSignalled, TypeOK
      <3>1. CASE p \in active[q]
        BY <1>5, <3>1 DEF AddPool, IInv, CoveredOrSignalled
      <3>2. CASE p \notin active[q]
        <4>1. q = pr /\ p = candidate
          BY <2>1, <2>2, <3>2 DEF IInv, TypeOK
        <4> QED BY <2>2, <3>2, <4>1
      <3> QED BY <3>1, <3>2
    <2> QED BY <1>2, <2>3, <2>4, <2>5 DEF IInv
  <1>6. CASE SignalRestart
    <2>1. candidate \in Pools /\ ProtocolOf[candidate] \in Protocols
      BY <1>6, PoolsAssumption DEF SignalRestart, IInv, Candidate
    <2>2. TypeOK' /\ OwnProtocol' /\ Candidate'
      BY <1>6, <2>1 DEF SignalRestart, factoryVars, mainVars, IInv, TypeOK,
                        OwnProtocol, Candidate
    <2>3. CoveredOrSignalled'
      <3> SUFFICES ASSUME NEW q \in Protocols, NEW p \in active[q]
                   PROVE  \/ Covered(q, p) \/ restart'[q] \/ manager[q] = "wait"
                          \/ p \in Manual /\ q \notin signalled
        BY <1>1, <1>2, <1>6 DEF SignalRestart, CoveredOrSignalled, IInv, TypeOK
      <3>1. CASE p = candidate
        <4>1. q = ProtocolOf[candidate]
          BY <3>1 DEF IInv, OwnProtocol, OfProtocol
        <4> QED BY <1>6, <4>1 DEF SignalRestart, IInv, TypeOK
      <3>2. CASE p # candidate
        BY <1>6, <2>1, <3>2 DEF SignalRestart, IInv, TypeOK, CoveredOrSignalled
      <3> QED BY <3>1, <3>2
    <2> QED BY <1>2, <2>2, <2>3 DEF IInv
  <1> QED BY <1>3, <1>4, <1>5, <1>6 DEF PoolManager

----------------------------------------------------------------------------
(* The listener managers.                                                  *)

LEMMA ManagerStep ==
  ASSUME IInv, NEW pr \in Protocols, Manager(pr)
  PROVE  IInv'
  <1>1. UNCHANGED <<created, factoryVars, newPoolChan, poolVars, mainVars>>
    BY DEF Manager, TakeSignal, StartListener, StopManager, ManagerDone
  <1>2. OwnProtocol' /\ Candidate'
    BY <1>1 DEF factoryVars, poolVars, IInv, OwnProtocol, Candidate
  <1>3. CASE TakeSignal(pr) \/ StopManager(pr)
    <2>1. /\ manager[pr] = "select" /\ CancelLatest(pr)
          /\ \A q \in Protocols : manager'[q] = "done" => manager[q] = "done"
          /\ \A q \in Protocols \ {pr} : manager'[q] = manager[q]
          /\ \A q \in Protocols : restart[q] => restart'[q] \/ manager'[q] = "wait"
      BY <1>3 DEF TakeSignal, StopManager, IInv, TypeOK
    <2>2. /\ listeners' \in [Protocols -> Seq(ListenerState)]
          /\ \A q \in Protocols : \A p \in Pools : Covered(q, p)' <=> Covered(q, p)
          /\ \A q \in Protocols :
               /\ DOMAIN listeners'[q] = DOMAIN listeners[q]
               /\ Len(listeners'[q]) = Len(listeners[q])
               /\ \A j \in DOMAIN listeners[q] :
                    listeners'[q][j].state = listeners[q][j].state
      BY <2>1, CancelKeeps DEF IInv
    <2>3. TypeOK'
      BY <1>1, <1>3, <2>2 DEF TakeSignal, StopManager, factoryVars, poolVars, mainVars,
                              IInv, TypeOK
    <2>4. CoveredOrSignalled'
      <3>1. active \in [Protocols -> SUBSET Pools]
        BY DEF IInv, TypeOK
      <3> QED BY <1>1, <2>1, <2>2, <3>1 DEF poolVars, mainVars, IInv, CoveredOrSignalled
    <2>5. OneListener'
      <3>1. \A q \in Protocols : Stopped(q) => Stopped(q)'
        BY <2>2 DEF Stopped
      <3>2. \A q \in Protocols : \A i \in DOMAIN listeners'[q] :
              i < Len(listeners'[q]) => listeners'[q][i].state = "stopped"
        BY <2>2 DEF IInv, OneListener
      <3>3. \A q \in Protocols : manager'[q] = "done" => Stopped(q)'
        BY <2>1, <3>1 DEF IInv, OneListener
      <3> QED BY <3>2, <3>3 DEF OneListener
    <2> QED BY <1>2, <2>3, <2>4, <2>5 DEF IInv
  <1>4. CASE ManagerDone(pr)
    <2>1. TypeOK'
      BY <1>1, <1>4 DEF ManagerDone, factoryVars, poolVars, mainVars, IInv, TypeOK
    <2>2. CoveredOrSignalled'
      BY <1>1, <1>4 DEF ManagerDone, poolVars, mainVars, IInv, TypeOK, CoveredOrSignalled,
                        Covered, HasListener, Latest
    <2>3. OneListener'
      BY <1>4 DEF ManagerDone, IInv, TypeOK, OneListener, Stopped
    <2> QED BY <1>2, <2>1, <2>2, <2>3 DEF IInv
  <1>5. CASE StartListener(pr) /\ active[pr] = {}
    <2>1. TypeOK'
      BY <1>1, <1>5 DEF StartListener, factoryVars, poolVars, mainVars, IInv, TypeOK
    <2>2. CoveredOrSignalled'
      BY <1>1, <1>5 DEF StartListener, poolVars, mainVars, IInv, TypeOK,
                        CoveredOrSignalled, Covered, HasListener, Latest
    <2>3. OneListener'
      BY <1>5 DEF StartListener, IInv, TypeOK, OneListener, Stopped
    <2> QED BY <1>2, <2>1, <2>2, <2>3 DEF IInv
  <1>6. CASE StartListener(pr) /\ active[pr] # {}
    <2> DEFINE l == [pools |-> active[pr], cancelled |-> FALSE, state |-> "fetch"]
    <2>1. l \in ListenerState
      BY DEF ListenerState, IInv, TypeOK
    <2>2. /\ listeners' = [listeners EXCEPT ![pr] = Append(@, l)]
          /\ manager[pr] = "wait" /\ manager' = [manager EXCEPT ![pr] = "select"]
          /\ restart' = restart
          /\ \A i \in DOMAIN listeners[pr] : listeners[pr][i].state = "stopped"
      BY <1>6 DEF StartListener, Stopped
    <2>3. l.pools = active[pr]
      OBVIOUS
    <2> HIDE DEF l
    <2>4. /\ listeners[pr] \in Seq(ListenerState)
          /\ listeners'[pr] = Append(listeners[pr], l)
          /\ \A q \in Protocols \ {pr} : listeners'[q] = listeners[q]
      BY <2>2 DEF IInv, TypeOK
    <2>5. /\ listeners'[pr] \in Seq(ListenerState)
          /\ Len(listeners'[pr]) = Len(listeners[pr]) + 1
          /\ Len(listeners[pr]) \in Nat
          /\ listeners'[pr] # << >>
          /\ listeners'[pr][Len(listeners'[pr])] = l
          /\ \A i \in DOMAIN listeners'[pr] : i < Len(listeners'[pr]) =>
                 i \in DOMAIN listeners[pr] /\ listeners'[pr][i] = listeners[pr][i]
      BY <2>1, <2>4
    <2>6. listeners' \in [Protocols -> Seq(ListenerState)]
      BY <2>2, <2>5 DEF IInv, TypeOK
    <2>7. TypeOK'
      BY <1>1, <2>2, <2>6 DEF factoryVars, poolVars, mainVars, IInv, TypeOK
    <2>8. CoveredOrSignalled'
      <3> SUFFICES ASSUME NEW q \in Protocols, NEW p \in active[q]
                   PROVE  \/ Covered(q, p)' \/ restart[q] \/ manager'[q] = "wait"
                          \/ poolManager = "signal" /\ candidate = p
                          \/ p \in Manual /\ q \notin signalled
        BY <1>1, <2>2 DEF poolVars, mainVars, CoveredOrSignalled
      <3>1. CASE q = pr
        BY <2>3, <2>5, <3>1 DEF Covered, HasListener, Latest
      <3>2. CASE q # pr
        <4>1. (Covered(q, p)' <=> Covered(q, p)) /\ manager'[q] = manager[q]
          BY <2>2, <2>4, <3>2 DEF Covered, HasListener, Latest, IInv, TypeOK
        <4> QED BY <4>1 DEF IInv, CoveredOrSignalled
      <3> QED BY <3>1, <3>2
    <2>9. OneListener'
      <3>1. \A i \in DOMAIN listeners'[pr] :
              i < Len(listeners'[pr]) => listeners'[pr][i].state = "stopped"
        BY <2>2, <2>5
      <3>2. manager'[pr] = "select" /\ \A q \in Protocols \ {pr} : manager'[q] = manager[q]
        BY <2>2 DEF IInv, TypeOK
      <3> QED BY <2>4, <3>1, <3>2 DEF IInv, OneListener, Stopped
    <2> QED BY <1>2, <2>7, <2>8, <2>9 DEF IInv
  <1> QED BY <1>3, <1>4, <1>5, <1>6 DEF Manager

----------------------------------------------------------------------------
(* The invariant and what follows from it.                                 *)

LEMMA Inductive == IInv /\ [Next]_vars => IInv'
  <1> SUFFICES ASSUME IInv, [Next]_vars PROVE IInv'
    OBVIOUS
  <1>1. CASE UNCHANGED vars
    <2>1. TypeOK' /\ Candidate'
      BY <1>1 DEF vars, IInv, TypeOK, Candidate
    <2> QED BY <1>1, <2>1, HandOverUnchanged DEF vars, handOver, poolVars
  <1>2. CASE (\E p \in Pools : CreatePool(p)) \/ WaitForSignal \/ Shutdown
    BY <1>2, OutsideStep
  <1>3. CASE \E pr \in Protocols : FirstSignal(pr)
    BY <1>3, FirstSignalStep
  <1>4. CASE PoolManager
    BY <1>4, PoolManagerStep
  <1>5. ASSUME NEW pr \in Protocols,
               Factory(pr) \/ SubscribeFactory(pr) \/ StopFactory(pr)
        PROVE  IInv'
    BY <1>5, FactoryStep
  <1>6. ASSUME NEW pr \in Protocols, Manager(pr) PROVE IInv'
    BY <1>6, ManagerStep
  <1>7. ASSUME NEW pr \in Protocols, NEW i \in DOMAIN listeners[pr],
               RunListener(pr, i) \/ SubscribeEvents(pr, i) \/ SubscriptionError(pr, i)
        PROVE  IInv'
    <2>1. PICK from \in {"fetch", "subscribe", "listen"},
               to \in {"subscribe", "listen", "stopped"} : Listener(pr, i, from, to)
      BY <1>7 DEF RunListener, FetchInitial, ListenerDone, SubscribeEvents,
                  SubscriptionError
    <2> QED BY <2>1, ListenerStep
  <1> QED BY <1>1, <1>2, <1>3, <1>4, <1>5, <1>6, <1>7 DEF Next, Main, Subscription

(* The inductive invariant holds in every behaviour of main.go's pool      *)
(* tracking.                                                               *)
THEOREM Invariant == Spec => []IInv
  <1>1. Init => IInv
    BY InitIInv
  <1>2. IInv /\ [Next]_vars => IInv'
    BY Inductive
  <1> QED BY <1>1, <1>2, PTL DEF Spec

(* Every variable keeps its type, and newPoolChan its capacity. *)
THEOREM TypeCorrect == Spec => []TypeOK
  <1>1. IInv => TypeOK
    BY DEF IInv
  <1> QED BY <1>1, Invariant, PTL

(* No pool is forgotten: the dropped signal of a full restart channel      *)
(* never leaves an active pool without a listener to come.                 *)
THEOREM NoPoolForgotten == Spec => []CoveredOrSignalled
  <1>1. IInv => CoveredOrSignalled
    BY DEF IInv
  <1> QED BY <1>1, Invariant, PTL

(* managePoolListener never runs two listeners of a protocol at once and   *)
(* never returns before its last one.                                      *)
THEOREM NeverTwoListeners == Spec => []OneListener
  <1>1. IInv => OneListener
    BY DEF IInv
  <1> QED BY <1>1, Invariant, PTL

----------------------------------------------------------------------------
(* What a manager waits for has been cancelled, or has returned by itself. *)
AwaitedIsCancelled ==
  \A pr \in Protocols : manager[pr] \in {"wait", "stop"} =>
    \A i \in DOMAIN listeners[pr] :
      listeners[pr][i].state = "stopped" \/ listeners[pr][i].cancelled

(* Only ctx ends the New Pool Manager and the listener managers. *)
EndsWithContext ==
  (poolManager = "done" \/ \E pr \in Protocols : manager[pr] \in {"stop", "done"})
    => Cancelled

(* A listener has been given active pools only. *)
ListsAreActive ==
  \A pr \in Protocols : \A p \in Pools : Covered(pr, p) => p \in active[pr]

WaitInv == AwaitedIsCancelled /\ EndsWithContext /\ ListsAreActive

(* A manager that waits for its listener waits for one that is still       *)
(* fetching, or whose select sees its context done; a factory listener     *)
(* that waits for room in newPoolChan has a reader, or its own context is  *)
(* done.                                                                   *)
NobodyWaitsInVain ==
  \A pr \in Protocols :
    /\ manager[pr] \in {"wait", "stop"} =>
         \/ Stopped(pr)
         \/ \E i \in DOMAIN listeners[pr] :
              \/ listeners[pr][i].state = "fetch"
              \/ /\ listeners[pr][i].state \in {"subscribe", "listen"}
                 /\ listeners[pr][i].cancelled
    /\ factory[pr] = "send" =>
         Len(newPoolChan) < NewPoolCap \/ poolManager # "done" \/ Cancelled

(* A pool in the list of a protocol's latest listener is in the list of    *)
(* every listener that replaces it.                                        *)
PoolsStayCovered ==
  [][\A pr \in Protocols : \A p \in Pools : Covered(pr, p) => Covered(pr, p)']_vars

(* Every goroutine but the managers and their listeners. *)
LEMMA WaitKept ==
  ASSUME WaitInv, UNCHANGED <<manager, listeners>>, Cancelled => Cancelled',
         poolManager' = "done" => poolManager = "done" \/ Cancelled,
         \A pr \in Protocols : active[pr] \subseteq active'[pr]
  PROVE  /\ WaitInv'
         /\ \A pr \in Protocols : \A p \in Pools : Covered(pr, p)' <=> Covered(pr, p)
  <1>1. \A pr \in Protocols : \A p \in Pools : Covered(pr, p)' <=> Covered(pr, p)
    BY DEF Covered, HasListener, Latest
  <1>2. AwaitedIsCancelled' /\ EndsWithContext'
    BY DEF WaitInv, AwaitedIsCancelled, EndsWithContext
  <1>3. ListsAreActive'
    BY <1>1 DEF WaitInv, ListsAreActive
  <1> QED BY <1>1, <1>2, <1>3 DEF WaitInv

LEMMA WaitOthers ==
  ASSUME TypeOK, WaitInv,
         \/ UNCHANGED vars \/ \E p \in Pools : CreatePool(p)
         \/ Main \/ Shutdown \/ PoolManager
         \/ \E pr \in Protocols : Factory(pr) \/ SubscribeFactory(pr) \/ StopFactory(pr)
  PROVE  /\ WaitInv'
         /\ \A pr \in Protocols : \A p \in Pools : Covered(pr, p)' <=> Covered(pr, p)
  <1>1. CASE UNCHANGED vars \/ (\E p \in Pools : CreatePool(p)) \/ Main \/ Shutdown
    BY <1>1, WaitKept DEF vars, CreatePool, Main, WaitForSignal, FirstSignal, Shutdown,
         poolVars, mainVars, Cancelled
  <1>2. CASE PoolManager
    <2>1. UNCHANGED <<manager, listeners, main>>
      BY <1>2 DEF PoolManager, ReceivePool, RejectPool, AddPool, SignalRestart,
           StopPoolManager, mainVars
    <2>2. poolManager' = "done" => poolManager = "done" \/ Cancelled
      BY <1>2 DEF PoolManager, ReceivePool, RejectPool, AddPool, SignalRestart,
           StopPoolManager
    <2>3. \A pr \in Protocols : active[pr] \subseteq active'[pr]
      BY <1>2 DEF PoolManager, ReceivePool, RejectPool, AddPool, SignalRestart,
           StopPoolManager, TypeOK
    <2> QED BY <2>1, <2>2, <2>3, WaitKept DEF Cancelled
  <1>3. ASSUME NEW pr \in Protocols,
               Factory(pr) \/ SubscribeFactory(pr) \/ StopFactory(pr)
        PROVE  UNCHANGED <<manager, listeners, main, poolManager, active>>
    BY <1>3 DEF Factory, ScanHistory, ReportPast, EndHistory, TakeLog, ReportNew,
         SubscribeFactory, StopFactory, poolVars, mainVars
  <1> QED BY <1>1, <1>2, <1>3, WaitKept DEF Cancelled

(* The latest listener is cancelled, and the others have stopped. *)
LEMMA CancelReaches ==
  ASSUME IInv, NEW pr \in Protocols, CancelLatest(pr)
  PROVE  /\ \A i \in DOMAIN listeners'[pr] :
              listeners'[pr][i].state = "stopped" \/ listeners'[pr][i].cancelled
         /\ \A q \in Protocols : q # pr => listeners'[q] = listeners[q]
  <1>1. /\ listeners[pr] \in Seq(ListenerState) /\ Len(listeners[pr]) \in Nat
        /\ DOMAIN listeners[pr] = 1..Len(listeners[pr])
    BY DEF IInv, TypeOK
  <1>2. CASE ~HasListener(pr)
    BY <1>1, <1>2 DEF CancelLatest, HasListener
  <1>3. CASE HasListener(pr)
    <2> DEFINE n == Len(listeners[pr])
               l == [listeners[pr][n] EXCEPT !.cancelled = TRUE]
    <2>1. n \in DOMAIN listeners[pr] /\ listeners[pr][n] \in ListenerState
      BY <1>1, <1>3 DEF HasListener
    <2>2. l.cancelled
      BY <2>1 DEF ListenerState
    <2>3. listeners' = [listeners EXCEPT ![pr] = [@ EXCEPT ![n] = l]]
      BY <1>3 DEF CancelLatest
    <2>4. /\ listeners'[pr] = [listeners[pr] EXCEPT ![n] = l]
          /\ \A q \in Protocols : q # pr => listeners'[q] = listeners[q]
      BY <2>3 DEF IInv, TypeOK
    <2>5. \A i \in DOMAIN listeners[pr] : i # n => listeners[pr][i].state = "stopped"
      BY <1>1 DEF IInv, OneListener
    <2> HIDE DEF l
    <2> QED BY <2>1, <2>2, <2>4, <2>5
  <1> QED BY <1>2, <1>3

LEMMA WaitManager ==
  ASSUME IInv, WaitInv, NEW pr \in Protocols, Manager(pr)
  PROVE  /\ WaitInv'
         /\ \A q \in Protocols : \A p \in Pools : Covered(q, p) => Covered(q, p)'
  <1>1. UNCHANGED <<created, factoryVars, newPoolChan, poolVars, mainVars>>
    BY DEF Manager, TakeSignal, StartListener, StopManager, ManagerDone
  <1>2. CASE TakeSignal(pr) \/ StopManager(pr)
    <2>1. /\ CancelLatest(pr)
          /\ manager'[pr] \in {"wait", "stop"} /\ (manager'[pr] = "stop" => Cancelled)
          /\ \A q \in Protocols : q # pr => manager'[q] = manager[q]
      BY <1>2 DEF TakeSignal, StopManager, IInv, TypeOK
    <2>2. \A q \in Protocols : \A p \in Pools : Covered(q, p)' <=> Covered(q, p)
      BY <2>1, CancelKeeps DEF IInv
    <2>3. AwaitedIsCancelled'
      BY <2>1, CancelReaches DEF WaitInv, AwaitedIsCancelled
    <2>4. EndsWithContext'
      BY <1>1, <2>1 DEF WaitInv, EndsWithContext, Cancelled, poolVars, mainVars
    <2>5. ListsAreActive'
      BY <1>1, <2>2 DEF WaitInv, ListsAreActive, poolVars
    <2> QED BY <2>2, <2>3, <2>4, <2>5 DEF WaitInv
  <1>3. CASE ManagerDone(pr) \/ (StartListener(pr) /\ active[pr] = {})
    <2>1. /\ UNCHANGED listeners
          /\ manager'[pr] \in {"select", "done"}
          /\ manager'[pr] = "done" => manager[pr] = "stop"
          /\ \A q \in Protocols : q # pr => manager'[q] = manager[q]
      BY <1>3 DEF ManagerDone, StartListener, IInv, TypeOK
    <2>2. \A q \in Protocols : \A p \in Pools : Covered(q, p)' <=> Covered(q, p)
      BY <2>1 DEF Covered, HasListener, Latest
    <2>3. AwaitedIsCancelled'
      BY <2>1 DEF WaitInv, AwaitedIsCancelled
    <2>4. EndsWithContext'
      BY <1>1, <2>1 DEF WaitInv, EndsWithContext, Cancelled, poolVars, mainVars
    <2>5. ListsAreActive'
      BY <1>1, <2>2 DEF WaitInv, ListsAreActive, poolVars
    <2> QED BY <2>2, <2>3, <2>4, <2>5 DEF WaitInv
  <1>4. CASE StartListener(pr) /\ active[pr] # {}
    <2> DEFINE l == [pools |-> active[pr], cancelled |-> FALSE, state |-> "fetch"]
    <2>1. l \in ListenerState
      BY DEF ListenerState, IInv, TypeOK
    <2>2. /\ listeners' = [listeners EXCEPT ![pr] = Append(@, l)]
          /\ manager'[pr] = "select"
          /\ \A q \in Protocols : q # pr => manager'[q] = manager[q]
      BY <1>4 DEF StartListener, IInv, TypeOK
    <2>3. l.pools = active[pr]
      OBVIOUS
    <2> HIDE DEF l
    <2>4. /\ listeners[pr] \in Seq(ListenerState)
          /\ listeners'[pr] = Append(listeners[pr], l)
          /\ \A q \in Protocols : q # pr => listeners'[q] = listeners[q]
      BY <2>2 DEF IInv, TypeOK
    <2>5. listeners'[pr] # << >> /\ listeners'[pr][Len(listeners'[pr])] = l
      BY <2>1, <2>4
    <2>6. \A p \in Pools : Covered(pr, p)' <=> p \in active[pr]
      BY <2>3, <2>5 DEF Covered, HasListener, Latest
    <2>7. \A q \in Protocols : q # pr =>
            \A p \in Pools : Covered(q, p)' <=> Covered(q, p)
      BY <2>4 DEF Covered, HasListener, Latest
    <2>8. ListsAreActive'
      BY <1>1, <2>6, <2>7 DEF WaitInv, ListsAreActive, poolVars
    <2>9. \A q \in Protocols : \A p \in Pools : Covered(q, p) => Covered(q, p)'
      BY <2>6, <2>7 DEF WaitInv, ListsAreActive
    <2>10. AwaitedIsCancelled'
      BY <2>2, <2>4 DEF WaitInv, AwaitedIsCancelled
    <2>11. EndsWithContext'
      BY <1>1, <2>2 DEF WaitInv, EndsWithContext, Cancelled, poolVars, mainVars
    <2> QED BY <2>8, <2>9, <2>10, <2>11 DEF WaitInv
  <1> QED BY <1>2, <1>3, <1>4 DEF Manager

LEMMA WaitListener ==
  ASSUME TypeOK, WaitInv, NEW pr \in Protocols, NEW i \in DOMAIN listeners[pr],
         NEW from \in {"fetch", "subscribe", "listen"},
         NEW to \in {"subscribe", "listen", "stopped"},
         Listener(pr, i, from, to)
  PROVE  /\ WaitInv'
         /\ \A q \in Protocols : \A p \in Pools : Covered(q, p)' <=> Covered(q, p)
  <1> DEFINE l == [listeners[pr][i] EXCEPT !.state = to]
  <1>1. listeners[pr] \in Seq(ListenerState) /\ listeners[pr][i] \in ListenerState
    BY DEF TypeOK
  <1>2. /\ l \in ListenerState /\ l.pools = listeners[pr][i].pools
        /\ l.cancelled = listeners[pr][i].cancelled
        /\ listeners[pr][i].state # "stopped"
    BY <1>1 DEF Listener, ListenerState
  <1>3. listeners' = [listeners EXCEPT ![pr] = [@ EXCEPT ![i] = l]]
    BY DEF Listener
  <1> HIDE DEF l
  <1>4. /\ \A q \in Protocols :
             /\ DOMAIN listeners'[q] = DOMAIN listeners[q]
             /\ \A j \in DOMAIN listeners[q] :
                  listeners'[q][j] = IF q = pr /\ j = i THEN l ELSE listeners[q][j]
        /\ \A q \in Protocols : \A p \in Pools : Covered(q, p)' <=> Covered(q, p)
    BY <1>2, <1>3, ReplaceListener
  <1>5. AwaitedIsCancelled'
    BY <1>2, <1>4 DEF Listener, WaitInv, AwaitedIsCancelled
  <1>6. EndsWithContext'
    BY DEF Listener, WaitInv, EndsWithContext, Cancelled, poolVars, mainVars
  <1>7. ListsAreActive'
    BY <1>4 DEF Listener, WaitInv, ListsAreActive, poolVars
  <1> QED BY <1>4, <1>5, <1>6, <1>7 DEF WaitInv

LEMMA WaitStep ==
  ASSUME IInv, WaitInv, [Next]_vars
  PROVE  /\ WaitInv'
         /\ \A pr \in Protocols : \A p \in Pools : Covered(pr, p) => Covered(pr, p)'
  <1>t. TypeOK
    BY DEF IInv
  <1>1. CASE \/ UNCHANGED vars \/ \E p \in Pools : CreatePool(p)
             \/ Main \/ Shutdown \/ PoolManager
             \/ \E pr \in Protocols :
                  Factory(pr) \/ SubscribeFactory(pr) \/ StopFactory(pr)
    BY <1>t, <1>1, WaitOthers
  <1>2. CASE \E pr \in Protocols : Manager(pr)
    BY <1>2, WaitManager
  <1>3. CASE \E pr \in Protocols : \E i \in DOMAIN listeners[pr] :
               RunListener(pr, i) \/ SubscribeEvents(pr, i) \/ SubscriptionError(pr, i)
    <2>1. PICK pr \in Protocols : \E i \in DOMAIN listeners[pr] :
            RunListener(pr, i) \/ SubscribeEvents(pr, i) \/ SubscriptionError(pr, i)
      BY <1>3
    <2>2. PICK i \in DOMAIN listeners[pr],
               from \in {"fetch", "subscribe", "listen"},
               to \in {"subscribe", "listen", "stopped"} : Listener(pr, i, from, to)
      BY <2>1 DEF RunListener, FetchInitial, ListenerDone, SubscribeEvents,
                  SubscriptionError
    <2> QED BY <1>t, <2>2, WaitListener
  <1> QED BY <1>1, <1>2, <1>3 DEF Next, Subscription

LEMMA WaitInvariance == Spec => []WaitInv
  <1>1. Init => WaitInv
    BY DEF Init, WaitInv, AwaitedIsCancelled, EndsWithContext, ListsAreActive, Covered,
           HasListener
  <1>2. IInv /\ WaitInv /\ [Next]_vars => WaitInv'
    BY WaitStep
  <1> QED BY Invariant, <1>1, <1>2, PTL DEF Spec

(* Restarts of the listeners and the shutdown get stuck nowhere: a manager *)
(* never waits for a listener that has not been told to return, and the    *)
(* report of a new pool never for a New Pool Manager that is gone while    *)
(* ctx is not done.                                                        *)
THEOREM WaitsAreServed == Spec => []NobodyWaitsInVain
  <1>1. IInv /\ WaitInv => NobodyWaitsInVain
    <2> SUFFICES ASSUME IInv, WaitInv, NEW pr \in Protocols
                 PROVE  /\ manager[pr] \in {"wait", "stop"} =>
                             \/ Stopped(pr)
                             \/ \E i \in DOMAIN listeners[pr] :
                                  \/ listeners[pr][i].state = "fetch"
                                  \/ /\ listeners[pr][i].state \in {"subscribe", "listen"}
                                     /\ listeners[pr][i].cancelled
                        /\ factory[pr] = "send" =>
                             \/ Len(newPoolChan) < NewPoolCap
                             \/ poolManager # "done" \/ Cancelled
      BY DEF NobodyWaitsInVain
    <2>1. \A i \in DOMAIN listeners[pr] :
            listeners[pr][i].state \in {"fetch", "subscribe", "listen", "stopped"}
      <3>1. listeners[pr] \in Seq(ListenerState)
        BY DEF IInv, TypeOK
      <3>2. \A i \in DOMAIN listeners[pr] : listeners[pr][i] \in ListenerState
        BY <3>1
      <3> QED BY <3>2 DEF ListenerState
    <2> QED BY <2>1 DEF WaitInv, AwaitedIsCancelled, EndsWithContext, Stopped
  <1> QED BY <1>1, Invariant, WaitInvariance, PTL

(* No restart drops a pool: the lists of a protocol's listeners only grow. *)
THEOREM CoverageGrows == Spec => PoolsStayCovered
  <1>1. IInv /\ WaitInv /\ [Next]_vars =>
          [\A pr \in Protocols : \A p \in Pools : Covered(pr, p) => Covered(pr, p)']_vars
    BY WaitStep
  <1> QED BY <1>1, Invariant, WaitInvariance, PTL DEF Spec, PoolsStayCovered
=============================================================================
