------------------------ MODULE UpdatePipelineProofs ------------------------
(***************************************************************************)
(* Proofs that the pipeline's variables keep their types, that only the    *)
(* logs of the past take the memory cache or the rows of a pool back, that *)
(* no news is overtaken by older data on its way to them, that the drain   *)
(* of the DB writer is complete, and that what returns leaves nobody       *)
(* waiting: for any pools, protocols and capacities, restarts of the       *)
(* listeners, replays by the node and discarded updates included.          *)
(***************************************************************************)
EXTENDS UpdatePipeline, SeqFacts

(* The news in T is at least as new as what S has of the same pool. *)
Before(S, T) ==
  \A u \in S, v \in T : u.pool = v.pool /\ ~v.replayed => u.version <= v.version

(* No news in the queue s follows newer data of its pool. *)
Ordered(s) ==
  \A i, j \in 1..Len(s) :
    i < j /\ s[i].pool = s[j].pool /\ ~s[j].replayed => s[i].version <= s[j].version

(* What the listeners of a protocol still have to send. *)
Delivered(pr) == Range(event[pr]) \cup Range(logs[pr])

(* Where there is an update to send, and what may be under way when. *)
Control ==
  /\ \A pr \in Protocols :
       /\ listener[pr] = "send" => \E u \in Updates : event[pr] = <<u>>
       /\ listener[pr] # "send" => event[pr] = << >>
       /\ listener[pr] \in {"fetch", "stopped"} => logs[pr] = << >>
       /\ \A u \in Delivered(pr) : ProtocolOf[u.pool] = pr
  /\ \A p \in Pools : fetch[p] # "done" => listener[ProtocolOf[p]] = "fetch"
  /\ updater = "forward" => \E u \in Updates : item = <<u>>
  /\ updater # "forward" => item = << >>

(* Where an update is that has been taken from processedDataChan, or put   *)
(* into it.                                                                *)
Behind   == Range(dbWrite) \cup Range(item)
Received == Behind \cup Range(processed)

(* The news in S is not older than what the cache and the rows have. *)
Kept(S) ==
  \A u \in S : ~u.replayed => /\ memCache[u.pool] <= u.version
                             /\ stored[u.pool] <= u.version

(* What is before the news in each stage, from the rows to the listeners.  *)
BehindCache ==
  /\ Ordered(dbWrite)
  /\ Before(Range(dbWrite), Range(item))
  /\ \A u \in Behind : ~u.replayed => stored[u.pool] <= u.version

BeforeCache ==
  /\ Ordered(processed)
  /\ Before(Behind, Range(processed))
  /\ Kept(Range(processed))

AtListener(pr) ==
  /\ Ordered(logs[pr])
  /\ Before(Range(event[pr]), Range(logs[pr]))
  /\ Before(Received, Delivered(pr))
  /\ Kept(Delivered(pr))

AtFetch(p) ==
  fetch[p] = "send" =>
    /\ memCache[p] <= fetched[p] /\ stored[p] <= fetched[p]
    /\ fetched[p] <= chain[p]
    /\ \A u \in Received : u.pool = p => u.version <= fetched[p]

(* Nothing is ahead of the chain. *)
OnChain ==
  /\ \A p \in Pools : memCache[p] <= chain[p] /\ stored[p] <= chain[p]
  /\ \A u \in Received : u.version <= chain[u.pool]
  /\ \A pr \in Protocols : \A u \in Delivered(pr) : u.version <= chain[u.pool]

DataInv ==
  /\ BehindCache /\ BeforeCache
  /\ \A pr \in Protocols : AtListener(pr)
  /\ \A p \in Pools : AtFetch(p)
  /\ OnChain

DrainInv ==
  /\ owed <= Len(dbWrite)
  /\ writer # "write" => shutdown
  /\ DrainIsComplete

IInv ==
  TypeOK /\ Control /\ DataInv /\ DrainInv

----------------------------------------------------------------------------
(* What the steps of a queue do to its order. *)
LEMMA OrderedEmpty == Ordered(<< >>)
  BY DEF Ordered

LEMMA OrderedAppend ==
  ASSUME NEW s \in Seq(Updates), NEW e \in Updates,
         Ordered(s), Before(Range(s), {e})
  PROVE  Ordered(Append(s, e))
  <1>1. /\ Len(s) \in Nat /\ Len(Append(s, e)) = Len(s) + 1
        /\ \A i \in 1..Len(s) : Append(s, e)[i] = s[i] /\ s[i] \in Range(s)
        /\ Append(s, e)[Len(s) + 1] = e
    BY AppendProperties, LenProperties DEF Range
  <1> SUFFICES ASSUME NEW i \in 1..(Len(s) + 1), NEW j \in 1..(Len(s) + 1), i < j,
                      Append(s, e)[i].pool = Append(s, e)[j].pool,
                      ~Append(s, e)[j].replayed
               PROVE  Append(s, e)[i].version <= Append(s, e)[j].version
    BY <1>1 DEF Ordered
  <1>2. i \in 1..Len(s) /\ (j \in 1..Len(s) \/ j = Len(s) + 1)
    BY <1>1
  <1> QED BY <1>1, <1>2 DEF Ordered, Before

LEMMA OrderedTail ==
  ASSUME NEW s \in Seq(Updates), s # << >>, Ordered(s)
  PROVE  /\ Ordered(Tail(s))
         /\ Before({Head(s)}, Range(Tail(s)))
  <1>1. /\ Len(s) \in Nat /\ Len(Tail(s)) = Len(s) - 1 /\ Len(s) >= 1
        /\ \A i \in 1..Len(Tail(s)) : Tail(s)[i] = s[i + 1]
        /\ Head(s) = s[1]
    BY HeadTailProperties, LenProperties, EmptySeq
  <1>2. \A u \in Range(Tail(s)) : \E i \in 1..Len(Tail(s)) : u = Tail(s)[i]
    BY HeadTailProperties, LenProperties DEF Range
  <1>3. \A i \in 1..Len(Tail(s)) : i + 1 \in 1..Len(s) /\ 1 < i + 1
    BY <1>1
  <1>4. Ordered(Tail(s))
    <2> SUFFICES ASSUME NEW i \in 1..Len(Tail(s)), NEW j \in 1..Len(Tail(s)), i < j,
                        Tail(s)[i].pool = Tail(s)[j].pool, ~Tail(s)[j].replayed
                 PROVE  Tail(s)[i].version <= Tail(s)[j].version
      BY DEF Ordered
    <2>1. i + 1 < j + 1
      OBVIOUS
    <2> QED BY <1>1, <1>3, <2>1 DEF Ordered
  <1>5. ASSUME NEW u \in Range(Tail(s)), Head(s).pool = u.pool, ~u.replayed
        PROVE  Head(s).version <= u.version
    <2>1. PICK i \in 1..Len(Tail(s)) : u = Tail(s)[i]
      BY <1>2
    <2>2. 1 \in 1..Len(s) /\ i + 1 \in 1..Len(s) /\ 1 < i + 1
      BY <1>1, <1>3
    <2> QED BY <1>1, <1>5, <2>1, <2>2 DEF Ordered
  <1> QED BY <1>4, <1>5 DEF Before

(* A queue of updates: its ends, and what is in it. *)
LEMMA QueueAppend ==
  ASSUME NEW s \in Seq(Updates), NEW e \in Updates
  PROVE  /\ s \o <<e>> = Append(s, e)
         /\ Append(s, e) \in Seq(Updates)
         /\ Len(Append(s, e)) = Len(s) + 1
         /\ Range(Append(s, e)) = Range(s) \cup {e}
  BY AppendIsConcat, AppendProperties, AppendFacts

LEMMA QueueTail ==
  ASSUME NEW s \in Seq(Updates), s # << >>
  PROVE  /\ Head(s) \in Updates /\ Head(s) \in Range(s)
         /\ Tail(s) \in Seq(Updates)
         /\ Len(s) >= 1 /\ Len(Tail(s)) = Len(s) - 1
         /\ Range(s) = {Head(s)} \cup Range(Tail(s))
  BY HeadTailFacts, HeadTailProperties, LenProperties, EmptySeq

LEMMA QueueType ==
  ASSUME NEW s \in Seq(Updates)
  PROVE  Range(s) \subseteq Updates /\ Len(s) \in Nat
  BY RangeType, LenProperties

LEMMA SmallQueues ==
  /\ << >> \in Seq(Updates) /\ Range(<< >>) = {} /\ Len(<< >>) = 0
  /\ \A e \in Updates : <<e>> \in Seq(Updates) /\ Range(<<e>>) = {e}
  BY EmptyFacts, EmptySeq DEF Range

(* Versions are natural numbers, and those a pool can reach are Versions. *)
LEMMA VersionFacts ==
  /\ Versions \subseteq Nat
  /\ \A p \in Pools : 0 \in Versions
  /\ \A p \in Pools : \A v \in 0..MaxVersion[p] : v \in Versions
  /\ \A p \in Pools : MaxVersion[p] \in Nat \ {0} /\ ProtocolOf[p] \in Protocols
  BY PipelineAssumption DEF Versions

(* What a node sends of the past: old logs of the protocol's pools. *)
LEMMA ReplayFacts ==
  ASSUME NEW pr \in Protocols, NEW s \in Replays(pr)
  PROVE  /\ s \in Seq(Updates) /\ Ordered(s)
         /\ \A u \in Range(s) : /\ u.replayed /\ ProtocolOf[u.pool] = pr
                                /\ u.version <= chain[u.pool]
         /\ MaxReplay = 0 => s = << >>
  <1>1. PICK n \in 0..MaxReplay : s \in [1..n -> Past(pr)]
    BY DEF Replays
  <1>2. n \in Nat /\ Past(pr) \subseteq Updates
    BY PipelineAssumption DEF Past
  <1>3. s \in Seq(Updates)
    BY <1>1, <1>2, SeqDef
  <1>4. \A u \in Range(s) : u \in Past(pr)
    BY DEF Replays
  <1>5. \A i \in 1..Len(s) : s[i].replayed
    BY <1>1, <1>2, <1>3, LenProperties DEF Past
  <1>6. MaxReplay = 0 => s = << >>
    BY <1>1, <1>3, LenProperties, EmptySeq
  <1> QED BY <1>3, <1>4, <1>5, <1>6 DEF Past, OfProtocol, Ordered

(* The initial state. *)
LEMMA InitIInv == Init => IInv
  <1> SUFFICES ASSUME Init PROVE IInv
    OBVIOUS
  <1>1. \A p \in Pools : 0 \in Versions /\ 1 \in Versions
    BY VersionFacts
  <1>2. TypeOK
    <2>1. << >> \in Seq(Updates) /\ Len(<< >>) <= DataCap /\ Len(<< >>) <= WriteCap
      BY SmallQueues, PipelineAssumption
    <2> QED BY <1>1, <2>1 DEF Init, TypeOK
  <1>3. Control
    BY SmallQueues DEF Init, Control, Delivered
  <1>4. DataInv
    BY SmallQueues, OrderedEmpty
       DEF Init, DataInv, BehindCache, BeforeCache, AtListener, AtFetch, OnChain,
           Behind, Received, Delivered, Before, Kept
  <1>6. DrainInv
    BY SmallQueues DEF Init, DrainInv, DrainIsComplete
  <1> QED BY <1>2, <1>3, <1>4, <1>6 DEF IInv

----------------------------------------------------------------------------
(* Every step keeps the types. *)
LEMMA TypeStep == TypeOK /\ Control /\ [Next]_vars => TypeOK'
  <1> SUFFICES ASSUME TypeOK, Control, [Next]_vars PROVE TypeOK'
    OBVIOUS
  <1> USE DEF TypeOK, listenerVars, updaterVars, writerVars
  <1>1. ASSUME NEW p \in Pools, Swap(p) PROVE TypeOK'
    <2>1. chain[p] + 1 \in Versions
      <3>1. chain[p] \in Nat /\ MaxVersion[p] \in Nat /\ chain[p] < MaxVersion[p]
        BY <1>1, VersionFacts DEF Swap
      <3>2. chain[p] + 1 \in 0..MaxVersion[p]
        BY <3>1
      <3> QED BY <3>2, VersionFacts
    <2>2. News(p, chain[p] + 1) \in Updates
      BY <2>1 DEF Updates, News
    <2>3. \A pr \in Protocols :
            Append(logs[pr], News(p, chain[p] + 1)) \in Seq(Updates)
      BY <2>2, QueueAppend
    <2>4. chain' = [chain EXCEPT ![p] = chain[p] + 1] /\ chain'[p] = chain[p] + 1
      BY <1>1 DEF Swap
    <2>5. logs' \in [Protocols -> Seq(Updates)]
      <3>1. ProtocolOf[p] \in Protocols
        BY VersionFacts
      <3>2. CASE logs' = logs
        BY <3>2
      <3>3. CASE logs' = [logs EXCEPT ![ProtocolOf[p]] =
                            Append(@, News(p, chain'[p]))]
        BY <2>3, <2>4, <3>1, <3>3
      <3> QED BY <1>1, <3>2, <3>3 DEF Swap
    <2>6. chain' \in [Pools -> Versions]
      BY <2>1, <2>4
    <2> QED BY <1>1, <2>5, <2>6 DEF Swap
  <1>2. ASSUME NEW p \in Pools, Fetch(p) PROVE TypeOK'
    <2>0. 0 \in Versions
      BY VersionFacts
    <2>1. CASE FetchPool(p)
      BY <2>1 DEF FetchPool
    <2>2. CASE SendInitial(p)
      <3>1. News(p, fetched[p]) \in Updates
        BY DEF Updates, News
      <3>2. processed' \in Seq(Updates) /\ Len(processed') <= DataCap
        BY <2>2, <3>1, QueueAppend, QueueType, PipelineAssumption DEF SendInitial
      <3>3. fetched' \in [Pools -> Versions]
        BY <2>0, <2>2 DEF SendInitial
      <3> QED BY <2>2, <3>2, <3>3 DEF SendInitial
    <2>3. CASE GiveUpFetch(p)
      <3>1. fetched' \in [Pools -> Versions]
        BY <2>0, <2>3 DEF GiveUpFetch
      <3> QED BY <2>3, <3>1 DEF GiveUpFetch
    <2> QED BY <1>2, <2>1, <2>2, <2>3 DEF Fetch
  <1>3. ASSUME NEW pr \in Protocols, Manage(pr) PROVE TypeOK'
    <2>1. CASE TakeSignal(pr)
      BY <2>1 DEF TakeSignal
    <2>2. CASE StartListener(pr)
      BY <2>2 DEF StartListener
    <2>3. CASE StopManager(pr)
      BY <2>3 DEF StopManager
    <2> QED BY <1>3, <2>1, <2>2, <2>3 DEF Manage
  <1>4. ASSUME NEW pr \in Protocols, Listen(pr) PROVE TypeOK'
    <2>1. CASE Subscribe(pr)
      <3>1. PICK s \in {<< >>} \cup Replays(pr) : logs' = [logs EXCEPT ![pr] = s]
        BY <2>1 DEF Subscribe
      <3>2. s \in Seq(Updates)
        BY <3>1, ReplayFacts, SmallQueues
      <3> QED BY <2>1, <3>1, <3>2 DEF Subscribe
    <2>2. CASE TakeLog(pr)
      <3>1. Head(logs[pr]) \in Updates /\ Tail(logs[pr]) \in Seq(Updates)
        BY <2>2, QueueTail DEF TakeLog
      <3>2. <<Head(logs[pr])>> \in Seq(Updates)
        BY <3>1, SmallQueues
      <3> QED BY <2>2, <3>1, <3>2 DEF TakeLog
    <2>3. CASE SendEvent(pr)
      <3>1. PICK u \in Updates : event[pr] = <<u>>
        BY <2>3 DEF SendEvent, Control
      <3>2. processed' \in Seq(Updates) /\ Len(processed') <= DataCap
        BY <2>3, <3>1, QueueAppend, QueueType, PipelineAssumption DEF SendEvent
      <3> QED BY <2>3, <3>2, SmallQueues DEF SendEvent
    <2>4. CASE EndListener(pr)
      BY <2>4, SmallQueues DEF EndListener
    <2> QED BY <1>4, <2>1, <2>2, <2>3, <2>4 DEF Listen
  <1>5. ASSUME RunUpdater PROVE TypeOK'
    <2>1. CASE UpdateCache
      <3>1. /\ Head(processed) \in Updates /\ Tail(processed) \in Seq(Updates)
            /\ Len(Tail(processed)) <= DataCap
        BY <2>1, QueueTail, QueueType, PipelineAssumption DEF UpdateCache
      <3>2. <<Head(processed)>> \in Seq(Updates) /\ Head(processed).version \in Versions
        BY <3>1, SmallQueues DEF Updates
      <3> QED BY <2>1, <3>1, <3>2 DEF UpdateCache
    <2>2. CASE Forward
      <3>1. PICK u \in Updates : item = <<u>>
        BY <2>2 DEF Forward, Control
      <3>2. dbWrite' \in Seq(Updates) /\ Len(dbWrite') <= WriteCap
        BY <2>2, <3>1, QueueAppend, QueueType, PipelineAssumption DEF Forward
      <3> QED BY <2>2, <3>2, SmallQueues DEF Forward
    <2>3. CASE Discard
      BY <2>3, SmallQueues DEF Discard
    <2>4. CASE StopUpdater
      BY <2>4 DEF StopUpdater
    <2> QED BY <1>5, <2>1, <2>2, <2>3, <2>4 DEF RunUpdater
  <1>6. ASSUME RunWriter PROVE TypeOK'
    <2>1. CASE Save
      <3>1. /\ Head(dbWrite) \in Updates /\ Tail(dbWrite) \in Seq(Updates)
            /\ Len(Tail(dbWrite)) <= WriteCap
        BY <2>1, QueueTail, QueueType, PipelineAssumption DEF Save
      <3>2. Head(dbWrite).version \in Versions
        BY <3>1 DEF Updates
      <3>3. owed' \in Nat
        BY <2>1 DEF Save
      <3>4. stored' \in [Pools -> Versions]
        BY <2>1, <3>2 DEF Save
      <3> QED BY <2>1, <3>1, <3>3, <3>4 DEF Save
    <2>2. CASE StartDrain
      BY <2>2 DEF StartDrain
    <2>3. CASE EndDrain
      BY <2>3 DEF EndDrain
    <2> QED BY <1>6, <2>1, <2>2, <2>3 DEF RunWriter
  <1>7. ASSUME Shutdown PROVE TypeOK'
    BY <1>7, QueueType DEF Shutdown
  <1>8. ASSUME UNCHANGED vars PROVE TypeOK'
    BY <1>8 DEF vars
  <1> QED BY <1>1, <1>2, <1>3, <1>4, <1>5, <1>6, <1>7, <1>8 DEF Next

(* The drain. *)
LEMMA DrainStep == TypeOK /\ Control /\ DrainInv /\ [Next]_vars => DrainInv'
  <1> SUFFICES ASSUME TypeOK, Control, DrainInv, [Next]_vars PROVE DrainInv'
    OBVIOUS
  <1> USE DEF DrainInv, DrainIsComplete
  <1>1. owed \in Nat /\ Len(dbWrite) \in Nat
    BY QueueType DEF TypeOK
  <1>2. CASE Save
    <2>1. Len(dbWrite) >= 1 /\ Len(dbWrite') = Len(dbWrite) - 1
      BY <1>2, QueueTail DEF Save, TypeOK
    <2> QED BY <1>1, <1>2, <2>1 DEF Save
  <1>3. CASE Forward
    <2>1. PICK u \in Updates : item = <<u>>
      BY <1>3 DEF Forward, Control
    <2>2. Len(dbWrite') = Len(dbWrite) + 1
      BY <1>3, <2>1, QueueAppend DEF Forward, TypeOK
    <2> QED BY <1>1, <1>3, <2>2 DEF Forward, writerVars
  <1>4. CASE StartDrain
    BY <1>1, <1>4 DEF StartDrain
  <1>5. CASE EndDrain
    BY <1>1, <1>5, SmallQueues DEF EndDrain
  <1>6. CASE Shutdown
    BY <1>1, <1>6 DEF Shutdown, writerVars
  <1>7. CASE UNCHANGED <<dbWrite, writerVars, owed, shutdown>>
    BY <1>7 DEF writerVars
  <1>8. \/ UNCHANGED <<dbWrite, writerVars, owed, shutdown>>
        \/ Save \/ Forward \/ StartDrain \/ EndDrain \/ Shutdown
    BY DEF Next, Swap, Fetch, FetchPool, SendInitial, GiveUpFetch, Manage, TakeSignal,
       StartListener, StopManager, Listen, Subscribe, TakeLog, SendEvent, EndListener,
       RunUpdater, UpdateCache, Discard, StopUpdater, RunWriter, vars, writerVars
  <1> QED BY <1>2, <1>3, <1>4, <1>5, <1>6, <1>7, <1>8

----------------------------------------------------------------------------
(* Every step keeps the control. *)
LEMMA ControlStep == TypeOK /\ Control /\ [Next]_vars => Control'
  <1> SUFFICES ASSUME TypeOK, Control, [Next]_vars PROVE Control'
    OBVIOUS
  <1> DEFINE AtProtocol(pr) ==
               /\ listener[pr] = "send" => \E u \in Updates : event[pr] = <<u>>
               /\ listener[pr] # "send" => event[pr] = << >>
               /\ listener[pr] \in {"fetch", "stopped"} => logs[pr] = << >>
               /\ \A u \in Delivered(pr) : ProtocolOf[u.pool] = pr
             AtPool(p) == fetch[p] # "done" => listener[ProtocolOf[p]] = "fetch"
             AtUpdater == /\ updater = "forward" => \E u \in Updates : item = <<u>>
                          /\ updater # "forward" => item = << >>
  <1>0. /\ \A pr \in Protocols : AtProtocol(pr)
        /\ \A p \in Pools : AtPool(p)
        /\ AtUpdater
    BY DEF Control
  <1>z. ASSUME \A pr \in Protocols : AtProtocol(pr)', \A p \in Pools : AtPool(p)',
               AtUpdater'
        PROVE  Control'
    BY <1>z DEF Control
  <1>a. \A p \in Pools : ProtocolOf[p] \in Protocols
    BY VersionFacts
  <1>1. ASSUME NEW p \in Pools, Swap(p) PROVE Control'
    <2>1. AtUpdater' /\ \A q \in Pools : AtPool(q)'
      BY <1>0, <1>1 DEF Swap, updaterVars
    <2>2. ASSUME NEW pr \in Protocols PROVE AtProtocol(pr)'
      <3>1. CASE logs'[pr] = logs[pr]
        BY <1>0, <1>1, <3>1 DEF Swap, Delivered
      <3>2. CASE logs'[pr] # logs[pr]
        <4> DEFINE e == News(p, chain'[p])
        <4>1. /\ pr = ProtocolOf[p] /\ logs'[pr] = Append(logs[pr], e)
              /\ listener[pr] \in {"listen", "send"}
          BY <1>1, <3>2 DEF Swap, TypeOK
        <4>2. e \in Updates /\ e.pool = p
          <5>1. chain' \in [Pools -> Versions]
            BY TypeStep DEF TypeOK
          <5> QED BY <5>1 DEF Updates, News
        <4>3. Range(logs'[pr]) = Range(logs[pr]) \cup {e}
          BY <4>1, <4>2, QueueAppend DEF TypeOK
        <4>4. \A u \in Delivered(pr)' : ProtocolOf[u.pool] = pr
          BY <1>0, <1>1, <4>1, <4>2, <4>3 DEF Swap, Delivered
        <4> QED BY <1>0, <1>1, <4>1, <4>4 DEF Swap
      <3> QED BY <3>1, <3>2
    <2> QED BY <1>z, <2>1, <2>2
  <1>2. ASSUME NEW p \in Pools, Fetch(p) PROVE Control'
    <2>1. /\ UNCHANGED <<listener, logs, event, updater, item>>
          /\ fetch[p] # "done"
          /\ \A q \in Pools : q # p => fetch'[q] = fetch[q]
      BY <1>2 DEF Fetch, FetchPool, SendInitial, GiveUpFetch, updaterVars, TypeOK
    <2>2. ASSUME NEW pr \in Protocols PROVE AtProtocol(pr)'
      BY <1>0, <2>1 DEF Delivered
    <2>3. AtUpdater' /\ \A q \in Pools : AtPool(q)'
      BY <1>0, <2>1
    <2> QED BY <1>z, <2>2, <2>3
  <1>3. ASSUME NEW pr \in Protocols, Manage(pr) PROVE Control'
    <2>1. CASE StartListener(pr)
      <3>1. /\ UNCHANGED <<logs, event, updater, item>>
            /\ listener[pr] = "stopped" /\ listener'[pr] = "fetch"
            /\ \A x \in Protocols : x # pr => listener'[x] = listener[x]
            /\ \A p \in Pools : ProtocolOf[p] # pr => fetch'[p] = fetch[p]
        BY <2>1 DEF StartListener, Stopped, updaterVars, TypeOK
      <3>2. ASSUME NEW x \in Protocols PROVE AtProtocol(x)'
        BY <1>0, <3>1 DEF Delivered
      <3>3. ASSUME NEW p \in Pools PROVE AtPool(p)'
        BY <1>0, <1>a, <3>1
      <3>4. AtUpdater'
        BY <1>0, <3>1
      <3> QED BY <1>z, <3>2, <3>3, <3>4
    <2>2. CASE TakeSignal(pr) \/ StopManager(pr)
      <3>1. UNCHANGED <<listener, logs, event, fetch, updater, item>>
        BY <2>2 DEF TakeSignal, StopManager, listenerVars, updaterVars
      <3> QED BY <3>1 DEF Control, Delivered
    <2> QED BY <1>3, <2>1, <2>2 DEF Manage
  <1>4. ASSUME NEW pr \in Protocols, Listen(pr) PROVE Control'
    <2>1. /\ UNCHANGED <<fetch, updater, item>>
          /\ \A x \in Protocols : x # pr =>
               /\ listener'[x] = listener[x] /\ logs'[x] = logs[x]
               /\ event'[x] = event[x]
      BY <1>4 DEF Listen, Subscribe, TakeLog, SendEvent, EndListener, updaterVars, TypeOK
    <2>2. ASSUME NEW p \in Pools PROVE AtPool(p)'
      <3>1. fetch[p] # "done" /\ ProtocolOf[p] = pr => listener'[pr] = listener[pr]
        BY <1>0, <1>4 DEF Listen, Subscribe, TakeLog, SendEvent, EndListener, OfProtocol
      <3> QED BY <1>0, <1>a, <2>1, <3>1
    <2>3. ASSUME NEW x \in Protocols, x # pr PROVE AtProtocol(x)'
      BY <1>0, <2>1, <2>3 DEF Delivered
    <2>4. AtProtocol(pr)'
      <3>1. CASE Subscribe(pr)
        <4>1. PICK s \in {<< >>} \cup Replays(pr) : logs'[pr] = s
          BY <3>1 DEF Subscribe, TypeOK
        <4>2. /\ listener'[pr] = "listen" /\ event[pr] = << >> /\ event' = event
          BY <1>0, <3>1 DEF Subscribe, TypeOK
        <4>3. \A u \in Range(s) : ProtocolOf[u.pool] = pr
          BY <4>1, ReplayFacts, SmallQueues
        <4> QED BY <4>1, <4>2, <4>3, SmallQueues DEF Delivered
      <3>2. CASE TakeLog(pr)
        <4>1. /\ Head(logs[pr]) \in Updates
              /\ Range(logs[pr]) = {Head(logs[pr])} \cup Range(Tail(logs[pr]))
              /\ Range(<<Head(logs[pr])>>) = {Head(logs[pr])}
          BY <3>2, QueueTail, SmallQueues DEF TakeLog, TypeOK
        <4>2. logs'[pr] = Tail(logs[pr])
          BY <3>2 DEF TakeLog, TypeOK
        <4>3. CASE event'[pr] = <<Head(logs[pr])>> /\ listener'[pr] = "send"
          <5>1. \A u \in Delivered(pr)' : ProtocolOf[u.pool] = pr
            BY <1>0, <4>1, <4>2, <4>3 DEF Delivered
          <5> QED BY <4>1, <4>3, <5>1
        <4>4. CASE UNCHANGED <<event, listener>>
          BY <1>0, <3>2, <4>1, <4>2, <4>4 DEF Delivered, TakeLog
        <4> QED BY <3>2, <4>3, <4>4 DEF TakeLog, TypeOK
      <3>3. CASE SendEvent(pr)
        <4>1. /\ listener'[pr] = "listen" /\ event'[pr] = << >>
              /\ logs'[pr] = logs[pr]
          BY <3>3 DEF SendEvent, TypeOK
        <4> QED BY <1>0, <4>1, SmallQueues DEF Delivered
      <3>4. CASE EndListener(pr)
        <4>1. /\ listener'[pr] = "stopped" /\ event'[pr] = << >>
              /\ logs'[pr] = << >>
          BY <3>4 DEF EndListener, TypeOK
        <4> QED BY <4>1, SmallQueues DEF Delivered
      <3> QED BY <1>4, <3>1, <3>2, <3>3, <3>4 DEF Listen
    <2>5. AtUpdater'
      BY <1>0, <2>1
    <2> QED BY <1>z, <2>2, <2>3, <2>4, <2>5
  <1>5. ASSUME RunUpdater PROVE Control'
    <2>1. UNCHANGED <<listener, logs, event, fetch>>
      BY <1>5 DEF RunUpdater, UpdateCache, Forward, Discard, StopUpdater, listenerVars
    <2>2. AtUpdater'
      <3>1. processed # << >> => Head(processed) \in Updates
        BY QueueTail DEF TypeOK
      <3>2. CASE UpdateCache
        BY <3>1, <3>2 DEF UpdateCache
      <3>3. CASE Forward \/ Discard
        BY <3>3 DEF Forward, Discard
      <3>4. CASE StopUpdater
        BY <1>0, <3>4 DEF StopUpdater
      <3> QED BY <1>5, <3>2, <3>3, <3>4 DEF RunUpdater
    <2>3. ASSUME NEW pr \in Protocols PROVE AtProtocol(pr)'
      BY <1>0, <2>1 DEF Delivered
    <2>4. \A q \in Pools : AtPool(q)'
      BY <1>0, <2>1
    <2> QED BY <1>z, <2>2, <2>3, <2>4
  <1>6. ASSUME RunWriter \/ Shutdown \/ UNCHANGED vars PROVE Control'
    <2>1. UNCHANGED <<listener, logs, event, fetch, updater, item>>
      BY <1>6 DEF RunWriter, Save, StartDrain, EndDrain, Shutdown, vars, listenerVars,
                  updaterVars
    <2> QED BY <2>1 DEF Control, Delivered
  <1> QED BY <1>1, <1>2, <1>3, <1>4, <1>5, <1>6 DEF Next

----------------------------------------------------------------------------
(* What is where is an update of some pool with some version. *)
LEMMA Typed ==
  ASSUME TypeOK
  PROVE  /\ \A u \in Updates : u.pool \in Pools /\ u.version \in Nat
         /\ \A p \in Pools : /\ memCache[p] \in Nat /\ stored[p] \in Nat
                             /\ chain[p] \in Nat /\ fetched[p] \in Nat
                             /\ ProtocolOf[p] \in Protocols
                             /\ News(p, fetched[p]) \in Updates
         /\ Received \subseteq Updates /\ Behind \subseteq Received
         /\ Range(processed) \subseteq Received
         /\ \A pr \in Protocols : Delivered(pr) \subseteq Updates
  BY VersionFacts, QueueType DEF TypeOK, Updates, Delivered, Behind, Received, News

(* The chain moves on. *)
LEMMA SwapStep ==
  ASSUME TypeOK, TypeOK', Control, DataInv, NEW p \in Pools, Swap(p)
  PROVE  DataInv'
  <1> DEFINE e == News(p, chain'[p])
  <1>1. /\ UNCHANGED <<fetch, fetched, event, processed, item, memCache, dbWrite, stored>>
        /\ UNCHANGED <<Behind, Received>>
        /\ chain'[p] = chain[p] + 1 /\ \A q \in Pools : q # p => chain'[q] = chain[q]
    BY DEF Swap, updaterVars, writerVars, TypeOK, Behind, Received
  <1>2. ASSUME NEW q \in Pools
        PROVE  chain[q] \in Nat /\ chain'[q] \in Nat /\ chain[q] <= chain'[q]
    <2>1. CASE q = p
      BY <1>1, <2>1, Typed
    <2>2. CASE q # p
      BY <1>1, <2>2, Typed
    <2> QED BY <2>1, <2>2
  <1>3. e \in Updates /\ e.pool = p /\ e.version = chain'[p]
    BY <1>1 DEF TypeOK, Updates, News
  <1>4. BehindCache' /\ BeforeCache'
    BY <1>1 DEF DataInv, BehindCache, BeforeCache, Before, Kept
  <1>5. ASSUME NEW q \in Pools PROVE AtFetch(q)'
    BY <1>1, <1>2, Typed DEF DataInv, AtFetch
  <1>6. /\ \A q \in Pools : memCache[q] <= chain'[q] /\ stored[q] <= chain'[q]
        /\ \A u \in Received : u.version <= chain'[u.pool]
        /\ \A pr \in Protocols : \A u \in Delivered(pr) : u.version <= chain'[u.pool]
    <2>1. ASSUME NEW u \in Updates, u.version <= chain[u.pool]
          PROVE  u.version <= chain'[u.pool]
      BY <1>2, <2>1, Typed
    <2>2. ASSUME NEW q \in Pools PROVE memCache[q] <= chain'[q] /\ stored[q] <= chain'[q]
      BY <1>2, Typed DEF DataInv, OnChain
    <2> QED BY <2>1, <2>2, Typed DEF DataInv, OnChain
  <1>7. ASSUME NEW pr \in Protocols
        PROVE  /\ AtListener(pr)'
               /\ \A u \in Delivered(pr)' : u.version <= chain'[u.pool]
    <2>1. AtListener(pr)
      BY DEF DataInv
    <2>2. CASE logs'[pr] = logs[pr]
      <3>1. Delivered(pr)' = Delivered(pr)
        BY <1>1, <2>2 DEF Delivered
      <3> QED BY <1>1, <1>6, <2>1, <2>2, <3>1 DEF AtListener, Before, Kept
    <2>3. CASE logs'[pr] = Append(logs[pr], e)
      <3>1. /\ Range(logs'[pr]) = Range(logs[pr]) \cup {e}
            /\ Delivered(pr)' = Delivered(pr) \cup {e}
        BY <1>1, <1>3, <2>3, QueueAppend DEF Delivered, TypeOK
      <3>2. Before(Delivered(pr), {e}) /\ Before(Received, {e}) /\ Kept({e})
        BY <1>3, <1>6 DEF Before, Kept
      <3>3. Before(Range(logs[pr]), {e}) /\ Before(Range(event[pr]), {e})
        BY <3>2 DEF Before, Delivered
      <3>4. Ordered(logs'[pr])
        BY <1>3, <2>1, <2>3, <3>3, OrderedAppend DEF AtListener, TypeOK
      <3>5. Before(Range(event'[pr]), Range(logs'[pr]))
        BY <1>1, <2>1, <3>1, <3>3 DEF AtListener, Before
      <3>6. Before(Received', Delivered(pr)')
        BY <1>1, <2>1, <3>1, <3>2 DEF AtListener, Before
      <3>7. Kept(Delivered(pr))'
        BY <1>1, <2>1, <3>1, <3>2 DEF AtListener, Kept
      <3>8. \A u \in Delivered(pr)' : u.version <= chain'[u.pool]
        BY <1>2, <1>3, <1>6, <3>1
      <3> QED BY <3>4, <3>5, <3>6, <3>7, <3>8 DEF AtListener, Kept
    <2> QED BY <2>2, <2>3 DEF Swap, TypeOK
  <1>8. OnChain'
    BY <1>1, <1>6, <1>7 DEF OnChain
  <1> QED BY <1>4, <1>5, <1>7, <1>8 DEF DataInv

(* A pool is fetched. *)
LEMMA FetchStep ==
  ASSUME TypeOK, TypeOK', Control, DataInv, NEW p \in Pools, Fetch(p)
  PROVE  DataInv'
  <1>0. /\ UNCHANGED <<chain, logs, event, item, memCache, dbWrite, stored>>
        /\ UNCHANGED Behind /\ \A pr \in Protocols : UNCHANGED Delivered(pr)
        /\ \A q \in Pools : q # p => fetch'[q] = fetch[q] /\ fetched'[q] = fetched[q]
    BY DEF Fetch, FetchPool, SendInitial, GiveUpFetch, updaterVars, writerVars, TypeOK,
           Behind, Delivered
  <1>1. BehindCache'
    BY <1>0 DEF DataInv, BehindCache, Before
  <1>2. CASE FetchPool(p) \/ GiveUpFetch(p)
    <2>1. UNCHANGED <<processed, Received>>
      BY <1>0, <1>2 DEF FetchPool, GiveUpFetch, Received
    <2>2. BeforeCache' /\ OnChain' /\ \A pr \in Protocols : AtListener(pr)'
      BY <1>0, <2>1 DEF DataInv, BeforeCache, AtListener, OnChain, Before, Kept
    <2>3. \/ fetch'[p] = "done"
          \/ fetched'[p] = chain[p]
      BY <1>2 DEF FetchPool, GiveUpFetch, TypeOK
    <2>4. /\ chain[p] <= chain[p] /\ memCache[p] <= chain[p] /\ stored[p] <= chain[p]
          /\ \A u \in Received : u.pool = p => u.version <= chain[p]
      BY Typed DEF DataInv, OnChain
    <2>5. AtFetch(p)'
      BY <1>0, <2>1, <2>3, <2>4 DEF AtFetch
    <2>6. ASSUME NEW q \in Pools, q # p PROVE AtFetch(q)'
      BY <1>0, <2>1, <2>6 DEF DataInv, AtFetch
    <2> QED BY <1>1, <2>2, <2>5, <2>6 DEF DataInv
  <1>3. CASE SendInitial(p)
    <2> DEFINE e == News(p, fetched[p])
    <2>1. /\ processed' = Append(processed, e)
          /\ fetch[p] = "send" /\ fetch'[p] = "done"
      BY <1>3 DEF SendInitial, TypeOK
    <2>2. e \in Updates /\ e.pool = p /\ e.version = fetched[p]
      BY Typed DEF News
    <2>3. Range(processed') = Range(processed) \cup {e} /\ Received' = Received \cup {e}
      BY <1>0, <2>1, <2>2, QueueAppend DEF TypeOK, Received
    <2>4. /\ Before(Received, {e}) /\ Kept({e}) /\ e.version <= chain[p]
      BY <2>1, <2>2 DEF DataInv, AtFetch, Before, Kept
    <2>5. Before(Behind, {e}) /\ Before(Range(processed), {e})
      BY <2>4, Typed DEF Before
    <2>6. BeforeCache'
      <3>1. Ordered(processed')
        BY <2>1, <2>2, <2>5, OrderedAppend DEF DataInv, BeforeCache, TypeOK
      <3> QED BY <1>0, <2>3, <2>4, <2>5, <3>1 DEF DataInv, BeforeCache, Before, Kept
    <2>7. ASSUME NEW pr \in Protocols PROVE AtListener(pr)'
      <3>1. ASSUME NEW v \in Delivered(pr), v.pool = p PROVE FALSE
        <4>1. pr = ProtocolOf[p] /\ listener[pr] = "fetch"
          BY <2>1, <3>1 DEF Control
        <4>2. Delivered(pr) = {}
          BY <4>1, SmallQueues DEF Control, Delivered
        <4> QED BY <4>2
      <3>2. Before(Received', Delivered(pr))
        BY <2>2, <2>3, <3>1 DEF DataInv, AtListener, Before
      <3> QED BY <1>0, <3>2 DEF DataInv, AtListener, Kept
    <2>8. ASSUME NEW q \in Pools PROVE AtFetch(q)'
      <3>1. CASE q = p
        BY <2>1, <3>1 DEF AtFetch
      <3>2. CASE q # p
        BY <1>0, <2>2, <2>3, <3>2 DEF DataInv, AtFetch
      <3> QED BY <3>1, <3>2
    <2>9. OnChain'
      BY <1>0, <2>2, <2>3, <2>4 DEF DataInv, OnChain
    <2> QED BY <1>1, <2>6, <2>7, <2>8, <2>9 DEF DataInv
  <1> QED BY <1>2, <1>3 DEF Fetch

(* A manager works; the data stays where it is. *)
LEMMA ManageStep ==
  ASSUME TypeOK, TypeOK', Control, DataInv, NEW pr \in Protocols, Manage(pr)
  PROVE  DataInv'
  <1>1. /\ UNCHANGED <<chain, fetched, logs, event, processed, item, memCache, dbWrite,
                       stored, Behind, Received>>
        /\ \A x \in Protocols : UNCHANGED Delivered(x)
        /\ \A p \in Pools : fetch'[p] = "send" => fetch[p] = "send"
    BY DEF Manage, TakeSignal, StartListener, StopManager, listenerVars, updaterVars,
           writerVars, TypeOK, Behind, Received, Delivered
  <1>2. BehindCache' /\ BeforeCache' /\ OnChain' /\ \A x \in Protocols : AtListener(x)'
    BY <1>1 DEF DataInv, BehindCache, BeforeCache, AtListener, OnChain, Before, Kept
  <1>3. \A p \in Pools : AtFetch(p)'
    BY <1>1 DEF DataInv, AtFetch
  <1> QED BY <1>2, <1>3 DEF DataInv

(* A listener sends an event. *)
LEMMA SendStep ==
  ASSUME TypeOK, TypeOK', Control, DataInv, NEW pr \in Protocols, SendEvent(pr)
  PROVE  DataInv'
  <1>1. PICK e \in Updates : event[pr] = <<e>>
    BY DEF SendEvent, Control
  <1>2. /\ UNCHANGED <<chain, fetch, fetched, logs, item, memCache, dbWrite, stored,
                       Behind>>
        /\ processed' = Append(processed, e)
        /\ event'[pr] = << >> /\ \A x \in Protocols : x # pr => event'[x] = event[x]
    BY <1>1, QueueAppend DEF SendEvent, updaterVars, writerVars, TypeOK, Behind
  <1>3. /\ Range(processed') = Range(processed) \cup {e}
        /\ Received' = Received \cup {e}
        /\ Range(event[pr]) = {e} /\ e \in Delivered(pr)
    BY <1>1, <1>2, QueueAppend, SmallQueues DEF TypeOK, Delivered, Received
  <1>4. /\ Before(Received, {e}) /\ Kept({e}) /\ e.version <= chain[e.pool]
        /\ ProtocolOf[e.pool] = pr
    BY <1>3 DEF DataInv, AtListener, OnChain, Before, Kept, Control
  <1>5. Before(Behind, {e}) /\ Before(Range(processed), {e})
    BY <1>4, Typed DEF Before
  <1>6. BehindCache'
    BY <1>2 DEF DataInv, BehindCache, Before
  <1>7. BeforeCache'
    <2>1. Ordered(processed')
      BY <1>2, <1>5, OrderedAppend DEF DataInv, BeforeCache, TypeOK
    <2> QED BY <1>2, <1>3, <1>4, <1>5, <2>1 DEF DataInv, BeforeCache, Before, Kept
  <1>8. ASSUME NEW x \in Protocols
        PROVE  AtListener(x)' /\ Delivered(x)' \subseteq Delivered(x)
    <2>1. CASE x = pr
      <3>1. Delivered(x)' = Range(logs[pr]) /\ Range(event'[x]) = {}
        BY <1>2, <2>1, SmallQueues DEF Delivered
      <3>2. /\ Ordered(logs[pr]) /\ Before({e}, Range(logs[pr]))
            /\ Before(Received, Range(logs[pr])) /\ Kept(Range(logs[pr]))
        BY <1>3 DEF DataInv, AtListener, Before, Kept, Delivered
      <3>3. Before(Received', Delivered(x)') /\ Before(Range(event'[x]), Range(logs'[x]))
        BY <1>2, <1>3, <2>1, <3>1, <3>2 DEF Before
      <3> QED BY <1>2, <2>1, <3>1, <3>2, <3>3 DEF AtListener, Kept, Delivered
    <2>2. CASE x # pr
      <3>1. Delivered(x)' = Delivered(x) /\ event'[x] = event[x]
        BY <1>2, <2>2 DEF Delivered
      <3>2. \A u \in Delivered(x) : u.pool # e.pool
        BY <1>4, <2>2 DEF Control
      <3>3. Before(Received', Delivered(x)')
        BY <1>3, <3>1, <3>2 DEF DataInv, AtListener, Before
      <3> QED BY <1>2, <3>1, <3>3 DEF DataInv, AtListener, Before, Kept
    <2> QED BY <2>1, <2>2
  <1>9. ASSUME NEW q \in Pools PROVE AtFetch(q)'
    <2>1. fetch[q] = "send" => q # e.pool
      BY <1>4 DEF SendEvent, Control
    <2> QED BY <1>2, <1>3, <2>1 DEF DataInv, AtFetch
  <1>10. OnChain'
    BY <1>2, <1>3, <1>4, <1>8 DEF DataInv, OnChain
  <1> QED BY <1>6, <1>7, <1>8, <1>9, <1>10 DEF DataInv

(* A listener subscribes, takes a log, or returns. *)
LEMMA ListenStep ==
  ASSUME TypeOK, TypeOK', Control, DataInv, NEW pr \in Protocols, Listen(pr)
  PROVE  DataInv'
  <1>1. CASE SendEvent(pr)
    BY <1>1, SendStep
  <1>2. CASE Subscribe(pr) \/ TakeLog(pr) \/ EndListener(pr)
    <2>0. UNCHANGED <<chain, fetch, fetched, processed, item, memCache, dbWrite, stored>>
      BY <1>2 DEF Subscribe, TakeLog, EndListener, updaterVars, writerVars
    <2>1. /\ UNCHANGED <<chain, fetch, fetched, processed, item, memCache, dbWrite, stored,
                         Behind, Received>>
          /\ \A x \in Protocols : x # pr => logs'[x] = logs[x] /\ event'[x] = event[x]
      <3>1. \E s : logs' = [logs EXCEPT ![pr] = s]
        BY <1>2 DEF Subscribe, TakeLog, EndListener
      <3>2. \/ event' = event
            \/ \E s : event' = [event EXCEPT ![pr] = s]
        BY <1>2 DEF Subscribe, TakeLog, EndListener
      <3> QED BY <2>0, <3>1, <3>2 DEF TypeOK, Behind, Received
    <2>2. BehindCache' /\ BeforeCache' /\ \A q \in Pools : AtFetch(q)'
      BY <2>1 DEF DataInv, BehindCache, BeforeCache, AtFetch, Before, Kept
    <2>3. AtListener(pr)
      BY DEF DataInv
    <2>4. /\ Ordered(logs'[pr]) /\ Before(Range(event'[pr]), Range(logs'[pr]))
          /\ \A u \in Delivered(pr)' :
               u \in Delivered(pr) \/ (u.replayed /\ u.version <= chain[u.pool])
      <3>1. CASE Subscribe(pr)
        <4>1. PICK s \in {<< >>} \cup Replays(pr) : logs'[pr] = s
          BY <3>1 DEF Subscribe, TypeOK
        <4>2. event'[pr] = << >>
          BY <3>1 DEF Subscribe, Control
        <4>3. /\ Ordered(s)
              /\ \A u \in Range(s) : u.replayed /\ u.version <= chain[u.pool]
          BY <4>1, ReplayFacts, SmallQueues, OrderedEmpty
        <4> QED BY <4>1, <4>2, <4>3, SmallQueues DEF Before, Delivered
      <3>2. CASE TakeLog(pr)
        <4> DEFINE h == Head(logs[pr])
        <4>1. /\ logs[pr] \in Seq(Updates) /\ logs[pr] # << >>
              /\ logs'[pr] = Tail(logs[pr])
              /\ event'[pr] \in {<<h>>, event[pr]} /\ event[pr] = << >>
          BY <3>2 DEF TakeLog, TypeOK, Control
        <4>2. /\ Ordered(Tail(logs[pr])) /\ h \in Updates
              /\ Before({h}, Range(Tail(logs[pr])))
              /\ Range(logs[pr]) = {h} \cup Range(Tail(logs[pr]))
          BY <2>3, <4>1, OrderedTail, QueueTail DEF AtListener
        <4>3. Range(event'[pr]) \subseteq {h}
          BY <4>1, <4>2, SmallQueues
        <4> QED BY <4>1, <4>2, <4>3 DEF Before, Delivered
      <3>3. CASE EndListener(pr)
        <4>1. logs'[pr] = << >> /\ event'[pr] = << >>
          BY <3>3 DEF EndListener, TypeOK
        <4> QED BY <4>1, SmallQueues, OrderedEmpty DEF Before, Delivered
      <3> QED BY <1>2, <3>1, <3>2, <3>3
    <2>5. ASSUME NEW x \in Protocols
          PROVE  /\ AtListener(x)'
                 /\ \A u \in Delivered(x)' : u.version <= chain'[u.pool]
      <3>1. CASE x = pr
        <4>1. Before(Received', Delivered(pr)')
          BY <2>1, <2>3, <2>4 DEF AtListener, Before
        <4>2. Kept(Delivered(pr))'
          BY <2>1, <2>3, <2>4 DEF AtListener, Kept
        <4>3. \A u \in Delivered(pr)' : u.version <= chain'[u.pool]
          BY <2>1, <2>4 DEF DataInv, OnChain
        <4> QED BY <2>4, <3>1, <4>1, <4>2, <4>3 DEF AtListener
      <3>2. CASE x # pr
        <4>1. Delivered(x)' = Delivered(x)
          BY <2>1, <3>2 DEF Delivered
        <4> QED BY <2>1, <3>2, <4>1 DEF DataInv, AtListener, OnChain, Kept
      <3> QED BY <3>1, <3>2
    <2>6. OnChain'
      BY <2>1, <2>5 DEF DataInv, OnChain
    <2> QED BY <2>2, <2>5, <2>6 DEF DataInv
  <1> QED BY <1>1, <1>2 DEF Listen

(* The cache updater works. *)
LEMMA UpdaterStep ==
  ASSUME TypeOK, TypeOK', Control, DataInv, RunUpdater
  PROVE  DataInv'
  <1>1. CASE UpdateCache
    <2> DEFINE h == Head(processed)
    <2>1. /\ UNCHANGED <<chain, fetch, fetched, logs, event, dbWrite, stored>>
          /\ processed # << >> /\ processed' = Tail(processed) /\ item' = <<h>>
          /\ item = << >> /\ \A pr \in Protocols : UNCHANGED Delivered(pr)
      BY <1>1 DEF UpdateCache, listenerVars, writerVars, Control, Delivered
    <2>2. /\ h \in Updates /\ Range(processed) = {h} \cup Range(Tail(processed))
          /\ Ordered(Tail(processed)) /\ Before({h}, Range(Tail(processed)))
          /\ Range(item') = {h}
      BY <2>1, QueueTail, OrderedTail, SmallQueues DEF TypeOK, DataInv, BeforeCache
    <2>3. /\ Behind' = Range(dbWrite) \cup {h} /\ Range(dbWrite) \subseteq Behind
          /\ Received' \subseteq Received /\ h \in Received
      BY <2>1, <2>2 DEF Behind, Received
    <2>4. /\ h.pool \in Pools /\ memCache'[h.pool] = h.version
          /\ \A q \in Pools : q # h.pool => memCache'[q] = memCache[q]
      BY <1>1, <2>2 DEF UpdateCache, TypeOK, Updates
    <2>5. BehindCache'
      <3>1. Before(Range(dbWrite), {h}) /\ Kept({h})
        BY <2>2, <2>3 DEF DataInv, BeforeCache, Before, Kept
      <3>2. ASSUME NEW u \in Behind', ~u.replayed PROVE stored[u.pool] <= u.version
        BY <2>3, <3>1, <3>2 DEF DataInv, BehindCache, Kept
      <3> QED BY <2>1, <2>2, <3>1, <3>2 DEF DataInv, BehindCache
    <2>7. BeforeCache'
      <3>1. /\ Range(Tail(processed)) \subseteq Updates
            /\ Kept(Range(Tail(processed)))
        BY <2>2, Typed DEF DataInv, BeforeCache, Kept
      <3>2. Kept(Range(processed))'
        BY <2>1, <2>2, <2>4, <3>1, Typed DEF Before, Kept
      <3>3. Before(Behind', Range(Tail(processed)))
        BY <2>2, <2>3 DEF DataInv, BeforeCache, Before
      <3> QED BY <2>1, <2>2, <3>2, <3>3 DEF BeforeCache
    <2>8. ASSUME NEW pr \in Protocols PROVE AtListener(pr)'
      <3>1. /\ Before(Received, Delivered(pr)) /\ Kept(Delivered(pr))
            /\ Delivered(pr) \subseteq Updates
        BY Typed DEF DataInv, AtListener
      <3>2. Kept(Delivered(pr))' /\ Before(Received', Delivered(pr)')
        BY <2>1, <2>3, <2>4, <3>1, Typed DEF Before, Kept
      <3> QED BY <2>1, <3>2 DEF DataInv, AtListener
    <2>9. ASSUME NEW q \in Pools PROVE AtFetch(q)'
      BY <2>1, <2>3, <2>4 DEF DataInv, AtFetch
    <2>10. OnChain'
      BY <2>1, <2>3, <2>4 DEF DataInv, OnChain
    <2> QED BY <2>5, <2>7, <2>8, <2>9, <2>10 DEF DataInv
  <1>2. CASE Forward
    <2>1. PICK e \in Updates : item = <<e>>
      BY <1>2 DEF Forward, Control
    <2>2. /\ UNCHANGED <<chain, fetch, fetched, logs, event, processed, memCache, stored>>
          /\ dbWrite' = Append(dbWrite, e) /\ item' = << >>
          /\ Range(dbWrite') = Range(dbWrite) \cup {e} /\ Range(item) = {e}
      BY <1>2, <2>1, QueueAppend, SmallQueues DEF Forward, listenerVars, writerVars, TypeOK
    <2>3. UNCHANGED <<Behind, Received>> /\ \A pr \in Protocols : UNCHANGED Delivered(pr)
      BY <2>2, SmallQueues DEF Behind, Received, Delivered
    <2>4. Ordered(dbWrite')
      <3>1. Before(Range(dbWrite), {e})
        BY <2>2 DEF DataInv, BehindCache
      <3> QED BY <2>2, <3>1, OrderedAppend DEF DataInv, BehindCache, TypeOK
    <2>5. BehindCache'
      BY <2>2, <2>3, <2>4, SmallQueues DEF DataInv, BehindCache, Before
    <2>6. /\ BeforeCache' /\ OnChain'
          /\ \A pr \in Protocols : AtListener(pr)'
          /\ \A p \in Pools : AtFetch(p)'
      BY <2>2, <2>3 DEF DataInv, BeforeCache, AtListener, AtFetch, OnChain, Before, Kept
    <2> QED BY <2>5, <2>6 DEF DataInv
  <1>3. CASE Discard \/ StopUpdater
    <2>1. /\ UNCHANGED <<chain, fetch, fetched, logs, event, processed, memCache, dbWrite,
                         stored>>
          /\ item' \in {<< >>, item}
          /\ \A pr \in Protocols : UNCHANGED Delivered(pr)
      BY <1>3 DEF Discard, StopUpdater, listenerVars, writerVars, Delivered
    <2>2. /\ Range(item') \subseteq Range(item)
          /\ Behind' \subseteq Behind /\ Received' \subseteq Received
      BY <2>1, SmallQueues DEF Behind, Received
    <2>3. BehindCache'
      BY <2>1, <2>2 DEF DataInv, BehindCache, Before
    <2>4. /\ BeforeCache' /\ OnChain'
          /\ \A pr \in Protocols : AtListener(pr)'
          /\ \A p \in Pools : AtFetch(p)'
      BY <2>1, <2>2 DEF DataInv, BeforeCache, AtListener, AtFetch, OnChain, Before, Kept
    <2> QED BY <2>3, <2>4 DEF DataInv
  <1> QED BY <1>1, <1>2, <1>3 DEF RunUpdater

(* The DB writer works, or the program is stopped. *)
LEMMA WriterStep ==
  ASSUME TypeOK, TypeOK', Control, DataInv, RunWriter \/ Shutdown \/ UNCHANGED vars
  PROVE  DataInv'
  <1>1. /\ UNCHANGED <<chain, fetch, fetched, logs, event, processed, memCache, item>>
        /\ \A pr \in Protocols : UNCHANGED Delivered(pr)
    BY DEF RunWriter, Save, StartDrain, EndDrain, Shutdown, vars, listenerVars,
           updaterVars, Delivered
  <1>2. CASE UNCHANGED <<dbWrite, stored>>
    <2>1. UNCHANGED <<Behind, Received>>
      BY <1>1, <1>2 DEF Behind, Received
    <2> QED BY <1>1, <1>2, <2>1
            DEF DataInv, BehindCache, BeforeCache, AtListener, AtFetch, OnChain, Before, Kept
  <1>3. CASE Save
    <2> DEFINE h == Head(dbWrite)
    <2>1. /\ h \in Updates /\ h.pool \in Pools /\ dbWrite' = Tail(dbWrite)
          /\ Range(dbWrite) = {h} \cup Range(Tail(dbWrite))
          /\ Ordered(Tail(dbWrite)) /\ Before({h}, Range(Tail(dbWrite)))
      BY <1>3, QueueTail, OrderedTail, Typed DEF Save, TypeOK, DataInv, BehindCache
    <2>2. /\ h \in Behind /\ Behind' = Range(Tail(dbWrite)) \cup Range(item)
          /\ Behind' \subseteq Behind /\ Received' \subseteq Received
      BY <1>1, <2>1 DEF Behind, Received
    <2>3. \A q \in Pools : stored'[q] = stored[q] \/ (q = h.pool /\ stored'[q] = h.version)
      BY <1>3 DEF Save, TypeOK
    <2>4. /\ Before({h}, Range(item))
          /\ Before({h}, Range(processed))
          /\ \A pr \in Protocols : Before({h}, Delivered(pr))
      BY <2>1, <2>2 DEF DataInv, BehindCache, BeforeCache, AtListener, Before, Received
    <2>5. BehindCache'
      <3>1. ASSUME NEW u \in Behind', ~u.replayed PROVE stored'[u.pool] <= u.version
        <4>1. u \in Updates /\ u.pool \in Pools /\ stored[u.pool] <= u.version
          BY <2>2, <3>1, Typed DEF DataInv, BehindCache
        <4>2. u.pool = h.pool => h.version <= u.version
          BY <2>1, <2>2, <2>4, <3>1 DEF Before
        <4> QED BY <2>3, <4>1, <4>2
      <3>2. Before(Range(Tail(dbWrite)), Range(item))
        BY <2>1 DEF DataInv, BehindCache, Before
      <3> QED BY <1>1, <2>1, <3>1, <3>2 DEF BehindCache
    <2>6. BeforeCache'
      <3>1. Range(processed) \subseteq Updates
        BY Typed
      <3>2. Kept(Range(processed))'
        BY <1>1, <2>3, <2>4, <3>1, Typed DEF DataInv, BeforeCache, Before, Kept
      <3> QED BY <1>1, <2>2, <3>2 DEF DataInv, BeforeCache, Before
    <2>7. ASSUME NEW pr \in Protocols PROVE AtListener(pr)'
      <3>1. Kept(Delivered(pr)) /\ Delivered(pr) \subseteq Updates
        BY Typed DEF DataInv, AtListener
      <3>2. Kept(Delivered(pr))'
        BY <1>1, <2>3, <2>4, <3>1, Typed DEF Before, Kept
      <3>3. Before(Received', Delivered(pr)')
        BY <1>1, <2>2 DEF DataInv, AtListener, Before
      <3> QED BY <1>1, <3>2, <3>3 DEF DataInv, AtListener
    <2>8. ASSUME NEW q \in Pools PROVE AtFetch(q)'
      BY <1>1, <2>2, <2>3, Typed DEF DataInv, AtFetch
    <2>9. OnChain'
      <3>1. h.version <= chain[h.pool]
        BY <2>2, Typed DEF DataInv, OnChain
      <3> QED BY <1>1, <2>2, <2>3, <3>1 DEF DataInv, OnChain
    <2> QED BY <2>5, <2>6, <2>7, <2>8, <2>9 DEF DataInv
  <1> QED BY <1>2, <1>3 DEF RunWriter, StartDrain, EndDrain, Shutdown, vars, writerVars

----------------------------------------------------------------------------
(* The inductive invariant holds in every reachable state. *)
THEOREM Invariance == Spec => []IInv
  <1>1. IInv /\ [Next]_vars => IInv'
    <2> SUFFICES ASSUME IInv, [Next]_vars PROVE IInv'
      OBVIOUS
    <2>1. TypeOK' /\ Control' /\ DrainInv'
      BY TypeStep, ControlStep, DrainStep DEF IInv
    <2>2. TypeOK /\ Control /\ DataInv
      BY DEF IInv
    <2>3. DataInv'
      BY <2>1, <2>2, SwapStep, FetchStep, ManageStep, ListenStep, UpdaterStep, WriterStep
         DEF Next
    <2> QED BY <2>1, <2>3 DEF IInv
  <1> QED BY InitIInv, <1>1, PTL DEF Spec

(* Every variable keeps its type; no channel exceeds its capacity. *)
THEOREM TypeCorrect == Spec => []TypeOK
  <1>1. IInv => TypeOK
    BY DEF IInv
  <1> QED BY Invariance, <1>1, PTL

(* What was forwarded before the shutdown is taken before the DB writer    *)
(* returns.                                                                *)
THEOREM DrainComplete == Spec => []DrainIsComplete
  <1>1. IInv => DrainIsComplete
    BY DEF IInv, DrainInv
  <1> QED BY Invariance, <1>1, PTL

(* What takes the cache or the rows of a pool back. *)
GoesBack(p) ==
  /\ memCache'[p] < memCache[p] => /\ Head(processed) \in Received
                                  /\ Head(processed).replayed
  /\ stored'[p] < stored[p] => /\ Head(dbWrite) \in Received
                              /\ Head(dbWrite).replayed

LEMMA WhatGoesBack ==
  ASSUME IInv, [Next]_vars, NEW p \in Pools
  PROVE  GoesBack(p)
  <1>1. TypeOK /\ DataInv /\ memCache[p] \in Nat /\ stored[p] \in Nat
    BY Typed DEF IInv
  <1>2. CASE UpdateCache
    <2> DEFINE h == Head(processed)
    <2>1. /\ processed # << >> /\ stored' = stored
          /\ memCache' = [memCache EXCEPT ![h.pool] = h.version]
      BY <1>2 DEF UpdateCache, writerVars
    <2>2. h \in Range(processed) /\ h \in Updates
      BY <1>1, <2>1, QueueTail DEF TypeOK
    <2>3. h.version \in Nat /\ (~h.replayed => memCache[h.pool] <= h.version)
      BY <1>1, <2>2, Typed DEF DataInv, BeforeCache, Kept
    <2>4. memCache'[p] = memCache[p] \/ (p = h.pool /\ memCache'[p] = h.version)
      BY <1>1, <2>1 DEF TypeOK
    <2>5. h \in Received
      BY <2>2 DEF Received
    <2> QED BY <1>1, <2>1, <2>3, <2>4, <2>5 DEF GoesBack
  <1>3. CASE Save
    <2> DEFINE h == Head(dbWrite)
    <2>1. h \in Behind /\ h \in Updates
      BY <1>1, <1>3, QueueTail DEF Save, TypeOK, Behind
    <2>2. h.version \in Nat /\ (~h.replayed => stored[h.pool] <= h.version)
      BY <1>1, <2>1, Typed DEF DataInv, BehindCache
    <2>3. /\ memCache' = memCache
          /\ stored'[p] = stored[p] \/ (p = h.pool /\ stored'[p] = h.version)
      BY <1>1, <1>3 DEF Save, updaterVars, TypeOK
    <2>4. h \in Received
      BY <2>1 DEF Received
    <2> QED BY <1>1, <2>2, <2>3, <2>4 DEF GoesBack
  <1>4. CASE UNCHANGED <<memCache, stored>>
    BY <1>1, <1>4 DEF GoesBack
  <1>5. UpdateCache \/ Save \/ UNCHANGED <<memCache, stored>>
    BY DEF Next, Swap, Fetch, FetchPool, SendInitial, GiveUpFetch, Manage, TakeSignal,
       StartListener, StopManager, Listen, Subscribe, TakeLog, SendEvent, EndListener,
       RunUpdater, Forward, Discard, StopUpdater, RunWriter, StartDrain, EndDrain,
       Shutdown, updaterVars, writerVars, vars
  <1> QED BY <1>2, <1>3, <1>4, <1>5

(* Neither the cache nor the newest row of a pool goes back to older data, *)
(* except to a log of the past.                                            *)
THEOREM OnlyThePastGoesBack == Spec => OnlyReplaysGoBack
  <1>1. IInv /\ [Next]_vars =>
          [\A p \in Pools :
             /\ memCache'[p] < memCache[p] => Head(processed).replayed
             /\ stored'[p] < stored[p] => Head(dbWrite).replayed]_vars
    BY WhatGoesBack DEF GoesBack
  <1> QED BY <1>1, Invariance, PTL DEF Spec, OnlyReplaysGoBack

----------------------------------------------------------------------------
(* Nothing is ahead of the chain, and news of a pool is at least as new as *)
(* all that is nearer to the database: in processedDataChan, and on its    *)
(* way there from a listener.                                              *)
NewsInOrder ==
  /\ \A p \in Pools : stored[p] <= chain[p] /\ memCache[p] <= chain[p]
  /\ \A u \in Received : u.version <= chain[u.pool]
  /\ \A u \in Behind : ~u.replayed => stored[u.pool] <= u.version
  /\ Kept(Range(processed)) /\ Before(Behind, Range(processed))
  /\ \A pr \in Protocols : Kept(Delivered(pr)) /\ Before(Received, Delivered(pr))

(* No listener restart, replay of the past, failed insert or discarded     *)
(* update lets older data overtake news.                                   *)
THEOREM NewsNotOvertaken == Spec => []NewsInOrder
  <1>1. IInv => NewsInOrder
    BY DEF IInv, DataInv, BehindCache, BeforeCache, AtListener, OnChain, NewsInOrder
  <1> QED BY <1>1, Invariance, PTL

(* Without cfg.StartBlock no log of the past is anywhere ...               *)
NoPast ==
  /\ \A u \in Received : ~u.replayed
  /\ \A pr \in Protocols : \A u \in Delivered(pr) : ~u.replayed

LEMMA NoPastStep ==
  ASSUME MaxReplay = 0, TypeOK, TypeOK', Control, NoPast, [Next]_vars
  PROVE  NoPast'
  <1>1. ASSUME NEW p \in Pools, Swap(p) PROVE NoPast'
    <2> DEFINE e == News(p, chain'[p])
    <2>1. e \in Updates /\ ~e.replayed
      BY DEF TypeOK, Updates, News
    <2>2. UNCHANGED <<Received, event>>
      BY <1>1 DEF Swap, updaterVars, Behind, Received
    <2>3. ASSUME NEW pr \in Protocols PROVE Range(logs'[pr]) \subseteq Range(logs[pr]) \cup {e}
      <3>1. logs'[pr] \in {logs[pr], Append(logs[pr], e)}
        BY <1>1 DEF Swap, TypeOK
      <3> QED BY <2>1, <3>1, QueueAppend DEF TypeOK
    <2> QED BY <2>1, <2>2, <2>3 DEF NoPast, Delivered
  <1>2. ASSUME NEW p \in Pools, Fetch(p) PROVE NoPast'
    <2> DEFINE e == News(p, fetched[p])
    <2>1. e \in Updates /\ ~e.replayed
      BY Typed DEF News
    <2>2. UNCHANGED <<logs, event, dbWrite, item>> /\ processed' \in {processed, Append(processed, e)}
      BY <1>2 DEF Fetch, FetchPool, SendInitial, GiveUpFetch, updaterVars
    <2>3. Range(processed') \subseteq Range(processed) \cup {e}
      BY <2>1, <2>2, QueueAppend DEF TypeOK
    <2> QED BY <2>1, <2>2, <2>3 DEF NoPast, Delivered, Behind, Received
  <1>3. ASSUME NEW pr \in Protocols, Manage(pr) PROVE NoPast'
    BY <1>3 DEF Manage, TakeSignal, StartListener, StopManager, listenerVars, updaterVars,
                NoPast, Delivered, Behind, Received
  <1>4. ASSUME NEW pr \in Protocols, Listen(pr) PROVE NoPast'
    <2>1. /\ UNCHANGED <<dbWrite, item>>
          /\ \A x \in Protocols : x # pr => logs'[x] = logs[x] /\ event'[x] = event[x]
      <3>1. UNCHANGED <<dbWrite, item>>
        BY <1>4 DEF Listen, Subscribe, TakeLog, SendEvent, EndListener, updaterVars
      <3>2. logs' = logs \/ \E s : logs' = [logs EXCEPT ![pr] = s]
        BY <1>4 DEF Listen, Subscribe, TakeLog, SendEvent, EndListener
      <3>3. event' = event \/ \E s : event' = [event EXCEPT ![pr] = s]
        BY <1>4 DEF Listen, Subscribe, TakeLog, SendEvent, EndListener
      <3> QED BY <3>1, <3>2, <3>3 DEF TypeOK
    <2>2. /\ Range(processed') \subseteq Range(processed) \cup Delivered(pr)
          /\ Delivered(pr)' \subseteq Delivered(pr)
      <3>1. CASE Subscribe(pr)
        <4>1. logs'[pr] = << >> /\ UNCHANGED <<event, processed>>
          BY <3>1, ReplayFacts DEF Subscribe, TypeOK
        <4> QED BY <4>1, SmallQueues DEF Delivered
      <3>2. CASE TakeLog(pr)
        <4>1. /\ logs[pr] # << >> /\ logs'[pr] = Tail(logs[pr]) /\ processed' = processed
              /\ event'[pr] \in {<<Head(logs[pr])>>, event[pr]}
          BY <3>2 DEF TakeLog, TypeOK
        <4> QED BY <4>1, QueueTail, SmallQueues DEF Delivered, TypeOK
      <3>3. CASE SendEvent(pr)
        <4>1. PICK e \in Updates : event[pr] = <<e>>
          BY <3>3 DEF SendEvent, Control
        <4>2. logs'[pr] = logs[pr] /\ event'[pr] = << >> /\ processed' = Append(processed, e)
          BY <3>3, <4>1, QueueAppend DEF SendEvent, TypeOK
        <4> QED BY <4>1, <4>2, QueueAppend, SmallQueues DEF Delivered, TypeOK
      <3>4. CASE EndListener(pr)
        <4>1. logs'[pr] = << >> /\ event'[pr] = << >> /\ processed' = processed
          BY <3>4 DEF EndListener, TypeOK
        <4> QED BY <4>1, SmallQueues DEF Delivered
      <3> QED BY <1>4, <3>1, <3>2, <3>3, <3>4 DEF Listen
    <2> QED BY <2>1, <2>2 DEF NoPast, Delivered, Behind, Received
  <1>5. ASSUME RunUpdater PROVE NoPast'
    <2>1. UNCHANGED <<logs, event>>
      BY <1>5 DEF RunUpdater, UpdateCache, Forward, Discard, StopUpdater, listenerVars
    <2>2. Received' \subseteq Received
      <3>1. CASE UpdateCache
        BY <3>1, QueueTail, SmallQueues DEF UpdateCache, TypeOK, Behind, Received
      <3>2. CASE Forward
        <4>1. PICK e \in Updates : item = <<e>>
          BY <3>2 DEF Forward, Control
        <4>2. dbWrite' = Append(dbWrite, e) /\ item' = << >> /\ processed' = processed
          BY <3>2, <4>1, QueueAppend DEF Forward, TypeOK
        <4> QED BY <4>1, <4>2, QueueAppend, SmallQueues DEF Behind, Received, TypeOK
      <3>3. CASE Discard \/ StopUpdater
        BY <3>3, SmallQueues DEF Discard, StopUpdater, Behind, Received
      <3> QED BY <1>5, <3>1, <3>2, <3>3 DEF RunUpdater
    <2> QED BY <2>1, <2>2 DEF NoPast, Delivered
  <1>6. ASSUME RunWriter \/ Shutdown \/ UNCHANGED vars PROVE NoPast'
    <2>1. UNCHANGED <<logs, event, processed, item>>
      BY <1>6 DEF RunWriter, Save, StartDrain, EndDrain, Shutdown, vars, listenerVars,
                  updaterVars
    <2>2. Range(dbWrite') \subseteq Range(dbWrite)
      <3>1. \/ dbWrite' = dbWrite
            \/ dbWrite # << >> /\ dbWrite' = Tail(dbWrite)
        BY <1>6 DEF RunWriter, Save, StartDrain, EndDrain, Shutdown, vars
      <3> QED BY <3>1, QueueTail DEF TypeOK
    <2> QED BY <2>1, <2>2 DEF NoPast, Delivered, Behind, Received
  <1> QED BY <1>1, <1>2, <1>3, <1>4, <1>5, <1>6 DEF Next

(* ... and neither the cache nor the newest row of a pool ever goes back.  *)
NeverGoesBack ==
  [][\A p \in Pools : memCache'[p] >= memCache[p] /\ stored'[p] >= stored[p]]_vars

THEOREM DataOnlyGetsNewer == MaxReplay = 0 /\ Spec => NeverGoesBack
  <1> SUFFICES ASSUME MaxReplay = 0 PROVE Spec => NeverGoesBack
    OBVIOUS
  <1>1. Init => NoPast
    BY SmallQueues DEF Init, NoPast, Delivered, Behind, Received
  <1>2. IInv /\ NoPast /\ IInv' /\ [Next]_vars => NoPast'
    BY NoPastStep DEF IInv
  <1>3. IInv /\ NoPast /\ IInv' /\ [Next]_vars =>
          [\A p \in Pools : memCache'[p] >= memCache[p] /\ stored'[p] >= stored[p]]_vars
    <2> SUFFICES ASSUME IInv, NoPast, IInv', Next, NEW p \in Pools
                 PROVE  memCache'[p] >= memCache[p] /\ stored'[p] >= stored[p]
      OBVIOUS
    <2>1. /\ memCache[p] \in Nat /\ stored[p] \in Nat
          /\ memCache'[p] \in Nat /\ stored'[p] \in Nat
      BY VersionFacts DEF IInv, TypeOK
    <2>2. ~(memCache'[p] < memCache[p]) /\ ~(stored'[p] < stored[p])
      BY WhatGoesBack DEF GoesBack, NoPast
    <2> QED BY <2>1, <2>2
  <1> QED BY <1>1, <1>2, <1>3, Invariance, PTL DEF Spec, NeverGoesBack

----------------------------------------------------------------------------
(* Who has returned, or waits for another to return, and why. *)
EndInv ==
  /\ \A pr \in Protocols :
       /\ manager[pr] = "wait" => cancelled[pr]
       /\ manager[pr] = "done" => shutdown /\ Stopped(pr)
  /\ updater = "done" => shutdown

(* A manager waits only for a listener whose context is done.  The cache   *)
(* updater leaves no sender behind that ctx does not release, and nothing  *)
(* is under way for a protocol without a listener: when the managers have  *)
(* returned, processedDataChan has no sender.                              *)
EndsLeaveNobody ==
  /\ \A pr \in Protocols :
       /\ manager[pr] = "wait" => Done(pr)
       /\ updater = "done" => Done(pr)
       /\ Stopped(pr) => /\ Delivered(pr) = {}
                         /\ \A p \in OfProtocol(pr) : fetch[p] = "done"
  /\ (\A pr \in Protocols : manager[pr] = "done") =>
       \A p \in Pools : fetch[p] = "done" /\ listener[ProtocolOf[p]] = "stopped"

LEMMA EndStep == TypeOK /\ EndInv /\ [Next]_vars => EndInv'
  <1> SUFFICES ASSUME TypeOK, EndInv, [Next]_vars PROVE EndInv'
    OBVIOUS
  <1> USE DEF EndInv, Stopped
  <1>1. CASE UNCHANGED vars
    BY <1>1 DEF vars, listenerVars, updaterVars
  <1>2. CASE (\E p \in Pools : Swap(p) \/ Fetch(p)) \/ RunWriter \/ Shutdown
    BY <1>2 DEF Swap, Fetch, FetchPool, SendInitial, GiveUpFetch, RunWriter, Save,
         StartDrain, EndDrain, Shutdown, listenerVars, updaterVars
  <1>3. CASE RunUpdater
    BY <1>3 DEF RunUpdater, UpdateCache, Forward, Discard, StopUpdater, listenerVars
  <1>4. ASSUME NEW pr \in Protocols, Manage(pr) PROVE EndInv'
    BY <1>4 DEF Manage, TakeSignal, StartListener, StopManager, listenerVars,
         updaterVars, TypeOK
  <1>5. ASSUME NEW pr \in Protocols, Listen(pr) PROVE EndInv'
    <2>1. /\ UNCHANGED <<manager, cancelled, updater, shutdown>>
          /\ \A q \in Protocols : Stopped(q) => Stopped(q)'
      BY <1>5 DEF Listen, Subscribe, TakeLog, SendEvent, EndListener, updaterVars, TypeOK
    <2> QED BY <2>1
  <1> QED BY <1>1, <1>2, <1>3, <1>4, <1>5 DEF Next

(* Neither a restart nor the shutdown makes a goroutine wait for one that  *)
(* has returned or has not been told to.                                   *)
THEOREM NobodyLeftBehind == Spec => []EndsLeaveNobody
  <1>1. Init => EndInv
    BY DEF Init, EndInv
  <1>2. IInv /\ EndInv /\ [Next]_vars => EndInv'
    BY EndStep DEF IInv
  <1>3. IInv /\ EndInv => EndsLeaveNobody
    <2> SUFFICES ASSUME IInv, EndInv PROVE EndsLeaveNobody
      OBVIOUS
    <2>1. TypeOK /\ Control
      BY DEF IInv
    <2>2. ASSUME NEW pr \in Protocols, Stopped(pr)
          PROVE  /\ Delivered(pr) = {}
                 /\ \A p \in OfProtocol(pr) : fetch[p] = "done"
      <3>1. event[pr] = << >> /\ logs[pr] = << >>
        BY <2>1, <2>2 DEF Control, Stopped
      <3>2. Delivered(pr) = {}
        BY <3>1, SmallQueues DEF Delivered
      <3> QED BY <2>1, <2>2, <3>2 DEF Control, Stopped, OfProtocol
    <2>3. ASSUME \A pr \in Protocols : manager[pr] = "done", NEW p \in Pools
          PROVE  fetch[p] = "done" /\ listener[ProtocolOf[p]] = "stopped"
      <3>1. Stopped(ProtocolOf[p])
        BY <2>3, VersionFacts DEF EndInv
      <3> QED BY <2>1, <3>1 DEF Control, Stopped
    <2> QED BY <2>2, <2>3 DEF EndInv, EndsLeaveNobody, Done
  <1> QED BY Invariance, <1>1, <1>2, <1>3, PTL DEF Spec
=============================================================================
