-------------------------- MODULE DispatcherProofs --------------------------
(***************************************************************************)
(* Proofs that a working connection misses no opportunity, that no client  *)
(* gets one twice, that a failed connection is forgotten, and that each    *)
(* loop of the Hub over its clients is finite but held up by a client that *)
(* does not read: for any clients, stalled or not, any connections and any *)
(* opportunities.                                                          *)
(***************************************************************************)
EXTENDS Dispatcher, SeqFacts, FiniteSetTheorems

(* The life of a connection: dialled, registered once, unregistered.  The  *)
(* ones not yet dialled are nowhere, and only a connection that failed is  *)
(* asked to leave.                                                         *)
LifeInv ==
  /\ \A c \in Conns : link[c] = "none" <=> c[2] > dials[c[1]]
  /\ \A c \in Conns : link[c] = "none" => c \notin registering \cup clients
  /\ \A c \in Conns : link[c] = "up" => c \in registering \cup clients
  /\ \A c \in registering :
       c \notin clients /\ link[c] # "closed" /\ unregistering[c] = 0
  /\ FailedIsForgotten

(* Only the newest connection of a client works, and the client reads it;  *)
(* nothing is left on the wire of the others.                              *)
NewestInv ==
  /\ \A e \in Clients : client[e] = "read" => dials[e] # 0
  /\ \A c \in Conns :
       c[2] # dials[c[1]] \/ client[c[1]] # "read" =>
         link[c] # "up" /\ wire[c] = << >>

(* How many opportunities the Hub has received, and how many a connection  *)
(* has read and has on its way.                                            *)
Total     == Len(broadcasted)
Read(c)   == Len(received[c])
OnWire(c) == Len(wire[c])

(* The loop over the clients visits registered connections, each once, and *)
(* they were registered before the opportunity it is about.                *)
LoopInv ==
  /\ left \subseteq clients
  /\ writingTo \in clients \cup {NoConn}
  /\ writingTo \notin left
  /\ \A c \in clients : c \in left \cup {writingTo} => joined[c] < Total

(* An opportunity is broadcast once. *)
OnceInv ==
  /\ IsInjective(broadcasted)
  /\ broadcasting \cap Range(broadcasted) = {}

(* What a connection was sent, read or still on the wire, is a piece of    *)
(* what the Hub has received, from the moment it was registered on.        *)
Piece(c) ==
  /\ joined[c] + Read(c) + OnWire(c) <= Total
  /\ \A i \in 1..Read(c) : received[c][i] = broadcasted[joined[c] + i]
  /\ \A i \in 1..OnWire(c) : wire[c][i] = broadcasted[joined[c] + Read(c) + i]
  /\ c \in registering \/ link[c] = "none" => Read(c) = 0 /\ OnWire(c) = 0

PieceInv == \A c \in Conns : Piece(c)

(* While the connection works, that piece reaches to the end, but for the  *)
(* opportunity that the loop has not yet come to write.                    *)
UpToDateInv ==
  \A c \in clients : link[c] = "up" =>
    joined[c] + Read(c) + OnWire(c) =
      IF c \in left \cup {writingTo} THEN Total - 1 ELSE Total

(* A later connection of a client joins after what an earlier one read.    *)
SequelInv ==
  \A c, d \in Conns :
    (/\ c[1] = d[1] /\ c[2] < d[2] /\ d[2] <= dials[d[1]]
     /\ d \notin registering /\ Read(c) # 0)
      => joined[c] + Read(c) <= joined[d]

IInv ==
  /\ TypeOK /\ LifeInv /\ NewestInv /\ LoopInv /\ OnceInv
  /\ PieceInv /\ UpToDateInv /\ SequelInv

----------------------------------------------------------------------------
(* A connection is a pair, and NoConn is none. *)
LEMMA ConnFacts ==
  /\ \A c \in Conns : /\ c[1] \in Clients /\ c[2] \in 1..MaxConns
                        /\ c = <<c[1], c[2]>> /\ c # NoConn
  /\ \A e \in Clients : \A n \in 1..MaxConns :
       <<e, n>> \in Conns /\ <<e, n>>[1] = e /\ <<e, n>>[2] = n
  /\ MaxConns \in Nat \ {0}
  BY BoundsAssumption DEF Conns, NoConn

(* What the loop writes is the last opportunity the Hub has received. *)
LEMMA LastFacts ==
  ASSUME NEW S, NEW s \in Seq(S), s # << >>
  PROVE  Last(s) \in S /\ Last(s) = s[Len(s)] /\ Len(s) \in Nat \ {0}
  <1>1. Len(s) \in Nat \ {0}
    BY EmptySeq
  <1> QED BY <1>1 DEF Last

(* A client that reads has a connection. *)
LEMMA ReadingFacts ==
  ASSUME TypeOK, NewestInv, NEW e \in Clients, client[e] = "read"
  PROVE  Conn(e) \in Conns /\ Conn(e)[1] = e /\ Conn(e)[2] = dials[e]
  <1>1. dials[e] \in 1..MaxConns
    BY ConnFacts DEF TypeOK, NewestInv
  <1> QED BY <1>1, ConnFacts DEF Conn

LEMMA InitType == Init => TypeOK
  BY BoundsAssumption DEF Init, TypeOK

----------------------------------------------------------------------------
(* Type correctness.  Whoever is written to or read from is a connection,  *)
(* and there is an opportunity to write.                                   *)
LEMMA TypeStep ==
  TypeOK /\ NewestInv /\ LoopInv /\ [Next]_vars => TypeOK'
  <1> SUFFICES ASSUME TypeOK, NewestInv, LoopInv, [Next]_vars PROVE TypeOK'
    OBVIOUS
  <1> USE DEF hubVars, clientVars
  <1>1. ASSUME NEW c \in Conns, Register(c) PROVE TypeOK'
    BY <1>1 DEF TypeOK, Register
  <1>2. ASSUME NEW c \in Conns, Unregister(c) PROVE TypeOK'
    BY <1>2 DEF TypeOK, Unregister
  <1>3. ASSUME NEW op \in Ops, Publish(op) PROVE TypeOK'
    BY <1>3 DEF TypeOK, Publish
  <1>4. ASSUME NEW op \in Ops, Broadcast(op) PROVE TypeOK'
    BY <1>4, AppendFacts DEF TypeOK, Broadcast
  <1>5. ASSUME NEW c \in Conns, NextClient(c) PROVE TypeOK'
    BY <1>5 DEF TypeOK, NextClient
  <1>6. ASSUME NEW c \in Conns, WriteMessage(c) PROVE TypeOK'
    <2>1. broadcasted # << >>
      <3>1. joined[c] < Len(broadcasted) /\ joined[c] \in Nat
        BY <1>6, ConnFacts DEF TypeOK, LoopInv, WriteMessage, Total
      <3> QED BY <3>1 DEF TypeOK
    <2>2. Last(broadcasted) \in Ops
      BY <2>1, LastFacts DEF TypeOK
    <2>3. CASE Written(c)
      <3>1. Append(wire[c], Last(broadcasted)) \in Seq(Ops)
        BY <2>2 DEF TypeOK
      <3> QED BY <1>6, <2>3, <3>1 DEF TypeOK, WriteMessage, Written
    <2>4. CASE WriteError(c)
      BY <1>6, <2>4 DEF TypeOK, WriteMessage, WriteError
    <2> QED BY <1>6, <2>3, <2>4 DEF WriteMessage
  <1>7. ASSUME NEW c \in Conns, Break(c) PROVE TypeOK'
    BY <1>7 DEF TypeOK, Break
  <1>8. ASSUME NEW e \in Clients, Dial(e) PROVE TypeOK'
    <2>1. dials[e] \in 0..MaxConns /\ dials[e] < MaxConns /\ dials'[e] = dials[e] + 1
      BY <1>8 DEF TypeOK, Dial
    <2>2. dials[e] + 1 \in 0..MaxConns /\ <<e, dials'[e]>> \in Conns
      BY <2>1, ConnFacts
    <2>3. registering' \subseteq Conns /\ link' \in [Conns -> {"none", "up", "down", "closed"}]
      BY <1>8, <2>2 DEF TypeOK, Dial, ServeWs
    <2>4. 1 \in 1..MaxDelay /\ 0 \in 0..MaxFailures
      BY BoundsAssumption
    <2>5. /\ dials' \in [Clients -> 0..MaxConns] /\ delay' \in [Clients -> 1..MaxDelay]
          /\ failures' \in [Clients -> 0..MaxFailures]
      BY <1>8, <2>2, <2>4 DEF TypeOK, Dial
    <2> QED BY <1>8, <2>3, <2>5 DEF TypeOK, Dial
  <1>9. ASSUME NEW e \in Clients, DialError(e) PROVE TypeOK'
    <2>1. failures[e] + 1 \in 0..MaxFailures
      <3>1. failures[e] \in 0..MaxFailures /\ failures[e] < MaxFailures
        BY <1>9 DEF TypeOK, DialError
      <3> QED BY <3>1, BoundsAssumption
    <2> QED BY <1>9, <2>1 DEF TypeOK, DialError
  <1>10. ASSUME NEW e \in Clients, Wake(e) PROVE TypeOK'
    <2>1. (IF 2 * delay[e] > MaxDelay THEN MaxDelay ELSE 2 * delay[e]) \in 1..MaxDelay
      <3>1. delay[e] \in 1..MaxDelay
        BY DEF TypeOK
      <3> QED BY <3>1, BoundsAssumption
    <2> QED BY <1>10, <2>1 DEF TypeOK, Wake
  <1>11. ASSUME NEW e \in Clients, ReadMessage(e) PROVE TypeOK'
    <2>1. Conn(e) \in Conns
      BY <1>11, ReadingFacts DEF ReadMessage
    <2>2. /\ Tail(wire[Conn(e)]) \in Seq(Ops)
          /\ Append(received[Conn(e)], Head(wire[Conn(e)])) \in Seq(Ops)
      BY <1>11, <2>1, HeadTailFacts, AppendFacts DEF TypeOK, ReadMessage
    <2> QED BY <1>11, <2>1, <2>2 DEF TypeOK, ReadMessage
  <1>12. ASSUME NEW e \in Clients, ReadError(e) PROVE TypeOK'
    <2>1. Conn(e) \in Conns /\ << >> \in Seq(Ops)
      BY <1>12, ReadingFacts DEF ReadError
    <2> QED BY <1>12, <2>1 DEF TypeOK, ReadError
  <1>13. CASE UNCHANGED vars
    BY <1>13 DEF TypeOK, vars
  <1> QED
    BY <1>1, <1>2, <1>3, <1>4, <1>5, <1>6, <1>7, <1>8, <1>9, <1>10, <1>11, <1>12,
       <1>13 DEF Next, Hub, Client

----------------------------------------------------------------------------
(* A dial opens the client's next connection, which was nowhere before. *)
NextConn(e) == <<e, dials[e] + 1>>

LEMMA DialFacts ==
  ASSUME TypeOK, LifeInv, NEW e \in Clients, Dial(e)
  PROVE  /\ NextConn(e) \in Conns /\ NextConn(e)[1] = e /\ NextConn(e)[2] = dials[e] + 1
         /\ link[NextConn(e)] = "none" /\ NextConn(e) \notin registering \cup clients
         /\ unregistering[NextConn(e)] = 0
         /\ registering' = registering \cup {NextConn(e)}
         /\ \A c \in Conns : link'[c] = IF c = NextConn(e) THEN "up" ELSE link[c]
         /\ \A f \in Clients : /\ dials'[f] = IF f = e THEN dials[e] + 1 ELSE dials[f]
                               /\ client'[f] = IF f = e THEN "read" ELSE client[f]
         /\ \A c \in Conns : c # NextConn(e) => c[1] # e \/ c[2] # dials[e] + 1
  <1>1. dials[e] \in 0..MaxConns /\ dials[e] < MaxConns /\ dials'[e] = dials[e] + 1
    BY DEF TypeOK, Dial
  <1>2. NextConn(e) \in Conns /\ NextConn(e)[1] = e /\ NextConn(e)[2] = dials[e] + 1
    BY <1>1, ConnFacts DEF NextConn
  <1>3. \A c \in Conns : c # NextConn(e) => c[1] # e \/ c[2] # dials[e] + 1
    BY ConnFacts DEF NextConn
  <1>4. link[NextConn(e)] = "none"
    BY <1>1, <1>2 DEF LifeInv
  <1>5. NextConn(e) \notin registering \cup clients /\ unregistering[NextConn(e)] = 0
    <2>1. unregistering[NextConn(e)] \in Nat
      BY <1>2 DEF TypeOK
    <2> QED BY <1>2, <1>4, <2>1 DEF LifeInv, FailedIsForgotten
  <1>6. /\ registering' = registering \cup {NextConn(e)}
        /\ \A c \in Conns : link'[c] = IF c = NextConn(e) THEN "up" ELSE link[c]
        /\ \A f \in Clients : /\ dials'[f] = IF f = e THEN dials[e] + 1 ELSE dials[f]
                              /\ client'[f] = IF f = e THEN "read" ELSE client[f]
    BY <1>1, <1>2 DEF TypeOK, Dial, ServeWs, NextConn
  <1> QED BY <1>2, <1>3, <1>4, <1>5, <1>6

LEMMA LifeStep ==
  TypeOK /\ LifeInv /\ NewestInv /\ LoopInv /\ [Next]_vars => LifeInv'
  <1> SUFFICES ASSUME TypeOK, LifeInv, NewestInv, LoopInv, [Next]_vars PROVE LifeInv'
    OBVIOUS
  <1> USE DEF hubVars, clientVars, FailedIsForgotten
  <1>1. ASSUME NEW c \in Conns, Register(c) PROVE LifeInv'
    BY <1>1 DEF TypeOK, LifeInv, Register
  <1>2. ASSUME NEW c \in Conns, Unregister(c) PROVE LifeInv'
    <2>1. link[c] \in {"down", "closed"} /\ c \notin registering
      BY <1>2 DEF TypeOK, LifeInv, Unregister
    <2>2. \A d \in Conns :
            /\ link'[d] = IF d = c /\ c \in clients THEN "closed" ELSE link[d]
            /\ unregistering'[d] = IF d = c THEN unregistering[c] - 1 ELSE unregistering[d]
      BY <1>2 DEF TypeOK, Unregister
    <2>3. clients' = clients \ {c} /\ UNCHANGED <<registering, dials>>
      BY <1>2 DEF Unregister
    <2>4. unregistering[c] \in Nat
      BY DEF TypeOK
    <2> QED BY <2>1, <2>2, <2>3, <2>4 DEF TypeOK, LifeInv
  <1>3. ASSUME NEW op \in Ops, Publish(op) \/ Broadcast(op) PROVE LifeInv'
    BY <1>3 DEF LifeInv, Publish, Broadcast
  <1>4. ASSUME NEW c \in Conns, NextClient(c) PROVE LifeInv'
    BY <1>4 DEF LifeInv, NextClient
  <1>5. ASSUME NEW c \in Conns, WriteMessage(c) PROVE LifeInv'
    <2>1. CASE Written(c)
      BY <1>5, <2>1 DEF LifeInv, WriteMessage, Written
    <2>2. CASE WriteError(c)
      <3>1. c \in clients /\ link[c] \in {"down", "closed"}
        BY <1>5, <2>2, ConnFacts DEF TypeOK, LifeInv, LoopInv, WriteMessage, WriteError
      <3>2. \A d \in Conns : d # c => unregistering'[d] = unregistering[d]
        BY <1>5, <2>2 DEF TypeOK, WriteMessage, WriteError
      <3>3. UNCHANGED <<clients, registering, link, dials>>
        BY <1>5 DEF WriteMessage
      <3> QED BY <3>1, <3>2, <3>3 DEF TypeOK, LifeInv
    <2> QED BY <1>5, <2>1, <2>2 DEF WriteMessage
  <1>6. ASSUME NEW c \in Conns, Break(c) PROVE LifeInv'
    BY <1>6 DEF TypeOK, LifeInv, Break
  <1>7. ASSUME NEW e \in Clients, Dial(e) PROVE LifeInv'
    <2>1. UNCHANGED <<clients, unregistering>>
      BY <1>7 DEF Dial
    <2>2. /\ NextConn(e) \in Conns /\ NextConn(e) \notin clients
          /\ unregistering[NextConn(e)] = 0
          /\ registering' = registering \cup {NextConn(e)}
          /\ \A c \in Conns : link'[c] = IF c = NextConn(e) THEN "up" ELSE link[c]
          /\ \A f \in Clients : dials'[f] = IF f = e THEN dials[e] + 1 ELSE dials[f]
      BY <1>7, DialFacts
    <2>3. ASSUME NEW d \in Conns PROVE link'[d] = "none" <=> d[2] > dials'[d[1]]
      <3>1. d[1] \in Clients /\ d[2] \in 1..MaxConns
        BY ConnFacts
      <3>2. dials[d[1]] \in 0..MaxConns /\ dials[e] \in 0..MaxConns
        BY <3>1 DEF TypeOK
      <3>3. link[d] = "none" <=> d[2] > dials[d[1]]
        BY DEF LifeInv
      <3>4. dials'[d[1]] = IF d[1] = e THEN dials[e] + 1 ELSE dials[d[1]]
        BY <2>2, <3>1
      <3>5. CASE d = NextConn(e)
        <4>1. d[1] = e /\ d[2] = dials[e] + 1
          BY <1>7, <3>5, DialFacts
        <4> QED BY <2>2, <3>2, <3>4, <3>5, <4>1
      <3>6. CASE d # NextConn(e)
        <4>1. d[1] # e \/ d[2] # dials[e] + 1
          BY <1>7, <3>6, DialFacts
        <4> QED BY <2>2, <3>1, <3>2, <3>3, <3>4, <3>6, <4>1
      <3> QED BY <3>5, <3>6
    <2>4. registering \subseteq Conns
      BY DEF TypeOK
    <2>5. \A d \in Conns : link'[d] = "none" => d \notin registering' \cup clients'
      BY <2>1, <2>2 DEF LifeInv
    <2>6. \A d \in Conns : link'[d] = "up" => d \in registering' \cup clients'
      BY <2>1, <2>2 DEF LifeInv
    <2>7. \A d \in registering' :
            d \notin clients' /\ link'[d] # "closed" /\ unregistering'[d] = 0
      BY <2>1, <2>2, <2>4 DEF LifeInv
    <2>8. FailedIsForgotten'
      BY <2>1, <2>2 DEF LifeInv
    <2> QED BY <2>3, <2>5, <2>6, <2>7, <2>8 DEF LifeInv
  <1>8. ASSUME NEW e \in Clients,
               DialError(e) \/ Wake(e) \/ ReadMessage(e) \/ ReadError(e)
        PROVE  LifeInv'
    BY <1>8 DEF LifeInv, DialError, Wake, ReadMessage, ReadError
  <1>9. CASE UNCHANGED vars
    BY <1>9 DEF LifeInv, vars
  <1> QED
    BY <1>1, <1>2, <1>3, <1>4, <1>5, <1>6, <1>7, <1>8, <1>9 DEF Next, Hub, Client

LEMMA NewestStep ==
  TypeOK /\ LifeInv /\ NewestInv /\ [Next]_vars => NewestInv'
  <1> SUFFICES ASSUME TypeOK, LifeInv, NewestInv, [Next]_vars PROVE NewestInv'
    OBVIOUS
  <1> USE DEF hubVars, clientVars
  <1>1. ASSUME NEW c \in Conns, Register(c) \/ NextClient(c) PROVE NewestInv'
    BY <1>1 DEF NewestInv, Register, NextClient
  <1>2. ASSUME NEW c \in Conns, Unregister(c) \/ Break(c) PROVE NewestInv'
    BY <1>2 DEF TypeOK, NewestInv, Unregister, Break
  <1>3. ASSUME NEW op \in Ops, Publish(op) \/ Broadcast(op) PROVE NewestInv'
    BY <1>3 DEF NewestInv, Publish, Broadcast
  <1>4. ASSUME NEW c \in Conns, WriteMessage(c) PROVE NewestInv'
    BY <1>4 DEF TypeOK, NewestInv, WriteMessage, Written, WriteError
  <1>5. ASSUME NEW e \in Clients, Dial(e) PROVE NewestInv'
    <2>1. /\ UNCHANGED wire /\ dials[e] \in Nat /\ client[e] # "read"
      BY <1>5 DEF TypeOK, Dial
    <2>4. /\ \A f \in Clients : /\ dials'[f] = IF f = e THEN dials[e] + 1 ELSE dials[f]
                                /\ client'[f] = IF f = e THEN "read" ELSE client[f]
          /\ \A c \in Conns : link'[c] = IF c = NextConn(e) THEN "up" ELSE link[c]
          /\ NextConn(e)[1] = e /\ NextConn(e)[2] = dials[e] + 1
      BY <1>5, DialFacts
    <2>2. ASSUME NEW f \in Clients, client'[f] = "read" PROVE dials'[f] # 0
      BY <2>1, <2>2, <2>4 DEF NewestInv
    <2>3. ASSUME NEW c \in Conns, c[2] # dials'[c[1]] \/ client'[c[1]] # "read"
          PROVE  link'[c] # "up" /\ wire'[c] = << >>
      <3>1. c[1] \in Clients /\ c # NextConn(e)
        BY <2>3, <2>4, ConnFacts
      <3>2. link'[c] = link[c]
        BY <2>4, <3>1
      <3>3. c[2] # dials[c[1]] \/ client[c[1]] # "read"
        BY <2>1, <2>3, <2>4, <3>1
      <3> QED BY <2>1, <3>2, <3>3 DEF NewestInv
    <2> QED BY <2>2, <2>3 DEF NewestInv
  <1>6. ASSUME NEW e \in Clients, DialError(e) \/ Wake(e) PROVE NewestInv'
    <2>1. UNCHANGED <<dials, link, wire>> /\ client[e] # "read" /\ client'[e] # "read"
      BY <1>6 DEF TypeOK, DialError, Wake
    <2>2. \A f \in Clients : f # e => client'[f] = client[f]
      BY <1>6 DEF TypeOK, DialError, Wake
    <2>3. \A c \in Conns : c[1] \in Clients
      BY ConnFacts
    <2> QED BY <2>1, <2>2, <2>3 DEF NewestInv
  <1>7. ASSUME NEW e \in Clients, ReadMessage(e) PROVE NewestInv'
    <2>1. \A c \in Conns : wire[c] = << >> => wire'[c] = wire[c]
      <3>1. Conn(e) \in Conns /\ wire[Conn(e)] # << >>
        BY <1>7, ReadingFacts DEF ReadMessage
      <3> QED BY <1>7, <3>1 DEF TypeOK, ReadMessage
    <2>2. UNCHANGED <<client, dials, link>>
      BY <1>7 DEF ReadMessage
    <2> QED BY <2>1, <2>2 DEF NewestInv
  <1>8. ASSUME NEW e \in Clients, ReadError(e) PROVE NewestInv'
    <2>1. Conn(e) \in Conns /\ Conn(e)[1] = e /\ Conn(e)[2] = dials[e]
      BY <1>8, ReadingFacts DEF ReadError
    <2>2. \A c \in Conns : wire'[c] = IF c = Conn(e) THEN << >> ELSE wire[c]
      BY <1>8, <2>1 DEF TypeOK, ReadError
    <2>3. /\ UNCHANGED <<link, dials>> /\ link[Conn(e)] # "up"
          /\ \A f \in Clients : client'[f] = IF f = e THEN "dial" ELSE client[f]
      BY <1>8 DEF TypeOK, ReadError
    <2>4. \A c \in Conns : c[1] = e /\ c[2] = dials[e] => c = Conn(e)
      BY ConnFacts DEF Conn
    <2> QED BY <2>1, <2>2, <2>3, <2>4, ConnFacts DEF NewestInv
  <1>9. CASE UNCHANGED vars
    BY <1>9 DEF NewestInv, vars
  <1> QED
    BY <1>1, <1>2, <1>3, <1>4, <1>5, <1>6, <1>7, <1>8, <1>9 DEF Next, Hub, Client

----------------------------------------------------------------------------
(* The numbers in a piece. *)
LEMMA NumberFacts ==
  ASSUME TypeOK, NEW c \in Conns
  PROVE  /\ Read(c) \in Nat /\ OnWire(c) \in Nat /\ joined[c] \in Nat /\ Total \in Nat
         /\ PieceInv => joined[c] <= Total /\ joined[c] + Read(c) <= Total
  <1>1. received[c] \in Seq(Ops) /\ wire[c] \in Seq(Ops) /\ joined[c] \in Nat
    BY DEF TypeOK
  <1>2. Read(c) \in Nat /\ OnWire(c) \in Nat /\ Total \in Nat
    BY <1>1 DEF TypeOK, Read, OnWire, Total
  <1>3. PieceInv => joined[c] + Read(c) + OnWire(c) <= Total
    BY DEF PieceInv, Piece
  <1> QED BY <1>1, <1>2, <1>3

LEMMA LoopStep ==
  TypeOK /\ LoopInv /\ LifeInv /\ PieceInv /\ [Next]_vars => LoopInv'
  <1> SUFFICES ASSUME TypeOK, LoopInv, LifeInv, PieceInv, [Next]_vars PROVE LoopInv'
    OBVIOUS
  <1> USE DEF hubVars, clientVars
  <1>1. ASSUME NEW c \in Conns, Register(c) \/ Unregister(c) PROVE LoopInv'
    <2>1. left' = {} /\ writingTo' = NoConn /\ clients' \subseteq Conns
      BY <1>1 DEF TypeOK, AtSelect, Register, Unregister
    <2> QED BY <2>1, ConnFacts DEF LoopInv
  <1>2. ASSUME NEW op \in Ops, Broadcast(op) PROVE LoopInv'
    <2>1. left' = clients /\ writingTo' = NoConn /\ UNCHANGED <<clients, joined>>
      BY <1>2 DEF AtSelect, Broadcast
    <2>2. Total' = Total + 1
      BY <1>2 DEF TypeOK, Broadcast, Total
    <2>3. \A c \in clients : joined[c] < Total'
      BY <2>2, NumberFacts DEF TypeOK
    <2>4. NoConn \notin clients
      BY ConnFacts DEF TypeOK
    <2> QED BY <2>1, <2>3, <2>4 DEF LoopInv
  <1>3. ASSUME NEW c \in Conns, NextClient(c) PROVE LoopInv'
    BY <1>3, ConnFacts DEF TypeOK, LoopInv, NextClient, Total
  <1>4. ASSUME NEW c \in Conns, WriteMessage(c) PROVE LoopInv'
    BY <1>4, ConnFacts DEF TypeOK, LoopInv, WriteMessage, Total
  <1>5. ASSUME NEW op \in Ops, Publish(op) PROVE LoopInv'
    BY <1>5 DEF LoopInv, Publish, Total
  <1>6. ASSUME NEW c \in Conns, Break(c) PROVE LoopInv'
    BY <1>6 DEF LoopInv, Break, Total
  <1>7. ASSUME NEW e \in Clients, Client(e) PROVE LoopInv'
    <2>1. UNCHANGED <<clients, left, writingTo, broadcasted, joined>>
      BY <1>7 DEF Client, Dial, DialError, Wake, ReadMessage, ReadError
    <2> QED BY <2>1 DEF LoopInv, Total
  <1>8. CASE UNCHANGED vars
    BY <1>8 DEF LoopInv, vars, Total
  <1> QED
    BY <1>1, <1>2, <1>3, <1>4, <1>5, <1>6, <1>7, <1>8 DEF Next, Hub

LEMMA OnceStep ==
  TypeOK /\ OnceInv /\ [Next]_vars => OnceInv'
  <1> SUFFICES ASSUME TypeOK, OnceInv, [Next]_vars PROVE OnceInv'
    OBVIOUS
  <1> USE DEF hubVars, clientVars
  <1>1. ASSUME NEW op \in Ops, Broadcast(op) PROVE OnceInv'
    <2>1. broadcasted \in Seq(Ops) /\ op \notin Range(broadcasted)
      BY <1>1 DEF TypeOK, OnceInv, Broadcast
    <2>2. /\ broadcasted' = Append(broadcasted, op)
          /\ broadcasting' = broadcasting \ {op}
      BY <1>1 DEF Broadcast
    <2>3. /\ IsInjective(broadcasted')
          /\ Range(broadcasted') = Range(broadcasted) \cup {op}
      BY <2>1, <2>2, AppendFacts DEF OnceInv
    <2> QED BY <2>2, <2>3 DEF OnceInv
  <1>2. ASSUME NEW op \in Ops, Publish(op) PROVE OnceInv'
    <2>1. broadcasted' = broadcasted /\ broadcasting' = broadcasting \cup {op}
          /\ op \notin Range(broadcasted)
      BY <1>2 DEF Publish
    <2> QED BY <2>1 DEF OnceInv
  <1>3. ASSUME UNCHANGED <<broadcasted, broadcasting>> PROVE OnceInv'
    BY <1>3 DEF OnceInv
  <1>4. ASSUME NEW c \in Conns,
               \/ Register(c) \/ Unregister(c) \/ NextClient(c) \/ WriteMessage(c)
               \/ Break(c)
        PROVE  UNCHANGED <<broadcasted, broadcasting>>
    BY <1>4 DEF Register, Unregister, NextClient, WriteMessage, Break
  <1>5. ASSUME NEW e \in Clients, Client(e)
        PROVE  UNCHANGED <<broadcasted, broadcasting>>
    BY <1>5 DEF Client, Dial, DialError, Wake, ReadMessage, ReadError
  <1>6. CASE UNCHANGED vars
    BY <1>3, <1>6 DEF vars
  <1> QED BY <1>1, <1>2, <1>3, <1>4, <1>5, <1>6 DEF Next, Hub

----------------------------------------------------------------------------
(* A piece stays when nothing happens to its connection. *)
LEMMA PieceKept ==
  ASSUME NEW c, Piece(c),
         UNCHANGED <<joined[c], received[c], wire[c], broadcasted>>,
         c \in registering' \/ link'[c] = "none" => c \in registering \/ link[c] = "none"
  PROVE  Piece(c)'
  BY DEF Piece, Read, OnWire, Total

(* Registering a connection starts its piece, at the end. *)
LEMMA PieceRegister ==
  ASSUME TypeOK, PieceInv, NEW c \in Conns, Register(c), NEW d \in Conns
  PROVE  Piece(d)'
  <1>1. /\ joined' = [joined EXCEPT ![c] = Total]
        /\ registering' = registering \ {c} /\ c \in registering
        /\ UNCHANGED <<received, wire, broadcasted, link>>
    BY DEF Register, Total
  <1>2. Piece(d)
    BY DEF PieceInv
  <1>3. CASE d = c
    <2>1. Read(c) = 0 /\ OnWire(c) = 0
      BY <1>1, <1>2, <1>3 DEF Piece
    <2>2. /\ Read(c)' = 0 /\ OnWire(c)' = 0 /\ Total' = Total
          /\ joined'[c] = Total
      BY <1>1, <2>1 DEF TypeOK, Read, OnWire, Total
    <2>3. Total \in Nat
      BY NumberFacts
    <2> QED BY <1>3, <2>2, <2>3 DEF Piece
  <1>4. CASE d # c
    <2>1. UNCHANGED <<joined[d], received[d], wire[d], broadcasted>>
      BY <1>1, <1>4 DEF TypeOK
    <2> QED BY <1>1, <1>2, <2>1, PieceKept
  <1> QED BY <1>3, <1>4

(* A new opportunity comes after everything a connection was sent. *)
LEMMA PieceBroadcast ==
  ASSUME TypeOK, PieceInv, NEW op \in Ops, Broadcast(op), NEW d \in Conns
  PROVE  Piece(d)'
  <1>1. /\ broadcasted' = Append(broadcasted, op)
        /\ UNCHANGED <<received, wire, joined, registering, link>>
    BY DEF Broadcast
  <1>2. Piece(d)
    BY DEF PieceInv
  <1>3. Total' = Total + 1 /\ \A i \in 1..Total : broadcasted'[i] = broadcasted[i]
    BY <1>1 DEF TypeOK, Total
  <1>4. /\ Read(d) \in Nat /\ OnWire(d) \in Nat /\ joined[d] \in Nat /\ Total \in Nat
        /\ joined[d] + Read(d) + OnWire(d) <= Total
    BY <1>2, NumberFacts DEF Piece
  <1>5. /\ \A i \in 1..Read(d) : joined[d] + i \in 1..Total
        /\ \A i \in 1..OnWire(d) : joined[d] + Read(d) + i \in 1..Total
        /\ joined[d] + Read(d) + OnWire(d) <= Total + 1
    BY <1>4
  <1>6. Read(d)' = Read(d) /\ OnWire(d)' = OnWire(d)
    BY <1>1 DEF Read, OnWire
  <1> QED BY <1>1, <1>2, <1>3, <1>5, <1>6 DEF Piece

(* What is written is the next opportunity of the piece. *)
LEMMA PieceWrite ==
  ASSUME TypeOK, LifeInv, LoopInv, PieceInv, UpToDateInv,
         NEW c \in Conns, WriteMessage(c), NEW d \in Conns
  PROVE  Piece(d)'
  <1>1. /\ writingTo = c
        /\ UNCHANGED <<received, joined, broadcasted, registering, link>>
    BY DEF WriteMessage
  <1>2. Piece(d)
    BY DEF PieceInv
  <1>3. CASE d = c /\ Written(c) /\ link[c] = "up"
    <2>1. c \in clients /\ c \notin registering
      BY <1>1, ConnFacts DEF LoopInv, LifeInv
    <2>2. /\ Read(c) \in Nat /\ OnWire(c) \in Nat /\ joined[c] \in Nat /\ Total \in Nat
          /\ joined[c] + Read(c) + OnWire(c) = Total - 1
      BY <1>1, <1>3, <2>1, NumberFacts DEF UpToDateInv
    <2>3. /\ joined[c] + Read(c) + (OnWire(c) + 1) = Total
          /\ Total # 0
      BY <2>2
    <2>4. Last(broadcasted) \in Ops /\ Last(broadcasted) = broadcasted[Total]
      BY <2>3, LastFacts DEF TypeOK, Total
    <2>5. wire'[c] = Append(wire[c], Last(broadcasted)) /\ wire[c] \in Seq(Ops)
      BY <1>3 DEF TypeOK, Written
    <2>6. /\ OnWire(c)' = OnWire(c) + 1
          /\ \A i \in 1..OnWire(c) : wire'[c][i] = wire[c][i]
          /\ wire'[c][OnWire(c) + 1] = Last(broadcasted)
      BY <2>4, <2>5 DEF OnWire
    <2>7. ASSUME NEW i \in 1..(OnWire(c) + 1)
          PROVE  wire'[c][i] = broadcasted[joined[c] + Read(c) + i]
      <3>1. CASE i = OnWire(c) + 1
        BY <2>3, <2>4, <2>6, <3>1
      <3>2. CASE i # OnWire(c) + 1
        <4>1. i \in 1..OnWire(c)
          BY <2>2, <3>2
        <4> QED BY <1>2, <1>3, <2>6, <4>1 DEF Piece
      <3> QED BY <3>1, <3>2
    <2>8. Read(c)' = Read(c) /\ Total' = Total
      BY <1>1 DEF Read, Total
    <2>9. joined[c] + Read(c) + (OnWire(c) + 1) <= Total
      BY <2>2, <2>3
    <2> QED BY <1>1, <1>2, <1>3, <2>1, <2>6, <2>7, <2>8, <2>9 DEF Piece
  <1>4. CASE ~(d = c /\ Written(c) /\ link[c] = "up")
    <2>1. wire'[d] = wire[d]
      BY <1>4 DEF TypeOK, WriteMessage, Written, WriteError
    <2> QED BY <1>1, <1>2, <2>1, PieceKept
  <1> QED BY <1>3, <1>4

(* What is read moves from the wire to what was received. *)
LEMMA ReadFacts ==
  ASSUME TypeOK, NewestInv, NEW e \in Clients, ReadMessage(e), NEW c, c = Conn(e)
  PROVE  /\ c \in Conns /\ c[1] = e /\ c[2] = dials[e]
         /\ Read(c)' = Read(c) + 1 /\ OnWire(c)' = OnWire(c) - 1 /\ OnWire(c) # 0
         /\ \A i \in 1..Read(c) : received'[c][i] = received[c][i]
         /\ received'[c][Read(c) + 1] = wire[c][1]
         /\ \A i \in 1..(OnWire(c) - 1) : wire'[c][i] = wire[c][i + 1]
         /\ \A d \in Conns : d # c => UNCHANGED <<received[d], wire[d]>>
         /\ UNCHANGED <<joined, broadcasted, registering, link>>
  <1>1. /\ c \in Conns /\ c[1] = e /\ c[2] = dials[e] /\ wire[c] # << >>
    BY ReadingFacts DEF ReadMessage
  <1>2. /\ wire' = [wire EXCEPT ![c] = Tail(wire[c])]
        /\ received' = [received EXCEPT ![c] = Append(received[c], Head(wire[c]))]
        /\ UNCHANGED <<joined, broadcasted, registering, link>>
    BY DEF ReadMessage, hubVars
  <1>3. received[c] \in Seq(Ops) /\ wire[c] \in Seq(Ops)
    BY <1>1 DEF TypeOK
  <1>4. wire'[c] = Tail(wire[c]) /\ received'[c] = Append(received[c], Head(wire[c]))
    BY <1>1, <1>2 DEF TypeOK
  <1>5. /\ OnWire(c)' = OnWire(c) - 1 /\ OnWire(c) # 0
        /\ \A i \in 1..(OnWire(c) - 1) : wire'[c][i] = wire[c][i + 1]
        /\ Head(wire[c]) \in Ops /\ Head(wire[c]) = wire[c][1]
    BY <1>1, <1>3, <1>4 DEF OnWire
  <1>6. /\ Read(c)' = Read(c) + 1
        /\ \A i \in 1..Read(c) : received'[c][i] = received[c][i]
        /\ received'[c][Read(c) + 1] = wire[c][1]
    BY <1>3, <1>4, <1>5 DEF Read
  <1>7. \A d \in Conns : d # c => UNCHANGED <<received[d], wire[d]>>
    BY <1>2 DEF TypeOK
  <1> QED BY <1>1, <1>2, <1>5, <1>6, <1>7

LEMMA PieceRead ==
  ASSUME TypeOK, NewestInv, PieceInv,
         NEW e \in Clients, ReadMessage(e), NEW d \in Conns
  PROVE  Piece(d)'
  <1>1. Piece(d)
    BY DEF PieceInv
  <1>2. UNCHANGED <<joined, broadcasted, registering, link>> /\ Total' = Total
    BY ReadFacts DEF Total
  <1>3. CASE d = Conn(e)
    <2>1. /\ Read(d)' = Read(d) + 1 /\ OnWire(d)' = OnWire(d) - 1 /\ OnWire(d) # 0
          /\ \A i \in 1..Read(d) : received'[d][i] = received[d][i]
          /\ received'[d][Read(d) + 1] = wire[d][1]
          /\ \A i \in 1..(OnWire(d) - 1) : wire'[d][i] = wire[d][i + 1]
      BY <1>3, ReadFacts
    <2>2. Read(d) \in Nat /\ OnWire(d) \in Nat /\ joined[d] \in Nat /\ Total \in Nat
      BY NumberFacts
    <2>3. ASSUME NEW i \in 1..(Read(d) + 1)
          PROVE  received'[d][i] = broadcasted[joined[d] + i]
      <3>1. CASE i = Read(d) + 1
        <4>1. 1 \in 1..OnWire(d) /\ joined[d] + i = joined[d] + Read(d) + 1
          BY <2>1, <2>2, <3>1
        <4> QED BY <1>1, <2>1, <3>1, <4>1 DEF Piece
      <3>2. CASE i # Read(d) + 1
        <4>1. i \in 1..Read(d)
          BY <2>2, <3>2
        <4> QED BY <1>1, <2>1, <4>1 DEF Piece
      <3> QED BY <3>1, <3>2
    <2>4. ASSUME NEW i \in 1..(OnWire(d) - 1)
          PROVE  wire'[d][i] = broadcasted[joined[d] + (Read(d) + 1) + i]
      <3>1. /\ i + 1 \in 1..OnWire(d)
            /\ joined[d] + (Read(d) + 1) + i = joined[d] + Read(d) + (i + 1)
        BY <2>2
      <3> QED BY <1>1, <2>1, <3>1 DEF Piece
    <2>5. joined[d] + (Read(d) + 1) + (OnWire(d) - 1) = joined[d] + Read(d) + OnWire(d)
      BY <2>2
    <2> QED BY <1>1, <1>2, <2>1, <2>3, <2>4, <2>5 DEF Piece
  <1>4. CASE d # Conn(e)
    <2>1. UNCHANGED <<received[d], wire[d]>>
      BY <1>4, ReadFacts
    <2> QED BY <1>1, <1>2, <2>1, PieceKept
  <1> QED BY <1>3, <1>4

(* What is lost with the connection shortens the piece. *)
LEMMA LostFacts ==
  ASSUME TypeOK, NewestInv, NEW e \in Clients, ReadError(e)
  PROVE  /\ Conn(e) \in Conns /\ link[Conn(e)] # "up"
         /\ UNCHANGED <<joined, broadcasted, registering, link, received, dials>>
         /\ \A d \in Conns : wire'[d] = IF d = Conn(e) THEN << >> ELSE wire[d]
  BY ReadingFacts DEF TypeOK, ReadError, hubVars

LEMMA PieceLost ==
  ASSUME TypeOK, NewestInv, PieceInv, NEW e \in Clients, ReadError(e), NEW d \in Conns
  PROVE  Piece(d)'
  <1>1. Piece(d)
    BY DEF PieceInv
  <1>2. CASE d = Conn(e)
    <2>1. Read(d) \in Nat /\ OnWire(d) \in Nat /\ joined[d] \in Nat /\ Total \in Nat
      BY NumberFacts
    <2>2. Read(d)' = Read(d) /\ OnWire(d)' = 0 /\ Total' = Total
      BY <1>2, LostFacts DEF Read, OnWire, Total
    <2>3. joined[d] + Read(d) + 0 <= Total
      BY <1>1, <2>1 DEF Piece
    <2> QED BY <1>1, <2>2, <2>3, LostFacts DEF Piece
  <1>3. CASE d # Conn(e)
    BY <1>1, <1>3, LostFacts, PieceKept
  <1> QED BY <1>2, <1>3

LEMMA PieceEach ==
  ASSUME TypeOK, LifeInv, NewestInv, LoopInv, PieceInv, UpToDateInv, [Next]_vars,
         NEW d \in Conns
  PROVE  Piece(d)'
  <1> USE DEF hubVars, clientVars
  <1>1. Piece(d)
    BY DEF PieceInv
  <1>2. ASSUME NEW c \in Conns, Register(c) PROVE Piece(d)'
    BY <1>2, PieceRegister
  <1>3. ASSUME NEW op \in Ops, Broadcast(op) PROVE Piece(d)'
    BY <1>3, PieceBroadcast
  <1>4. ASSUME NEW c \in Conns, WriteMessage(c) PROVE Piece(d)'
    BY <1>4, PieceWrite
  <1>5. ASSUME NEW e \in Clients, ReadMessage(e) PROVE Piece(d)'
    BY <1>5, PieceRead
  <1>6. ASSUME NEW e \in Clients, ReadError(e) PROVE Piece(d)'
    BY <1>6, PieceLost
  <1>7. ASSUME NEW c \in Conns, Unregister(c) \/ NextClient(c) \/ Break(c)
        PROVE  Piece(d)'
    <2>1. UNCHANGED <<joined, received, wire, broadcasted, registering>>
      BY <1>7 DEF Unregister, NextClient, Break
    <2>2. link'[d] = "none" => link[d] = "none"
      BY <1>7 DEF TypeOK, Unregister, NextClient, Break
    <2> QED BY <1>1, <2>1, <2>2, PieceKept
  <1>8. ASSUME NEW e \in Clients, Dial(e) PROVE Piece(d)'
    <2>1. UNCHANGED <<joined, received, wire, broadcasted>>
      BY <1>8 DEF Dial
    <2>2. d \in registering' \/ link'[d] = "none" => d \in registering \/ link[d] = "none"
      BY <1>8, DialFacts
    <2> QED BY <1>1, <2>1, <2>2, PieceKept
  <1>9. ASSUME UNCHANGED <<joined, received, wire, broadcasted, registering, link>>
        PROVE  Piece(d)'
    BY <1>1, <1>9, PieceKept
  <1>10. ASSUME NEW op \in Ops, Publish(op) PROVE Piece(d)'
    BY <1>9, <1>10 DEF Publish
  <1>11. ASSUME NEW e \in Clients, DialError(e) \/ Wake(e) PROVE Piece(d)'
    BY <1>9, <1>11 DEF DialError, Wake
  <1>12. CASE UNCHANGED vars
    BY <1>9, <1>12 DEF vars
  <1> QED
    BY <1>2, <1>3, <1>4, <1>5, <1>6, <1>7, <1>8, <1>10, <1>11, <1>12 DEF Next, Hub, Client
LEMMA PieceStep ==
  ASSUME TypeOK, LifeInv, NewestInv, LoopInv, PieceInv, UpToDateInv, [Next]_vars
  PROVE  PieceInv'
  <1>1. \A d \in Conns : Piece(d)'
    BY PieceEach
  <1> QED BY <1>1, Zenon DEF PieceInv, Piece, Read, OnWire, Total

----------------------------------------------------------------------------
(* What the Hub has tried to write to d stays up to date while nothing     *)
(* happens to d and the loop stands as it did.                             *)
LEMMA UpToDateKept ==
  ASSUME UpToDateInv, NEW d, d \in clients, link[d] = "up",
         UNCHANGED <<joined[d], received[d], wire[d], broadcasted>>,
         d \in left' \cup {writingTo'} <=> d \in left \cup {writingTo}
  PROVE  joined'[d] + Read(d)' + OnWire(d)' =
           IF d \in left' \cup {writingTo'} THEN Total' - 1 ELSE Total'
  BY DEF UpToDateInv, Read, OnWire, Total

(* A connection is registered between two broadcasts. *)
LEMMA UpToDateRegister ==
  ASSUME TypeOK, PieceInv, UpToDateInv, NEW c \in Conns, Register(c),
         NEW d \in Conns, d \in clients', link'[d] = "up"
  PROVE  joined'[d] + Read(d)' + OnWire(d)' =
           IF d \in left' \cup {writingTo'} THEN Total' - 1 ELSE Total'
  <1>1. /\ joined' = [joined EXCEPT ![c] = Total]
        /\ clients' = clients \cup {c} /\ c \in registering
        /\ UNCHANGED <<received, wire, broadcasted, link, left, writingTo>>
        /\ left = {} /\ writingTo = NoConn
    BY DEF Register, AtSelect, Total
  <1>2. CASE d = c
    <2>1. Read(c) = 0 /\ OnWire(c) = 0
      BY <1>1 DEF PieceInv, Piece
    <2>2. /\ Read(c)' = 0 /\ OnWire(c)' = 0 /\ Total' = Total
          /\ joined'[c] = Total /\ Total \in Nat
      BY <1>1, <2>1, NumberFacts DEF TypeOK, Read, OnWire, Total
    <2>3. d \notin left' \cup {writingTo'}
      BY <1>1, ConnFacts
    <2> QED BY <1>2, <2>2, <2>3
  <1>3. CASE d # c
    <2>1. UNCHANGED <<joined[d], received[d], wire[d], broadcasted>>
      BY <1>1, <1>3 DEF TypeOK
    <2> QED BY <1>1, <1>3, <2>1, UpToDateKept
  <1> QED BY <1>2, <1>3

(* A broadcast leaves one opportunity to write to every connection. *)
LEMMA UpToDateBroadcast ==
  ASSUME TypeOK, UpToDateInv, NEW op \in Ops, Broadcast(op),
         NEW d \in Conns, d \in clients', link'[d] = "up"
  PROVE  joined'[d] + Read(d)' + OnWire(d)' =
           IF d \in left' \cup {writingTo'} THEN Total' - 1 ELSE Total'
  <1>1. /\ UNCHANGED <<clients, joined, received, wire, link>>
        /\ left = {} /\ writingTo = NoConn /\ left' = clients
    BY DEF Broadcast, AtSelect
  <1>2. Total' = Total + 1 /\ Total \in Nat
    BY DEF TypeOK, Broadcast, Total
  <1>3. joined[d] + Read(d) + OnWire(d) = Total
    BY <1>1, ConnFacts DEF UpToDateInv
  <1>4. Read(d)' = Read(d) /\ OnWire(d)' = OnWire(d)
    BY <1>1 DEF Read, OnWire
  <1> QED BY <1>1, <1>2, <1>3, <1>4

(* Writing to a connection that works brings it up to date; a write to one *)
(* that works never fails.                                                 *)
LEMMA UpToDateWrite ==
  ASSUME TypeOK, LoopInv, UpToDateInv, NEW c \in Conns, WriteMessage(c),
         NEW d \in Conns, d \in clients', link'[d] = "up"
  PROVE  joined'[d] + Read(d)' + OnWire(d)' =
           IF d \in left' \cup {writingTo'} THEN Total' - 1 ELSE Total'
  <1>1. /\ UNCHANGED <<clients, left, joined, received, broadcasted, link>>
        /\ writingTo = c /\ writingTo' = NoConn
    BY DEF WriteMessage
  <1>2. CASE d = c
    <2>1. wire' = [wire EXCEPT ![c] = Append(wire[c], Last(broadcasted))]
      BY <1>1, <1>2 DEF WriteMessage, Written, WriteError
    <2>2. joined[c] < Total
      BY <1>1, <1>2 DEF LoopInv
    <2>3. /\ Read(c) \in Nat /\ OnWire(c) \in Nat /\ joined[c] \in Nat /\ Total \in Nat
          /\ joined[c] + Read(c) + OnWire(c) = Total - 1
      BY <1>1, <1>2, NumberFacts DEF UpToDateInv
    <2>4. Last(broadcasted) \in Ops
      <3>1. broadcasted # << >>
        BY <2>2, <2>3, EmptySeq DEF Total
      <3> QED BY <3>1, LastFacts DEF TypeOK
    <2>5. OnWire(c)' = OnWire(c) + 1
      <3>1. wire'[c] = Append(wire[c], Last(broadcasted)) /\ wire[c] \in Seq(Ops)
        BY <2>1 DEF TypeOK
      <3> QED BY <2>4, <3>1 DEF OnWire
    <2>6. d \notin left' \cup {writingTo'}
      BY <1>1, <1>2, ConnFacts DEF LoopInv
    <2>7. Read(c)' = Read(c) /\ Total' = Total /\ joined'[c] = joined[c]
      BY <1>1 DEF Read, Total
    <2> QED BY <1>2, <2>3, <2>5, <2>6, <2>7
  <1>3. CASE d # c
    <2>1. wire'[d] = wire[d]
      BY <1>3 DEF TypeOK, WriteMessage, Written, WriteError
    <2>2. d \in left' \cup {writingTo'} <=> d \in left \cup {writingTo}
      BY <1>1, <1>3, ConnFacts
    <2> QED BY <1>1, <2>1, <2>2, UpToDateKept
  <1> QED BY <1>2, <1>3

(* Reading changes nothing to what was sent. *)
LEMMA UpToDateRead ==
  ASSUME TypeOK, NewestInv, UpToDateInv, NEW e \in Clients, ReadMessage(e),
         NEW d \in Conns, d \in clients', link'[d] = "up"
  PROVE  joined'[d] + Read(d)' + OnWire(d)' =
           IF d \in left' \cup {writingTo'} THEN Total' - 1 ELSE Total'
  <1>1. UNCHANGED <<clients, left, writingTo, joined, broadcasted, link>>
    BY DEF ReadMessage, hubVars
  <1>2. CASE d = Conn(e)
    <2>1. Read(d)' = Read(d) + 1 /\ OnWire(d)' = OnWire(d) - 1
      BY <1>2, ReadFacts
    <2>2. Read(d) \in Nat /\ OnWire(d) \in Nat /\ joined[d] \in Nat /\ Total \in Nat
      BY NumberFacts
    <2>3. joined[d] + Read(d) + OnWire(d) =
            IF d \in left \cup {writingTo} THEN Total - 1 ELSE Total
      BY <1>1 DEF UpToDateInv
    <2>4. Total' = Total
      BY <1>1 DEF Total
    <2> QED BY <1>1, <2>1, <2>2, <2>3, <2>4
  <1>3. CASE d # Conn(e)
    <2>1. UNCHANGED <<received[d], wire[d]>>
      BY <1>3, ReadFacts
    <2> QED BY <1>1, <2>1, UpToDateKept
  <1> QED BY <1>2, <1>3

LEMMA UpToDateEach ==
  ASSUME TypeOK, LifeInv, NewestInv, LoopInv, PieceInv, UpToDateInv, [Next]_vars,
         NEW d \in Conns, d \in clients', link'[d] = "up"
  PROVE  joined'[d] + Read(d)' + OnWire(d)' =
           IF d \in left' \cup {writingTo'} THEN Total' - 1 ELSE Total'
  <1> DEFINE Goal == joined'[d] + Read(d)' + OnWire(d)' =
                       IF d \in left' \cup {writingTo'} THEN Total' - 1 ELSE Total'
  <1> USE DEF hubVars, clientVars
  <1>1. ASSUME NEW c \in Conns, Register(c) PROVE Goal
    BY <1>1, UpToDateRegister
  <1>2. ASSUME NEW op \in Ops, Broadcast(op) PROVE Goal
    BY <1>2, UpToDateBroadcast
  <1>3. ASSUME NEW c \in Conns, WriteMessage(c) PROVE Goal
    BY <1>3, UpToDateWrite
  <1>4. ASSUME NEW e \in Clients, ReadMessage(e) PROVE Goal
    BY <1>4, UpToDateRead
  <1>5. ASSUME NEW c \in Conns, Unregister(c) PROVE Goal
    <2>1. d \in clients /\ link[d] = "up"
      BY <1>5 DEF TypeOK, Unregister
    <2>2. UNCHANGED <<joined, received, wire, broadcasted, left, writingTo>>
      BY <1>5 DEF Unregister
    <2> QED BY <2>1, <2>2, UpToDateKept
  <1>6. ASSUME NEW c \in Conns, NextClient(c) PROVE Goal
    <2>1. UNCHANGED <<clients, link, joined, received, wire, broadcasted>>
      BY <1>6 DEF NextClient
    <2>2. left' \cup {writingTo'} \cup {NoConn} = left \cup {writingTo}
      BY <1>6 DEF NextClient
    <2>3. d \in left' \cup {writingTo'} <=> d \in left \cup {writingTo}
      BY <2>2, ConnFacts
    <2> QED BY <2>1, <2>3, UpToDateKept
  <1>7. ASSUME NEW c \in Conns, Break(c) PROVE Goal
    <2>1. link[d] = "up"
      BY <1>7 DEF TypeOK, Break
    <2>2. UNCHANGED <<clients, joined, received, wire, broadcasted, left, writingTo>>
      BY <1>7 DEF Break
    <2> QED BY <2>1, <2>2, UpToDateKept
  <1>8. ASSUME NEW e \in Clients, Dial(e) PROVE Goal
    <2>1. UNCHANGED <<clients, joined, received, wire, broadcasted, left, writingTo>>
      BY <1>8 DEF Dial
    <2>2. d # NextConn(e)
      BY <1>8, <2>1, DialFacts
    <2>3. link[d] = "up"
      BY <1>8, <2>2, DialFacts
    <2> QED BY <2>1, <2>3, UpToDateKept
  <1>9. ASSUME NEW e \in Clients, ReadError(e) PROVE Goal
    <2>1. UNCHANGED <<clients, joined, received, broadcasted, left, writingTo, link>>
      BY <1>9, LostFacts DEF ReadError
    <2>2. wire'[d] = wire[d]
      BY <1>9, <2>1, LostFacts
    <2> QED BY <2>1, <2>2, UpToDateKept
  <1>10. ASSUME UNCHANGED <<clients, joined, received, wire, broadcasted, left,
                            writingTo, link>>
         PROVE  Goal
    BY <1>10, UpToDateKept
  <1>11. ASSUME NEW op \in Ops, Publish(op) PROVE Goal
    BY <1>10, <1>11 DEF Publish
  <1>12. ASSUME NEW e \in Clients, DialError(e) \/ Wake(e) PROVE Goal
    BY <1>10, <1>12 DEF DialError, Wake
  <1>13. CASE UNCHANGED vars
    BY <1>10, <1>13 DEF vars
  <1> QED
    BY <1>1, <1>2, <1>3, <1>4, <1>5, <1>6, <1>7, <1>8, <1>9, <1>11, <1>12, <1>13
       DEF Next, Hub, Client

LEMMA UpToDateStep ==
  ASSUME TypeOK, LifeInv, NewestInv, LoopInv, PieceInv, UpToDateInv, [Next]_vars
  PROVE  UpToDateInv'
  <1>1. clients' \subseteq Conns
    BY TypeStep DEF TypeOK
  <1>2. \A d \in clients' : link'[d] = "up" =>
          joined'[d] + Read(d)' + OnWire(d)' =
            IF d \in left' \cup {writingTo'} THEN Total' - 1 ELSE Total'
    BY <1>1, UpToDateEach
  <1> QED BY <1>2, Zenon DEF UpToDateInv, Read, OnWire, Total

----------------------------------------------------------------------------
(* What two connections of a client were sent stays in sequence while      *)
(* neither is registered or read.                                          *)
LEMMA SequelKept ==
  ASSUME SequelInv, NEW c \in Conns, NEW d \in Conns,
         UNCHANGED <<joined[c], joined[d], received[c]>>,
         c[1] = d[1] /\ c[2] < d[2] /\ d[2] <= dials[d[1]] /\ d \notin registering,
         Read(c)' # 0
  PROVE  joined'[c] + Read(c)' <= joined'[d]
  BY DEF SequelInv, Read

(* A connection is registered after everything an earlier one has read. *)
LEMMA SequelRegister ==
  ASSUME TypeOK, PieceInv, SequelInv, NEW r \in Conns, Register(r),
         NEW c \in Conns, NEW d \in Conns,
         c[1] = d[1] /\ c[2] < d[2] /\ d[2] <= dials'[d[1]] /\ d \notin registering',
         Read(c)' # 0
  PROVE  joined'[c] + Read(c)' <= joined'[d]
  <1>1. /\ joined' = [joined EXCEPT ![r] = Total]
        /\ registering' = registering \ {r} /\ r \in registering
        /\ UNCHANGED <<received, dials>>
    BY DEF Register, Total, clientVars
  <1>2. Read(c)' = Read(c)
    BY <1>1 DEF Read
  <1>3. c # r
    BY <1>1, <1>2 DEF PieceInv, Piece
  <1>4. joined'[c] = joined[c]
    BY <1>1, <1>3 DEF TypeOK
  <1>5. CASE d = r
    <2>1. joined'[d] = Total
      BY <1>1, <1>5 DEF TypeOK
    <2> QED BY <1>2, <1>4, <2>1, NumberFacts
  <1>6. CASE d # r
    <2>1. joined'[d] = joined[d] /\ d \notin registering
      BY <1>1, <1>6 DEF TypeOK
    <2> QED BY <1>1, <1>4, <2>1, SequelKept
  <1> QED BY <1>5, <1>6

LEMMA SequelEach ==
  ASSUME TypeOK, LifeInv, NewestInv, PieceInv, SequelInv, [Next]_vars,
         NEW c \in Conns, NEW d \in Conns,
         c[1] = d[1] /\ c[2] < d[2] /\ d[2] <= dials'[d[1]] /\ d \notin registering',
         Read(c)' # 0
  PROVE  joined'[c] + Read(c)' <= joined'[d]
  <1> DEFINE Goal == joined'[c] + Read(c)' <= joined'[d]
  <1> USE DEF hubVars, clientVars
  <1>1. ASSUME NEW r \in Conns, Register(r) PROVE Goal
    BY <1>1, SequelRegister
  <1>2. ASSUME UNCHANGED <<joined, received, registering, dials>> PROVE Goal
    BY <1>2, SequelKept
  <1>3. ASSUME NEW x \in Conns,
               Unregister(x) \/ NextClient(x) \/ WriteMessage(x) \/ Break(x)
        PROVE  Goal
    BY <1>2, <1>3 DEF Unregister, NextClient, WriteMessage, Break
  <1>4. ASSUME NEW op \in Ops, Broadcast(op) \/ Publish(op) PROVE Goal
    BY <1>2, <1>4 DEF Broadcast, Publish
  <1>5. ASSUME NEW e \in Clients, DialError(e) \/ Wake(e) \/ ReadError(e) PROVE Goal
    BY <1>2, <1>5 DEF DialError, Wake, ReadError
  <1>6. ASSUME NEW e \in Clients, Dial(e) PROVE Goal
    <2>1. UNCHANGED <<joined, received>>
      BY <1>6 DEF Dial
    <2>2. d # NextConn(e) /\ d \notin registering
      BY <1>6, DialFacts
    <2>3. d[2] <= dials[d[1]]
      <3>1. d[1] \in Clients /\ d[2] \in 1..MaxConns /\ dials[e] \in 0..MaxConns
        BY ConnFacts DEF TypeOK
      <3>2. dials'[d[1]] = IF d[1] = e THEN dials[e] + 1 ELSE dials[d[1]]
        BY <1>6, <3>1, DialFacts
      <3>3. d[1] # e \/ d[2] # dials[e] + 1
        BY <1>6, <2>2, DialFacts
      <3> QED BY <3>1, <3>2, <3>3
    <2> QED BY <2>1, <2>2, <2>3, SequelKept
  <1>7. ASSUME NEW e \in Clients, ReadMessage(e) PROVE Goal
    <2>1. UNCHANGED <<joined, registering, dials>>
      BY <1>7 DEF ReadMessage
    <2>2. c # Conn(e)
      <3>1. c[1] \in Clients /\ c[2] \in 1..MaxConns /\ d[2] \in 1..MaxConns
            /\ dials[c[1]] \in 0..MaxConns
        BY ConnFacts DEF TypeOK
      <3>2. c[2] # dials[c[1]]
        BY <2>1, <3>1
      <3> QED BY <1>7, <3>2, ReadFacts
    <2>3. received'[c] = received[c]
      BY <1>7, <2>2, ReadFacts
    <2> QED BY <2>1, <2>3, SequelKept
  <1>8. CASE UNCHANGED vars
    BY <1>2, <1>8 DEF vars
  <1> QED
    BY <1>1, <1>3, <1>4, <1>5, <1>6, <1>7, <1>8 DEF Next, Hub, Client

LEMMA SequelStep ==
  ASSUME TypeOK, LifeInv, NewestInv, PieceInv, SequelInv, [Next]_vars
  PROVE  SequelInv'
  <1>1. \A c, d \in Conns :
          (/\ c[1] = d[1] /\ c[2] < d[2] /\ d[2] <= dials'[d[1]]
           /\ d \notin registering' /\ Read(c)' # 0)
            => joined'[c] + Read(c)' <= joined'[d]
    BY SequelEach
  <1> QED BY <1>1, Zenon DEF SequelInv, Read

----------------------------------------------------------------------------
(* The invariant. *)
LEMMA InitIInv == Init => IInv
  <1> SUFFICES ASSUME Init PROVE IInv
    OBVIOUS
  <1>1. TypeOK
    BY InitType
  <1>2. LifeInv /\ NewestInv
    BY ConnFacts DEF Init, LifeInv, NewestInv, FailedIsForgotten
  <1>3. LoopInv /\ UpToDateInv
    BY DEF Init, LoopInv, UpToDateInv
  <1>4. OnceInv
    BY EmptyFacts DEF Init, OnceInv
  <1>5. Total = 0 /\ \A c \in Conns : Read(c) = 0 /\ OnWire(c) = 0 /\ joined[c] = 0
    BY DEF Init, Total, Read, OnWire
  <1>6. PieceInv
    BY <1>5 DEF PieceInv, Piece
  <1>7. SequelInv
    BY <1>5 DEF SequelInv
  <1> QED BY <1>1, <1>2, <1>3, <1>4, <1>6, <1>7 DEF IInv

(* Every part of the invariant is kept by every step. *)
LEMMA StepIInv == IInv /\ [Next]_vars => IInv'
  BY TypeStep, LifeStep, NewestStep, LoopStep, OnceStep, PieceStep, UpToDateStep,
     SequelStep DEF IInv

(* The invariant holds in every state. *)
THEOREM Invariance == Spec => []IInv
  BY InitIInv, StepIInv, PTL DEF Spec

(* The state stays in its types. *)
THEOREM TypeCorrect == Spec => []TypeOK
  BY Invariance, PTL DEF IInv

(* A connection the Hub has closed is never in its map again, however      *)
(* often it is asked to leave, and only one that failed is asked to.       *)
THEOREM Forgotten == Spec => []FailedIsForgotten
  BY Invariance, PTL DEF IInv, LifeInv

----------------------------------------------------------------------------
(* The i-th opportunity a connection has read, in what was broadcast. *)
LEMMA ReadAt ==
  ASSUME TypeOK, PieceInv, NEW c \in Conns, NEW i \in DOMAIN received[c]
  PROVE  /\ i \in 1..Read(c) /\ joined[c] + i \in DOMAIN broadcasted
         /\ received[c][i] = broadcasted[joined[c] + i]
         /\ c \notin registering /\ link[c] # "none"
  <1>1. i \in 1..Read(c)
    <2>1. received[c] \in Seq(Ops)
      BY DEF TypeOK
    <2> QED BY <2>1 DEF Read
  <1>2. Read(c) \in Nat /\ joined[c] \in Nat /\ Total \in Nat /\ joined[c] + Read(c) <= Total
    BY NumberFacts
  <1>3. joined[c] + i \in 1..Total
    BY <1>1, <1>2
  <1>4. DOMAIN broadcasted = 1..Total
    BY DEF TypeOK, Total
  <1>5. Piece(c)
    BY DEF PieceInv
  <1>6. c \notin registering /\ link[c] # "none"
    BY <1>1, <1>2, <1>5 DEF Piece
  <1> QED BY <1>1, <1>3, <1>4, <1>5, <1>6 DEF Piece

(* What a client has read from a connection, it does not read from a later *)
(* one.                                                                    *)
LEMMA LaterDiffers ==
  ASSUME IInv, NEW c \in Conns, NEW d \in Conns, c[1] = d[1], c[2] < d[2],
         NEW i \in DOMAIN received[c], NEW j \in DOMAIN received[d]
  PROVE  received[c][i] # received[d][j]
  <1>1. /\ i \in 1..Read(c) /\ joined[c] + i \in DOMAIN broadcasted
        /\ received[c][i] = broadcasted[joined[c] + i]
    BY ReadAt DEF IInv
  <1>2. /\ j \in 1..Read(d) /\ joined[d] + j \in DOMAIN broadcasted
        /\ received[d][j] = broadcasted[joined[d] + j]
        /\ d \notin registering /\ link[d] # "none"
    BY ReadAt DEF IInv
  <1>3. /\ Read(c) \in Nat /\ joined[c] \in Nat /\ joined[d] \in Nat /\ Read(d) \in Nat
    BY NumberFacts DEF IInv
  <1>4. d[2] <= dials[d[1]]
    <2>1. d[1] \in Clients /\ d[2] \in 1..MaxConns /\ dials[d[1]] \in 0..MaxConns
      BY ConnFacts DEF IInv, TypeOK
    <2>2. ~(d[2] > dials[d[1]])
      BY <1>2 DEF IInv, LifeInv
    <2> QED BY <2>1, <2>2
  <1>5. joined[c] + Read(c) <= joined[d]
    <2>1. Read(c) # 0
      BY <1>1, <1>3
    <2> QED BY <1>2, <1>4, <2>1 DEF IInv, SequelInv
  <1>6. joined[c] + i # joined[d] + j
    BY <1>1, <1>2, <1>3, <1>5
  <1> QED BY <1>1, <1>2, <1>6 DEF IInv, OnceInv, IsInjective

(* No client gets an opportunity twice, over all its connections. *)
THEOREM OnceEach == Spec => []NoOpportunityTwice
  <1>1. IInv => NoOpportunityTwice
    <2> SUFFICES ASSUME IInv, NEW e \in Clients,
                        NEW m \in 1..MaxConns, NEW n \in 1..MaxConns,
                        NEW i \in DOMAIN received[<<e, m>>],
                        NEW j \in DOMAIN received[<<e, n>>],
                        received[<<e, m>>][i] = received[<<e, n>>][j]
                 PROVE  m = n /\ i = j
      BY DEF NoOpportunityTwice
    <2>1. /\ <<e, m>> \in Conns /\ <<e, m>>[1] = e /\ <<e, m>>[2] = m
          /\ <<e, n>> \in Conns /\ <<e, n>>[1] = e /\ <<e, n>>[2] = n
      BY ConnFacts
    <2>2. ~(m < n)
      BY <2>1, LaterDiffers
    <2>3. ~(n < m)
      BY <2>1, LaterDiffers
    <2>4. m = n
      BY <2>2, <2>3, ConnFacts
    <2>5. /\ i \in 1..Read(<<e, m>>) /\ j \in 1..Read(<<e, m>>)
          /\ joined[<<e, m>>] + i \in DOMAIN broadcasted
          /\ joined[<<e, m>>] + j \in DOMAIN broadcasted
          /\ received[<<e, m>>][i] = broadcasted[joined[<<e, m>>] + i]
          /\ received[<<e, m>>][j] = broadcasted[joined[<<e, m>>] + j]
      BY <2>1, <2>4, ReadAt DEF IInv
    <2>6. joined[<<e, m>>] + i = joined[<<e, m>>] + j
      BY <2>4, <2>5 DEF IInv, OnceInv, IsInjective
    <2>7. joined[<<e, m>>] \in Nat /\ Read(<<e, m>>) \in Nat
      BY <2>1, NumberFacts DEF IInv
    <2> QED BY <2>4, <2>5, <2>6, <2>7
  <1> QED BY <1>1, Invariance, PTL

(* What was read and what is on the wire are, together, what is due. *)
LEMMA PieceIsDue ==
  ASSUME IInv, NEW c \in clients, link[c] = "up"
  PROVE  received[c] \o wire[c] = Due(c)
  <1> DEFINE end == IF c \in left \cup {writingTo} THEN Total - 1 ELSE Total
  <1>1. c \in Conns /\ TypeOK /\ Piece(c)
    BY DEF IInv, TypeOK, PieceInv
  <1>2. /\ Read(c) \in Nat /\ OnWire(c) \in Nat /\ joined[c] \in Nat /\ Total \in Nat
        /\ joined[c] + Read(c) + OnWire(c) <= Total
    BY <1>1, NumberFacts DEF Piece
  <1>3. joined[c] + Read(c) + OnWire(c) = end
    BY DEF IInv, UpToDateInv
  <1>4. end \in Nat /\ end <= Total /\ end = joined[c] + (Read(c) + OnWire(c))
    BY <1>2, <1>3
  <1>5. Due(c) = SubSeq(broadcasted, joined[c] + 1, end)
    BY DEF Due, Total
  <1> HIDE DEF end
  <1> DEFINE s == received[c] \o wire[c]
             t == SubSeq(broadcasted, joined[c] + 1, end)
  <1>6. /\ s \in Seq(Ops) /\ Len(s) = Read(c) + OnWire(c)
        /\ \A i \in 1..(Read(c) + OnWire(c)) :
             s[i] = IF i <= Read(c) THEN received[c][i] ELSE wire[c][i - Read(c)]
    <2>1. received[c] \in Seq(Ops) /\ wire[c] \in Seq(Ops)
      BY <1>1 DEF TypeOK
    <2> QED BY <2>1, ConcatProperties DEF Read, OnWire
  <1>7. /\ t \in Seq(Ops) /\ Len(t) = Read(c) + OnWire(c)
        /\ \A i \in 1..(Read(c) + OnWire(c)) : t[i] = broadcasted[joined[c] + i]
    <2>1. \A i \in (joined[c] + 1)..end : i \in 1..Total
      BY <1>2, <1>4
    <2>2. \A i \in 1..Total : broadcasted[i] \in Ops
      BY <1>1 DEF TypeOK, Total
    <2>3. \A i \in (joined[c] + 1)..end : broadcasted[i] \in Ops
      BY <2>1, <2>2
    <2>4. joined[c] + 1 \in Int /\ end \in Int
      BY <1>2, <1>4
    <2>5. /\ t \in Seq(Ops)
          /\ Len(t) = IF joined[c] + 1 <= end THEN end - (joined[c] + 1) + 1 ELSE 0
          /\ \A i \in 1..(end - (joined[c] + 1) + 1) :
               t[i] = broadcasted[joined[c] + 1 + i - 1]
      BY <2>3, <2>4, SubSeqProperties
    <2>6. Len(t) = Read(c) + OnWire(c) /\ end - (joined[c] + 1) + 1 = Read(c) + OnWire(c)
      BY <1>2, <1>4, <2>5
    <2>7. \A i \in 1..(Read(c) + OnWire(c)) : joined[c] + 1 + i - 1 = joined[c] + i
      BY <1>2
    <2> QED BY <2>5, <2>6, <2>7
  <1>8. ASSUME NEW i \in 1..(Read(c) + OnWire(c)) PROVE s[i] = t[i]
    <2>1. CASE i <= Read(c)
      <3>1. i \in 1..Read(c)
        BY <2>1, <1>2
      <3> QED BY <1>1, <1>6, <1>7, <2>1, <3>1 DEF Piece
    <2>2. CASE ~(i <= Read(c))
      <3>1. /\ i - Read(c) \in 1..OnWire(c)
            /\ joined[c] + Read(c) + (i - Read(c)) = joined[c] + i
        BY <1>2, <2>2
      <3> HIDE DEF s, t
      <3>2. wire[c][i - Read(c)] = broadcasted[joined[c] + Read(c) + (i - Read(c))]
        BY <1>1, <3>1 DEF Piece
      <3> QED BY <1>6, <1>7, <2>2, <3>1, <3>2
    <2> QED BY <2>1, <2>2
  <1> HIDE DEF s, t
  <1>9. s = t
    BY <1>6, <1>7, <1>8, SeqEqual
  <1> QED BY <1>5, <1>9 DEF s, t

(* A connection that works has been sent every opportunity since it was    *)
(* registered, once and in order, whoever else comes, fails or leaves.     *)
THEOREM WorkingMissesNothing == Spec => []NothingMissed
  <1>1. IInv => NothingMissed
    <2> SUFFICES ASSUME IInv, NEW c \in Conns, link[c] = "up"
                 PROVE  IF c \in registering THEN received[c] \o wire[c] = << >>
                        ELSE c \in clients /\ received[c] \o wire[c] = Due(c)
      BY DEF NothingMissed
    <2>1. CASE c \in registering
      <3>1. received[c] \in Seq(Ops) /\ wire[c] \in Seq(Ops)
        BY DEF IInv, TypeOK
      <3>2. Len(received[c]) = 0 /\ Len(wire[c]) = 0
        BY <2>1 DEF IInv, PieceInv, Piece, Read, OnWire
      <3>3. received[c] = << >> /\ wire[c] = << >>
        BY <3>1, <3>2, EmptySeq
      <3> QED BY <2>1, <3>1, <3>3, ConcatEmptySeq
    <2>2. CASE c \notin registering
      <3>1. c \in clients
        BY <2>2 DEF IInv, LifeInv
      <3> QED BY <2>2, <3>1, PieceIsDue
    <2> QED BY <2>1, <2>2
  <1> QED BY <1>1, Invariance, PTL

----------------------------------------------------------------------------
(* The powers of two up to the n-th. *)
Powers(g, n) ==
  /\ g \in [0..n -> Nat]
  /\ g[0] = 1
  /\ \A k \in 1..n : g[k] = 2 * g[k - 1]

LEMMA PowersExist == \A n \in Nat : \E g : Powers(g, n)
  <1> DEFINE T == {n \in Nat : ~\E g : Powers(g, n)}
  <1> SUFFICES ASSUME T # {} PROVE FALSE
    OBVIOUS
  <1>1. PICK n \in T : \A y \in T : n <= y
    BY LeastElement
  <1>2. CASE n = 0
    <2>1. Powers([k \in 0..0 |-> 1], 0)
      BY DEF Powers
    <2> QED BY <1>2, <2>1
  <1>3. CASE n # 0
    <2>1. n - 1 \in Nat /\ ~(n <= n - 1)
      BY <1>3
    <2>2. PICK g : Powers(g, n - 1)
      BY <1>1, <2>1
    <2> DEFINE h == [k \in 0..n |-> IF k = n THEN 2 * g[n - 1] ELSE g[k]]
    <2>3. \A k \in 0..(n - 1) : k \in 0..n /\ k # n /\ g[k] \in Nat
      BY <2>1, <2>2 DEF Powers
    <2>4. \A k \in 0..(n - 1) : h[k] = g[k]
      BY <2>3
    <2>5. n - 1 \in 0..(n - 1) /\ 0 \in 0..(n - 1) /\ n \in 0..n
      BY <2>1
    <2>6. h[n] = 2 * h[n - 1] /\ h[0] = 1
      BY <2>2, <2>4, <2>5 DEF Powers
    <2>7. h \in [0..n -> Nat]
      <3>1. \A k \in 0..n : k # n => k \in 0..(n - 1)
        BY <2>1
      <3> QED BY <2>3, <2>5, <3>1
    <2> HIDE DEF h
    <2>8. ASSUME NEW k \in 1..n PROVE h[k] = 2 * h[k - 1]
      <3>1. CASE k = n
        BY <2>6, <3>1
      <3>2. CASE k # n
        <4>1. k \in 1..(n - 1) /\ k \in 0..(n - 1) /\ k - 1 \in 0..(n - 1)
          BY <2>1, <3>2
        <4> QED BY <2>2, <2>4, <4>1 DEF Powers
      <3> QED BY <3>1, <3>2
    <2>9. Powers(h, n)
      BY <2>6, <2>7, <2>8 DEF Powers
    <2> QED BY <2>9
  <1> QED BY <1>2, <1>3

LEMMA PowersAgree ==
  ASSUME NEW m \in Nat, NEW n \in Nat, NEW g, NEW h, Powers(g, m), Powers(h, n),
         NEW k \in 0..m, k \in 0..n
  PROVE  g[k] = h[k]
  <1> DEFINE T == {j \in Nat : j \in 0..m /\ j \in 0..n /\ g[j] # h[j]}
  <1> SUFFICES ASSUME T # {} PROVE FALSE
    OBVIOUS
  <1>1. PICK j \in T : \A y \in T : j <= y
    BY LeastElement
  <1>2. j # 0
    BY <1>1 DEF Powers
  <1>3. /\ j \in 1..m /\ j \in 1..n /\ j - 1 \in Nat /\ j - 1 \in 0..m /\ j - 1 \in 0..n
        /\ ~(j <= j - 1)
    BY <1>1, <1>2
  <1>4. g[j - 1] = h[j - 1]
    BY <1>1, <1>3
  <1> QED BY <1>1, <1>3, <1>4 DEF Powers

(* The recursive definition of PowerOfTwo is one. *)
LEMMA PowerFacts ==
  /\ PowerOfTwo[0] = 1
  /\ \A n \in Nat : PowerOfTwo[n] \in Nat /\ PowerOfTwo[n + 1] = 2 * PowerOfTwo[n]
  <1> DEFINE G(n) == CHOOSE g : Powers(g, n)
             f == [n \in Nat |-> G(n)[n]]
  <1>1. \A n \in Nat : Powers(G(n), n)
    BY PowersExist
  <1> HIDE DEF G
  <1>2. f[0] = 1
    BY <1>1 DEF Powers
  <1>3. ASSUME NEW n \in Nat PROVE f[n] \in Nat /\ f[n + 1] = 2 * f[n]
    <2>1. /\ n \in 0..n /\ n \in 0..(n + 1) /\ n + 1 \in 1..(n + 1) /\ n + 1 \in Nat
          /\ (n + 1) - 1 = n
      OBVIOUS
    <2>2. Powers(G(n), n) /\ Powers(G(n + 1), n + 1)
      BY <1>1, <2>1
    <2>3. G(n)[n] = G(n + 1)[n]
      BY <2>1, <2>2, PowersAgree
    <2>4. G(n + 1)[n + 1] = 2 * G(n + 1)[n] /\ G(n)[n] \in Nat
      BY <2>1, <2>2 DEF Powers
    <2> QED BY <2>1, <2>3, <2>4
  <1>4. ASSUME NEW n \in Nat PROVE f[n] = IF n = 0 THEN 1 ELSE 2 * f[n - 1]
    <2>1. CASE n # 0
      <3>1. n - 1 \in Nat /\ (n - 1) + 1 = n
        BY <2>1
      <3> HIDE DEF f
      <3> QED BY <1>3, <2>1, <3>1
    <2> QED BY <1>2, <2>1
  <1>5. f = [n \in Nat |-> IF n = 0 THEN 1 ELSE 2 * f[n - 1]]
    BY <1>4
  <1> HIDE DEF f
  <1>6. PowerOfTwo = [n \in Nat |-> IF n = 0 THEN 1 ELSE 2 * PowerOfTwo[n - 1]]
    BY <1>5 DEF PowerOfTwo
  <1>7. /\ PowerOfTwo[0] = 1
        /\ \A n \in Nat : n # 0 => PowerOfTwo[n] = 2 * PowerOfTwo[n - 1]
    BY <1>6
  <1>8. ASSUME NEW n \in Nat PROVE PowerOfTwo[n] = f[n]
    <2> DEFINE T == {i \in Nat : PowerOfTwo[i] # f[i]}
    <2> SUFFICES ASSUME T # {} PROVE FALSE
      OBVIOUS
    <2>1. PICK i \in T : \A y \in T : i <= y
      BY LeastElement
    <2>2. i # 0
      BY <1>2, <1>7, <2>1
    <2>3. i - 1 \in Nat /\ (i - 1) + 1 = i /\ ~(i <= i - 1)
      BY <2>1, <2>2
    <2>4. PowerOfTwo[i - 1] = f[i - 1]
      BY <2>1, <2>3
    <2>5. PowerOfTwo[i] = f[i]
      BY <1>3, <1>7, <2>1, <2>2, <2>3, <2>4
    <2> QED BY <2>1, <2>5
  <1> QED BY <1>2, <1>3, <1>8

(* The cap. *)
Capped(n) == IF PowerOfTwo[n] > MaxDelay THEN MaxDelay ELSE PowerOfTwo[n]

LEMMA CappedFacts ==
  /\ Capped(0) = 1
  /\ \A n \in Nat : Capped(n + 1) = IF 2 * Capped(n) > MaxDelay THEN MaxDelay
                                    ELSE 2 * Capped(n)
  <1>1. MaxDelay \in Nat \ {0}
    BY BoundsAssumption
  <1>2. Capped(0) = 1
    BY <1>1, PowerFacts DEF Capped
  <1>3. ASSUME NEW n \in Nat
        PROVE  Capped(n + 1) = IF 2 * Capped(n) > MaxDelay THEN MaxDelay
                               ELSE 2 * Capped(n)
    <2>1. PowerOfTwo[n] \in Nat /\ PowerOfTwo[n + 1] = 2 * PowerOfTwo[n]
      BY PowerFacts
    <2> QED BY <1>1, <2>1 DEF Capped
  <1> QED BY <1>2, <1>3

(* While a client sleeps, its delay is still the one before the failure. *)
DelayInv ==
  \A e \in Clients :
    /\ client[e] # "sleep" => delay[e] = Capped(failures[e])
    /\ client[e] = "sleep" => failures[e] # 0 /\ delay[e] = Capped(failures[e] - 1)

LEMMA DelayStep == TypeOK /\ DelayInv /\ [Next]_vars => DelayInv'
  <1> SUFFICES ASSUME TypeOK, DelayInv, [Next]_vars PROVE DelayInv'
    OBVIOUS
  <1> USE DEF hubVars, clientVars
  <1>1. ASSUME NEW e \in Clients, Dial(e) PROVE DelayInv'
    <2>1. \A f \in Clients :
            /\ client'[f] = IF f = e THEN "read" ELSE client[f]
            /\ delay'[f] = IF f = e THEN 1 ELSE delay[f]
            /\ failures'[f] = IF f = e THEN 0 ELSE failures[f]
      BY <1>1 DEF TypeOK, Dial
    <2> QED BY <2>1, CappedFacts DEF DelayInv
  <1>2. ASSUME NEW e \in Clients, DialError(e) PROVE DelayInv'
    <2>1. \A f \in Clients :
            /\ client'[f] = IF f = e THEN "sleep" ELSE client[f]
            /\ delay'[f] = delay[f]
            /\ failures'[f] = IF f = e THEN failures[e] + 1 ELSE failures[f]
      BY <1>2 DEF TypeOK, DialError
    <2>2. failures[e] \in Nat /\ client[e] = "dial"
      BY <1>2 DEF TypeOK, DialError
    <2>3. failures[e] + 1 # 0 /\ (failures[e] + 1) - 1 = failures[e]
      BY <2>2
    <2> QED BY <2>1, <2>2, <2>3 DEF DelayInv
  <1>3. ASSUME NEW e \in Clients, Wake(e) PROVE DelayInv'
    <2>1. \A f \in Clients :
            /\ client'[f] = IF f = e THEN "dial" ELSE client[f]
            /\ delay'[f] = IF f = e
                           THEN IF 2 * delay[e] > MaxDelay THEN MaxDelay ELSE 2 * delay[e]
                           ELSE delay[f]
            /\ failures'[f] = failures[f]
      BY <1>3 DEF TypeOK, Wake
    <2>2. failures[e] \in Nat /\ failures[e] # 0 /\ delay[e] = Capped(failures[e] - 1)
      BY <1>3 DEF TypeOK, Wake, DelayInv
    <2>3. failures[e] - 1 \in Nat /\ (failures[e] - 1) + 1 = failures[e]
      BY <2>2
    <2>4. delay'[e] = Capped(failures[e])
      BY <2>1, <2>2, <2>3, CappedFacts
    <2> QED BY <2>1, <2>4 DEF DelayInv
  <1>4. ASSUME NEW e \in Clients, ReadError(e) PROVE DelayInv'
    BY <1>4 DEF TypeOK, ReadError, DelayInv
  <1>5. ASSUME NEW e \in Clients, ReadMessage(e) PROVE DelayInv'
    BY <1>5 DEF ReadMessage, DelayInv
  <1>6. ASSUME UNCHANGED clientVars PROVE DelayInv'
    BY <1>6 DEF DelayInv
  <1>7. ASSUME NEW c \in Conns, \/ Register(c) \/ Unregister(c) \/ NextClient(c)
                                \/ WriteMessage(c) \/ Break(c)
        PROVE  UNCHANGED clientVars
    BY <1>7 DEF Register, Unregister, NextClient, WriteMessage, Break
  <1>8. ASSUME NEW op \in Ops, Publish(op) \/ Broadcast(op) PROVE UNCHANGED clientVars
    BY <1>8 DEF Publish, Broadcast
  <1>9. CASE UNCHANGED vars
    BY <1>6, <1>9 DEF vars
  <1> QED
    BY <1>1, <1>2, <1>3, <1>4, <1>5, <1>6, <1>7, <1>8, <1>9 DEF Next, Hub, Client

(* The delay doubles with every failure in a row up to its cap, however    *)
(* the failures and the connections that break interleave.                 *)
THEOREM DelayDoubles == Spec => []BackOff
  <1>1. Init => DelayInv
    BY CappedFacts DEF Init, DelayInv
  <1>2. IInv /\ DelayInv /\ [Next]_vars => DelayInv'
    BY DelayStep DEF IInv
  <1>3. DelayInv => BackOff
    BY DEF DelayInv, BackOff, Capped
  <1> QED BY Invariance, <1>1, <1>2, <1>3, PTL DEF Spec

----------------------------------------------------------------------------
(* What the Hub has to do before it is at its select again: visit each     *)
(* connection that is left, and write to it.                               *)
LoopWork == 2 * Cardinality(left) + (IF writingTo = NoConn THEN 0 ELSE 1)

FiniteInv == IsFiniteSet(clients) /\ IsFiniteSet(left)

(* The Hub is writing to a connection that works and whose client does not *)
(* read.                                                                   *)
HeldUpBy(c) == writingTo = c /\ link[c] = "up" /\ c[1] \in Stalled

(* Every step of the Hub in its loop brings it nearer to the select, and   *)
(* no step of a client, a Scan or the network takes it back.               *)
LoopComesToEnd ==
  [][~AtSelect => LoopWork' <= LoopWork /\ (Hub => LoopWork' < LoopWork)]_vars

(* A client that does not read holds up everybody: until its connection    *)
(* breaks nobody is registered, unregistered or visited, and no message is *)
(* taken from a Scan.                                                      *)
OneHoldsUpAll ==
  [][\A c \in Conns : HeldUpBy(c) =>
       UNCHANGED hubVars /\ (HeldUpBy(c)' \/ link'[c] = "down")]_vars

LEMMA FiniteStep == FiniteInv /\ [Next]_vars => FiniteInv'
  <1> SUFFICES ASSUME FiniteInv, [Next]_vars PROVE FiniteInv'
    OBVIOUS
  <1> USE DEF FiniteInv
  <1>1. ASSUME NEW c \in Conns, Register(c) PROVE FiniteInv'
    <2>1. clients' = clients \cup {c} /\ left' = left
      BY <1>1 DEF Register
    <2> QED BY <2>1, FS_AddElement
  <1>2. ASSUME NEW c \in Conns, Unregister(c) PROVE FiniteInv'
    <2>1. clients' = clients \ {c} /\ left' = left
      BY <1>2 DEF Unregister
    <2> QED BY <2>1, FS_RemoveElement
  <1>3. ASSUME NEW c \in Conns, NextClient(c) PROVE FiniteInv'
    <2>1. left' = left \ {c} /\ clients' = clients
      BY <1>3 DEF NextClient
    <2> QED BY <2>1, FS_RemoveElement
  <1>4. ASSUME NEW op \in Ops, Broadcast(op) PROVE FiniteInv'
    <2>1. left' = clients /\ clients' = clients
      BY <1>4 DEF Broadcast
    <2> QED BY <2>1
  <1>5. CASE \/ UNCHANGED vars \/ \E op \in Ops : Publish(op)
             \/ \E c \in Conns : WriteMessage(c) \/ Break(c)
             \/ \E e \in Clients : Client(e)
    <2>1. clients' = clients /\ left' = left
      BY <1>5 DEF vars, hubVars, Publish, WriteMessage, Break, Client, Dial, DialError,
           Wake, ReadMessage, ReadError
    <2> QED BY <2>1
  <1> QED BY <1>1, <1>2, <1>3, <1>4, <1>5 DEF Next, Hub

LEMMA FiniteInvariance == Spec => []FiniteInv
  <1>1. Init => FiniteInv
    BY FS_EmptySet DEF Init, FiniteInv
  <1> QED BY <1>1, FiniteStep, PTL DEF Spec

(* Each loop over the clients is finite, however many there are: nobody    *)
(* but the Hub touches the connections that are left, and each step of the *)
(* Hub visits one or ends a write.                                         *)
THEOREM LoopIsFinite == Spec => [](LoopWork \in Nat /\ (AtSelect <=> LoopWork = 0))
                              /\ LoopComesToEnd
  <1>1. FiniteInv => /\ Cardinality(left) \in Nat
                     /\ Cardinality(left) = 0 <=> left = {}
    BY FS_CardinalityType, FS_EmptySet DEF FiniteInv
  <1>2. FiniteInv => LoopWork \in Nat /\ (AtSelect <=> LoopWork = 0)
    BY <1>1 DEF LoopWork, AtSelect
  <1>3. FiniteInv /\ [Next]_vars =>
          [~AtSelect => LoopWork' <= LoopWork /\ (Hub => LoopWork' < LoopWork)]_vars
    <2> SUFFICES ASSUME FiniteInv, Next, ~AtSelect
                 PROVE  LoopWork' <= LoopWork /\ (Hub => LoopWork' < LoopWork)
      OBVIOUS
    <2>1. CASE Hub
      <3>1. ASSUME NEW c \in Conns, NextClient(c) PROVE LoopWork' < LoopWork
        <4>1. Cardinality(left') = Cardinality(left) - 1
          BY <3>1, FS_RemoveElement DEF NextClient, FiniteInv
        <4>2. writingTo = NoConn /\ writingTo' # NoConn
          BY <3>1, ConnFacts DEF NextClient
        <4> QED BY <1>1, <4>1, <4>2 DEF LoopWork
      <3>2. ASSUME NEW c \in Conns, WriteMessage(c) PROVE LoopWork' < LoopWork
        <4>1. left' = left /\ writingTo # NoConn /\ writingTo' = NoConn
          BY <3>2, ConnFacts DEF WriteMessage
        <4> QED BY <1>1, <4>1 DEF LoopWork
      <3>3. (\E c \in Conns : NextClient(c) \/ WriteMessage(c))
        BY <2>1 DEF Hub, Register, Unregister, Broadcast
      <3>4. LoopWork' \in Int /\ LoopWork \in Int
        <4>1. FiniteInv'
          BY FiniteStep
        <4>2. Cardinality(left') \in Nat
          BY <4>1, FS_CardinalityType DEF FiniteInv
        <4> QED BY <1>1, <4>2 DEF LoopWork
      <3> QED BY <3>1, <3>2, <3>3, <3>4
    <2>2. CASE ~Hub
      <3>1. left' = left /\ writingTo' = writingTo
        BY <2>2 DEF Next, hubVars, Publish, Break, Client, Dial, DialError, Wake,
             ReadMessage, ReadError
      <3> QED BY <1>1, <2>2, <3>1 DEF LoopWork
    <2> QED BY <2>1, <2>2
  <1> QED BY <1>2, <1>3, FiniteInvariance, PTL DEF Spec, LoopComesToEnd

(* But one connection that works and is not read keeps the Hub from all of *)
(* its steps, until that connection breaks (dispatcher.go:55).             *)
THEOREM StalledHoldsUpAll == Spec => OneHoldsUpAll
  <1>1. IInv /\ [Next]_vars =>
          [\A c \in Conns : HeldUpBy(c) =>
             UNCHANGED hubVars /\ (HeldUpBy(c)' \/ link'[c] = "down")]_vars
    <2> SUFFICES ASSUME IInv, Next, NEW c \in Conns, HeldUpBy(c)
                 PROVE  UNCHANGED hubVars /\ (HeldUpBy(c)' \/ link'[c] = "down")
      OBVIOUS
    <2>1. TypeOK /\ writingTo = c /\ c # NoConn /\ link[c] = "up" /\ c[1] \in Stalled
      BY ConnFacts DEF IInv, HeldUpBy
    <2>2. ~Hub
      BY <2>1 DEF Hub, Register, Unregister, NextClient, Broadcast, AtSelect,
           WriteMessage, Written, WriteError
    <2>3. UNCHANGED hubVars
      BY <2>2 DEF Next, Publish, Break, Client, Dial, DialError, Wake, ReadMessage,
           ReadError
    <2>4. link'[c] \in {"up", "down"}
      <3>1. ASSUME NEW e \in Clients, Dial(e) PROVE link'[c] = "up"
        <4>1. link' = [link EXCEPT ![<<e, dials[e] + 1>>] = "up"]
          BY <2>1, <3>1 DEF Dial, TypeOK
        <4> QED BY <2>1, <4>1 DEF TypeOK
      <3>2. ASSUME NEW d \in Conns, Break(d) PROVE link'[c] \in {"up", "down"}
        BY <2>1, <3>2 DEF Break, TypeOK
      <3>3. ASSUME NEW e \in Clients,
                   DialError(e) \/ Wake(e) \/ ReadMessage(e) \/ ReadError(e)
            PROVE  link' = link
        BY <3>3 DEF DialError, Wake, ReadMessage, ReadError
      <3>4. ASSUME NEW op \in Ops, Publish(op) PROVE link' = link
        BY <3>4 DEF Publish
      <3> QED BY <2>1, <2>2, <3>1, <3>2, <3>3, <3>4 DEF Next, Client
    <2> QED BY <2>1, <2>3, <2>4 DEF HeldUpBy, hubVars
  <1> QED BY Invariance, <1>1, PTL DEF Spec, OneHoldsUpAll
=============================================================================
