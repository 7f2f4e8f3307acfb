----------------------------- MODULE Dispatcher -----------------------------
(***************************************************************************)
(* Dispatcher.Hub and the executors' ArbitrageClient.Run: connections are  *)
(* registered and unregistered, and opportunities broadcast, over three    *)
(* unbuffered channels that one goroutine serves; a failed write starts a  *)
(* goroutine that asks for the connection to be unregistered.  A client    *)
(* reads until its connection fails and then dials again, backing off.     *)
(*                                                                         *)
(* The n-th connection of client e is <<e, n>>: connections are pointers   *)
(* in the code and are never used again.  Opportunities are told apart.    *)
(* The network is external: a connection may break at any time, what is    *)
(* written afterwards may be lost silently before the first write error,   *)
(* and while the buffers of a client that does not read are full, a write  *)
(* to it blocks.                                                           *)
(***************************************************************************)
EXTENDS Naturals, Sequences, SequencesExt

CONSTANTS
  Clients,     \* the executors
  Stalled,     \* the executors that have stopped reading
  Ops,         \* the opportunities that Scans broadcast
  MaxDelay,    \* cap of reconnectDelay, in seconds (60 in the code)
  MaxConns,    \* bound on the connections of one client
  MaxFailures  \* bound on the failed dials explored

ASSUME BoundsAssumption ==
  /\ Stalled \subseteq Clients
  /\ MaxDelay \in Nat \ {0} /\ MaxConns \in Nat \ {0} /\ MaxFailures \in Nat

Conns == Clients \X (1..MaxConns)

NoConn == << >>

VARIABLES
  clients,        \* Hub.clients
  left,           \* connections the loop over the clients has still to visit
  writingTo,      \* the connection it is writing to, or NoConn
  registering,    \* ServeWs goroutines at the send on register
  unregistering,  \* per connection, goroutines at the send on unregister
  broadcasting,   \* BroadcastOpportunity calls at the send on broadcast
  broadcasted,    \* the opportunities the Hub has received, in order
  joined,         \* how many that were when the connection was registered
  link,           \* state of each connection
  wire,           \* written and not yet read
  received,       \* read by the client, and handed to the executor
  client,         \* control state of ArbitrageClient.Run
  dials,          \* successful dials of each client
  delay,          \* reconnectDelay, in seconds
  failures        \* failed dials since the last successful one

hubVars    == <<clients, left, writingTo, unregistering, broadcasted, joined>>
clientVars == <<client, dials, delay, failures>>
vars == <<clients, left, writingTo, registering, unregistering, broadcasting,
          broadcasted, joined, link, wire, received, client, dials, delay, failures>>

Conn(e) == <<e, dials[e]>>

Init ==
  /\ clients = {}
  /\ left = {}
  /\ writingTo = NoConn
  /\ registering = {}
  /\ unregistering = [c \in Conns |-> 0]
  /\ broadcasting = {}
  /\ broadcasted = << >>
  /\ joined = [c \in Conns |-> 0]
  /\ link = [c \in Conns |-> "none"]
  /\ wire = [c \in Conns |-> << >>]
  /\ received = [c \in Conns |-> << >>]
  /\ client = [e \in Clients |-> "dial"]
  /\ dials = [e \in Clients |-> 0]
  /\ delay = [e \in Clients |-> 1]
  /\ failures = [e \in Clients |-> 0]

----------------------------------------------------------------------------
(* Hub.Run.  It is at its select when it has no message in hand.           *)

AtSelect == left = {} /\ writingTo = NoConn

Register(c) ==
  /\ AtSelect
  /\ c \in registering
  /\ registering' = registering \ {c}
  /\ clients' = clients \cup {c}
  /\ joined' = [joined EXCEPT ![c] = Len(broadcasted)]
  /\ UNCHANGED <<left, writingTo, unregistering, broadcasting, broadcasted, link, wire,
                 received, clientVars>>

(* Mutant: the connection is closed but stays in the map. *)
Unregister_Keep(c) ==
  /\ AtSelect
  /\ unregistering[c] > 0
  /\ unregistering' = [unregistering EXCEPT ![c] = @ - 1]
  /\ link' = IF c \in clients THEN [link EXCEPT ![c] = "closed"] ELSE link
  /\ UNCHANGED <<clients, left, writingTo, registering, broadcasting,
                 broadcasted, joined, wire, received, clientVars>>

(* A connection may be asked to leave more than once. *)
Unregister(c) ==
  /\ AtSelect
  /\ unregistering[c] > 0
  /\ unregistering' = [unregistering EXCEPT ![c] = @ - 1]
  /\ clients' = clients \ {c}
  /\ link' = IF c \in clients THEN [link EXCEPT ![c] = "closed"] ELSE link
  /\ UNCHANGED <<left, writingTo, registering, broadcasting, broadcasted, joined, wire,
                 received, clientVars>>

(* A Scan calls BroadcastOpportunity ... *)
Publish(op) ==
  /\ op \notin broadcasting \cup Range(broadcasted)
  /\ broadcasting' = broadcasting \cup {op}
  /\ UNCHANGED <<hubVars, registering, link, wire, received, clientVars>>

(* ... and returns when the Hub has taken the message. *)
Broadcast(op) ==
  /\ AtSelect
  /\ op \in broadcasting
  /\ broadcasting' = broadcasting \ {op}
  /\ broadcasted' = Append(broadcasted, op)
  /\ left' = clients
  /\ UNCHANGED <<clients, writingTo, registering, unregistering, joined, link,
                 wire, received, clientVars>>

(* Mutant: a connection already visited is visited again. *)
NextClient_Again(c) ==
  /\ writingTo = NoConn
  /\ c \in left
  /\ writingTo' = c
  /\ UNCHANGED <<clients, left, registering, unregistering, broadcasting,
                 broadcasted, joined, link, wire, received, clientVars>>

(* The loop over the clients, one after the other in any order. *)
NextClient(c) ==
  /\ writingTo = NoConn
  /\ c \in left
  /\ left' = left \ {c}
  /\ writingTo' = c
  /\ UNCHANGED <<clients, registering, unregistering, broadcasting, broadcasted,
                 joined, link, wire, received, clientVars>>

Written(c) ==
  /\ link[c] = "up" => c[1] \notin Stalled
  /\ wire' = IF link[c] = "up"
             THEN [wire EXCEPT ![c] = Append(@, Last(broadcasted))]
             ELSE wire
  /\ UNCHANGED unregistering

WriteError(c) ==
  /\ link[c] # "up"
  /\ unregistering' = [unregistering EXCEPT ![c] = @ + 1]
  /\ UNCHANGED wire

(* Mutants: an error ends the loop, or the Hub itself sends on unregister, *)
(* which nobody but the Hub receives from.                                 *)
WriteMessage_StopAtError(c) ==
  /\ writingTo = c
  /\ writingTo' = NoConn
  /\ \/ Written(c) /\ UNCHANGED left
     \/ WriteError(c) /\ left' = {}
  /\ UNCHANGED <<clients, registering, broadcasting, broadcasted, joined,
                 link, received, clientVars>>

WriteMessage_SendItself(c) ==
  /\ writingTo = c
  /\ unregistering[c] = 0
  /\ \/ Written(c) /\ writingTo' = NoConn
     \/ WriteError(c) /\ UNCHANGED writingTo
  /\ UNCHANGED <<clients, left, registering, broadcasting, broadcasted, joined,
                 link, received, clientVars>>

WriteMessage(c) ==
  /\ writingTo = c
  /\ writingTo' = NoConn
  /\ Written(c) \/ WriteError(c)
  /\ UNCHANGED <<clients, left, registering, broadcasting, broadcasted, joined,
                 link, received, clientVars>>

(* The network. *)
Break(c) ==
  /\ link[c] = "up"
  /\ link' = [link EXCEPT ![c] = "down"]
  /\ UNCHANGED <<hubVars, registering, broadcasting, wire, received, clientVars>>

----------------------------------------------------------------------------
(* ArbitrageClient.Run and, at the other end of a successful dial, ServeWs.*)

(* The dispatcher's side of a dial: the handler waits to register. *)
ServeWs(c) == registering' = registering \cup {c}

(* Mutant: a successful dial does not reset the delay. *)
Dial_KeepDelay(e) ==
  /\ client[e] = "dial"
  /\ dials[e] < MaxConns
  /\ dials' = [dials EXCEPT ![e] = @ + 1]
  /\ link' = [link EXCEPT ![<<e, dials'[e]>>] = "up"]
  /\ ServeWs(<<e, dials'[e]>>)
  /\ client' = [client EXCEPT ![e] = "read"]
  /\ failures' = [failures EXCEPT ![e] = 0]
  /\ UNCHANGED <<hubVars, broadcasting, wire, received, delay>>

Dial(e) ==
  /\ client[e] = "dial"
  /\ dials[e] < MaxConns
  /\ dials' = [dials EXCEPT ![e] = @ + 1]
  /\ link' = [link EXCEPT ![<<e, dials'[e]>>] = "up"]
  /\ ServeWs(<<e, dials'[e]>>)
  /\ client' = [client EXCEPT ![e] = "read"]
  /\ delay' = [delay EXCEPT ![e] = 1]
  /\ failures' = [failures EXCEPT ![e] = 0]
  /\ UNCHANGED <<hubVars, broadcasting, wire, received>>

DialError(e) ==
  /\ client[e] = "dial"
  /\ failures[e] < MaxFailures
  /\ failures' = [failures EXCEPT ![e] = @ + 1]
  /\ client' = [client EXCEPT ![e] = "sleep"]
  /\ UNCHANGED <<hubVars, registering, broadcasting, link, wire, received,
                 dials, delay>>

(* Mutant: the delay is not capped. *)
Wake_NoCap(e) ==
  /\ client[e] = "sleep"
  /\ client' = [client EXCEPT ![e] = "dial"]
  /\ delay' = [delay EXCEPT ![e] = 2 * @]
  /\ UNCHANGED <<hubVars, registering, broadcasting, link, wire, received,
                 dials, failures>>

Wake(e) ==
  /\ client[e] = "sleep"
  /\ client' = [client EXCEPT ![e] = "dial"]
  /\ delay' = [delay EXCEPT ![e] = IF 2 * @ > MaxDelay THEN MaxDelay ELSE 2 * @]
  /\ UNCHANGED <<hubVars, registering, broadcasting, link, wire, received,
                 dials, failures>>

ReadMessage(e) ==
  /\ client[e] = "read"
  /\ e \notin Stalled
  /\ wire[Conn(e)] # << >>
  /\ wire' = [wire EXCEPT ![Conn(e)] = Tail(@)]
  /\ received' = [received EXCEPT ![Conn(e)] = Append(@, Head(wire[Conn(e)]))]
  /\ UNCHANGED <<hubVars, registering, broadcasting, link, clientVars>>

(* What was still on the wire is lost. *)
ReadError(e) ==
  /\ client[e] = "read"
  /\ link[Conn(e)] # "up"
  /\ wire' = [wire EXCEPT ![Conn(e)] = << >>]
  /\ client' = [client EXCEPT ![e] = "dial"]
  /\ UNCHANGED <<hubVars, registering, broadcasting, link, received, dials,
                 delay, failures>>

----------------------------------------------------------------------------
Hub ==
  \/ \E c \in Conns : Register(c) \/ Unregister(c) \/ NextClient(c) \/ WriteMessage(c)
  \/ \E op \in Ops : Broadcast(op)

Client(e) == Dial(e) \/ DialError(e) \/ Wake(e) \/ ReadMessage(e) \/ ReadError(e)

Next ==
  \/ Hub
  \/ \E op \in Ops : Publish(op)
  \/ \E c \in Conns : Break(c)
  \/ \E e \in Clients : Client(e)

Spec == Init /\ [][Next]_vars

(* select chooses at random among the channels that are ready, and each    *)
(* channel serves its senders in order: nobody is passed over for ever.    *)
(* A client's goroutine runs, and a dial succeeds eventually.              *)
Fairness ==
  /\ \A c \in Conns :
       /\ SF_vars(Register(c)) /\ SF_vars(Unregister(c))
       /\ SF_vars(NextClient(c)) /\ WF_vars(WriteMessage(c))
  /\ \A op \in Ops : SF_vars(Broadcast(op))
  /\ \A e \in Clients :
       SF_vars(Dial(e)) /\ WF_vars(Wake(e))
         /\ WF_vars(ReadMessage(e) \/ ReadError(e))

FairSpec == Spec /\ Fairness

----------------------------------------------------------------------------
(* Properties.                                                             *)

TypeOK ==
  /\ clients \subseteq Conns
  /\ left \subseteq Conns
  /\ writingTo \in Conns \cup {NoConn}
  /\ registering \subseteq Conns
  /\ unregistering \in [Conns -> Nat]
  /\ broadcasting \subseteq Ops
  /\ broadcasted \in Seq(Ops)
  /\ joined \in [Conns -> Nat]
  /\ link \in [Conns -> {"none", "up", "down", "closed"}]
  /\ wire \in [Conns -> Seq(Ops)]
  /\ received \in [Conns -> Seq(Ops)]
  /\ client \in [Clients -> {"dial", "sleep", "read"}]
  /\ dials \in [Clients -> 0..MaxConns]
  /\ delay \in [Clients -> 1..MaxDelay]
  /\ failures \in [Clients -> 0..MaxFailures]

(* What the Hub has tried to write to c since c was registered. *)
Due(c) ==
  SubSeq(broadcasted, joined[c] + 1,
         IF c \in left \cup {writingTo} THEN Len(broadcasted) - 1 ELSE Len(broadcasted))

(* A connection that works misses nothing and is never unregistered, while *)
(* others come, fail and are unregistered late or twice: it has been sent  *)
(* every opportunity since it was registered, once and in order.           *)
NothingMissed ==
  \A c \in Conns : link[c] = "up" =>
    IF c \in registering THEN received[c] \o wire[c] = << >>
    ELSE c \in clients /\ received[c] \o wire[c] = Due(c)

(* A client never executes an opportunity twice, over all the connections  *)
(* it has had.                                                             *)
NoOpportunityTwice ==
  \A e \in Clients : \A m, n \in 1..MaxConns : \A i, j \in 1..Len(broadcasted) :
    (/\ i \in DOMAIN received[<<e, m>>] /\ j \in DOMAIN received[<<e, n>>]
     /\ received[<<e, m>>][i] = received[<<e, n>>][j])
      => m = n /\ i = j

PowerOfTwo[n \in Nat] == IF n = 0 THEN 1 ELSE 2 * PowerOfTwo[n - 1]

(* The delay before the next dial doubles with every failure in a row, is  *)
(* capped, and starts again at a second after a success.                   *)
BackOff ==
  \A e \in Clients : client[e] # "sleep" =>
    delay[e] = IF PowerOfTwo[failures[e]] > MaxDelay
               THEN MaxDelay ELSE PowerOfTwo[failures[e]]

(* Nobody keeps the Hub from going on: as long as every client reads, a    *)
(* Scan at the unbuffered channel, a new connection or one that has to     *)
(* leave finds a Hub that can take a step (and that returns to its select, *)
(* as each loop over the clients is finite).                               *)
HubNotStuck ==
  (/\ Stalled = {}
   /\ broadcasting # {} \/ registering # {} \/ \E c \in Conns : unregistering[c] > 0)
    => ENABLED Hub

(* A connection the Hub has closed is forgotten for good, however often it *)
(* is asked to leave and whoever else registers meanwhile; and only a      *)
(* connection that failed is ever asked to leave.                          *)
FailedIsForgotten ==
  \A c \in Conns :
    /\ link[c] = "closed" => c \notin clients
    /\ unregistering[c] > 0 => link[c] \in {"down", "closed"}

(* App Summary: the Hub broadcasts `opportunities to all connected         *)
(* clients': what it has taken reaches every client that is connected and  *)
(* reads, unless that connection fails.                                    *)
ConnectedReceive ==
  \A c \in Conns : \A op \in Ops :
    (c \in left \cup {writingTo} /\ Last(broadcasted) = op /\ c[1] \notin Stalled)
      ~> (op \in Range(received[c]) \/ link[c] # "up")
=============================================================================
