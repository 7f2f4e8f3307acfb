------------------------------ MODULE DBWriter ------------------------------
(***************************************************************************)
(* Database.DBWriter: one goroutine that drains WriteQueue into a batch    *)
(* and commits the batch as one SQLite transaction, when it is full or     *)
(* when the ticker fires; and its clients: discoverAndCachePool sends two  *)
(* token records and then the pool record, ProcessSwap and Scan send one   *)
(* record each.  The process may crash and start again from the database.  *)
(*                                                                         *)
(* A request is [kind, key]; what its row holds besides is left out.       *)
(***************************************************************************)
EXTENDS Naturals, Sequences, Functions

CONSTANTS
  Pools,          \* pools that get discovered
  Events,         \* swaps and opportunities that get recorded
  Token0, Token1, \* the tokens of each pool
  QueueCap,       \* capacity of WriteQueue (2048 in the code)
  BatchSize,      \* len(w.batch) that triggers a commit (100 in the code)
  MaxRollBacks,   \* bound on the failing transactions explored
  MaxCrashes      \* bound on the crashes explored

ASSUME SizesAssumption ==
  /\ QueueCap \in Nat \ {0} /\ BatchSize \in Nat \ {0}
  /\ MaxRollBacks \in Nat /\ MaxCrashes \in Nat

VARIABLES
  sent,          \* how many of its requests each client has sent
  writeQueue,    \* DBWriter.WriteQueue
  batch,         \* DBWriter.batch
  rows,          \* what was committed, in order (inserting a token or a pool
                 \* again is INSERT OR IGNORE: it changes no row)
  rollBacks,     \* transactions that failed so far
  crashes        \* crashes so far

vars == <<sent, writeQueue, batch, rows, rollBacks, crashes>>

Clients == Pools \cup Events

Token(t)   == [kind |-> "token", key |-> t]
PoolRow(p) == [kind |-> "pool", key |-> p]
Event(e)   == [kind |-> "event", key |-> e]

(* Mutant: the pool is sent before its tokens. *)
Program_PoolFirst(c) ==
  IF c \in Pools THEN <<PoolRow(c), Token(Token0[c]), Token(Token1[c])>>
                 ELSE <<Event(c)>>

(* The requests a client sends, in order. *)
Program(c) ==
  IF c \in Pools THEN <<Token(Token0[c]), Token(Token1[c]), PoolRow(c)>>
                 ELSE <<Event(c)>>

Requests == UNION {Range(Program(c)) : c \in Clients}

InDB(r) == r \in Range(rows)

Init ==
  /\ sent = [c \in Clients |-> 0]
  /\ writeQueue = << >>
  /\ batch = << >>
  /\ rows = << >>
  /\ rollBacks = 0
  /\ crashes = 0

----------------------------------------------------------------------------
(* Mutant: the channel is replaced by an unbounded queue. *)
Send_NoBlock(c) ==
  /\ sent[c] < Len(Program(c))
  /\ writeQueue' = Append(writeQueue, Program(c)[sent[c] + 1])
  /\ sent' = [sent EXCEPT ![c] = @ + 1]
  /\ UNCHANGED <<batch, rows, rollBacks, crashes>>

(* The blocking send on WriteQueue. *)
Send(c) ==
  /\ sent[c] < Len(Program(c))
  /\ Len(writeQueue) < QueueCap
  /\ writeQueue' = Append(writeQueue, Program(c)[sent[c] + 1])
  /\ sent' = [sent EXCEPT ![c] = @ + 1]
  /\ UNCHANGED <<batch, rows, rollBacks, crashes>>

(* Mutant: the batch is cleared although nothing was written. *)
BeginError_Clear(b) == batch' = << >> /\ UNCHANGED <<rows, rollBacks>>

(* commitBatch on batch b.  A transaction that cannot begin leaves the     *)
(* batch as it is; a failing INSERT or COMMIT rolls back, and the batch is *)
(* cleared all the same.                                                   *)
BeginError(b) == batch' = b /\ UNCHANGED <<rows, rollBacks>>

RollBack(b) ==
  /\ rollBacks < MaxRollBacks
  /\ rollBacks' = rollBacks + 1
  /\ batch' = << >>
  /\ UNCHANGED rows

Commit(b) == batch' = << >> /\ rows' = rows \o b /\ UNCHANGED rollBacks

CommitBatch(b) == BeginError(b) \/ RollBack(b) \/ Commit(b)

(* Mutant: the request is put in front of the batch. *)
Receive_InFront ==
  /\ writeQueue # << >>
  /\ LET b == <<Head(writeQueue)>> \o batch
     IN  IF Len(b) >= BatchSize THEN CommitBatch(b)
                                ELSE batch' = b /\ UNCHANGED <<rows, rollBacks>>
  /\ writeQueue' = Tail(writeQueue)
  /\ UNCHANGED <<sent, crashes>>

(* Run: a request arrives ... *)
Receive ==
  /\ writeQueue # << >>
  /\ LET b == Append(batch, Head(writeQueue))
     IN  IF Len(b) >= BatchSize THEN CommitBatch(b)
                                ELSE batch' = b /\ UNCHANGED <<rows, rollBacks>>
  /\ writeQueue' = Tail(writeQueue)
  /\ UNCHANGED <<sent, crashes>>

(* ... or the ticker fires. *)
Tick ==
  /\ batch # << >>
  /\ CommitBatch(batch)
  /\ UNCHANGED <<sent, writeQueue, crashes>>

(* The process dies with its queue and its batch and starts again with the *)
(* pools it finds in the database: those are known and never discovered    *)
(* again, the others may be; the events it had not recorded are gone.      *)
Crash ==
  /\ crashes < MaxCrashes
  /\ crashes' = crashes + 1
  /\ writeQueue' = << >>
  /\ batch' = << >>
  /\ sent' = [c \in Clients |->
                IF c \in Pools /\ ~InDB(PoolRow(c)) THEN 0 ELSE Len(Program(c))]
  /\ UNCHANGED <<rows, rollBacks>>

Next == Receive \/ Tick \/ Crash \/ \E c \in Clients : Send(c)

Spec == Init /\ [][Next]_vars

(* The writer's goroutine and its clients run, the ticker keeps firing,    *)
(* and a transaction attempted again and again is committed eventually.    *)
TickAndCommit ==
  /\ batch # << >>
  /\ Commit(batch)
  /\ UNCHANGED <<sent, writeQueue, crashes>>

Fairness ==
  /\ WF_vars(Receive)
  /\ WF_vars(TickAndCommit)
  /\ \A c \in Clients : WF_vars(Send(c))

FairSpec == Spec /\ Fairness

----------------------------------------------------------------------------
TypeOK ==
  /\ sent \in [Clients -> 0..3]
  /\ writeQueue \in Seq(Requests) /\ Len(writeQueue) <= QueueCap
  /\ batch \in Seq(Requests)
  /\ rows \in Seq(Requests)
  /\ rollBacks \in 0..MaxRollBacks
  /\ crashes \in 0..MaxCrashes

(* The writer implements LossyLog: what is undecided is the batch followed *)
(* by the queue, and a commit or a loss takes a whole group off its front. *)
Log == INSTANCE LossyLog WITH pending <- batch \o writeQueue, durable <- rows

ImplementsLossyLog == Log!Spec

(* database.go:161-162 declare that a pool row references rows of tokens.  *)
(* SQLite does not enforce that here; with one FIFO queue it holds all the *)
(* same, at every instant and across crashes, because each discovery sends *)
(* its tokens first: until a transaction fails and is forgotten.           *)
PoolRowsReferenceTokens ==
  rollBacks = 0 =>
    \A p \in Pools : InDB(PoolRow(p)) =>
      InDB(Token(Token0[p])) /\ InDB(Token(Token1[p]))

(* The inductive invariant behind it: wherever a pool's request is, those  *)
(* of its tokens are further ahead or in the same batch, and what a        *)
(* discovery has sent is somewhere.                                        *)
InBatch(r) == InDB(r) \/ r \in Range(batch)
Ahead(r, i) == InBatch(r) \/ \E j \in 1..(i - 1) : writeQueue[j] = r

TokensFirst ==
  rollBacks = 0 =>
    \A p \in Pools : \A t \in {Token(Token0[p]), Token(Token1[p])} :
      /\ InDB(PoolRow(p)) => InDB(t)
      /\ InBatch(PoolRow(p)) => InBatch(t)
      /\ \A i \in 1..Len(writeQueue) : writeQueue[i] = PoolRow(p) => Ahead(t, i)

SentIsSomewhere ==
  rollBacks = 0 =>
    \A p \in Pools :
      /\ sent[p] >= 1 => Ahead(Token(Token0[p]), Len(writeQueue) + 1)
      /\ sent[p] >= 2 => Ahead(Token(Token1[p]), Len(writeQueue) + 1)

(* A full queue or a transaction that cannot begin costs nothing: while    *)
(* nothing is rolled back and the process lives, everything a client has   *)
(* to record is eventually in the database once it has begun to send it.   *)
SentIsSaved ==
  \A c \in Clients :
    (sent[c] > 0 /\ rollBacks = 0 /\ crashes = 0)
      ~> ((\A r \in Range(Program(c)) : InDB(r)) \/ rollBacks > 0 \/ crashes > 0)
=============================================================================
