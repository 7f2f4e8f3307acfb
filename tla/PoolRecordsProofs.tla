------------------------- MODULE PoolRecordsProofs -------------------------
(***************************************************************************)
(* Proofs about the database writer and about its clients.                 *)
(*                                                                         *)
(* First, about DBWriter: it implements LossyLog, pool rows have their     *)
(* tokens, and what is sent is held until a transaction fails, for any     *)
(* number of clients, any queue capacity and batch size, failing writes    *)
(* and crashes included.                                                   *)
(*                                                                         *)
(* Then, about PoolRecords: what DBWriter promises holds when its clients  *)
(* are the discoveries, a wrong answer about a token stays with that       *)
(* token, and the decimals of a loaded pool are settled: for any pools and *)
(* tokens, queue and batch sizes, wrong answers, failing transactions and  *)
(* crashes.                                                                *)
(***************************************************************************)
EXTENDS PoolRecords, SeqFacts, WellFoundedInduction

----------------------------------------------------------------------------
(* DBWriter: what a client sends. *)
LEMMA ProgramFacts ==
  ASSUME NEW c \in Clients
  PROVE  /\ Len(Program(c)) \in 0..3
         /\ \A i \in 1..Len(Program(c)) : Program(c)[i] \in Requests
  <1>1. Len(Program(c)) \in 0..3 /\ DOMAIN Program(c) = 1..Len(Program(c))
    <2>1. CASE c \in Pools
      BY <2>1 DEF Program
    <2>2. CASE c \notin Pools
      BY <2>2 DEF Program
    <2> QED BY <2>1, <2>2
  <1>2. ASSUME NEW i \in DOMAIN Program(c) PROVE Program(c)[i] \in Requests
    <2>1. Program(c)[i] \in Range(Program(c))
      BY <1>2 DEF Range
    <2> QED BY <2>1 DEF Requests
  <1> QED BY <1>1, <1>2

(* A client that has not finished has a next request. *)
LEMMA NextRequest ==
  ASSUME NEW c \in Clients, NEW n \in 0..3, n < Len(Program(c))
  PROVE  Program(c)[n + 1] \in Requests /\ n + 1 \in 0..3
  <1>1. Len(Program(c)) \in 0..3
    BY ProgramFacts
  <1>2. ASSUME NEW k \in 0..3, n < k PROVE n + 1 \in 1..k /\ n + 1 \in 0..3
    BY <1>2
  <1> QED BY <1>1, <1>2, ProgramFacts

(* Whatever becomes of a batch, what is left of it and the rows are requests. *)
LEMMA CommitBatchType ==
  ASSUME NEW b \in Seq(Requests), rows \in Seq(Requests), CommitBatch(b)
  PROVE  /\ batch' \in Seq(Requests) /\ rows' \in Seq(Requests)
         /\ rollBacks \in 0..MaxRollBacks => rollBacks' \in 0..MaxRollBacks
  <1>1. << >> \in Seq(Requests) /\ rows \o b \in Seq(Requests)
    BY EmptyFacts, ConcatProperties
  <1>2. CASE BeginError(b)
    BY <1>2 DEF BeginError
  <1>3. CASE RollBack(b)
    BY <1>1, <1>3, SizesAssumption DEF RollBack
  <1>4. CASE Commit(b)
    BY <1>1, <1>4 DEF Commit
  <1> QED BY <1>2, <1>3, <1>4 DEF CommitBatch

(* Every action keeps the types. *)
LEMMA TypeStep == TypeOK /\ [Next]_vars => TypeOK'
  <1> SUFFICES ASSUME TypeOK, [Next]_vars PROVE TypeOK'
    OBVIOUS
  <1> USE SizesAssumption DEF TypeOK
  <1>1. CASE UNCHANGED vars
    BY <1>1 DEF vars
  <1>2. ASSUME NEW c \in Clients, Send(c) PROVE TypeOK'
    <2>1. Program(c)[sent[c] + 1] \in Requests /\ sent[c] + 1 \in 0..3
      BY <1>2, NextRequest DEF Send
    <2>2. /\ Append(writeQueue, Program(c)[sent[c] + 1]) \in Seq(Requests)
          /\ Len(Append(writeQueue, Program(c)[sent[c] + 1])) <= QueueCap
      BY <1>2, <2>1, AppendProperties DEF Send
    <2> QED BY <1>2, <2>1, <2>2 DEF Send
  <1>3. CASE Receive
    <2>1. /\ Append(batch, Head(writeQueue)) \in Seq(Requests)
          /\ Tail(writeQueue) \in Seq(Requests)
          /\ Len(Tail(writeQueue)) <= QueueCap
      BY <1>3, HeadTailProperties, AppendProperties DEF Receive
    <2>2. /\ batch' \in Seq(Requests) /\ rows' \in Seq(Requests)
          /\ rollBacks' \in 0..MaxRollBacks
      <3> DEFINE b == Append(batch, Head(writeQueue))
      <3>1. CASE Len(b) >= BatchSize
        <4>1. CommitBatch(b)
          BY <1>3, <3>1 DEF Receive
        <4> HIDE DEF b
        <4> QED BY <2>1, <4>1, CommitBatchType DEF b
      <3>2. CASE ~(Len(b) >= BatchSize)
        BY <1>3, <2>1, <3>2 DEF Receive
      <3> QED BY <3>1, <3>2
    <2> QED BY <1>3, <2>1, <2>2 DEF Receive
  <1>4. CASE Tick
    <2>1. /\ batch' \in Seq(Requests) /\ rows' \in Seq(Requests)
          /\ rollBacks' \in 0..MaxRollBacks
      BY <1>4, CommitBatchType DEF Tick
    <2> QED BY <1>4, <2>1 DEF Tick
  <1>5. CASE Crash
    <2>1. sent' \in [Clients -> 0..3]
      BY <1>5, ProgramFacts DEF Crash
    <2>2. << >> \in Seq(Requests) /\ Len(<< >>) <= QueueCap
      OBVIOUS
    <2>3. crashes' \in 0..MaxCrashes
      BY <1>5 DEF Crash
    <2> QED BY <1>5, <2>1, <2>2, <2>3 DEF Crash
  <1> QED BY <1>1, <1>2, <1>3, <1>4, <1>5 DEF Next

LEMMA InitType == Init => TypeOK
  <1> SUFFICES ASSUME Init PROVE TypeOK
    OBVIOUS
  <1>1. << >> \in Seq(Requests) /\ Len(<< >>) <= QueueCap
    BY SizesAssumption
  <1> QED BY <1>1, SizesAssumption DEF Init, TypeOK

(* Every variable keeps its type, and the queue its capacity. *)
THEOREM TypeCorrect == Spec => []TypeOK
  BY InitType, TypeStep, PTL DEF Spec

----------------------------------------------------------------------------
(* commitBatch on a batch b that is the front of what is undecided: it     *)
(* stays, becomes durable as a whole, or is lost as a whole.               *)
LEMMA CommitBatchRefines ==
  ASSUME TypeOK, NEW b \in Seq(Requests), NEW q \in Seq(Requests),
         b # << >>, b \o q = batch \o writeQueue, CommitBatch(b), writeQueue' = q
  PROVE  [Log!Next]_(Log!vars)
  <1> DEFINE pending == batch \o writeQueue
  <1>1. /\ SubSeq(pending, 1, Len(b)) = b
        /\ SubSeq(pending, Len(b) + 1, Len(pending)) = q
        /\ Len(b) \in 1..Len(pending)
    BY FrontFacts
  <1>2. << >> \o q = q
    BY ConcatEmptySeq
  <1>3. CASE BeginError(b)
    BY <1>3 DEF BeginError, Log!vars
  <1>4. CASE RollBack(b)
    <2>1. Log!Lose(Len(b))
      BY <1>1, <1>2, <1>4 DEF RollBack, Log!Lose, Log!Without
    <2> QED BY <1>1, <2>1 DEF Log!Next
  <1>5. CASE Commit(b)
    <2>1. Log!Persist(Len(b))
      BY <1>1, <1>2, <1>5 DEF Commit, Log!Persist, Log!Without
    <2> QED BY <1>1, <2>1 DEF Log!Next
  <1> QED BY <1>3, <1>4, <1>5 DEF CommitBatch

LEMMA StepRefines == TypeOK /\ [Next]_vars => [Log!Next]_(Log!vars)
  <1> SUFFICES ASSUME TypeOK, [Next]_vars PROVE [Log!Next]_(Log!vars)
    OBVIOUS
  <1>0. batch \in Seq(Requests) /\ writeQueue \in Seq(Requests)
    BY DEF TypeOK
  <1>1. CASE UNCHANGED vars
    BY <1>1 DEF vars, Log!vars
  <1>2. ASSUME NEW c \in Clients, Send(c) PROVE [Log!Next]_(Log!vars)
    <2> DEFINE r == Program(c)[sent[c] + 1]
    <2>1. r \in Requests
      BY <1>2, NextRequest DEF Send, TypeOK
    <2>2. batch \o Append(writeQueue, r) = Append(batch \o writeQueue, r)
      BY <1>0, <2>1, ConcatAppend
    <2>3. Log!Accept(r)
      BY <1>2, <2>2 DEF Send, Log!Accept
    <2> QED BY <2>1, <2>3 DEF Log!Next
  <1>3. CASE Receive
    <2> DEFINE b == Append(batch, Head(writeQueue))
               q == Tail(writeQueue)
    <2>1. b \in Seq(Requests) /\ q \in Seq(Requests) /\ b \o q = batch \o writeQueue
      BY <1>0, <1>3, ShiftHead DEF Receive
    <2>2. b # << >>
      BY <1>0, <1>3, HeadTailFacts, AppendFacts DEF Receive
    <2>3. writeQueue' = q
      BY <1>3 DEF Receive
    <2>4. CASE Len(b) >= BatchSize
      <3>1. CommitBatch(b)
        BY <1>3, <2>4 DEF Receive
      <3> HIDE DEF b, q
      <3> QED BY <2>1, <2>2, <2>3, <3>1, CommitBatchRefines
    <2>5. CASE ~(Len(b) >= BatchSize)
      <3>1. batch' = b /\ rows' = rows
        BY <1>3, <2>5 DEF Receive
      <3> HIDE DEF b, q
      <3> QED BY <2>1, <2>3, <3>1 DEF Log!vars
    <2> QED BY <2>4, <2>5
  <1>4. CASE Tick
    BY <1>0, <1>4, CommitBatchRefines DEF Tick
  <1>5. CASE Crash
    <2> DEFINE pending == batch \o writeQueue
    <2>1. pending \in Seq(Requests) /\ Len(pending) \in Nat
      BY <1>0, ConcatProperties
    <2>2. << >> \o << >> = << >>
      BY ConcatEmptySeq
    <2>3. pending' = << >> /\ rows' = rows
      BY <1>5, <2>2 DEF Crash
    <2>4. CASE pending = << >>
      BY <2>3, <2>4 DEF Log!vars
    <2>5. CASE pending # << >>
      <3>1. Len(pending) \in 1..Len(pending)
        BY <2>1, <2>5, EmptySeq
      <3>2. SubSeq(pending, Len(pending) + 1, Len(pending)) = << >>
        BY <2>1, SubSeqEmpty
      <3>3. Log!Lose(Len(pending))
        BY <2>3, <3>2 DEF Log!Lose, Log!Without
      <3> QED BY <3>1, <3>3 DEF Log!Next
    <2> QED BY <2>4, <2>5
  <1> QED BY <1>1, <1>2, <1>3, <1>4, <1>5 DEF Next

LEMMA InitRefines == Init => Log!Init
  <1>1. << >> \o << >> = << >>
    BY ConcatEmptySeq
  <1> QED BY <1>1 DEF Init, Log!Init

(* The writer implements the lossy log: requests become durable in the     *)
(* order in which they were accepted, in whole groups, or not at all.      *)
THEOREM Refinement == Spec => ImplementsLossyLog
  BY InitRefines, StepRefines, TypeCorrect, PTL DEF Spec, ImplementsLossyLog, Log!Spec

----------------------------------------------------------------------------
(* What a request is tells its client and its place in the program. *)
LEMMA ProgramOrder ==
  ASSUME NEW c \in Clients, NEW n \in 0..3, n < Len(Program(c)), NEW p \in Pools
  PROVE  /\ Program(c)[n + 1] = PoolRow(p) => c = p /\ n = 2
         /\ c = p /\ n = 0 => Program(c)[n + 1] = Token(Token0[p])
         /\ c = p /\ n = 1 => Program(c)[n + 1] = Token(Token1[p])
  <1>1. CASE c \in Pools
    <2>1. Program(c) = <<Token(Token0[c]), Token(Token1[c]), PoolRow(c)>>
      BY <1>1 DEF Program
    <2>2. n \in 0..2
      BY <2>1
    <2>3. CASE n = 0
      BY <2>1, <2>3 DEF Token, PoolRow
    <2>4. CASE n = 1
      BY <2>1, <2>4 DEF Token, PoolRow
    <2>5. CASE n = 2
      BY <2>1, <2>5 DEF PoolRow
    <2> QED BY <2>2, <2>3, <2>4, <2>5
  <1>2. CASE c \notin Pools
    <2>1. Program(c) = <<Event(c)>> /\ n = 0
      BY <1>2 DEF Program
    <2> QED BY <1>2, <2>1 DEF Event, PoolRow
  <1> QED BY <1>1, <1>2

(* A request that joins the queue is behind those that are there. *)
LEMMA SendOrder ==
  ASSUME TypeOK, TokensFirst, SentIsSomewhere, NEW c \in Clients, Send(c)
  PROVE  TokensFirst' /\ SentIsSomewhere'
  <1> DEFINE r == Program(c)[sent[c] + 1]
             k == Len(writeQueue)
  <1>1. sent[c] \in 0..3 /\ sent[c] < Len(Program(c)) /\ k \in Nat
    BY DEF Send, TypeOK
  <1>2. r \in Requests
    BY <1>1, NextRequest
  <1>3. /\ writeQueue' = Append(writeQueue, r) /\ Len(writeQueue') = k + 1
        /\ writeQueue'[k + 1] = r
        /\ \A i \in 1..k : writeQueue'[i] = writeQueue[i]
    BY <1>2 DEF Send, TypeOK
  <1>4. UNCHANGED <<batch, rows, rollBacks>> /\ sent' = [sent EXCEPT ![c] = @ + 1]
    BY DEF Send
  <1>5. ASSUME NEW x, NEW i \in 1..(k + 1) PROVE Ahead(x, i) => Ahead(x, i)'
    BY <1>1, <1>3, <1>4 DEF Ahead, InBatch, InDB
  <1>6. ASSUME NEW x, Ahead(x, k + 1) \/ x = r PROVE Ahead(x, Len(writeQueue) + 1)'
    BY <1>1, <1>3, <1>4, <1>6 DEF Ahead, InBatch, InDB
  <1> HIDE DEF r, k
  <1>7. SUFFICES ASSUME rollBacks = 0, NEW p \in Pools
                 PROVE  /\ \A t \in {Token(Token0[p]), Token(Token1[p])} :
                             /\ InDB(PoolRow(p))' => InDB(t)'
                             /\ InBatch(PoolRow(p))' => InBatch(t)'
                             /\ \A i \in 1..Len(writeQueue') :
                                  writeQueue'[i] = PoolRow(p) => Ahead(t, i)'
                        /\ sent'[p] >= 1 => Ahead(Token(Token0[p]), Len(writeQueue) + 1)'
                        /\ sent'[p] >= 2 => Ahead(Token(Token1[p]), Len(writeQueue) + 1)'
    BY <1>4 DEF TokensFirst, SentIsSomewhere, Token, PoolRow
  <1>8. /\ r = PoolRow(p) => c = p /\ sent[c] = 2
        /\ c = p /\ sent[c] = 0 => r = Token(Token0[p])
        /\ c = p /\ sent[c] = 1 => r = Token(Token1[p])
    BY <1>1, ProgramOrder DEF r
  <1>9. /\ sent[p] >= 1 => Ahead(Token(Token0[p]), k + 1)
        /\ sent[p] >= 2 => Ahead(Token(Token1[p]), k + 1)
    BY <1>7 DEF SentIsSomewhere, k
  <1>10. sent[p] \in 0..3 /\ sent'[p] = IF p = c THEN sent[p] + 1 ELSE sent[p]
    BY <1>4 DEF TypeOK, Clients
  <1>11. /\ sent'[p] >= 1 => Ahead(Token(Token0[p]), Len(writeQueue) + 1)'
         /\ sent'[p] >= 2 => Ahead(Token(Token1[p]), Len(writeQueue) + 1)'
    BY <1>6, <1>8, <1>9, <1>10
  <1>12. ASSUME NEW t \in {Token(Token0[p]), Token(Token1[p])}
         PROVE  /\ InDB(PoolRow(p))' => InDB(t)'
                /\ InBatch(PoolRow(p))' => InBatch(t)'
                /\ \A i \in 1..Len(writeQueue') :
                     writeQueue'[i] = PoolRow(p) => Ahead(t, i)'
    <2>1. /\ InDB(PoolRow(p)) => InDB(t)
          /\ InBatch(PoolRow(p)) => InBatch(t)
          /\ \A i \in 1..k : writeQueue[i] = PoolRow(p) => Ahead(t, i)
      BY <1>7 DEF TokensFirst, k
    <2>2. ASSUME NEW i \in 1..(k + 1), writeQueue'[i] = PoolRow(p) PROVE Ahead(t, i)'
      <3>1. CASE i = k + 1
        <4>1. Ahead(t, k + 1)
          BY <1>3, <1>8, <1>9, <2>2, <3>1
        <4> QED BY <1>1, <1>5, <3>1, <4>1
      <3>2. CASE i \in 1..k
        BY <1>1, <1>3, <1>5, <2>1, <2>2, <3>2
      <3> QED BY <1>1, <3>1, <3>2
    <2> QED BY <1>3, <1>4, <2>1, <2>2 DEF InDB, InBatch
  <1> QED BY <1>11, <1>12

(* The batch b, the batch so far or with the first request of the queue,   *)
(* is kept or committed: what was in the batch or the database still is,   *)
(* and of the database as well.                                            *)
LEMMA CommitKeeps ==
  ASSUME TypeOK, NEW b \in Seq(Requests), CommitBatch(b) \/ (batch' = b /\ rows' = rows),
         rollBacks' = rollBacks
  PROVE  /\ Range(rows') \cup Range(batch') = Range(rows) \cup Range(b)
         /\ Range(rows') \in {Range(rows), Range(rows) \cup Range(b)}
  <1>1. CASE batch' = b /\ rows' = rows
    BY <1>1
  <1>2. CASE Commit(b)
    <2>1. Range(rows \o b) = Range(rows) \cup Range(b)
      <3>1. rows \in Seq(Requests)
        BY DEF TypeOK
      <3>2. ASSUME NEW x \in Range(rows \o b) PROVE x \in Range(rows) \cup Range(b)
        <4>1. PICK i \in 1..(Len(rows) + Len(b)) : (rows \o b)[i] = x
          BY <3>1, <3>2, ConcatProperties DEF Range
        <4>2. CASE i <= Len(rows)
          BY <3>1, <4>1, <4>2, ConcatProperties DEF Range
        <4>3. CASE i > Len(rows)
          <5>1. i - Len(rows) \in 1..Len(b) /\ b[i - Len(rows)] = x
            BY <3>1, <4>1, <4>3, ConcatProperties
          <5> QED BY <5>1 DEF Range
        <4> QED BY <3>1, <4>1, <4>2, <4>3
      <3>3. ASSUME NEW x \in Range(rows) PROVE x \in Range(rows \o b)
        <4>1. PICK i \in 1..Len(rows) : rows[i] = x
          BY <3>1, <3>3 DEF Range
        <4>2. i \in 1..Len(rows \o b) /\ (rows \o b)[i] = x
          BY <3>1, <4>1, ConcatProperties
        <4> QED BY <3>1, <4>2, ConcatProperties DEF Range
      <3>4. ASSUME NEW x \in Range(b) PROVE x \in Range(rows \o b)
        <4>1. PICK i \in 1..Len(b) : b[i] = x
          BY <3>4 DEF Range
        <4>2. i + Len(rows) \in 1..Len(rows \o b) /\ (rows \o b)[i + Len(rows)] = x
          BY <3>1, <4>1, ConcatProperties
        <4>3. DOMAIN (rows \o b) = 1..Len(rows \o b)
          BY <3>1, ConcatProperties
        <4> QED BY <4>2, <4>3 DEF Range
      <3> QED BY <3>2, <3>3, <3>4
    <2> QED BY <1>2, <2>1, EmptyFacts DEF Commit
  <1>3. CASE RollBack(b)
    BY <1>3 DEF RollBack, TypeOK
  <1>4. CASE BeginError(b)
    BY <1>4 DEF BeginError
  <1> QED BY <1>1, <1>2, <1>3, <1>4 DEF CommitBatch

(* The writer takes from the front and commits the batch as a whole. *)
LEMMA WriteOrder ==
  ASSUME TypeOK, TokensFirst, SentIsSomewhere, Receive \/ Tick
  PROVE  TokensFirst' /\ SentIsSomewhere'
  <1> SUFFICES ASSUME rollBacks' = 0 PROVE TokensFirst' /\ SentIsSomewhere'
    BY DEF TokensFirst, SentIsSomewhere
  <1>1. rollBacks = 0 /\ sent' = sent
    BY DEF Receive, Tick, CommitBatch, BeginError, RollBack, Commit, TypeOK
  <1>2. PICK b \in Seq(Requests) :
          /\ CommitBatch(b) \/ (batch' = b /\ rows' = rows)
          /\ \/ b = batch /\ writeQueue' = writeQueue
             \/ /\ writeQueue # << >> /\ writeQueue' = Tail(writeQueue)
                /\ Range(b) = Range(batch) \cup {writeQueue[1]}
    <2>1. CASE Tick
      BY <2>1 DEF Tick, TypeOK
    <2>2. CASE Receive
      <3> DEFINE b == Append(batch, Head(writeQueue))
      <3>1. writeQueue # << >> /\ Head(writeQueue) \in Requests
        BY <2>2, HeadTailFacts DEF Receive, TypeOK
      <3>2. b \in Seq(Requests) /\ Range(b) = Range(batch) \cup {writeQueue[1]}
        BY <3>1, AppendFacts DEF TypeOK
      <3>3. CommitBatch(b) \/ (batch' = b /\ rows' = rows)
        BY <2>2 DEF Receive
      <3> QED BY <2>2, <3>1, <3>2, <3>3 DEF Receive
    <2> QED BY <2>1, <2>2
  <1>3. /\ Range(rows') \cup Range(batch') = Range(rows) \cup Range(b)
        /\ Range(rows') \in {Range(rows), Range(rows) \cup Range(b)}
    BY <1>1, <1>2, CommitKeeps
  <1>4. ASSUME NEW x PROVE /\ InBatch(x)' <=> x \in Range(rows) \cup Range(b)
                           /\ InBatch(x) => InBatch(x)'
    BY <1>2, <1>3 DEF InBatch, InDB
  <1>5. ASSUME NEW x, NEW i \in 1..(Len(writeQueue) + 1), Ahead(x, i),
               NEW k \in 1..(Len(writeQueue') + 1),
               k = i - (Len(writeQueue) - Len(writeQueue'))
        PROVE  Ahead(x, k)'
    <2>1. CASE InBatch(x)
      BY <1>4, <2>1 DEF Ahead
    <2>2. CASE ~InBatch(x)
      <3>1. PICK j \in 1..(i - 1) : writeQueue[j] = x
        BY <1>5, <2>2 DEF Ahead
      <3>2. CASE writeQueue' = writeQueue
        BY <1>5, <3>1, <3>2 DEF Ahead, TypeOK
      <3>3. CASE writeQueue # << >> /\ writeQueue' = Tail(writeQueue)
        <4>1. CASE j = 1
          BY <1>2, <1>3, <1>4, <3>1, <3>3, <4>1 DEF Ahead
        <4>2. CASE j # 1
          <5>1. j - 1 \in 1..(k - 1) /\ writeQueue'[j - 1] = x
            BY <1>5, <3>1, <3>3, <4>2 DEF TypeOK
          <5> QED BY <5>1 DEF Ahead
        <4> QED BY <4>1, <4>2
      <3> QED BY <1>2, <3>2, <3>3
    <2> QED BY <2>1, <2>2
  <1>6. ASSUME NEW p \in Pools, NEW t \in {Token(Token0[p]), Token(Token1[p])}
        PROVE  /\ InDB(PoolRow(p))' => InDB(t)'
               /\ InBatch(PoolRow(p))' => InBatch(t)'
               /\ \A i \in 1..Len(writeQueue') :
                    writeQueue'[i] = PoolRow(p) => Ahead(t, i)'
    <2>1. /\ InDB(PoolRow(p)) => InDB(t)
          /\ InBatch(PoolRow(p)) => InBatch(t)
          /\ \A i \in 1..Len(writeQueue) : writeQueue[i] = PoolRow(p) => Ahead(t, i)
      BY <1>1, <1>6 DEF TokensFirst
    <2>2. PoolRow(p) \in Range(rows) \cup Range(b) => t \in Range(rows) \cup Range(b)
      <3>1. CASE b = batch
        BY <2>1, <3>1 DEF InBatch, InDB
      <3>2. CASE writeQueue # << >> /\ Range(b) = Range(batch) \cup {writeQueue[1]}
        <4>1. 1 \in 1..Len(writeQueue)
          BY <3>2, EmptySeq DEF TypeOK
        <4>2. writeQueue[1] = PoolRow(p) => InBatch(t)
          BY <2>1, <4>1 DEF Ahead
        <4> QED BY <2>1, <3>2, <4>2 DEF InBatch, InDB
      <3> QED BY <1>2, <3>1, <3>2
    <2>3. InDB(PoolRow(p))' => InDB(t)'
      BY <1>3, <2>1, <2>2 DEF InDB
    <2>4. ASSUME NEW i \in 1..Len(writeQueue'), writeQueue'[i] = PoolRow(p)
          PROVE  Ahead(t, i)'
      <3> DEFINE j == i + (Len(writeQueue) - Len(writeQueue'))
      <3>1. j \in 1..Len(writeQueue) /\ writeQueue[j] = PoolRow(p)
        <4>1. CASE writeQueue' = writeQueue
          BY <2>4, <4>1 DEF TypeOK
        <4>2. CASE writeQueue # << >> /\ writeQueue' = Tail(writeQueue)
          BY <2>4, <4>2, EmptySeq DEF TypeOK
        <4> QED BY <1>2, <4>1, <4>2
      <3>2. Ahead(t, j) /\ i = j - (Len(writeQueue) - Len(writeQueue'))
        BY <1>2, <2>1, <3>1 DEF TypeOK
      <3> QED BY <1>5, <3>1, <3>2
    <2> QED BY <1>4, <2>2, <2>3, <2>4
  <1>7. ASSUME NEW x, Ahead(x, Len(writeQueue) + 1) PROVE Ahead(x, Len(writeQueue) + 1)'
    <2>1. /\ Len(writeQueue) + 1 \in 1..(Len(writeQueue) + 1)
          /\ Len(writeQueue') + 1 \in 1..(Len(writeQueue') + 1)
          /\ Len(writeQueue') + 1
               = Len(writeQueue) + 1 - (Len(writeQueue) - Len(writeQueue'))
      BY <1>2 DEF TypeOK
    <2> QED BY <1>5, <1>7, <2>1
  <1>8. TokensFirst'
    BY <1>6 DEF TokensFirst, Token, PoolRow
  <1>9. SentIsSomewhere'
    BY <1>1, <1>7 DEF SentIsSomewhere, Token
  <1> QED BY <1>8, <1>9

LEMMA OrderStep ==
  TypeOK /\ TokensFirst /\ SentIsSomewhere /\ [Next]_vars
    => TokensFirst' /\ SentIsSomewhere'
  <1> SUFFICES ASSUME TypeOK, TokensFirst, SentIsSomewhere, [Next]_vars
               PROVE  TokensFirst' /\ SentIsSomewhere'
    OBVIOUS
  <1>1. CASE Crash
    <2>1. /\ writeQueue' = << >> /\ batch' = << >> /\ rows' = rows
          /\ rollBacks' = rollBacks
      BY <1>1 DEF Crash
    <2>2. Len(writeQueue') = 0 /\ Range(batch') = {}
      BY <2>1, EmptyFacts
    <2>3. ASSUME NEW p \in Pools, sent'[p] >= 1 PROVE InDB(PoolRow(p))
      BY <1>1, <2>3 DEF Crash, Clients
    <2>4. TokensFirst'
      <3>1. ASSUME NEW x PROVE (InDB(x)' <=> InDB(x)) /\ (InBatch(x)' <=> InDB(x))
        BY <2>1, <2>2 DEF InBatch, InDB
      <3> SUFFICES ASSUME rollBacks = 0, NEW p \in Pools,
                          NEW t \in {Token(Token0[p]), Token(Token1[p])}
                   PROVE  /\ InDB(PoolRow(p))' => InDB(t)'
                          /\ InBatch(PoolRow(p))' => InBatch(t)'
                          /\ \A i \in 1..Len(writeQueue') :
                               writeQueue'[i] = PoolRow(p) => Ahead(t, i)'
        BY <2>1 DEF TokensFirst, Token, PoolRow
      <3>2. InDB(PoolRow(p)) => InDB(t)
        BY DEF TokensFirst
      <3> QED BY <2>2, <3>1, <3>2
    <2>5. ASSUME NEW p \in Pools, rollBacks = 0, sent'[p] >= 1 \/ sent'[p] >= 2
          PROVE  InDB(Token(Token0[p])) /\ InDB(Token(Token1[p]))
      <3>1. sent'[p] >= 1
        BY <1>1, <2>5, ProgramFacts DEF Crash, Clients
      <3> QED BY <2>3, <2>5, <3>1 DEF TokensFirst
    <2>6. SentIsSomewhere'
      BY <2>1, <2>5 DEF SentIsSomewhere, Ahead, InBatch, InDB, Token
    <2> QED BY <2>4, <2>6
  <1>2. CASE UNCHANGED vars
    <2>1. TokensFirst'
      BY <1>2 DEF vars, TokensFirst, Ahead, InBatch, InDB, Token, PoolRow
    <2>2. SentIsSomewhere'
      BY <1>2 DEF vars, SentIsSomewhere, Ahead, InBatch, InDB, Token
    <2> QED BY <2>1, <2>2
  <1> QED BY <1>1, <1>2, SendOrder, WriteOrder DEF Next

LEMMA InitOrder == Init => TokensFirst /\ SentIsSomewhere
  <1>1. Range(<< >>) = {} /\ Len(<< >>) = 0
    BY EmptyFacts
  <1> QED BY <1>1 DEF Init, TokensFirst, SentIsSomewhere, InBatch, InDB, Clients

(* As long as no transaction has failed, every pool row has the rows of    *)
(* its tokens, crashes or not.                                             *)
THEOREM TokensStored == Spec => []PoolRowsReferenceTokens
  <1>1. Spec => [](TypeOK /\ TokensFirst /\ SentIsSomewhere)
    BY InitType, TypeStep, InitOrder, OrderStep, PTL DEF Spec
  <1>2. TokensFirst => PoolRowsReferenceTokens
    BY DEF TokensFirst, PoolRowsReferenceTokens
  <1> QED BY <1>1, <1>2, PTL

----------------------------------------------------------------------------
(* What the writer holds: in its queue, in its batch or in the database. *)
Held == Range(rows) \cup Range(batch) \cup Range(writeQueue)

(* While no transaction has failed, the writer holds whatever a discovery  *)
(* has sent, and until a crash whatever any client has sent: no full       *)
(* queue, transaction that cannot begin, or order of ticks and arrivals    *)
(* loses a request.                                                        *)
NothingLost ==
  rollBacks = 0 =>
    \A c \in Clients : (c \in Pools \/ crashes = 0) =>
      \A i \in 1..sent[c] : Program(c)[i] \in Held

(* The writer's own steps keep what it holds, unless they roll back. *)
LEMMA WriterKeeps ==
  ASSUME TypeOK, Receive \/ Tick, rollBacks' = 0
  PROVE  rollBacks = 0 /\ Held \subseteq Held'
  <1>1. rollBacks = 0
    BY DEF Receive, Tick, CommitBatch, BeginError, RollBack, Commit, TypeOK
  <1>2. CASE Tick
    <2>1. Range(rows') \cup Range(batch') = Range(rows) \cup Range(batch)
      BY <1>1, <1>2, CommitKeeps DEF Tick, TypeOK
    <2> QED BY <1>1, <1>2, <2>1 DEF Tick, Held
  <1>3. CASE Receive
    <2> DEFINE b == Append(batch, Head(writeQueue))
    <2>1. /\ writeQueue' = Tail(writeQueue) /\ Head(writeQueue) \in Requests
          /\ Range(writeQueue) = {Head(writeQueue)} \cup Range(Tail(writeQueue))
      BY <1>3, HeadTailFacts DEF Receive, TypeOK
    <2>2. b \in Seq(Requests) /\ Range(b) = Range(batch) \cup {Head(writeQueue)}
      BY <2>1, AppendFacts DEF TypeOK
    <2>3. CommitBatch(b) \/ (batch' = b /\ rows' = rows)
      BY <1>3 DEF Receive
    <2>4. Range(rows') \cup Range(batch') = Range(rows) \cup Range(b)
      <3> HIDE DEF b
      <3> QED BY <1>1, <2>2, <2>3, CommitKeeps
    <2> QED BY <1>1, <2>1, <2>2, <2>4 DEF Held
  <1> QED BY <1>2, <1>3

LEMMA HeldStep ==
  ASSUME TypeOK, TokensFirst, NothingLost, [Next]_vars
  PROVE  NothingLost'
  <1> SUFFICES ASSUME rollBacks' = 0, NEW c \in Clients, c \in Pools \/ crashes' = 0,
                      NEW i \in 1..sent'[c]
               PROVE  Program(c)[i] \in Held'
    BY DEF NothingLost, Program, Token, PoolRow, Event
  <1>1. CASE UNCHANGED vars
    BY <1>1 DEF vars, NothingLost, Held
  <1>2. CASE Receive \/ Tick
    <2>1. sent' = sent /\ crashes' = crashes
      BY <1>2 DEF Receive, Tick
    <2> QED BY <1>2, <2>1, WriterKeeps DEF NothingLost
  <1>3. ASSUME NEW d \in Clients, Send(d) PROVE Program(c)[i] \in Held'
    <2> DEFINE r == Program(d)[sent[d] + 1]
    <2>1. r \in Requests /\ writeQueue \in Seq(Requests) /\ sent[d] \in 0..3
      BY <1>3, NextRequest DEF Send, TypeOK
    <2>2. /\ UNCHANGED <<batch, rows, rollBacks, crashes>>
          /\ writeQueue' = Append(writeQueue, r)
          /\ sent' = [sent EXCEPT ![d] = @ + 1]
      BY <1>3 DEF Send
    <2>3. Held' = Held \cup {r}
      BY <2>1, <2>2, AppendFacts DEF Held
    <2>4. CASE c = d /\ i = sent[d] + 1
      BY <2>3, <2>4
    <2>5. CASE ~(c = d /\ i = sent[d] + 1)
      <3>1. i \in 1..sent[c]
        BY <2>1, <2>2, <2>5 DEF TypeOK
      <3> QED BY <2>2, <2>3, <3>1 DEF NothingLost
    <2> QED BY <2>4, <2>5
  <1>4. CASE Crash
    <2>1. /\ rows' = rows /\ rollBacks = 0 /\ crashes' # 0
          /\ sent'[c] = IF c \in Pools /\ ~InDB(PoolRow(c)) THEN 0 ELSE Len(Program(c))
      BY <1>4 DEF Crash, TypeOK
    <2>2. c \in Pools /\ InDB(PoolRow(c)) /\ i \in 1..Len(Program(c))
      BY <2>1
    <2>3. Program(c) = <<Token(Token0[c]), Token(Token1[c]), PoolRow(c)>>
      BY <2>2 DEF Program
    <2>4. Program(c)[i] \in {Token(Token0[c]), Token(Token1[c]), PoolRow(c)}
      BY <2>2, <2>3
    <2>5. InDB(Token(Token0[c])) /\ InDB(Token(Token1[c]))
      BY <2>1, <2>2 DEF TokensFirst
    <2> QED BY <2>1, <2>2, <2>4, <2>5 DEF InDB, Held
  <1> QED BY <1>1, <1>2, <1>3, <1>4 DEF Next

(* Whatever was sent is still held by the writer: that it gets into the    *)
(* database is then a matter of fairness only.                             *)
THEOREM RequestsAreHeld == Spec => []NothingLost
  <1>1. Init => NothingLost
    BY DEF Init, NothingLost, Clients
  <1>2. Spec => [](TypeOK /\ TokensFirst /\ SentIsSomewhere)
    BY InitType, TypeStep, InitOrder, OrderStep, PTL DEF Spec
  <1>3. TypeOK /\ TokensFirst /\ NothingLost /\ [Next]_vars => NothingLost'
    BY HeldStep
  <1> QED BY <1>1, <1>2, <1>3, PTL DEF Spec

----------------------------------------------------------------------------
(* PoolRecords: its inductive invariant. *)

(* The requests that are neither written nor lost. *)
Undecided == batch \o writeQueue

(* Tokens that no answer was wrong about: everything known of them is      *)
(* right, in whatever stage it is.                                         *)
RightInv ==
  \A t \in Tokens \ misread :
    /\ tokenCache[t] \in {Missing, TrueDecimals[t]}
    /\ tokenRows[t] \in {Missing, TrueDecimals[t]}
    /\ \A p \in Pools : t \in Pair(p) => decimals[p][t] \in {Missing, TrueDecimals[t]}
    /\ \A i \in 1..Len(Undecided) :
         Undecided[i] = Token(t) => content[i] \in {Missing, TrueDecimals[t]}

(* While pools are being loaded no other pool is under way, no token waits *)
(* to be written, and the cache has what the rows have.                    *)
LoadingInv ==
  (\E p \in Pools : stage[p] = "inDB") =>
    /\ \A p \in Pools : stage[p] \in {"new", "inDB", "loaded"}
    /\ \A t \in Tokens : /\ tokenRows[t] \in {Missing, tokenCache[t]}
                         /\ \A i \in 1..Len(Undecided) : Undecided[i] # Token(t)

(* The tokens of the loaded pools. *)
Settled == {t \in Tokens : \E p \in Pools : stage[p] = "loaded" /\ t \in Pair(p)}

(* The value in the cache is the one in every row, in every pool that has  *)
(* looked the token up, and in every request.                              *)
SettledInv ==
  \A t \in Settled :
    /\ tokenCache[t] # Missing
    /\ tokenRows[t] \in {Missing, tokenCache[t]}
    /\ \A p \in Pools :
         t \in Pair(p) /\ stage[p] \in {"asking", "answered", "known", "loaded"}
           => decimals[p][t] = tokenCache[t]
    /\ \A i \in 1..Len(Undecided) :
         Undecided[i] = Token(t) => content[i] = tokenCache[t]

RecordsIInv == RecordsTypeOK /\ RightInv /\ LoadingInv /\ SettledInv

----------------------------------------------------------------------------
(* Every step is a step of DBWriter, or leaves its variables alone. *)
LEMMA WriterSteps == [RecordsNext]_recordsVars => [Next]_vars
  <1> SUFFICES ASSUME [RecordsNext]_recordsVars PROVE [Next]_vars
    OBVIOUS
  <1>1. CASE Write
    BY <1>1 DEF Write, Next
  <1>2. CASE Restart
    BY <1>2 DEF Restart, Next
  <1>3. ASSUME NEW c \in Clients, SendRecord(c) PROVE [Next]_vars
    BY <1>3 DEF SendRecord, Next
  <1>4. ASSUME NEW p \in Pools,
               \/ StartMetadata(p) \/ AnswerMetadata(p) \/ InsertPool(p)
               \/ FailDiscovery(p) \/ LoadPool(p)
        PROVE  UNCHANGED vars
    BY <1>4 DEF StartMetadata, AnswerMetadata, InsertPool, FailDiscovery, LoadPool
  <1>5. CASE UNCHANGED recordsVars
    BY <1>5 DEF recordsVars
  <1> QED BY <1>1, <1>2, <1>3, <1>4, <1>5 DEF RecordsNext

(* So all that was proved of DBWriter holds here. *)
THEOREM WriterImplemented == RecordsSpec => Spec
  <1>1. RecordsInit => Init
    BY DEF RecordsInit
  <1> QED BY <1>1, WriterSteps, PTL DEF RecordsSpec, Spec

(* With discoveries as its clients, the writer implements the lossy log. *)
THEOREM RecordsRefinement == RecordsSpec => ImplementsLossyLog
  BY WriterImplemented, Refinement, PTL

(* Until a transaction fails, the tokens of a stored pool are stored. *)
THEOREM RecordsTokensStored == RecordsSpec => []PoolRowsReferenceTokens
  BY WriterImplemented, TokensStored, PTL

(* And what the discoveries have sent is held by the writer. *)
THEOREM RecordsAreHeld == RecordsSpec => []NothingLost
  BY WriterImplemented, RequestsAreHeld, PTL

----------------------------------------------------------------------------
(* A pool's tokens. *)
LEMMA PairFacts ==
  /\ \A p \in Pools : Pair(p) \subseteq Tokens
  /\ \A p \in Pools : Token0[p] \in Pair(p) /\ Token1[p] \in Pair(p)
  BY RecordsAssumption DEF Pair, Tokens, Range

LEMMA ValueFacts ==
  /\ Missing \notin Decimals
  /\ \A t \in Tokens : TrueDecimals[t] \in Decimals
  BY RecordsAssumption DEF Decimals

(* The answers about tokens give each of them decimals. *)
LEMMA AnswerFacts ==
  ASSUME NEW ts \in SUBSET Tokens, NEW a \in Answers(ts)
  PROVE  DOMAIN a = ts /\ \A t \in ts : a[t] \in Decimals
  <1>1. CASE a = [t \in ts |-> 0]
    BY <1>1 DEF Decimals
  <1>2. CASE \E bad \in SUBSET ts :
               a = [t \in ts |-> IF t \in bad THEN 18 ELSE TrueDecimals[t]]
    BY <1>2, ValueFacts DEF Decimals
  <1> QED BY <1>1, <1>2 DEF Answers

(* Keeping answers fills in what was missing and changes nothing else, and *)
(* of tokens not misread it keeps what is right.                           *)
LEMMA KeepFacts ==
  ASSUME RecordsTypeOK, NEW p \in Pools, NEW found \in [Pair(p) -> Maybe],
         NEW a \in Answers(Uncached(found)), KeepAnswers(p, found, a)
  PROVE  /\ misread \subseteq misread' /\ misread' \subseteq Tokens
         /\ tokenCache' \in [Tokens -> Maybe]
         /\ \A t \in Tokens : /\ t \in Uncached(found) \/ tokenCache'[t] = tokenCache[t]
                              /\ t \in misread' \/ tokenCache'[t] \in
                                                    {tokenCache[t], TrueDecimals[t]}
         /\ \A q \in Pools : q # p => decimals'[q] = decimals[q]
         /\ DOMAIN decimals' = Pools
         /\ decimals'[p] \in [Pair(p) -> Decimals]
         /\ \A t \in Pair(p) :
              /\ found[t] # Missing => decimals'[p][t] = found[t]
              /\ found[t] = Missing => decimals'[p][t] = tokenCache'[t]
              /\ t \in misread' \/ decimals'[p][t] \in {found[t], TrueDecimals[t]}
  <1>1. /\ Uncached(found) \subseteq Pair(p) /\ Uncached(found) \in SUBSET Tokens
        /\ \A t \in Pair(p) : t \in Uncached(found) <=> found[t] = Missing
    BY PairFacts DEF Uncached
  <1>2. DOMAIN a = Uncached(found) /\ \A t \in Uncached(found) : a[t] \in Decimals
    BY <1>1, AnswerFacts
  <1>3. misread' = misread \cup {t \in Uncached(found) : a[t] # TrueDecimals[t]}
    BY <1>2 DEF KeepAnswers
  <1>4. tokenCache' = [t \in Tokens |-> IF t \in Uncached(found) THEN a[t] ELSE tokenCache[t]]
    BY <1>2 DEF KeepAnswers, Merge, RecordsTypeOK
  <1>5. decimals' = [decimals EXCEPT ![p] =
                       [t \in Pair(p) |-> IF t \in Uncached(found) THEN a[t] ELSE found[t]]]
    BY <1>2 DEF KeepAnswers, Merge
  <1>6. /\ DOMAIN decimals' = Pools
        /\ decimals'[p] =
              [t \in Pair(p) |-> IF t \in Uncached(found) THEN a[t] ELSE found[t]]
        /\ \A q \in Pools : q # p => decimals'[q] = decimals[q]
    BY <1>5 DEF RecordsTypeOK
  <1>7. tokenCache' \in [Tokens -> Maybe]
    BY <1>2, <1>4 DEF RecordsTypeOK, Maybe
  <1>8. decimals'[p] \in [Pair(p) -> Decimals]
    <2>1. \A t \in Pair(p) : t \notin Uncached(found) => found[t] \in Decimals
      BY <1>1 DEF Maybe
    <2> QED BY <1>1, <1>2, <1>6, <2>1
  <1>9. misread \subseteq misread' /\ misread' \subseteq Tokens
    BY <1>1, <1>3 DEF RecordsTypeOK
  <1>10. ASSUME NEW t \in Tokens
         PROVE  /\ t \in Uncached(found) \/ tokenCache'[t] = tokenCache[t]
                /\ t \in misread' \/ tokenCache'[t] \in {tokenCache[t], TrueDecimals[t]}
    BY <1>3, <1>4
  <1>11. ASSUME NEW t \in Pair(p)
         PROVE  /\ found[t] # Missing => decimals'[p][t] = found[t]
                /\ found[t] = Missing => decimals'[p][t] = tokenCache'[t]
                /\ t \in misread' \/ decimals'[p][t] \in {found[t], TrueDecimals[t]}
    BY <1>1, <1>3, <1>4, <1>6, PairFacts
  <1> QED BY <1>6, <1>7, <1>8, <1>9, <1>10, <1>11

----------------------------------------------------------------------------
LEMMA UndecidedType ==
  ASSUME TypeOK
  PROVE  /\ Undecided \in Seq(Requests)
         /\ Len(Undecided) = Len(batch) + Len(writeQueue)
         /\ Len(Undecided) \in Nat
  BY ConcatProperties, LenProperties DEF TypeOK, Undecided

(* commitBatch on a batch b in front of the queue q: nothing is handled,   *)
(* or the whole of b.                                                      *)
LEMMA CommitHandles ==
  ASSUME TypeOK, NEW b \in Seq(Requests), NEW q \in Seq(Requests),
         b \o q = Undecided, CommitBatch(b), writeQueue' = q
  PROVE  /\ Handled \in 0..Len(Undecided)
         /\ Undecided' = SubSeq(Undecided, Handled + 1, Len(Undecided))
  <1>1. /\ Len(Undecided) = Len(b) + Len(q) /\ Len(b) \in Nat /\ Len(q) \in Nat
        /\ Len(Undecided) = Len(batch) + Len(writeQueue)
        /\ Undecided \in Seq(Requests)
    BY UndecidedType, ConcatProperties, LenProperties
  <1>2. CASE batch' = b
    <2>1. Handled = 0
      BY <1>1, <1>2, UndecidedType DEF Handled, TypeOK
    <2>2. SubSeq(Undecided, 1, Len(Undecided)) = Undecided
      BY <1>1, SubSeqFull
    <2> QED BY <1>1, <1>2, <2>1, <2>2 DEF Undecided
  <1>3. CASE batch' = << >>
    <2>1. Handled = Len(b) /\ Undecided' = q
      <3>1. << >> \o q = q /\ Len(<< >>) = 0
        BY ConcatEmptySeq
      <3>2. Len(batch) \in Nat /\ Len(writeQueue) \in Nat
        BY LenProperties DEF TypeOK
      <3> QED BY <1>1, <1>3, <3>1, <3>2 DEF Handled, Undecided
    <2>2. SubSeq(b \o q, Len(b) + 1, Len(b \o q)) = q
      BY FrontFacts
    <2> QED BY <1>1, <2>1, <2>2
  <1> QED BY <1>2, <1>3 DEF CommitBatch, BeginError, RollBack, Commit

(* A step of the writer takes what it handles off the front. *)
LEMMA HandledFacts ==
  ASSUME TypeOK, Receive \/ Tick
  PROVE  /\ Handled \in 0..Len(Undecided)
         /\ Undecided' = SubSeq(Undecided, Handled + 1, Len(Undecided))
  <1>0. batch \in Seq(Requests) /\ writeQueue \in Seq(Requests)
    BY DEF TypeOK
  <1>1. CASE Receive
    <2> DEFINE b == Append(batch, Head(writeQueue))
               q == Tail(writeQueue)
    <2>1. b \in Seq(Requests) /\ q \in Seq(Requests) /\ b \o q = Undecided
      BY <1>0, <1>1, ShiftHead DEF Receive, Undecided
    <2>2. writeQueue' = q /\ (CommitBatch(b) \/ batch' = b)
      BY <1>1 DEF Receive
    <2> HIDE DEF b, q
    <2>3. CASE CommitBatch(b)
      BY <2>1, <2>2, <2>3, CommitHandles
    <2>4. CASE batch' = b
      <3>1. Undecided' = Undecided
        BY <2>1, <2>2, <2>4 DEF Undecided
      <3>2. Len(b) + Len(q) = Len(batch) + Len(writeQueue)
            /\ Len(b) \in Nat /\ Len(q) \in Nat
        BY <2>1, UndecidedType, ConcatProperties, LenProperties
      <3>3. Handled = 0
        BY <1>0, <2>2, <2>4, <3>2, LenProperties DEF Handled
      <3>4. SubSeq(Undecided, 1, Len(Undecided)) = Undecided
        BY UndecidedType, SubSeqFull
      <3> QED BY <3>1, <3>3, <3>4, UndecidedType
    <2> QED BY <2>2, <2>3, <2>4
  <1>2. CASE Tick
    BY <1>0, <1>2, CommitHandles DEF Tick, Undecided
  <1> QED BY <1>1, <1>2

(* So each request that remains was there, with the same content. *)
LEMMA WriteKeeps ==
  ASSUME RecordsTypeOK, Write
  PROVE  /\ content' \in Seq(Maybe) /\ Len(content') = Len(Undecided')
         /\ Handled \in 0..Len(Undecided)
         /\ \A i \in 1..Len(Undecided') :
              \E j \in 1..Len(Undecided) :
                Undecided'[i] = Undecided[j] /\ content'[i] = content[j]
  <1>1. /\ TypeOK /\ content \in Seq(Maybe) /\ Len(content) = Len(Undecided)
        /\ Undecided \in Seq(Requests) /\ Len(Undecided) \in Nat
    BY UndecidedType DEF RecordsTypeOK
  <1>2. /\ Handled \in 0..Len(Undecided)
        /\ Undecided' = SubSeq(Undecided, Handled + 1, Len(Undecided))
        /\ content' = SubSeq(content, Handled + 1, Len(content))
    BY <1>1, HandledFacts DEF Write
  <1> DEFINE n == Handled
             l == Len(Undecided)
  <1>3. n \in 0..l /\ l \in Nat
    BY <1>1, <1>2
  <1>4. /\ \A i \in (n + 1)..l : Undecided[i] \in Requests /\ content[i] \in Maybe
    BY <1>1, <1>3, ElementOfSeq
  <1> HIDE DEF n, l
  <1>5. /\ Len(SubSeq(Undecided, n + 1, l)) = l - n
        /\ \A i \in 1..(l - n) : SubSeq(Undecided, n + 1, l)[i] = Undecided[n + i]
        /\ SubSeq(content, n + 1, l) \in Seq(Maybe)
        /\ Len(SubSeq(content, n + 1, l)) = l - n
        /\ \A i \in 1..(l - n) : SubSeq(content, n + 1, l)[i] = content[n + i]
    BY <1>3, <1>4, SubSeqProperties
  <1>6. /\ Undecided' = SubSeq(Undecided, n + 1, l) /\ content' = SubSeq(content, n + 1, l)
    BY <1>1, <1>2 DEF n, l
  <1>7. \A i \in 1..(l - n) : n + i \in 1..l
    BY <1>3
  <1>8. ASSUME NEW i \in 1..Len(Undecided')
        PROVE  \E j \in 1..l : Undecided'[i] = Undecided[j] /\ content'[i] = content[j]
    BY <1>5, <1>6, <1>7
  <1> QED BY <1>2, <1>5, <1>6, <1>8 DEF l

(* What a transaction writes for a token without a row is the content of   *)
(* one of the requests.                                                    *)
LEMMA InsertFacts ==
  ASSUME RecordsTypeOK, NEW n \in 0..Len(Undecided), NEW t \in Tokens
  PROVE  \/ InsertTokens(n)[t] = tokenRows[t]
         \/ \E i \in 1..Len(Undecided) : /\ Undecided[i] = Token(t)
                                         /\ InsertTokens(n)[t] = content[i]
  <1> DEFINE Rows == {i \in 1..n : Undecided[i] = Token(t)}
  <1>1. InsertTokens(n)[t] =
          IF tokenRows[t] = Missing /\ Rows # {}
            THEN content[CHOOSE i \in Rows : \A j \in Rows : i <= j]
            ELSE tokenRows[t]
    BY DEF InsertTokens, Undecided
  <1>2. CASE tokenRows[t] = Missing /\ Rows # {}
    <2>1. Rows \subseteq Nat
      OBVIOUS
    <2>2. \E i \in Rows : \A j \in Rows : i <= j
      BY <1>2, <2>1, LeastElement
    <2>3. PICK i \in Rows : i = CHOOSE k \in Rows : \A j \in Rows : k <= j
      BY <2>2
    <2>4. i \in 1..Len(Undecided) /\ Undecided[i] = Token(t)
      BY UndecidedType DEF RecordsTypeOK
    <2> QED BY <1>1, <1>2, <2>3, <2>4
  <1>3. CASE ~(tokenRows[t] = Missing /\ Rows # {})
    BY <1>1, <1>3
  <1> QED BY <1>2, <1>3

(* The rows after a step of the writer. *)
LEMMA WriteRows ==
  ASSUME RecordsTypeOK, Write
  PROVE  /\ tokenRows' \in [Tokens -> Maybe]
         /\ \A t \in Tokens :
              \/ tokenRows'[t] = tokenRows[t]
              \/ \E i \in 1..Len(Undecided) : /\ Undecided[i] = Token(t)
                                              /\ tokenRows'[t] = content[i]
  <1>1. Handled \in 0..Len(Undecided)
    BY WriteKeeps
  <1>2. tokenRows' = tokenRows \/ tokenRows' = InsertTokens(Handled)
    BY DEF Write
  <1>3. ASSUME NEW t \in Tokens
        PROVE  \/ tokenRows'[t] = tokenRows[t]
               \/ \E i \in 1..Len(Undecided) : /\ Undecided[i] = Token(t)
                                               /\ tokenRows'[t] = content[i]
    BY <1>1, <1>2, InsertFacts
  <1>4. \A i \in 1..Len(Undecided) : content[i] \in Maybe
    BY UndecidedType, ElementOfSeq DEF RecordsTypeOK
  <1>5. DOMAIN tokenRows' = Tokens
        /\ tokenRows' = [t \in DOMAIN tokenRows' |-> tokenRows'[t]]
    BY <1>2 DEF InsertTokens, RecordsTypeOK
  <1>6. \A t \in Tokens : tokenRows'[t] \in Maybe
    BY <1>3, <1>4 DEF RecordsTypeOK
  <1> QED BY <1>3, <1>5, <1>6

(* A request that is sent joins the others; for a token it carries what    *)
(* its pool, which is in the cache, has.                                   *)
LEMMA SendFacts ==
  ASSUME RecordsTypeOK, NEW c \in Clients, SendRecord(c)
  PROVE  /\ content' \in Seq(Maybe) /\ Len(content') = Len(Undecided')
         /\ \A i \in 1..Len(Undecided') :
              \/ /\ i \in 1..Len(Undecided)
                 /\ Undecided'[i] = Undecided[i] /\ content'[i] = content[i]
              \/ \A t \in Tokens : Undecided'[i] = Token(t) =>
                   /\ c \in Pools /\ stage[c] = "known" /\ t \in Pair(c)
                   /\ content'[i] = decimals[c][t]
  <1> DEFINE r == Program(c)[sent[c] + 1]
             l == Len(Undecided)
  <1>1. /\ TypeOK /\ content \in Seq(Maybe) /\ Len(content) = l
        /\ Undecided \in Seq(Requests) /\ l \in Nat
    BY UndecidedType DEF RecordsTypeOK
  <1>2. /\ sent[c] \in 0..3 /\ sent[c] < Len(Program(c))
        /\ writeQueue' = Append(writeQueue, r) /\ batch' = batch
        /\ content' = Append(content, Carried(c, r))
        /\ c \in Pools => stage[c] = "known"
    BY <1>1 DEF SendRecord, Send, TypeOK
  <1>3. r \in Requests
    BY <1>2, NextRequest
  <1>4. ASSUME NEW t \in Tokens, r = Token(t)
        PROVE  c \in Pools /\ t \in Pair(c) /\ Carried(c, r) = decimals[c][t]
    <2>1. CASE c \in Pools
      <3>1. Program(c) = <<Token(Token0[c]), Token(Token1[c]), PoolRow(c)>>
        BY <2>1 DEF Program
      <3>2. sent[c] + 1 \in 1..3
        BY <1>2, <3>1
      <3>3. r \in {Token(Token0[c]), Token(Token1[c]), PoolRow(c)}
        BY <3>1, <3>2
      <3>4. t \in Pair(c)
        BY <1>4, <3>3 DEF Token, PoolRow, Pair
      <3> QED BY <1>4, <2>1, <3>4 DEF Carried, Token
    <2>2. CASE c \notin Pools
      <3>1. Program(c) = <<Event(c)>> /\ sent[c] + 1 = 1
        BY <1>2, <2>2 DEF Program
      <3>2. r = Event(c)
        BY <3>1
      <3> QED BY <1>4, <3>2 DEF Event, Token
    <2> QED BY <2>1, <2>2
  <1>5. Carried(c, r) \in Maybe
    <2>1. CASE r.kind = "token"
      <3>1. c \in Pools
        <4>1. CASE c \notin Pools
          <5>1. Program(c) = <<Event(c)>> /\ sent[c] + 1 = 1
            BY <1>2, <4>1 DEF Program
          <5>2. r = Event(c)
            BY <5>1
          <5> QED BY <2>1, <5>2 DEF Event
        <4> QED BY <4>1
      <3>2. Program(c) = <<Token(Token0[c]), Token(Token1[c]), PoolRow(c)>>
        BY <3>1 DEF Program
      <3>3. sent[c] + 1 \in 1..3
        BY <1>2, <3>2
      <3>4. r \in {Token(Token0[c]), Token(Token1[c]), PoolRow(c)}
        BY <3>2, <3>3
      <3>5. r.key \in Pair(c)
        BY <2>1, <3>1, <3>4, PairFacts DEF Token, PoolRow
      <3>6. decimals[c] \in [Pair(c) -> Maybe]
        BY <3>1 DEF RecordsTypeOK
      <3> QED BY <2>1, <3>5, <3>6 DEF Carried
    <2>2. CASE r.kind # "token"
      BY <2>2 DEF Carried, Maybe
    <2> QED BY <2>1, <2>2
  <1> HIDE DEF r, l
  <1>6. Undecided' = Append(Undecided, r)
    <2>1. batch \in Seq(Requests) /\ writeQueue \in Seq(Requests)
      BY <1>1 DEF TypeOK
    <2> QED BY <1>2, <1>3, <2>1, ConcatAppend DEF Undecided
  <1>7. /\ Len(Undecided') = l + 1 /\ Undecided'[l + 1] = r
        /\ \A i \in 1..l : Undecided'[i] = Undecided[i]
    BY <1>1, <1>3, <1>6, AppendProperties DEF l
  <1>8. /\ content' \in Seq(Maybe) /\ Len(content') = l + 1
        /\ content'[l + 1] = Carried(c, r)
        /\ \A i \in 1..l : content'[i] = content[i]
    BY <1>1, <1>2, <1>5, AppendProperties
  <1>9. \A i \in 1..(l + 1) : i \in 1..l \/ i = l + 1
    BY <1>1
  <1>10. ASSUME NEW i \in 1..(l + 1)
         PROVE  \/ /\ i \in 1..l
                   /\ Undecided'[i] = Undecided[i] /\ content'[i] = content[i]
                \/ \A t \in Tokens : Undecided'[i] = Token(t) =>
                     /\ c \in Pools /\ stage[c] = "known" /\ t \in Pair(c)
                     /\ content'[i] = decimals[c][t]
    BY <1>2, <1>4, <1>7, <1>8, <1>9
  <1> QED BY <1>7, <1>8, <1>10 DEF l

(* After a crash nothing is undecided. *)
LEMMA RestartFacts ==
  ASSUME Restart
  PROVE  Undecided' = << >> /\ Len(Undecided') = 0 /\ content' = << >>
  BY ConcatEmptySeq DEF Restart, Crash, Undecided

(* What the metadata steps leave alone. *)
LEMMA MetadataFacts ==
  ASSUME NEW p \in Pools,
         \/ StartMetadata(p) \/ AnswerMetadata(p) \/ InsertPool(p)
         \/ FailDiscovery(p) \/ LoadPool(p)
  PROVE  /\ UNCHANGED <<vars, content, tokenRows>> /\ Undecided' = Undecided
  BY DEF StartMetadata, AnswerMetadata, InsertPool, FailDiscovery, LoadPool, vars, Undecided

(* An answered look-up keeps its answers. *)
LEMMA LookUpFacts ==
  ASSUME RecordsTypeOK, NEW p \in Pools, AnswerMetadata(p) \/ LoadPool(p)
  PROVE  \E found \in [Pair(p) -> Maybe] : \E a \in Answers(Uncached(found)) :
           /\ KeepAnswers(p, found, a)
           /\ AnswerMetadata(p) => found = decimals[p]
           /\ LoadPool(p) => found = Cached(p)
  <1>1. decimals[p] \in [Pair(p) -> Maybe] /\ Cached(p) \in [Pair(p) -> Maybe]
    BY PairFacts DEF RecordsTypeOK, Cached
  <1>2. CASE AnswerMetadata(p)
    <2>1. stage[p] = "asking"
      BY <1>2 DEF AnswerMetadata
    <2> QED BY <1>1, <1>2, <2>1 DEF AnswerMetadata, LoadPool
  <1>3. CASE LoadPool(p)
    <2>1. stage[p] = "inDB"
      BY <1>3 DEF LoadPool
    <2> QED BY <1>1, <1>3, <2>1 DEF AnswerMetadata, LoadPool
  <1> QED BY <1>2, <1>3

----------------------------------------------------------------------------
(* The initial state. *)
LEMMA RecordsInitIInv == RecordsInit => RecordsIInv
  <1> SUFFICES ASSUME RecordsInit PROVE RecordsIInv
    OBVIOUS
  <1>1. TypeOK /\ Undecided = << >> /\ Len(Undecided) = 0
    BY InitType, ConcatEmptySeq DEF RecordsInit, Init, Undecided
  <1>2. RecordsTypeOK
    <2>1. << >> \in Seq(Maybe) /\ Len(batch) + Len(writeQueue) = 0 /\ Missing \in Maybe
      BY DEF RecordsInit, Init, Maybe
    <2> QED BY <1>1, <2>1 DEF RecordsInit, RecordsTypeOK
  <1>3. RightInv
    <2>1. \A p \in Pools, t \in Tokens : t \in Pair(p) => decimals[p][t] = Missing
      BY DEF RecordsInit
    <2> QED BY <1>1, <2>1 DEF RecordsInit, RightInv
  <1>4. LoadingInv /\ SettledInv
    BY DEF RecordsInit, LoadingInv, SettledInv, Settled
  <1> QED BY <1>2, <1>3, <1>4 DEF RecordsIInv

(* Every step keeps the types. *)
LEMMA RecordsTypeStep == RecordsTypeOK /\ [RecordsNext]_recordsVars => RecordsTypeOK'
  <1> SUFFICES ASSUME RecordsTypeOK, [RecordsNext]_recordsVars PROVE RecordsTypeOK'
    OBVIOUS
  <1>0. TypeOK' /\ Len(Undecided') = Len(batch') + Len(writeQueue')
    <2>1. TypeOK /\ TypeOK'
      BY TypeStep, WriterSteps DEF RecordsTypeOK
    <2>2. batch' \in Seq(Requests) /\ writeQueue' \in Seq(Requests)
      BY <2>1 DEF TypeOK
    <2> QED BY <2>1, <2>2, ConcatProperties DEF Undecided
  <1>1. CASE Write
    BY <1>0, <1>1, WriteKeeps, WriteRows DEF RecordsTypeOK, Write, discovery
  <1>2. CASE Restart
    <2>1. stage' \in [Pools -> {"new", "asking", "answered", "known", "failed",
                              "inDB", "loaded"}]
      BY <1>2 DEF Restart
    <2>2. /\ DOMAIN decimals' = Pools
          /\ \A p \in Pools : /\ decimals'[p] \in [Pair(p) -> Maybe]
                              /\ stage'[p] \in {"new", "inDB"}
      BY <1>2 DEF Restart, Maybe
    <2>3. << >> \in Seq(Maybe)
      OBVIOUS
    <2> QED BY <1>0, <1>2, <2>1, <2>2, <2>3, RestartFacts DEF RecordsTypeOK, Restart
  <1>3. ASSUME NEW c \in Clients, SendRecord(c) PROVE RecordsTypeOK'
    BY <1>0, <1>3, SendFacts DEF RecordsTypeOK, SendRecord, discovery
  <1>4. ASSUME NEW p \in Pools,
               StartMetadata(p) \/ InsertPool(p) \/ FailDiscovery(p)
        PROVE  RecordsTypeOK'
    <2>1. UNCHANGED <<batch, writeQueue, content, tokenRows, tokenCache, misread>>
      BY <1>4 DEF StartMetadata, InsertPool, FailDiscovery, vars
    <2>2. Cached(p) \in [Pair(p) -> Maybe]
      BY PairFacts DEF Cached, RecordsTypeOK
    <2>3. /\ DOMAIN decimals' = Pools
          /\ \A q \in Pools : /\ decimals'[q] \in [Pair(q) -> Maybe]
                              /\ stage'[q] \in {"answered", "known", "loaded"} =>
                                   decimals'[q] \in [Pair(q) -> Decimals]
      BY <1>4, <2>2 DEF StartMetadata, InsertPool, FailDiscovery, RecordsTypeOK
    <2>4. /\ stage' \in [Pools -> {"new", "asking", "answered", "known", "failed",
                                  "inDB", "loaded"}]
          /\ isV3Style' \in [Pools -> BOOLEAN]
      BY <1>4 DEF StartMetadata, InsertPool, FailDiscovery, RecordsTypeOK
    <2> QED BY <1>0, <2>1, <2>3, <2>4 DEF RecordsTypeOK
  <1>5. ASSUME NEW p \in Pools, AnswerMetadata(p) \/ LoadPool(p) PROVE RecordsTypeOK'
    <2>1. PICK found \in [Pair(p) -> Maybe] : \E a \in Answers(Uncached(found)) :
                 KeepAnswers(p, found, a)
      BY <1>5, LookUpFacts
    <2>2. /\ misread' \in SUBSET Tokens /\ tokenCache' \in [Tokens -> Maybe]
          /\ DOMAIN decimals' = Pools /\ decimals'[p] \in [Pair(p) -> Decimals]
          /\ \A q \in Pools : q # p => decimals'[q] = decimals[q]
      BY <2>1, KeepFacts
    <2>3. UNCHANGED <<batch, writeQueue, content, tokenRows>>
      BY <1>5 DEF AnswerMetadata, LoadPool, vars
    <2>4. /\ stage' \in [Pools -> {"new", "asking", "answered", "known", "failed",
                                  "inDB", "loaded"}]
          /\ isV3Style' \in [Pools -> BOOLEAN]
          /\ \A q \in Pools : q # p => stage'[q] = stage[q]
      BY <1>5 DEF AnswerMetadata, LoadPool, RecordsTypeOK
    <2>5. ASSUME NEW q \in Pools
          PROVE  /\ decimals'[q] \in [Pair(q) -> Maybe]
                 /\ stage'[q] \in {"answered", "known", "loaded"} =>
                      decimals'[q] \in [Pair(q) -> Decimals]
      BY <2>2, <2>4 DEF RecordsTypeOK, Maybe
    <2> QED BY <1>0, <2>2, <2>3, <2>4, <2>5 DEF RecordsTypeOK
  <1>6. CASE UNCHANGED recordsVars
    BY <1>0, <1>6 DEF recordsVars, discovery, vars, RecordsTypeOK
  <1> QED BY <1>1, <1>2, <1>3, <1>4, <1>5, <1>6 DEF RecordsNext

(* Every step keeps what is right of the tokens that were not misread. *)
LEMMA RightStep ==
  RecordsTypeOK /\ RightInv /\ [RecordsNext]_recordsVars => RightInv'
  <1> SUFFICES ASSUME RecordsTypeOK, RightInv, [RecordsNext]_recordsVars,
                      NEW t \in Tokens, t \notin misread'
               PROVE  /\ tokenCache'[t] \in {Missing, TrueDecimals[t]}
                      /\ tokenRows'[t] \in {Missing, TrueDecimals[t]}
                      /\ \A p \in Pools : t \in Pair(p) =>
                           decimals'[p][t] \in {Missing, TrueDecimals[t]}
                      /\ \A i \in 1..Len(Undecided') : Undecided'[i] = Token(t) =>
                           content'[i] \in {Missing, TrueDecimals[t]}
    BY DEF RightInv, Token
  <1>0. t \notin misread =>
          /\ tokenCache[t] \in {Missing, TrueDecimals[t]}
          /\ tokenRows[t] \in {Missing, TrueDecimals[t]}
          /\ \A p \in Pools : t \in Pair(p) => decimals[p][t] \in {Missing, TrueDecimals[t]}
          /\ \A i \in 1..Len(Undecided) :
               Undecided[i] = Token(t) => content[i] \in {Missing, TrueDecimals[t]}
    BY DEF RightInv
  <1>1. CASE Write
    <2>1. UNCHANGED <<misread, tokenCache, decimals>>
      BY <1>1 DEF Write, discovery
    <2>2. tokenRows'[t] \in {Missing, TrueDecimals[t]}
      BY <1>0, <1>1, <2>1, WriteRows
    <2>3. \A i \in 1..Len(Undecided') : Undecided'[i] = Token(t) =>
            content'[i] \in {Missing, TrueDecimals[t]}
      BY <1>0, <1>1, <2>1, WriteKeeps
    <2> QED BY <1>0, <2>1, <2>2, <2>3
  <1>2. CASE Restart
    <2>1. /\ misread' = misread /\ tokenRows' = tokenRows /\ tokenCache' = tokenRows
          /\ \A p \in Pools : t \in Pair(p) => decimals'[p][t] = Missing
      BY <1>2 DEF Restart
    <2> QED BY <1>0, <1>2, <2>1, RestartFacts
  <1>3. ASSUME NEW c \in Clients, SendRecord(c) PROVE RightInv'
    <2>1. UNCHANGED <<misread, tokenCache, tokenRows, decimals>>
      BY <1>3 DEF SendRecord, discovery
    <2>2. ASSUME NEW u \in Tokens, u \notin misread', NEW i \in 1..Len(Undecided'),
                 Undecided'[i] = Token(u)
          PROVE  content'[i] \in {Missing, TrueDecimals[u]}
      BY <1>3, <2>1, <2>2, SendFacts DEF RightInv
    <2> QED BY <2>1, <2>2 DEF RightInv, Token, Pair
  <1>4. ASSUME NEW p \in Pools, StartMetadata(p) \/ InsertPool(p) \/ FailDiscovery(p)
        PROVE  \A q \in Pools : t \in Pair(q) =>
                 decimals'[q][t] \in {Missing, TrueDecimals[t]}
    <2>1. /\ misread' = misread
          /\ \A q \in Pools : decimals'[q] = decimals[q] \/ decimals'[q] = Cached(q)
      BY <1>4 DEF StartMetadata, InsertPool, FailDiscovery, RecordsTypeOK
    <2>2. \A q \in Pools : t \in Pair(q) => Cached(q)[t] = tokenCache[t]
      BY DEF Cached
    <2> QED BY <1>0, <2>1, <2>2
  <1>5. ASSUME NEW p \in Pools, StartMetadata(p) \/ InsertPool(p) \/ FailDiscovery(p)
        PROVE  UNCHANGED <<misread, tokenCache, tokenRows, content, Undecided>>
    BY <1>5, MetadataFacts DEF StartMetadata, InsertPool, FailDiscovery
  <1>6. ASSUME NEW p \in Pools, AnswerMetadata(p) \/ LoadPool(p)
        PROVE  /\ tokenCache'[t] \in {Missing, TrueDecimals[t]}
               /\ UNCHANGED <<tokenRows, content, Undecided>> /\ t \notin misread
               /\ \A q \in Pools : t \in Pair(q) =>
                    decimals'[q][t] \in {Missing, TrueDecimals[t]}
    <2>1. PICK found \in [Pair(p) -> Maybe] : \E a \in Answers(Uncached(found)) :
                 /\ KeepAnswers(p, found, a)
                 /\ AnswerMetadata(p) => found = decimals[p]
                 /\ LoadPool(p) => found = Cached(p)
      BY <1>6, LookUpFacts
    <2>2. /\ misread \subseteq misread'
          /\ tokenCache'[t] \in {tokenCache[t], TrueDecimals[t]}
          /\ \A q \in Pools : q # p => decimals'[q] = decimals[q]
          /\ t \in Pair(p) => decimals'[p][t] \in {found[t], TrueDecimals[t]}
      BY <2>1, KeepFacts
    <2>3. t \in Pair(p) => found[t] \in {decimals[p][t], tokenCache[t]}
      BY <1>6, <2>1 DEF Cached
    <2> QED BY <1>0, <1>6, <2>2, <2>3, MetadataFacts
  <1>7. CASE UNCHANGED recordsVars
    BY <1>0, <1>7 DEF recordsVars, discovery, vars, Undecided
  <1> QED BY <1>0, <1>1, <1>2, <1>3, <1>4, <1>5, <1>6, <1>7 DEF RecordsNext, RightInv

(* Every step keeps the loading phase apart from the discoveries. *)
LEMMA LoadingStep ==
  RecordsTypeOK /\ LoadingInv /\ [RecordsNext]_recordsVars => LoadingInv'
  <1> SUFFICES ASSUME RecordsTypeOK, LoadingInv, [RecordsNext]_recordsVars,
                      NEW b \in Pools, stage'[b] = "inDB"
               PROVE  LoadingInv'
    BY DEF LoadingInv
  <1> USE DEF LoadingInv
  <1>1. CASE Restart
    <2>1. /\ \A p \in Pools : stage'[p] \in {"new", "inDB"}
          /\ tokenRows' = tokenRows /\ tokenCache' = tokenRows
      BY <1>1 DEF Restart
    <2> QED BY <1>1, <2>1, RestartFacts
  <1>2. CASE ~Restart
    <2>1. /\ stage[b] = "inDB"
          /\ \A p \in Pools : stage'[p] # stage[p] => LoadPool(p) /\ stage'[p] = "loaded"
      <3>1. stage[b] = "inDB"
        BY <1>2 DEF RecordsNext, Write, SendRecord, StartMetadata, AnswerMetadata,
           InsertPool, FailDiscovery, LoadPool, recordsVars, discovery, RecordsTypeOK
      <3>2. \A p \in Pools : stage[p] \notin {"asking", "answered", "known"}
        BY <3>1
      <3> QED BY <1>2, <3>1, <3>2 DEF RecordsNext, Write, SendRecord, StartMetadata,
              AnswerMetadata, InsertPool, FailDiscovery, LoadPool, recordsVars, discovery,
              RecordsTypeOK
    <2>2. /\ \A p \in Pools : stage[p] \in {"new", "inDB", "loaded"}
          /\ \A t \in Tokens : /\ tokenRows[t] \in {Missing, tokenCache[t]}
                               /\ \A i \in 1..Len(Undecided) : Undecided[i] # Token(t)
      BY <2>1
    <2>3. \A p \in Pools : stage'[p] \in {"new", "inDB", "loaded"}
      BY <2>1, <2>2
    <2>4. CASE Write
      <3>1. UNCHANGED tokenCache
        BY <2>4 DEF Write, discovery
      <3>2. \A t \in Tokens : tokenRows'[t] = tokenRows[t]
        BY <2>2, <2>4, WriteRows
      <3>3. \A t \in Tokens : \A i \in 1..Len(Undecided') : Undecided'[i] # Token(t)
        BY <2>2, <2>4, WriteKeeps
      <3> QED BY <2>2, <2>3, <3>1, <3>2, <3>3 DEF Token
    <2>5. ASSUME NEW c \in Clients, SendRecord(c) PROVE LoadingInv'
      <3>1. UNCHANGED <<tokenCache, tokenRows, stage>>
        BY <2>5 DEF SendRecord, discovery
      <3>2. c \in Pools => stage[c] # "known"
        BY <2>2
      <3>3. \A t \in Tokens : \A i \in 1..Len(Undecided') : Undecided'[i] # Token(t)
        BY <2>2, <2>5, <3>2, SendFacts
      <3> QED BY <2>2, <3>1, <3>3 DEF Token
    <2>6. ASSUME NEW p \in Pools, LoadPool(p) PROVE LoadingInv'
      <3>1. PICK found \in [Pair(p) -> Maybe] :
                   /\ found = Cached(p)
                   /\ \E a \in Answers(Uncached(found)) : KeepAnswers(p, found, a)
        BY <2>6, LookUpFacts
      <3>a. PICK a \in Answers(Uncached(found)) : KeepAnswers(p, found, a)
        BY <3>1
      <3>2. \A t \in Tokens : t \in Uncached(found) \/ tokenCache'[t] = tokenCache[t]
        BY <3>a, KeepFacts
      <3>3. \A t \in Uncached(found) : tokenCache[t] = Missing
        BY <3>1 DEF Uncached, Cached
      <3>4. UNCHANGED <<tokenRows, Undecided>>
        BY <2>6, MetadataFacts
      <3>5. \A t \in Tokens : tokenRows[t] \in {Missing, tokenCache'[t]}
        BY <2>2, <3>2, <3>3
      <3> QED BY <2>2, <2>3, <3>4, <3>5 DEF Token
    <2>7. ASSUME NEW p \in Pools,
                 StartMetadata(p) \/ AnswerMetadata(p) \/ InsertPool(p) \/ FailDiscovery(p)
          PROVE  FALSE
      BY <2>1, <2>2, <2>7 DEF StartMetadata, AnswerMetadata, InsertPool, FailDiscovery
    <2>8. CASE UNCHANGED recordsVars
      BY <2>8 DEF recordsVars, discovery, vars, Undecided, Token
    <2> QED BY <1>2, <2>4, <2>5, <2>6, <2>7, <2>8 DEF RecordsNext
  <1> QED BY <1>1, <1>2

(* Every step keeps the settled values. *)
LEMMA SettledStep ==
  RecordsTypeOK /\ LoadingInv /\ SettledInv /\ [RecordsNext]_recordsVars => SettledInv'
  <1> SUFFICES ASSUME RecordsTypeOK, LoadingInv, SettledInv, [RecordsNext]_recordsVars,
                      NEW t \in Tokens, t \in Settled'
               PROVE  /\ tokenCache'[t] # Missing
                      /\ tokenRows'[t] \in {Missing, tokenCache'[t]}
                      /\ \A p \in Pools :
                           t \in Pair(p) /\ stage'[p] \in {"asking", "answered", "known", "loaded"}
                             => decimals'[p][t] = tokenCache'[t]
                      /\ \A i \in 1..Len(Undecided') :
                           Undecided'[i] = Token(t) => content'[i] = tokenCache'[t]
    BY DEF SettledInv, Settled, Token, Pair
  <1>0. t \in Settled =>
          /\ tokenCache[t] # Missing
          /\ tokenRows[t] \in {Missing, tokenCache[t]}
          /\ \A p \in Pools :
               t \in Pair(p) /\ stage[p] \in {"asking", "answered", "known", "loaded"}
                 => decimals[p][t] = tokenCache[t]
          /\ \A i \in 1..Len(Undecided) :
               Undecided[i] = Token(t) => content[i] = tokenCache[t]
    BY DEF SettledInv
  <1>1. CASE Write
    <2>1. UNCHANGED <<stage, tokenCache, decimals>> /\ t \in Settled
      BY <1>1 DEF Write, discovery, Settled, Pair
    <2>2. tokenRows'[t] \in {Missing, tokenCache[t]}
      BY <1>0, <1>1, <2>1, WriteRows
    <2>3. \A i \in 1..Len(Undecided') : Undecided'[i] = Token(t) =>
            content'[i] = tokenCache[t]
      BY <1>0, <1>1, <2>1, WriteKeeps
    <2> QED BY <1>0, <2>1, <2>2, <2>3
  <1>2. CASE Restart
    BY <1>2 DEF Restart, Settled
  <1>3. ASSUME NEW c \in Clients, SendRecord(c)
        PROVE  /\ UNCHANGED <<stage, tokenCache, tokenRows, decimals>> /\ t \in Settled
               /\ \A i \in 1..Len(Undecided') :
                    Undecided'[i] = Token(t) => content'[i] = tokenCache[t]
    <2>1. UNCHANGED <<stage, tokenCache, tokenRows, decimals>> /\ t \in Settled
      BY <1>3 DEF SendRecord, discovery, Settled, Pair
    <2>2. ASSUME NEW i \in 1..Len(Undecided'), Undecided'[i] = Token(t)
          PROVE  content'[i] = tokenCache[t]
      BY <1>0, <1>3, <2>1, <2>2, SendFacts
    <2> QED BY <2>1, <2>2
  <1>4. ASSUME NEW p \in Pools, StartMetadata(p) \/ InsertPool(p) \/ FailDiscovery(p)
        PROVE  /\ UNCHANGED <<tokenCache, tokenRows, content, Undecided>> /\ t \in Settled
               /\ \A q \in Pools :
                    t \in Pair(q) /\ stage'[q] \in {"asking", "answered", "known", "loaded"}
                      => decimals'[q][t] = tokenCache[t]
    <2>1. UNCHANGED <<tokenCache, tokenRows, content, Undecided>>
      BY <1>4, MetadataFacts DEF StartMetadata, InsertPool, FailDiscovery
    <2>2. \A q \in Pools :
            /\ stage'[q] = "loaded" => stage[q] = "loaded"
            /\ stage'[q] \in {"asking", "answered", "known", "loaded"} =>
                 \/ decimals'[q] = Cached(q)
                 \/ /\ decimals'[q] = decimals[q]
                    /\ stage[q] \in {"asking", "answered", "known", "loaded"}
      BY <1>4 DEF StartMetadata, InsertPool, FailDiscovery, RecordsTypeOK
    <2>3. t \in Settled
      BY <2>2 DEF Settled, Pair
    <2>4. \A q \in Pools : t \in Pair(q) => Cached(q)[t] = tokenCache[t]
      BY DEF Cached
    <2> QED BY <1>0, <2>1, <2>2, <2>3, <2>4
  <1>5. ASSUME NEW p \in Pools, AnswerMetadata(p)
        PROVE  /\ tokenCache'[t] = tokenCache[t] /\ t \in Settled
               /\ UNCHANGED <<tokenRows, content, Undecided>>
               /\ \A q \in Pools :
                    t \in Pair(q) /\ stage'[q] \in {"asking", "answered", "known", "loaded"}
                      => decimals'[q][t] = tokenCache[t]
    <2>1. PICK found \in [Pair(p) -> Maybe] :
                 /\ found = decimals[p]
                 /\ \E a \in Answers(Uncached(found)) : KeepAnswers(p, found, a)
      BY <1>5, LookUpFacts
    <2>a. PICK a \in Answers(Uncached(found)) : KeepAnswers(p, found, a)
      BY <2>1
    <2>2. /\ stage[p] = "asking"
          /\ \A q \in Pools : q # p => stage'[q] = stage[q]
          /\ stage'[p] = "answered"
      BY <1>5 DEF AnswerMetadata, RecordsTypeOK
    <2>3. t \in Settled
      BY <2>2 DEF Settled, Pair
    <2>4. t \in Pair(p) => found[t] = tokenCache[t] /\ found[t] # Missing
      BY <1>0, <2>1, <2>2, <2>3
    <2>5. t \notin Uncached(found)
      BY <2>4 DEF Uncached
    <2>6. /\ t \in Uncached(found) \/ tokenCache'[t] = tokenCache[t]
          /\ \A q \in Pools : q # p => decimals'[q] = decimals[q]
          /\ t \in Pair(p) /\ found[t] # Missing => decimals'[p][t] = found[t]
      BY <2>a, KeepFacts
    <2> QED BY <1>0, <1>5, <2>2, <2>3, <2>4, <2>5, <2>6, MetadataFacts
  <1>6. ASSUME NEW p \in Pools, LoadPool(p)
        PROVE  /\ tokenCache'[t] # Missing /\ tokenRows'[t] \in {Missing, tokenCache'[t]}
               /\ \A q \in Pools :
                    t \in Pair(q) /\ stage'[q] \in {"asking", "answered", "known", "loaded"}
                      => decimals'[q][t] = tokenCache'[t]
               /\ \A i \in 1..Len(Undecided') : Undecided'[i] # Token(t)
    <2>1. PICK found \in [Pair(p) -> Maybe] :
                 /\ found = Cached(p)
                 /\ \E a \in Answers(Uncached(found)) : KeepAnswers(p, found, a)
      BY <1>6, LookUpFacts
    <2>a. PICK a \in Answers(Uncached(found)) : KeepAnswers(p, found, a)
      BY <2>1
    <2>2. /\ stage[p] = "inDB" /\ stage'[p] = "loaded"
          /\ \A q \in Pools : q # p => stage'[q] = stage[q]
      BY <1>6 DEF LoadPool, RecordsTypeOK
    <2>3. /\ \A q \in Pools : stage[q] \in {"new", "inDB", "loaded"}
          /\ tokenRows[t] \in {Missing, tokenCache[t]}
          /\ \A i \in 1..Len(Undecided) : Undecided[i] # Token(t)
      BY <2>2 DEF LoadingInv
    <2>4. UNCHANGED <<tokenRows, Undecided>>
      BY <1>6, MetadataFacts
    <2>5. /\ t \in Uncached(found) \/ tokenCache'[t] = tokenCache[t]
          /\ \A q \in Pools : q # p => decimals'[q] = decimals[q]
          /\ decimals'[p] \in [Pair(p) -> Decimals]
          /\ t \in Pair(p) => /\ found[t] # Missing => decimals'[p][t] = found[t]
                              /\ found[t] = Missing => decimals'[p][t] = tokenCache'[t]
      BY <2>a, KeepFacts
    <2>6. t \in Pair(p) => found[t] = tokenCache[t]
      BY <2>1 DEF Cached
    <2>7. t \in Uncached(found) => t \in Pair(p) /\ tokenCache[t] = Missing
      BY <2>1 DEF Uncached, Cached
    <2>8. t \in Pair(p) => decimals'[p][t] = tokenCache'[t] /\ tokenCache'[t] # Missing
      BY <2>5, <2>6, <2>7, ValueFacts
    <2>9. t \notin Pair(p) => t \in Settled
      BY <2>2 DEF Settled, Pair
    <2>10. tokenCache'[t] # Missing
      BY <1>0, <2>5, <2>7, <2>8, <2>9
    <2>11. tokenRows'[t] \in {Missing, tokenCache'[t]}
      BY <2>3, <2>4, <2>5, <2>7
    <2>12. ASSUME NEW q \in Pools, q # p, t \in Pair(q),
                  stage'[q] \in {"asking", "answered", "known", "loaded"}
           PROVE  decimals'[q][t] = tokenCache'[t]
      <3>1. stage[q] = "loaded" /\ t \in Settled
        BY <2>2, <2>3, <2>12 DEF Settled
      <3> QED BY <1>0, <2>5, <2>7, <2>12, <3>1
    <2> QED BY <2>3, <2>4, <2>8, <2>10, <2>11, <2>12
  <1>7. CASE UNCHANGED recordsVars
    <2>1. UNCHANGED <<stage, tokenCache, tokenRows, decimals, content, Undecided>>
      BY <1>7 DEF recordsVars, discovery, vars, Undecided
    <2>2. t \in Settled
      BY <2>1 DEF Settled, Pair
    <2> QED BY <1>0, <2>1, <2>2
  <1> QED BY <1>0, <1>1, <1>2, <1>3, <1>4, <1>5, <1>6, <1>7 DEF RecordsNext

----------------------------------------------------------------------------
(* The inductive invariant holds in every reachable state. *)
THEOREM RecordsInvariance == RecordsSpec => []RecordsIInv
  <1>1. RecordsIInv /\ [RecordsNext]_recordsVars => RecordsIInv'
    BY RecordsTypeStep, RightStep, LoadingStep, SettledStep DEF RecordsIInv
  <1> QED BY RecordsInitIInv, <1>1, PTL DEF RecordsSpec

(* Every variable keeps its type; a pool in the cache has its decimals. *)
THEOREM RecordsTypeCorrect == RecordsSpec => []RecordsTypeOK
  BY RecordsInvariance, PTL DEF RecordsIInv

(* A wrong answer about one token never spreads to another. *)
THEOREM WrongAnswersStay == RecordsSpec => []OthersAreRight
  <1>1. RecordsIInv => OthersAreRight
    BY ValueFacts DEF RecordsIInv, RightInv, OthersAreRight, RecordsTypeOK, InCache
  <1> QED BY RecordsInvariance, <1>1, PTL

(* The decimals of a loaded pool are those of the token cache and of every *)
(* row: one value for each token from the first restart on.                *)
THEOREM DecimalsSettled == RecordsSpec => []MetadataSettled
  <1>1. RecordsIInv => MetadataSettled
    BY PairFacts DEF RecordsIInv, SettledInv, Settled, MetadataSettled
  <1> QED BY RecordsInvariance, <1>1, PTL
=============================================================================
