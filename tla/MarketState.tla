---------------------------- MODULE MarketState ----------------------------
(***************************************************************************)
(* The market cache under its RWMutex (bot-v2-alpha, dispatcher mode): one *)
(* goroutine per Market.ProcessSwap, the Scan each of them ends with, and  *)
(* the Updater.  ProcessSwap looks the pool up under the read lock, sends  *)
(* the swap to the DB writer, updates the pool's fields under the write    *)
(* lock, computes the price from those fields WITHOUT the lock, stores it  *)
(* under the write lock, and scans under the read lock, from which it      *)
(* broadcasts to the Hub and sends to the DB writer.                       *)
(*                                                                         *)
(* Data abstraction.  A pool has two fields that a swap changes together   *)
(* (V2: Reserve0, Reserve1; V3: SqrtPriceX96, and Liquidity with Tick).    *)
(* The value of a field is the set of swaps it counts: a V2 swap adds its  *)
(* deltas, a V3 swap replaces what was there.  A price is the pair of      *)
(* field values it was computed from; V3 prices use the first field only.  *)
(***************************************************************************)
EXTENDS Naturals, FiniteSets

CONSTANTS
  Swaps,             \* the calls of ProcessSwap, for pools in the cache
  Pools, PoolOf,     \* the pools, and vLog.Address of each swap
  V3Pools,           \* the pools with IsV3Style
  Unfetched,         \* pools whose reserves were never fetched
  Updater,           \* the Updater's goroutine
  NoOne,             \* no goroutine
  QueueCap,          \* capacity of WriteQueue (2048 in the code)
  MaxFound,          \* pairs of pools a Scan may find profitable
  MaxRounds          \* bound on the Updater's ticks explored

ASSUME PoolsAssumption ==
  PoolOf \in [Swaps -> Pools] /\ V3Pools \subseteq Pools /\ Unfetched \subseteq Pools
ASSUME ProcsAssumption ==
  Updater \notin Swaps /\ NoOne \notin Swaps \cup {Updater}
ASSUME BoundsAssumption ==
  QueueCap \in Nat \ {0} /\ MaxFound \in Nat /\ MaxRounds \in Nat

VARIABLES
  pc,        \* control state of each goroutine
  lock,      \* Cache.Lock
  first,     \* first field of each pool
  second,    \* second field of each pool
  price,     \* PoolPrice of each pool
  seen,      \* the two field values a ProcessSwap has read
  found,     \* opportunities its Scan has found so far
  dbQueue,   \* length of WriteQueue
  hubBusy,   \* the Hub is writing a message to its clients
  rounds     \* ticks of the Updater so far

fieldVars == <<first, second, price>>
vars == <<pc, lock, first, second, price, seen, found, dbQueue, hubBusy, rounds>>

Procs == Swaps \cup {Updater}

SwapPC == {"idle", "lookup", "save", "wantState", "waitState", "writeFirst",
           "writeSecond", "readFirst", "readSecond", "wantPrice", "waitPrice",
           "wantScan", "scan", "broadcast", "saveFound", "done", "dropped"}

UpdaterPC == {"idle", "snapshot", "fetch", "wantApply", "waitApply", "getPool"}

(* What a read that races with a write may return: no set of swaps. *)
Torn == {NoOne}

GoTo(x, label) == pc' = [pc EXCEPT ![x] = label]

----------------------------------------------------------------------------
(* sync.RWMutex.  `writer' has called Lock and not yet Unlock; it holds    *)
(* the lock when the readers it found have left.  A RLock meanwhile waits, *)
(* and Unlock lets everyone in who waits.                                  *)

(* Mutant: another writer is not waited for. *)
Lock_NoWait(x) == lock' = [lock EXCEPT !.writer = x]

Lock(x) == lock.writer = NoOne /\ lock' = [lock EXCEPT !.writer = x]

(* Mutant: the readers are not waited for. *)
Holds_WithReaders(x) == lock.writer = x

Holds(x) == lock.writer = x /\ lock.readers = {}

Unlock == lock' = [writer |-> NoOne, readers |-> lock.waiting, waiting |-> {}]

(* The call of RLock; the caller goes on once it is among the readers. *)
RLock(x) ==
  lock' = IF lock.writer = NoOne
          THEN [lock EXCEPT !.readers = @ \cup {x}]
          ELSE [lock EXCEPT !.waiting = @ \cup {x}]

MayRead(x) == x \in lock.readers

RUnlock(x) == lock' = [lock EXCEPT !.readers = @ \ {x}]

----------------------------------------------------------------------------
Init ==
  /\ pc = [x \in Procs |-> "idle"]
  /\ lock = [writer |-> NoOne, readers |-> {}, waiting |-> {}]
  /\ first = [p \in Pools |-> {}]
  /\ second = [p \in Pools |-> {}]
  /\ price = [p \in Pools |-> <<{}, {}>>]
  /\ seen = [s \in Swaps |-> <<{}, {}>>]
  /\ found = [s \in Swaps |-> 0]
  /\ dbQueue = 0
  /\ hubBusy = FALSE
  /\ rounds = 0

(* The Database.DBWriter takes a request, the Hub has written its message: *)
(* neither needs the cache's lock.                                         *)
DrainQueue ==
  /\ dbQueue > 0
  /\ dbQueue' = dbQueue - 1
  /\ UNCHANGED <<pc, lock, fieldVars, seen, found, hubBusy, rounds>>

HubWritten ==
  /\ hubBusy
  /\ hubBusy' = FALSE
  /\ UNCHANGED <<pc, lock, fieldVars, seen, found, dbQueue, rounds>>

(* Mutant: the channel is replaced by an unbounded queue. *)
SendToDB_NoBlock == dbQueue' = dbQueue + 1

(* The blocking send on WriteQueue. *)
SendToDB == dbQueue < QueueCap /\ dbQueue' = dbQueue + 1

----------------------------------------------------------------------------
(* Market.ProcessSwap.                                                     *)

Start(s) ==
  /\ pc[s] = "idle"
  /\ RLock(s)
  /\ GoTo(s, "lookup")
  /\ UNCHANGED <<fieldVars, seen, found, dbQueue, hubBusy, rounds>>

(* The PoolState is found; a log that does not parse is dropped. *)
Lookup(s) ==
  /\ pc[s] = "lookup"
  /\ MayRead(s)
  /\ RUnlock(s)
  /\ \E next \in {"save", "dropped"} : GoTo(s, next)
  /\ UNCHANGED <<fieldVars, seen, found, dbQueue, hubBusy, rounds>>

SaveSwap(s) ==
  /\ pc[s] = "save"
  /\ SendToDB
  /\ GoTo(s, "wantState")
  /\ UNCHANGED <<lock, fieldVars, seen, found, hubBusy, rounds>>

LockState(s) ==
  /\ pc[s] = "wantState"
  /\ Lock(s)
  /\ GoTo(s, "waitState")
  /\ UNCHANGED <<fieldVars, seen, found, dbQueue, hubBusy, rounds>>

(* The update reads each field and writes it back (Add, Sub and Set of    *)
(* big.Int), one field after the other.                                   *)
ReadState(s) ==
  /\ pc[s] = "waitState"
  /\ Holds(s)
  /\ seen' = [seen EXCEPT ![s] = <<first[PoolOf[s]], second[PoolOf[s]]>>]
  /\ GoTo(s, "writeFirst")
  /\ UNCHANGED <<lock, fieldVars, found, dbQueue, hubBusy, rounds>>

NewValue(old, s) == IF PoolOf[s] \in V3Pools THEN {s} ELSE old \cup {s}

(* Mutant: the lock is released between the two fields. *)
WriteFirst_Unlock(s) ==
  /\ pc[s] = "writeFirst"
  /\ first' = [first EXCEPT ![PoolOf[s]] = NewValue(seen[s][1], s)]
  /\ Unlock
  /\ GoTo(s, "writeSecond")
  /\ UNCHANGED <<second, price, seen, found, dbQueue, hubBusy, rounds>>

WriteFirst(s) ==
  /\ pc[s] = "writeFirst"
  /\ first' = [first EXCEPT ![PoolOf[s]] = NewValue(seen[s][1], s)]
  /\ GoTo(s, "writeSecond")
  /\ UNCHANGED <<lock, second, price, seen, found, dbQueue, hubBusy, rounds>>

WriteSecond(s) ==
  /\ pc[s] = "writeSecond"
  /\ second' = [second EXCEPT ![PoolOf[s]] = NewValue(seen[s][2], s)]
  /\ Unlock
  /\ GoTo(s, "readFirst")
  /\ UNCHANGED <<first, price, seen, found, dbQueue, hubBusy, rounds>>

(* CalculatePriceFromState reads the fields with no lock held: a read that *)
(* overlaps another goroutine's write of the same big.Int may return       *)
(* anything.                                                               *)
(* A price that is not positive ends ProcessSwap: so may a torn read, or   *)
(* reserves that were never fetched.                                       *)
RacyRead(value, p, writing) ==
  {value} \cup {Torn : t \in {u \in Swaps : pc[u] = writing /\ PoolOf[u] = p}}

ReadFirst(s) ==
  /\ pc[s] = "readFirst"
  /\ \E v \in RacyRead(first[PoolOf[s]], PoolOf[s], "writeFirst") :
       /\ seen' = [seen EXCEPT ![s] = <<v, v>>]
       /\ \/ GoTo(s, IF PoolOf[s] \in V3Pools THEN "wantPrice" ELSE "readSecond")
          \/ /\ v = Torn /\ PoolOf[s] \in V3Pools
             /\ GoTo(s, "done")
  /\ UNCHANGED <<lock, fieldVars, found, dbQueue, hubBusy, rounds>>

ReadSecond(s) ==
  /\ pc[s] = "readSecond"
  /\ \E v \in RacyRead(second[PoolOf[s]], PoolOf[s], "writeSecond") :
       /\ seen' = [seen EXCEPT ![s] = <<@[1], v>>]
       /\ \/ GoTo(s, "wantPrice")
          \/ /\ Torn \in {seen[s][1], v} \/ PoolOf[s] \in Unfetched
             /\ GoTo(s, "done")
  /\ UNCHANGED <<lock, fieldVars, found, dbQueue, hubBusy, rounds>>

LockPrice(s) ==
  /\ pc[s] = "wantPrice"
  /\ Lock(s)
  /\ GoTo(s, "waitPrice")
  /\ UNCHANGED <<fieldVars, seen, found, dbQueue, hubBusy, rounds>>

SetPrice(s) ==
  /\ pc[s] = "waitPrice"
  /\ Holds(s)
  /\ price' = [price EXCEPT ![PoolOf[s]] = seen[s]]
  /\ Unlock
  /\ GoTo(s, "wantScan")
  /\ UNCHANGED <<first, second, seen, found, dbQueue, hubBusy, rounds>>

----------------------------------------------------------------------------
(* Scanner.Scan, called by ProcessSwap.                                    *)

StartScan(s) ==
  /\ pc[s] = "wantScan"
  /\ RLock(s)
  /\ GoTo(s, "scan")
  /\ UNCHANGED <<fieldVars, seen, found, dbQueue, hubBusy, rounds>>

FindOpportunity(s) ==
  /\ pc[s] = "scan"
  /\ MayRead(s)
  /\ found[s] < MaxFound
  /\ found' = [found EXCEPT ![s] = @ + 1]
  /\ GoTo(s, "broadcast")
  /\ UNCHANGED <<lock, fieldVars, seen, dbQueue, hubBusy, rounds>>

(* BroadcastOpportunity: the channel is unbuffered, so the send waits      *)
(* until the Hub is back in its select.  The read lock is held.            *)
BroadcastOpportunity(s) ==
  /\ pc[s] = "broadcast"
  /\ ~hubBusy
  /\ hubBusy' = TRUE
  /\ GoTo(s, "saveFound")
  /\ UNCHANGED <<lock, fieldVars, seen, found, dbQueue, rounds>>

SaveOpportunity(s) ==
  /\ pc[s] = "saveFound"
  /\ SendToDB
  /\ GoTo(s, "scan")
  /\ UNCHANGED <<lock, fieldVars, seen, found, hubBusy, rounds>>

(* Mutant: RUnlock is forgotten. *)
EndScan_NoUnlock(s) ==
  /\ pc[s] = "scan"
  /\ MayRead(s)
  /\ GoTo(s, "done")
  /\ UNCHANGED <<lock, fieldVars, seen, found, dbQueue, hubBusy, rounds>>

EndScan(s) ==
  /\ pc[s] = "scan"
  /\ MayRead(s)
  /\ RUnlock(s)
  /\ GoTo(s, "done")
  /\ UNCHANGED <<fieldVars, seen, found, dbQueue, hubBusy, rounds>>

----------------------------------------------------------------------------
(* Updater.updatePools.                                                    *)

Tick ==
  /\ pc[Updater] = "idle"
  /\ rounds < MaxRounds
  /\ rounds' = rounds + 1
  /\ RLock(Updater)
  /\ GoTo(Updater, "snapshot")
  /\ UNCHANGED <<fieldVars, seen, found, dbQueue, hubBusy>>

(* The snapshot of the pools; an empty cache ends the round. *)
Snapshot ==
  /\ pc[Updater] = "snapshot"
  /\ MayRead(Updater)
  /\ RUnlock(Updater)
  /\ GoTo(Updater, IF Pools = {} THEN "idle" ELSE "fetch")
  /\ UNCHANGED <<fieldVars, seen, found, dbQueue, hubBusy, rounds>>

FetchReserves ==
  /\ pc[Updater] = "fetch"
  /\ \E next \in {"wantApply", "idle"} : GoTo(Updater, next)
  /\ UNCHANGED <<lock, fieldVars, seen, found, dbQueue, hubBusy, rounds>>

LockApply ==
  /\ pc[Updater] = "wantApply"
  /\ Lock(Updater)
  /\ GoTo(Updater, "waitApply")
  /\ UNCHANGED <<fieldVars, seen, found, dbQueue, hubBusy, rounds>>

(* No pool's calls succeeded: the loop has nothing to do. *)
ApplyNothing ==
  /\ pc[Updater] = "waitApply"
  /\ Holds(Updater)
  /\ Unlock
  /\ GoTo(Updater, "idle")
  /\ UNCHANGED <<fieldVars, seen, found, dbQueue, hubBusy, rounds>>

(* The first pool of the results: GetPoolByAddress calls RLock, and its    *)
(* caller is the writer.  Nothing after this call is ever executed, so     *)
(* the rest of the loop has no action.                                     *)
GetPoolByAddress ==
  /\ pc[Updater] = "waitApply"
  /\ Holds(Updater)
  /\ RLock(Updater)
  /\ GoTo(Updater, "getPool")
  /\ UNCHANGED <<fieldVars, seen, found, dbQueue, hubBusy, rounds>>

----------------------------------------------------------------------------
ProcessSwap(s) ==
  \/ Lookup(s) \/ SaveSwap(s)
  \/ LockState(s) \/ ReadState(s) \/ WriteFirst(s) \/ WriteSecond(s)
  \/ ReadFirst(s) \/ ReadSecond(s) \/ LockPrice(s) \/ SetPrice(s)
  \/ StartScan(s) \/ FindOpportunity(s) \/ BroadcastOpportunity(s)
  \/ SaveOpportunity(s) \/ EndScan(s)

UpdatePools ==
  Snapshot \/ FetchReserves \/ LockApply \/ ApplyNothing \/ GetPoolByAddress

Environment == DrainQueue \/ HubWritten

Next ==
  \/ Environment
  \/ Tick \/ UpdatePools
  \/ \E s \in Swaps : Start(s) \/ ProcessSwap(s)

Spec == Init /\ [][Next]_vars

(* Goroutines that can run do run, the writer drains its queue, and every  *)
(* WriteMessage of the Hub returns.                                        *)
Fairness ==
  /\ WF_vars(DrainQueue)
  /\ WF_vars(HubWritten)
  /\ WF_vars(UpdatePools)
  /\ \A s \in Swaps : WF_vars(ProcessSwap(s))

FairSpec == Spec /\ Fairness

----------------------------------------------------------------------------
(* Properties.                                                             *)

Reading == (SUBSET Swaps) \cup {Torn}

TypeOK ==
  /\ pc \in [Procs -> SwapPC \cup UpdaterPC]
  /\ lock \in [writer : Procs \cup {NoOne},
               readers : SUBSET Procs, waiting : SUBSET Procs]
  /\ first \in [Pools -> SUBSET Swaps]
  /\ second \in [Pools -> SUBSET Swaps]
  /\ price \in [Pools -> Reading \X Reading]
  /\ seen \in [Swaps -> Reading \X Reading]
  /\ found \in [Swaps -> 0..MaxFound]
  /\ dbQueue \in 0..QueueCap
  /\ hubBusy \in BOOLEAN
  /\ rounds \in 0..MaxRounds

(* Whoever takes the lock finds both fields of a pool counting the same    *)
(* swaps: V2 reserves that belong together, and a V3 sqrtPrice, liquidity  *)
(* and tick of one and the same swap.                                      *)
StateWhole ==
  \A p \in Pools :
    (\A s \in Swaps : pc[s] = "writeSecond" => PoolOf[s] # p)
      => first[p] = second[p]

(* While a Scan reads the pools, no update of a pool is half done. *)
Scanning(s) == pc[s] \in {"scan", "broadcast", "saveFound"} /\ MayRead(s)

ScanAlone ==
  \A s, t \in Swaps :
    Scanning(s) => pc[t] \notin {"writeFirst", "writeSecond"}

(* No update is lost: the pool states change as if the swaps came one      *)
(* after the other, although every swap reads, adds and writes back.       *)
Counted == {s \in Swaps :
              pc[s] \in {"readFirst", "readSecond", "wantPrice", "waitPrice",
                         "wantScan", "scan", "broadcast", "saveFound", "done"}}

Atomic == INSTANCE AtomicUpdates WITH state <- second, counted <- Counted

ImplementsAtomicUpdates == Atomic!Spec

(* The inductive invariant behind these: who has called Lock, who is among *)
(* the readers, and what a goroutine has read of the pool it is updating.  *)
Writing(x) ==
  pc[x] \in {"waitState", "writeFirst", "writeSecond", "waitPrice",
             "waitApply", "getPool"}

WriterInv ==
  /\ \A x \in Procs : lock.writer = x <=> Writing(x)
  /\ \A s \in Swaps : pc[s] \in {"writeFirst", "writeSecond"} => lock.readers = {}

UpdateInv ==
  \A s \in Swaps :
    /\ pc[s] = "writeFirst" => seen[s] = <<first[PoolOf[s]], second[PoolOf[s]]>>
    /\ pc[s] = "writeSecond" =>
         /\ seen[s][2] = second[PoolOf[s]]
         /\ first[PoolOf[s]] = NewValue(second[PoolOf[s]], s)

IInv ==
  /\ TypeOK
  /\ WriterInv
  /\ UpdateInv
  /\ StateWhole

(* Who finds the guard of his next step true.                              *)
MayGo(s) ==
  \/ pc[s] \in {"lookup", "scan"} /\ MayRead(s)
  \/ pc[s] \in {"save", "saveFound"} /\ dbQueue < QueueCap
  \/ pc[s] \in {"wantState", "wantPrice"} /\ lock.writer = NoOne
  \/ pc[s] \in {"waitState", "waitPrice"} /\ Holds(s)
  \/ pc[s] \in {"writeFirst", "writeSecond", "readFirst", "readSecond", "wantScan"}
  \/ pc[s] = "broadcast" /\ ~hubBusy

UpdaterMayGo ==
  \/ pc[Updater] = "snapshot" /\ MayRead(Updater)
  \/ pc[Updater] = "fetch"
  \/ pc[Updater] = "wantApply" /\ lock.writer = NoOne
  \/ pc[Updater] = "waitApply" /\ Holds(Updater)

EnvironmentMayGo == dbQueue > 0 \/ hubBusy

SomebodyMayGo ==
  (\E s \in Swaps : pc[s] \notin {"idle", "done", "dropped"})
    => \/ pc[Updater] = "getPool"
       \/ \E s \in Swaps : MayGo(s)
       \/ UpdaterMayGo \/ EnvironmentMayGo

(* Nobody waits for somebody who waits for him: unless the Updater has     *)
(* called GetPoolByAddress, as long as a ProcessSwap has not returned some *)
(* goroutine can go on: not every one waits for the lock behind a Scan     *)
(* that holds it while it waits for the Hub or for room in the DB queue,   *)
(* or behind a Lock that waits for readers.  As every goroutine has        *)
(* finitely many steps, every ProcessSwap then returns.  The guards above  *)
(* are those of the actions.                                               *)
NobodyStuck ==
  /\ SomebodyMayGo
  /\ \A s \in Swaps : MayGo(s) <=> ENABLED ProcessSwap(s)
  /\ UpdaterMayGo <=> ENABLED UpdatePools
  /\ EnvironmentMayGo <=> ENABLED Environment

(* App Summary: the Updater `periodically refreshes the reserves/prices of *)
(* all known pools': a refresh that has the lock comes to its end.         *)
UpdateReturns == pc[Updater] = "waitApply" ~> pc[Updater] = "idle"

(* App Summary on the RWMutex: it `ensures safe concurrent access from     *)
(* different goroutines': every price in the cache was computed from       *)
(* fields that belong together.                                            *)
PriceNeverTorn ==
  \A p \in Pools : price[p][1] = price[p][2] /\ price[p][1] # Torn
=============================================================================
