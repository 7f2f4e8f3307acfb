----------------------------- MODULE PoolRecords -----------------------------
(***************************************************************************)
(* What becomes of a token's decimals and of a pool's style: asked from    *)
(* the node when a pool is discovered (Multicall), kept in the token cache *)
(* and in the pool's PoolState, sent to the DBWriter with the pool, and    *)
(* read back from the database when the process starts again.              *)
(*                                                                         *)
(* The composition of DBWriter (queue, batch, transactions, crashes) with  *)
(* discoverAndCachePool, GetTokenMetadataBatch and loadAndCacheFromDB.     *)
(* One discovery per pool at a time; the eviction of the 10000-entry token *)
(* cache, symbols (treated like decimals by every line modelled) and the   *)
(* pools' reserves are left out.                                           *)
(***************************************************************************)
EXTENDS DBWriter, FiniteSets

CONSTANTS
  Kind,          \* each pool's protocol: "V2", "V3" or "ALGEBRA"
  TrueDecimals,  \* decimals() of each token's contract
  Missing,       \* no value yet
  MaxMisread     \* bound on the tokens with a wrong answer

Tokens == Range(Token0) \cup Range(Token1)

ASSUME RecordsAssumption ==
  /\ Kind \in [Pools -> {"V2", "V3", "ALGEBRA"}]
  /\ TrueDecimals \in [Tokens -> 0..255]
  /\ \A p \in Pools : p \in DOMAIN Token0 /\ p \in DOMAIN Token1
  /\ \A p \in Pools : Token0[p] # Token1[p]
  /\ Missing \notin 0..255
  /\ MaxMisread \in Nat

VARIABLES
  stage,         \* where each pool is between the chain and Cache.Service
  decimals,      \* its metadata, then PoolState.Token0Decimals and Token1...
  isV3Style,     \* PoolState.IsV3Style
  tokenCache,    \* MulticallService.tokenCache
  content,       \* the decimals in each request of batch \o writeQueue
  tokenRows,     \* the decimals column of the table tokens
  misread        \* history: tokens for which an answer was wrong

discovery == <<stage, decimals, isV3Style, tokenCache, misread>>
recordsVars == <<vars, discovery, content, tokenRows>>

Decimals == 0..255
Maybe    == Decimals \cup {Missing}
Pair(p)  == {Token0[p], Token1[p]}
InCache(p) == stage[p] \in {"known", "loaded"}

RecordsInit ==
  /\ Init
  /\ stage = [p \in Pools |-> "new"]
  /\ decimals = [p \in Pools |-> [t \in Pair(p) |-> Missing]]
  /\ isV3Style = [p \in Pools |-> FALSE]
  /\ tokenCache = [t \in Tokens |-> Missing]
  /\ content = << >>
  /\ tokenRows = [t \in Tokens |-> Missing]
  /\ misread = {}

----------------------------------------------------------------------------
(* GetTokenMetadataBatch takes what the cache has of a pool's two tokens   *)
(* and asks the node for the others in one aggregated call.  A decimals()  *)
(* call that fails counts as 18; when the aggregated call itself fails, no *)
(* call is marked as failed and every output keeps its zero value.         *)
Cached(p)   == [t \in Pair(p) |-> tokenCache[t]]
Uncached(f) == {t \in DOMAIN f : f[t] = Missing}

Answers(ts) ==
  {[t \in ts |-> IF t \in bad THEN 18 ELSE TrueDecimals[t]] : bad \in SUBSET ts}
    \cup {[t \in ts |-> 0]}

(* The values of new, and those of old where new has none. *)
Merge(new, old) ==
  [t \in DOMAIN old |-> IF t \in DOMAIN new THEN new[t] ELSE old[t]]

(* Mutant: answers are matched to the pool's tokens by position, those it  *)
(* already had included.                                                   *)
KeepAnswers_ByPosition(p, found, a) ==
  /\ misread' = misread \cup {t \in DOMAIN a : a[t] # TrueDecimals[t]}
  /\ Cardinality(misread') <= MaxMisread
  /\ tokenCache' = Merge(a, tokenCache)
  /\ decimals' = [decimals EXCEPT ![p] =
       IF DOMAIN a = {Token1[p]}
         THEN [t \in Pair(p) |-> IF t = Token0[p] THEN a[Token1[p]] ELSE 0]
         ELSE Merge(a, found)]

(* The answers a enter the cache, for good, and join what it had. *)
KeepAnswers(p, found, a) ==
  /\ misread' = misread \cup {t \in DOMAIN a : a[t] # TrueDecimals[t]}
  /\ Cardinality(misread') <= MaxMisread
  /\ tokenCache' = Merge(a, tokenCache)
  /\ decimals' = [decimals EXCEPT ![p] = Merge(a, found)]

(* A discovery looks its pool's tokens up (the pool's own calls are done): *)
StartMetadata(p) ==
  /\ \A q \in Pools : stage[q] # "inDB"
  /\ stage[p] = "new"
  /\ decimals' = [decimals EXCEPT ![p] = Cached(p)]
  /\ stage' = [stage EXCEPT ![p] = "asking"]
  /\ UNCHANGED <<vars, isV3Style, tokenCache, content, tokenRows, misread>>

(* ... the node answers, which another discovery may have asked as well ... *)
AnswerMetadata(p) ==
  /\ stage[p] = "asking"
  /\ \E a \in Answers(Uncached(decimals[p])) : KeepAnswers(p, decimals[p], a)
  /\ stage' = [stage EXCEPT ![p] = "answered"]
  /\ UNCHANGED <<vars, isV3Style, content, tokenRows>>

(* ... and the pool enters the cache with the style of its type. *)
InsertPool(p) ==
  /\ stage[p] = "answered"
  /\ stage' = [stage EXCEPT ![p] = "known"]
  /\ isV3Style' = [isV3Style EXCEPT ![p] = Kind[p] # "V2"]
  /\ UNCHANGED <<vars, decimals, tokenCache, content, tokenRows, misread>>

(* Its reserves cannot be read: the address is never tried again. *)
FailDiscovery(p) ==
  /\ stage[p] = "answered"
  /\ stage' = [stage EXCEPT ![p] = "failed"]
  /\ UNCHANGED <<vars, decimals, isV3Style, tokenCache, content, tokenRows, misread>>

----------------------------------------------------------------------------
(* The decimals a request of client c carries. *)
Carried(c, r) == IF r.kind = "token" THEN decimals[c][r.key] ELSE Missing

(* A discovered pool's two tokens and the pool, or an event, are sent. *)
SendRecord(c) ==
  /\ c \in Pools => stage[c] = "known"
  /\ Send(c)
  /\ content' = Append(content, Carried(c, Program(c)[sent[c] + 1]))
  /\ UNCHANGED <<discovery, tokenRows>>

(* INSERT OR IGNORE of the first n pending requests: a token's first row   *)
(* stays.                                                                  *)
InsertTokens(n) ==
  LET pending == batch \o writeQueue
      Rows(t) == {i \in 1..n : pending[i] = Token(t)}
  IN  [t \in Tokens |->
        IF tokenRows[t] = Missing /\ Rows(t) # {}
          THEN content[CHOOSE i \in Rows(t) : \A j \in Rows(t) : i <= j]
          ELSE tokenRows[t]]

(* A step of the writer, Receive or Tick: what left the batch was written  *)
(* or lost.                                                                *)
Handled == Len(batch) + Len(writeQueue) - Len(batch') - Len(writeQueue')

Write ==
  /\ Receive \/ Tick
  /\ content' = SubSeq(content, Handled + 1, Len(content))
  /\ tokenRows' = IF rows' = rows THEN tokenRows ELSE InsertTokens(Handled)
  /\ UNCHANGED discovery

----------------------------------------------------------------------------
(* Mutant: the token cache starts empty. *)
Restart_Empty ==
  /\ Crash
  /\ content' = << >>
  /\ tokenCache' = [t \in Tokens |-> Missing]
  /\ stage' = [p \in Pools |-> IF InDB(PoolRow(p)) THEN "inDB" ELSE "new"]
  /\ decimals' = [p \in Pools |-> [t \in Pair(p) |-> Missing]]
  /\ isV3Style' = [p \in Pools |-> FALSE]
  /\ UNCHANGED <<tokenRows, misread>>

(* The process starts again: the token cache is filled from the rows ...   *)
Restart ==
  /\ Crash
  /\ content' = << >>
  /\ tokenCache' = tokenRows
  /\ stage' = [p \in Pools |-> IF InDB(PoolRow(p)) THEN "inDB" ELSE "new"]
  /\ decimals' = [p \in Pools |-> [t \in Pair(p) |-> Missing]]
  /\ isV3Style' = [p \in Pools |-> FALSE]
  /\ UNCHANGED <<tokenRows, misread>>

(* ... and then the pools are made from theirs, one after the other, with  *)
(* the style their protocol's name suggests: "UniswapV2", "UniswapV3" and  *)
(* "ALGEBRA_...", none of which contains "Algebra".  Tokens without a row  *)
(* are asked from the node.  Nothing is discovered before all are loaded.  *)
LoadPool(p) ==
  /\ stage[p] = "inDB"
  /\ \E a \in Answers(Uncached(Cached(p))) : KeepAnswers(p, Cached(p), a)
  /\ stage' = [stage EXCEPT ![p] = "loaded"]
  /\ isV3Style' = [isV3Style EXCEPT ![p] = Kind[p] = "V3"]
  /\ UNCHANGED <<vars, content, tokenRows>>

RecordsNext ==
  \/ Write
  \/ Restart
  \/ \E c \in Clients : SendRecord(c)
  \/ \E p \in Pools :
       \/ StartMetadata(p) \/ AnswerMetadata(p) \/ InsertPool(p)
       \/ FailDiscovery(p) \/ LoadPool(p)

RecordsSpec == RecordsInit /\ [][RecordsNext]_recordsVars

(* DBWriter's fairness: its goroutine and its clients run, the ticker      *)
(* keeps firing, and a transaction tried again and again is committed.     *)
RecordsFairness ==
  /\ WF_recordsVars(Write /\ Receive)
  /\ WF_recordsVars(Write /\ TickAndCommit)
  /\ \A c \in Clients : WF_recordsVars(SendRecord(c))

RecordsFairSpec == RecordsSpec /\ RecordsFairness

----------------------------------------------------------------------------
RecordsTypeOK ==
  /\ TypeOK
  /\ stage \in [Pools -> {"new", "asking", "answered", "known", "failed",
                          "inDB", "loaded"}]
  /\ DOMAIN decimals = Pools
  /\ \A p \in Pools : /\ decimals[p] \in [Pair(p) -> Maybe]
                      /\ stage[p] \in {"answered", "known", "loaded"} =>
                           decimals[p] \in [Pair(p) -> Decimals]
  /\ isV3Style \in [Pools -> BOOLEAN]
  /\ tokenCache \in [Tokens -> Maybe]
  /\ content \in Seq(Maybe) /\ Len(content) = Len(batch) + Len(writeQueue)
  /\ tokenRows \in [Tokens -> Maybe]
  /\ misread \in SUBSET Tokens

(* A pool loaded from the database has, for each of its tokens, the value  *)
(* every later discovery in this process gets for it from the cache and    *)
(* that every restart will read from the token's row: whatever answer was  *)
(* kept, it is the same one everywhere from the first restart on.          *)
MetadataSettled ==
  \A p \in Pools : stage[p] = "loaded" => \A t \in Pair(p) :
    /\ decimals[p][t] = tokenCache[t]
    /\ tokenRows[t] \in {Missing, tokenCache[t]}

(* A wrong answer about one token stays with that token: the decimals of   *)
(* all others are right in the cache, in the database and in every pool,   *)
(* also in those whose other token, or whose batch, had the bad answer.    *)
OthersAreRight ==
  \A t \in Tokens \ misread :
    /\ tokenCache[t] \in {Missing, TrueDecimals[t]}
    /\ tokenRows[t] \in {Missing, TrueDecimals[t]}
    /\ \A p \in Pools : InCache(p) /\ t \in Pair(p) => decimals[p][t] = TrueDecimals[t]
=============================================================================
