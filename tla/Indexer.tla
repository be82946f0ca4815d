------------------------------ MODULE Indexer -------------------------------
(***************************************************************************)
(* The indexer of Claimed events (chain/indexer.rs): it copies what the    *)
(* contract has paid out to users.claimed_onchain, and keeps the block it  *)
(* got to in indexer_state.  The chain grows and is reorganized while it   *)
(* works; every statement is a transaction of its own, and the process may *)
(* die between any two.                                                    *)
(*                                                                         *)
(* The events carry cumulative amounts, as ClaimedEvent says, and a        *)
(* contract that pays only what exceeds the amount claimed before makes    *)
(* them grow for each account.  One call of index_claimed_events is under  *)
(* way at a time.                                                          *)
(***************************************************************************)
EXTENDS Integers, Sequences

CONSTANTS
    Accounts,       \* claim addresses, UNIQUE in users
    Amounts,        \* cumulative amounts
    BatchSize,      \* events in a chunk
    PerBlock,       \* Claimed events in a block, at most
    SafeDepth,      \* REORG_SAFE_DEPTH
    ReorgDepth,     \* how many blocks the chain may take back
    MaxTip,         \* bound on the length of the chain
    MaxFailures     \* bound on calls that fail or die

ASSUME AmountAssumption == Amounts \subseteq Nat \ {0}
ASSUME SizeAssumption == BatchSize \in Nat \ {0} /\ PerBlock \in Nat
ASSUME DepthAssumption == SafeDepth \in Nat /\ ReorgDepth \in Nat /\ ReorgDepth <= SafeDepth
ASSUME BoundAssumption == MaxTip \in Nat /\ MaxFailures \in Nat

VARIABLES
    tip,            \* the number of the last block of the chain
    log,            \* the Claimed events of its blocks, in order
    peak,           \* history: the highest tip there was
    cursor,         \* indexer_state.last_processed_block, 0 without a row
    cache,          \* users.claimed_onchain
    call,           \* the call's next step and its locals
    failures        \* history: calls that failed or died

chain == <<tip, log, peak>>
vars == <<chain, cursor, cache, call, failures>>

Event == [block : Nat, account : Accounts, amount : Amounts]
Idle == [at |-> "idle"]
-----------------------------------------------------------------------------
Init ==
    /\ tip = 0
    /\ log = <<>>
    /\ peak = 0
    /\ cursor = 0
    /\ cache = [a \in Accounts |-> 0]
    /\ call = Idle
    /\ failures = 0

(* The chain.                                                              *)

\* The contract pays an account only what exceeds what it has claimed.
Growing(events) ==
    \A i, j \in DOMAIN events :
        i < j /\ events[i].account = events[j].account
            => events[i].amount < events[j].amount

MineBlock ==
    /\ tip < MaxTip
    /\ \E n \in 0..PerBlock :
         \E new \in [1..n -> [block : {tip + 1}, account : Accounts, amount : Amounts]] :
             Growing(log \o new) /\ log' = log \o new
    /\ tip' = tip + 1
    /\ peak' = IF tip' > peak THEN tip' ELSE peak
    /\ UNCHANGED <<cursor, cache, call, failures>>

\* Exactly the first k events are of blocks before b.
Precede(k, b) ==
    /\ k \in 0..Len(log)
    /\ \A i \in 1..k : log[i].block < b
    /\ \A i \in (k + 1)..Len(log) : b <= log[i].block

\* Blocks after n are taken back; others may come in their place.
Reorg(n) ==
    /\ n < tip
    /\ peak - ReorgDepth <= n
    /\ tip' = n
    /\ \E k \in 0..Len(log) : Precede(k, n + 1) /\ log' = SubSeq(log, 1, k)
    /\ UNCHANGED <<peak, cursor, cache, call, failures>>
-----------------------------------------------------------------------------
(* index_claimed_events.                                                   *)
At(step) == call.at = step

ReadCursor ==
    /\ At("idle")
    /\ call' = [at |-> "tip", from |-> cursor + 1]
    /\ UNCHANGED <<chain, cursor, cache, failures>>

BugSafeLimit == tip
SafeLimit == IF tip < SafeDepth THEN 0 ELSE tip - SafeDepth

GetLatestBlock ==
    /\ At("tip")
    /\ call' = IF call.from > SafeLimit
                 THEN Idle
                 ELSE [at |-> "fetch", from |-> call.from, safe |-> SafeLimit]
    /\ UNCHANGED <<chain, cursor, cache, failures>>

\* `todo' has the events of all blocks from `from' on, also those beyond the
\* safe limit; `next' is the position of the next one.
BugFetchFrom == call.from + 1
FetchFrom == call.from

GetClaimEvents ==
    /\ At("fetch")
    /\ \E k \in 0..Len(log) :
         /\ Precede(k, FetchFrom)
         /\ call' = IF k = Len(log)
                      THEN Idle
                      ELSE [at |-> "apply", from |-> call.from, safe |-> call.safe,
                            todo |-> SubSeq(log, k + 1, Len(log)), next |-> 1,
                            last |-> call.from - 1]
    /\ UNCHANGED <<chain, cursor, cache, failures>>

\* The position after which the chunk of `next' ends.
ChunkEnds(i) == i % BatchSize = 0 \/ i = Len(call.todo)

BugUpdated(a, e) == cache[a] + e.amount
Updated(a, e) == e.amount

Last(e) == IF e.block > call.last THEN e.block ELSE call.last

ApplyEvent ==
    /\ At("apply")
    /\ LET e == call.todo[call.next]
           safe == e.block <= call.safe
       IN  /\ cache' = IF safe
                         THEN [cache EXCEPT ![e.account] = Updated(e.account, e)]
                         ELSE cache
           /\ call' = [call EXCEPT
                         !.at = IF ChunkEnds(call.next) THEN "advance" ELSE "apply",
                         !.next = @ + 1,
                         !.last = IF safe THEN Last(e) ELSE @]
    /\ UNCHANGED <<chain, cursor, failures>>

Finished == call.next > Len(call.todo)

BugCursorSafe == call.safe
BugCursorStays == cursor
NewCursor == call.last

AdvanceCursor ==
    /\ At("advance")
    /\ cursor' = NewCursor
    /\ call' = IF Finished THEN Idle ELSE [call EXCEPT !.at = "apply"]
    /\ UNCHANGED <<chain, cache, failures>>

\* A request or a statement fails, or the process dies.
Fail ==
    /\ ~At("idle")
    /\ failures < MaxFailures
    /\ failures' = failures + 1
    /\ call' = Idle
    /\ UNCHANGED <<chain, cursor, cache>>
-----------------------------------------------------------------------------
Next ==
    \/ MineBlock
    \/ \E n \in 0..MaxTip : Reorg(n)
    \/ ReadCursor
    \/ GetLatestBlock
    \/ GetClaimEvents
    \/ ApplyEvent
    \/ AdvanceCursor
    \/ Fail

Spec == Init /\ [][Next]_vars
-----------------------------------------------------------------------------
CallStates ==
    {Idle} \cup [at : {"tip"}, from : Nat \ {0}]
           \cup [at : {"fetch"}, from : Nat \ {0}, safe : Nat]
           \cup [at : {"apply", "advance"}, from : Nat \ {0}, safe : Nat,
                 todo : Seq(Event), next : Nat \ {0}, last : Nat]

\* The tables' columns and the call's locals have the types of the code.
TypeOK ==
    /\ tip \in Nat /\ peak \in Nat /\ tip <= peak
    /\ log \in Seq(Event)
    /\ cursor \in Nat
    /\ cache \in [Accounts -> Amounts \cup {0}]
    /\ call \in CallStates
    /\ failures \in Nat

\* claimed_onchain never holds an amount that was claimed only on blocks the
\* chain has taken back ("Reorg-safe", indexer.rs:14), although the tip, the
\* events and the table are read and written at different times.
ReorgSafe ==
    \A a \in Accounts : cache[a] # 0 =>
        \E i \in DOMAIN log : log[i].account = a /\ log[i].amount = cache[a]

\* The events up to the cursor will not be fetched again, so they must all
\* show in claimed_onchain, wherever a call died ("Crash-safe: cursor advanced
\* only after side effects are committed", indexer.rs:13).
CursorMeansApplied ==
    \A i \in DOMAIN log :
        log[i].block <= cursor => log[i].amount <= cache[log[i].account]

\* The same between calls, when what is missing is missing for good.
CrashSafe == At("idle") => CursorMeansApplied

\* A call that gets through its events leaves nothing behind up to the safe
\* limit, whatever happened to the calls before it (indexer.rs:55-76).
CatchesUp ==
    At("advance") /\ Finished =>
        \A i \in DOMAIN log :
            log[i].block <= call.safe => log[i].amount <= cache[log[i].account]

\* claimed_onchain goes back only when a failed call is made up for: the
\* chain's reorganizations never make it (indexer.rs:12, 14, 62-63).
NoRegression ==
    [][failures = 0 => \A a \in Accounts : cache[a] <= cache'[a]]_cache
=============================================================================
