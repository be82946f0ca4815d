----------------------------- MODULE Settlement -----------------------------
(***************************************************************************)
(* From earnings to tokens: the publisher (publish.ts) snapshots what each *)
(* claim address has earned and stores it as a distribution; the API       *)
(* (chain/publisher.rs) sends the root of the oldest pending one to the    *)
(* contract and marks it published once that is confirmed; players claim   *)
(* against the contract's root (MathCoin.sol) with the proofs the API      *)
(* serves (claim_data.rs), and GET /api/me compares the two (me.rs).       *)
(*                                                                         *)
(* A Merkle root stands for its leaves: a function from addresses to       *)
(* cumulative amounts.  A distribution is named by the run that wrote it,  *)
(* a transaction by its nonce.  The submitter's lock makes sending one     *)
(* step; its own nonce is attached to nothing, and is left out.            *)
(***************************************************************************)
EXTENDS Integers, Sequences

CONSTANTS
    Accounts,      \* claim addresses, one for each player
    Runs,          \* executions of the publisher
    Calls,         \* publish_pending_distribution, as many as run at a time
    Overlap,       \* whether a run may start while another is under way
    Leaks,         \* whether players have proofs the API does not serve yet
    MaxEarned,     \* bound on what each player earns
    MaxTxs,        \* bound on the transactions sent
    MaxFaults      \* bound on the faults

ASSUME SwitchAssumption == Overlap \in BOOLEAN /\ Leaks \in BOOLEAN
ASSUME BoundAssumption == MaxEarned \in [Accounts -> Nat] /\ MaxTxs \in Nat /\ MaxFaults \in Nat

VARIABLES
    earned,        \* SUM(earnings.amount) of a player
    optedIn,       \* the players that set a claim address
    run, snap,     \* of a run: its next step, its snapshot
    begun, clock,  \* now() of its transaction; transactions begun so far
    status,        \* distributions.status, Absent before the commit
    call,          \* of a call: its next step, distribution and transaction
    txs,           \* updateRoot transactions by nonce
    root, claimed, \* the contract's merkleRoot and claimed
    minted,        \* history: the tokens minted to an account
    faults         \* how many things went wrong

publisherVars == <<run, snap, begun, clock>>
contract == <<root, claimed, minted>>
vars == <<earned, optedIn, publisherVars, status, call, txs, contract, faults>>

Absent == "absent"
Idle == [at |-> "idle"]
IsRoot(f) == DOMAIN f \subseteq Accounts /\ f \in [DOMAIN f -> Nat]
NoRoot == [a \in {} |-> 0]        \* bytes32(0), under which nothing verifies
-----------------------------------------------------------------------------
Init ==
    /\ earned = [a \in Accounts |-> 0]
    /\ optedIn = {}
    /\ run = [r \in Runs |-> "idle"]
    /\ snap = [r \in Runs |-> NoRoot]
    /\ begun = [r \in Runs |-> 0]
    /\ clock = 0
    /\ status = [r \in Runs |-> Absent]
    /\ call = [c \in Calls |-> Idle]
    /\ txs = <<>>
    /\ root = NoRoot
    /\ claimed = [a \in Accounts |-> 0]
    /\ minted = [a \in Accounts |-> 0]
    /\ faults = 0

\* A mint is credited (module Mint).
Earn(a) ==
    /\ earned[a] < MaxEarned[a]
    /\ earned' = [earned EXCEPT ![a] = @ + 1]
    /\ UNCHANGED <<optedIn, publisherVars, status, call, txs, contract, faults>>

\* POST /api/claim-address, which sets the address once.
OptIn(a) ==
    /\ optedIn' = optedIn \cup {a}
    /\ UNCHANGED <<earned, publisherVars, status, call, txs, contract, faults>>

Fault == faults < MaxFaults /\ faults' = faults + 1
-----------------------------------------------------------------------------
(* The publisher.                                                          *)
UnderWay(r) == run[r] \in {"snapped", "writing"}

\* The SELECT, on the pool and before the transaction.
Snapshot(r) ==
    /\ run[r] = "idle"
    /\ Overlap \/ \A q \in Runs : ~UnderWay(q)
    /\ IF optedIn = {}
         THEN run' = [run EXCEPT ![r] = "failed"] /\ UNCHANGED snap
         ELSE /\ run' = [run EXCEPT ![r] = "snapped"]
              /\ snap' = [snap EXCEPT ![r] = [a \in optedIn |-> earned[a]]]
    /\ UNCHANGED <<earned, optedIn, begun, clock, status, call, txs, contract, faults>>

\* BEGIN fixes created_at.
BeginDistribution(r) ==
    /\ run[r] = "snapped"
    /\ run' = [run EXCEPT ![r] = "writing"]
    /\ clock' = clock + 1
    /\ begun' = [begun EXCEPT ![r] = clock + 1]
    /\ UNCHANGED <<earned, optedIn, snap, status, call, txs, contract, faults>>

\* The INSERTs become visible together.
CommitDistribution(r) ==
    /\ run[r] = "writing"
    /\ run' = [run EXCEPT ![r] = "done"]
    /\ status' = [status EXCEPT ![r] = "pending_publish"]
    /\ UNCHANGED <<earned, optedIn, snap, begun, clock, call, txs, contract, faults>>

\* An INSERT fails, or the process dies: ROLLBACK.
FailRun(r) ==
    /\ UnderWay(r)
    /\ Fault
    /\ run' = [run EXCEPT ![r] = "failed"]
    /\ UNCHANGED <<earned, optedIn, snap, begun, clock, status, call, txs, contract>>
-----------------------------------------------------------------------------
(* The publication of pending distributions.                               *)
Pending == {d \in Runs : status[d] = "pending_publish"}
Published == {d \in Runs : status[d] = "published"}

BugOldestNewest(d) == d \in Pending /\ \A e \in Pending : begun[e] <= begun[d]
Oldest(d) == d \in Pending /\ \A e \in Pending : begun[d] <= begun[e]

Goto(c, state) == call' = [call EXCEPT ![c] = state]
At(c, steps) == call[c].at \in steps

SelectPending(c) ==
    /\ At(c, {"idle"})
    /\ \E d \in Runs : Oldest(d) /\ Goto(c, [at |-> "submit", dist |-> d])
    /\ UNCHANGED <<earned, optedIn, publisherVars, status, txs, contract, faults>>

SendRaw(c) ==
    /\ Len(txs) < MaxTxs
    /\ txs' = Append(txs, [dist |-> call[c].dist, state |-> "sent"])

Send(c) ==
    /\ At(c, {"submit"})
    /\ SendRaw(c)
    /\ Goto(c, [at |-> "wait", dist |-> call[c].dist, tx |-> Len(txs) + 1])
    /\ UNCHANGED <<earned, optedIn, publisherVars, status, contract, faults>>

BugConfirms(state) == state \in {"mined", "reverted"}
Confirms(state) == state = "mined"

\* Polls for the receipt, and looks at receipt.success.
GetReceipt(c) ==
    /\ At(c, {"wait"})
    /\ LET state == txs[call[c].tx].state
       IN  /\ state \in {"mined", "reverted"}
           /\ Goto(c, IF Confirms(state) THEN [call[c] EXCEPT !.at = "mark"] ELSE Idle)
    /\ UNCHANGED <<earned, optedIn, publisherVars, status, txs, contract, faults>>

\* The confirmation timeout, sure to come if there is never a receipt.
NoReceipt(c) == At(c, {"wait"}) /\ txs[call[c].tx].state = "dropped"

BugTimeoutNever(c) == FALSE /\ UNCHANGED vars
Timeout(c) ==
    /\ At(c, {"wait"})
    /\ \/ NoReceipt(c) /\ UNCHANGED faults
       \/ ~NoReceipt(c) /\ Fault
    /\ Goto(c, Idle)
    /\ UNCHANGED <<earned, optedIn, publisherVars, status, txs, contract>>

BugMarked(c) == {call[c].dist} \cup Pending
Marked(c) == {call[c].dist}

BugPublishedStatus == "confirmed"
PublishedStatus == "published"

MarkPublished(c) ==
    /\ At(c, {"mark"})
    /\ status' = [d \in Runs |-> IF d \in Marked(c) THEN PublishedStatus ELSE status[d]]
    /\ Goto(c, Idle)
    /\ UNCHANGED <<earned, optedIn, publisherVars, txs, contract, faults>>

\* Sending, asking for the receipt or the UPDATE fails, or the process dies.
FailCall(c) ==
    /\ At(c, {"submit", "wait", "mark"})
    /\ Fault
    /\ Goto(c, Idle)
    /\ UNCHANGED <<earned, optedIn, publisherVars, status, txs, contract>>

\* The transaction is out, and the answer of the node is lost.
LoseSend(c) ==
    /\ At(c, {"submit"})
    /\ SendRaw(c)
    /\ Fault
    /\ Goto(c, Idle)
    /\ UNCHANGED <<earned, optedIn, publisherVars, status, contract>>
-----------------------------------------------------------------------------
(* The chain: transactions of one sender take effect by nonce.             *)
NextToMine(n) ==
    /\ n \in DOMAIN txs
    /\ txs[n].state = "sent"
    /\ \A m \in 1..(n - 1) : txs[m].state # "sent"

UpdateRoot(n) ==
    /\ NextToMine(n)
    /\ txs' = [txs EXCEPT ![n].state = "mined"]
    /\ root' = snap[txs[n].dist]
    /\ UNCHANGED <<earned, optedIn, publisherVars, status, call, claimed, minted, faults>>

\* A transaction reverts, or never gets into a block.
LoseTx(n, state) ==
    /\ n \in DOMAIN txs
    /\ txs[n].state = "sent"
    /\ Fault
    /\ txs' = [txs EXCEPT ![n].state = state]
    /\ UNCHANGED <<earned, optedIn, publisherVars, status, call, contract>>

\* What claim_data.rs serves is the proof of a published distribution.
HasProof(a) ==
    /\ a \in DOMAIN root
    /\ Leaks \/ \E d \in Published : snap[d] = root

BugMintAmount(a) == root[a]
MintAmount(a) == root[a] - claimed[a]

Claim(a) ==
    /\ HasProof(a)
    /\ root[a] > claimed[a]
    /\ claimed' = [claimed EXCEPT ![a] = root[a]]
    /\ minted' = [minted EXCEPT ![a] = @ + MintAmount(a)]
    /\ UNCHANGED <<earned, optedIn, publisherVars, status, call, txs, root, faults>>
-----------------------------------------------------------------------------
Publishing(c) ==
    \/ SelectPending(c) \/ Send(c) \/ GetReceipt(c) \/ MarkPublished(c)
    \/ NoReceipt(c) /\ Timeout(c)

Next ==
    \/ \E a \in Accounts : Earn(a) \/ OptIn(a) \/ Claim(a)
    \/ \E r \in Runs : \/ Snapshot(r) \/ BeginDistribution(r)
                       \/ CommitDistribution(r) \/ FailRun(r)
    \/ \E c \in Calls : \/ SelectPending(c) \/ Send(c) \/ GetReceipt(c)
                        \/ Timeout(c) \/ MarkPublished(c)
                        \/ FailCall(c) \/ LoseSend(c)
    \/ \E n \in 1..MaxTxs : \/ UpdateRoot(n)
                            \/ \E state \in {"reverted", "dropped"} : LoseTx(n, state)

Spec == Init /\ [][Next]_vars

\* The poll comes again and again (publisher.rs:8), and the chain mines what
\* it was sent, unless it loses it.
FairSpec ==
    /\ Spec
    /\ \A c \in Calls : WF_vars(Publishing(c))
    /\ WF_vars(\E n \in 1..MaxTxs : UpdateRoot(n))
-----------------------------------------------------------------------------
\* Statuses are those of the CHECK in 005_distributions.sql, steps those of
\* the code.
TypeOK ==
    /\ earned \in [Accounts -> Nat]
    /\ optedIn \subseteq Accounts
    /\ run \in [Runs -> {"idle", "snapped", "writing", "done", "failed"}]
    /\ DOMAIN snap = Runs /\ \A r \in Runs : IsRoot(snap[r])
    /\ begun \in [Runs -> Nat] /\ clock \in Nat
    /\ status \in [Runs -> {Absent, "pending_publish", "published"}]
    /\ call \in [Calls -> {Idle} \cup [at : {"submit"}, dist : Runs]
                           \cup [at : {"wait", "mark"}, dist : Runs, tx : Nat]]
    /\ txs \in Seq([dist : Runs, state : {"sent", "mined", "reverted", "dropped"}])
    /\ IsRoot(root)
    /\ claimed \in [Accounts -> Nat]
    /\ minted \in [Accounts -> Int]
    /\ faults \in Nat

\* No player is minted more than they earned, and the contract's books agree
\* with what it minted, whatever is published twice, late or out of order
\* (MathCoin.sol:31-42 with publish.ts:12-64 and publisher.rs).
OnlyEarned == \A a \in Accounts : minted[a] = claimed[a] /\ minted[a] <= earned[a]

\* A distribution is published only after a transaction with its root was
\* mined (publisher_adapter_tests.rs, status_only_flips_after_confirmation).
PublishedWasPosted ==
    \A d \in Published : \E n \in DOMAIN txs : txs[n] = [dist |-> d, state |-> "mined"]

\* The distribution whose proofs are served to all (claim_data.rs:45-54 and
\* me.rs:55-60: ORDER BY created_at DESC LIMIT 1).
BugLatestOldest(D) == CHOOSE d \in D : \A e \in D : begun[d] <= begun[e]
Latest(D) == CHOOSE d \in D : \A e \in D : begun[e] <= begun[d]

\* The proofs that are served are those of the contract's root, except while
\* the next distribution is on its way: root and table never drift further
\* apart, although the table follows the chain late and after retries.
RootServed ==
    \/ Published = {} /\ root = NoRoot
    \/ Published # {} /\ root = snap[Latest(Published)]
    \/ \E d \in Runs : Oldest(d) /\ root = snap[d]

\* With one publisher run and one call at a time, a root never takes back an
\* entry of the root before it (publish.ts:12, publisher.rs:14-18).
RootGrows ==
    [][\A a \in DOMAIN root : a \in DOMAIN root' /\ root[a] <= root'[a]]_root

\* What a player may still claim, by GET /api/me with a cache that has caught
\* up, is never negative; me.rs:75-81 takes a negative one for "cache
\* corruption".
ServedTo(a) == {d \in Published : a \in DOMAIN snap[d]}
ClaimableNotNegative ==
    \A a \in Accounts :
        ServedTo(a) # {} => claimed[a] <= snap[Latest(ServedTo(a))][a]

\* Every distribution that was stored is published in the end, if only
\* finitely many calls, timeouts and transactions go wrong.
EventuallyPublished ==
    \A d \in Runs : status[d] = "pending_publish" ~> status[d] = "published"

ThePayout == INSTANCE Payout WITH paid <- minted

\* The settlement pays what was earned: everything else it does is invisible.
ImplementsPayout == ThePayout!Spec
=============================================================================
