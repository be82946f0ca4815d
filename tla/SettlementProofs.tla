-------------------------- MODULE SettlementProofs --------------------------
(***************************************************************************)
(* Theorems about Settlement, for any players, runs and calls: first those *)
(* that hold whether or not runs overlap and proofs leak, then those that  *)
(* need one run and one call at a time.                                    *)
(***************************************************************************)
EXTENDS Settlement, Sums, TLAPS

\* Every snapshot and the contract's root list no more than was earned.
SnapBacked == \A r \in Runs : \A a \in DOMAIN snap[r] : snap[r][a] <= earned[a]
RootBacked == \A a \in DOMAIN root : root[a] <= earned[a]

\* A call waits for a transaction of its own distribution, and marks it only
\* when that transaction was mined.
CallsPosted ==
    \A c \in Calls : At(c, {"wait", "mark"}) =>
        /\ call[c].tx \in DOMAIN txs
        /\ txs[call[c].tx].dist = call[c].dist
        /\ call[c].at = "mark" => txs[call[c].tx].state = "mined"

Backing == SnapBacked /\ RootBacked /\ OnlyEarned
Posting == CallsPosted /\ PublishedWasPosted

IInv == TypeOK /\ Backing /\ Posting

Tx == [dist : Runs, state : {"sent", "mined", "reverted", "dropped"}]
CallStates == {Idle} \cup [at : {"submit"}, dist : Runs]
                     \cup [at : {"wait", "mark"}, dist : Runs, tx : Nat]
-----------------------------------------------------------------------------
(* The actions, grouped by what they may change.                           *)
Publisher(r) == Snapshot(r) \/ BeginDistribution(r) \/ CommitDistribution(r) \/ FailRun(r)
Resting(c) == GetReceipt(c) \/ Timeout(c) \/ FailCall(c)
Sending(c) == Send(c) \/ LoseSend(c)

LEMMA NextCases ==
    ASSUME Next
    PROVE  \/ \E a \in Accounts : Earn(a) \/ OptIn(a) \/ Claim(a)
           \/ \E r \in Runs : Publisher(r)
           \/ \E c \in Calls : SelectPending(c) \/ Sending(c) \/ Resting(c) \/ MarkPublished(c)
           \/ \E n \in Nat : UpdateRoot(n) \/ \E s \in {"reverted", "dropped"} : LoseTx(n, s)
<1>1. \A n \in 1..MaxTxs : n \in Nat
  OBVIOUS
<1>2. QED
  BY <1>1 DEF Next, Publisher, Resting, Sending

(* What a call holds, by its step.                                         *)
LEMMA CallFields ==
    ASSUME TypeOK, NEW c \in Calls
    PROVE  /\ call[c] \in CallStates
           /\ ~At(c, {"idle"}) => call[c].dist \in Runs
           /\ At(c, {"wait", "mark"}) => call[c].tx \in Nat
<1>1. call[c] \in CallStates
  BY DEF TypeOK, CallStates
<1>2. QED
  BY <1>1 DEF CallStates, At, Idle

(* The type of a transaction.                                              *)
LEMMA TxFields ==
    ASSUME TypeOK, NEW n \in DOMAIN txs
    PROVE  /\ txs[n] \in Tx /\ txs[n].dist \in Runs /\ n \in Nat
           /\ txs \in Seq(Tx) /\ DOMAIN txs = 1..Len(txs) /\ Len(txs) \in Nat
<1>1. txs \in Seq(Tx)
  BY DEF TypeOK, Tx
<1>2. Len(txs) \in Nat /\ DOMAIN txs = 1..Len(txs)
  BY <1>1
<1>3. n \in Nat /\ txs[n] \in Tx
  BY <1>1, <1>2
<1>4. QED
  BY <1>1, <1>2, <1>3 DEF Tx

(* Sending appends one transaction and leaves the others.                  *)
LEMMA SendEffect ==
    ASSUME TypeOK, NEW c \in Calls, Sending(c)
    PROVE  /\ txs' \in Seq(Tx)
           /\ Len(txs) + 1 \in DOMAIN txs'
           /\ txs'[Len(txs) + 1] = [dist |-> call[c].dist, state |-> "sent"]
           /\ \A n \in DOMAIN txs : n \in DOMAIN txs' /\ txs'[n] = txs[n]
           /\ Len(txs) \in Nat
<1> DEFINE tx == [dist |-> call[c].dist, state |-> "sent"]
<1>1. txs \in Seq(Tx)
  BY DEF TypeOK, Tx
<1>2. At(c, {"submit"}) /\ txs' = Append(txs, tx)
  BY DEF Sending, Send, LoseSend, SendRaw
<1>3. tx \in Tx
  BY <1>2, CallFields DEF Tx, At
<1> HIDE DEF tx
<1>4. txs' \in Seq(Tx) /\ Len(txs') = Len(txs) + 1 /\ Len(txs) \in Nat
  BY <1>1, <1>2, <1>3
<1>5. txs'[Len(txs) + 1] = tx /\ \A n \in 1..Len(txs) : txs'[n] = txs[n]
  BY <1>1, <1>2, <1>3
<1>6. DOMAIN txs = 1..Len(txs) /\ DOMAIN txs' = 1..Len(txs')
  BY <1>1, <1>4
<1>7. QED
  BY <1>4, <1>5, <1>6 DEF tx

(* A transaction that the chain decides was sent, and the others stay.     *)
LEMMA ChainEffect ==
    ASSUME TypeOK, NEW n, NEW s \in {"mined", "reverted", "dropped"},
           n \in DOMAIN txs, txs[n].state = "sent",
           txs' = [txs EXCEPT ![n].state = s]
    PROVE  /\ txs' \in Seq(Tx) /\ DOMAIN txs' = DOMAIN txs
           /\ \A m \in DOMAIN txs : /\ txs'[m].dist = txs[m].dist
                                    /\ txs[m].state # "sent" => txs'[m] = txs[m]
<1>1. txs \in Seq(Tx) /\ n \in 1..Len(txs) /\ txs[n] \in Tx
  BY TxFields
<1>2. [txs[n] EXCEPT !.state = s] \in Tx
  BY <1>1 DEF Tx
<1>3. txs' = [txs EXCEPT ![n] = [txs[n] EXCEPT !.state = s]]
  OBVIOUS
<1>4. txs' \in Seq(Tx)
  BY <1>1, <1>2, <1>3
<1>5. DOMAIN txs' = DOMAIN txs
  BY <1>3
<1>6. ASSUME NEW m \in DOMAIN txs
      PROVE  txs'[m].dist = txs[m].dist /\ (txs[m].state # "sent" => txs'[m] = txs[m])
  <2>1. CASE m = n
    BY <2>1, <1>1, <1>3 DEF Tx
  <2>2. CASE m # n
    BY <2>2, <1>3, <1>6
  <2>3. QED
    BY <2>1, <2>2
<1>7. QED
  BY <1>4, <1>5, <1>6
-----------------------------------------------------------------------------
(* The type invariant, action by action.                                   *)
LEMMA TypePlayer ==
    ASSUME TypeOK, NEW a \in Accounts, Earn(a) \/ OptIn(a) \/ Claim(a)
    PROVE  TypeOK'
<1>1. CASE Earn(a)
  <2>1. earned' \in [Accounts -> Nat]
    BY <1>1 DEF Earn, TypeOK
  <2>2. QED
    BY <1>1, <2>1 DEF Earn, TypeOK, publisherVars, contract
<1>2. CASE OptIn(a)
  BY <1>2 DEF OptIn, TypeOK, publisherVars, contract
<1>3. CASE Claim(a)
  <2>1. root[a] \in Nat
    BY <1>3 DEF Claim, HasProof, TypeOK, IsRoot
  <2>2. claimed' \in [Accounts -> Nat] /\ minted' \in [Accounts -> Int]
    BY <1>3, <2>1 DEF Claim, MintAmount, TypeOK
  <2>3. QED
    BY <1>3, <2>2 DEF Claim, TypeOK, publisherVars
<1>4. QED
  BY <1>1, <1>2, <1>3

LEMMA TypePublisher ==
    ASSUME TypeOK, NEW r \in Runs, Publisher(r)
    PROVE  TypeOK'
<1>1. /\ run' \in [Runs -> {"idle", "snapped", "writing", "done", "failed"}]
      /\ status' \in [Runs -> {Absent, "pending_publish", "published"}]
      /\ begun' \in [Runs -> Nat] /\ clock' \in Nat /\ faults' \in Nat
  <2> USE DEF TypeOK
  <2>1. CASE Snapshot(r)
    BY <2>1 DEF Snapshot
  <2>2. CASE BeginDistribution(r)
    BY <2>2 DEF BeginDistribution
  <2>3. CASE CommitDistribution(r)
    BY <2>3 DEF CommitDistribution
  <2>4. CASE FailRun(r)
    BY <2>4 DEF FailRun, Fault
  <2>5. QED
    BY <2>1, <2>2, <2>3, <2>4 DEF Publisher
<1>2. DOMAIN snap' = Runs /\ \A q \in Runs : IsRoot(snap'[q])
  <2>1. CASE Snapshot(r) /\ optedIn # {}
    <3>1. snap' = [snap EXCEPT ![r] = [a \in optedIn |-> earned[a]]]
      BY <2>1 DEF Snapshot
    <3>2. IsRoot([a \in optedIn |-> earned[a]])
      BY DEF TypeOK, IsRoot
    <3>3. QED
      BY <3>1, <3>2 DEF TypeOK
  <2>2. CASE ~(Snapshot(r) /\ optedIn # {})
    <3>1. snap' = snap
      BY <2>2 DEF Publisher, Snapshot, BeginDistribution, CommitDistribution, FailRun
    <3>2. QED
      BY <3>1 DEF TypeOK
  <2>3. QED
    BY <2>1, <2>2
<1>3. UNCHANGED <<earned, optedIn, call, txs, contract>>
  BY DEF Publisher, Snapshot, BeginDistribution, CommitDistribution, FailRun
<1>4. QED
  BY <1>1, <1>2, <1>3 DEF TypeOK, contract

LEMMA TypeCall ==
    ASSUME TypeOK, NEW c \in Calls,
           SelectPending(c) \/ Sending(c) \/ Resting(c) \/ MarkPublished(c)
    PROVE  TypeOK'
<1>1. call' \in [Calls -> CallStates]
  <2>1. call \in [Calls -> CallStates] /\ call[c] \in CallStates
    BY DEF TypeOK, CallStates
  <2>2. ASSUME NEW state \in CallStates, Goto(c, state)
        PROVE  call' \in [Calls -> CallStates]
    BY <2>1, <2>2 DEF Goto
  <2>3. Idle \in CallStates
    BY DEF CallStates
  <2>4. CASE SelectPending(c)
    <3>1. PICK d \in Runs : Goto(c, [at |-> "submit", dist |-> d])
      BY <2>4 DEF SelectPending
    <3>2. [at |-> "submit", dist |-> d] \in CallStates
      BY DEF CallStates
    <3>3. QED
      BY <2>2, <3>1, <3>2
  <2>5. CASE Send(c)
    <3>1. call[c].dist \in Runs /\ Len(txs) + 1 \in Nat
      <4>1. txs \in Seq(Tx)
        BY DEF TypeOK, Tx
      <4>2. QED
        BY <2>5, <4>1, CallFields DEF Send, At
    <3>2. [at |-> "wait", dist |-> call[c].dist, tx |-> Len(txs) + 1] \in CallStates
      BY <3>1 DEF CallStates
    <3>3. QED
      BY <2>2, <2>5, <3>2 DEF Send
  <2>6. CASE GetReceipt(c)
    <3>1. [call[c] EXCEPT !.at = "mark"] \in CallStates
      <4>1. call[c].at = "wait"
        BY <2>6, <2>1 DEF GetReceipt, At
      <4>2. call[c] \in [at : {"wait", "mark"}, dist : Runs, tx : Nat]
        BY <4>1, <2>1 DEF CallStates, Idle
      <4>3. QED
        BY <4>2 DEF CallStates
    <3>2. Goto(c, [call[c] EXCEPT !.at = "mark"]) \/ Goto(c, Idle)
      BY <2>6 DEF GetReceipt
    <3>3. QED
      BY <2>2, <2>3, <3>1, <3>2
  <2>7. CASE LoseSend(c) \/ Timeout(c) \/ FailCall(c) \/ MarkPublished(c)
    BY <2>2, <2>3, <2>7 DEF LoseSend, Timeout, FailCall, MarkPublished
  <2>8. QED
    BY <2>4, <2>5, <2>6, <2>7 DEF Sending, Resting
<1>2. txs' \in Seq(Tx)
  <2>1. CASE Sending(c)
    BY <2>1, SendEffect
  <2>2. CASE ~Sending(c)
    BY <2>2 DEF SelectPending, Resting, GetReceipt, Timeout, FailCall, MarkPublished, TypeOK, Tx
  <2>3. QED
    BY <2>1, <2>2
<1>3. status' \in [Runs -> {Absent, "pending_publish", "published"}]
  BY DEF SelectPending, Sending, Send, LoseSend, Resting, GetReceipt, Timeout, FailCall,
         MarkPublished, PublishedStatus, TypeOK
<1>4. faults' \in Nat
  BY DEF SelectPending, Sending, Send, LoseSend, Resting, GetReceipt, Timeout, FailCall,
         MarkPublished, Fault, TypeOK
<1>5. UNCHANGED <<earned, optedIn, publisherVars, contract>>
  BY DEF SelectPending, Sending, Send, LoseSend, Resting, GetReceipt, Timeout, FailCall,
         MarkPublished
<1>6. QED
  BY <1>1, <1>2, <1>3, <1>4, <1>5 DEF TypeOK, CallStates, Tx, publisherVars, contract

LEMMA TypeChain ==
    ASSUME TypeOK, NEW n \in Nat,
           UpdateRoot(n) \/ \E s \in {"reverted", "dropped"} : LoseTx(n, s)
    PROVE  TypeOK'
<1>1. PICK s \in {"mined", "reverted", "dropped"} :
         /\ n \in DOMAIN txs /\ txs[n].state = "sent"
         /\ txs' = [txs EXCEPT ![n].state = s]
         /\ s = "mined" => UpdateRoot(n)
         /\ s # "mined" => LoseTx(n, s)
  BY DEF UpdateRoot, NextToMine, LoseTx
<1>2. txs' \in Seq(Tx)
  BY <1>1, ChainEffect
<1>3. IsRoot(root') /\ faults' \in Nat /\ UNCHANGED <<claimed, minted>>
  <2>1. CASE UpdateRoot(n)
    BY <2>1, <1>1, TxFields DEF UpdateRoot, TypeOK
  <2>2. CASE LoseTx(n, s)
    BY <2>2 DEF LoseTx, Fault, TypeOK, contract
  <2>3. QED
    BY <1>1, <2>1, <2>2
<1>4. UNCHANGED <<earned, optedIn, publisherVars, status, call>>
  BY <1>1 DEF UpdateRoot, LoseTx
<1>5. QED
  BY <1>2, <1>3, <1>4 DEF TypeOK, Tx, publisherVars

LEMMA TypeStep == TypeOK /\ [Next]_vars => TypeOK'
<1> SUFFICES ASSUME TypeOK, [Next]_vars
             PROVE  TypeOK'
  OBVIOUS
<1>1. CASE Next
  BY <1>1, NextCases, TypePlayer, TypePublisher, TypeCall, TypeChain
<1>2. CASE UNCHANGED vars
  BY <1>2 DEF vars, TypeOK, publisherVars, contract
<1>3. QED
  BY <1>1, <1>2
-----------------------------------------------------------------------------
(* Earnings only grow, so a snapshot that listed no more than was earned    *)
(* still does, and so does the root that was taken from it.                *)
LEMMA BackingEarn ==
    ASSUME TypeOK, Backing, NEW a \in Accounts, Earn(a)
    PROVE  Backing'
<1>1. \A b \in Accounts : earned[b] \in Nat /\ earned'[b] \in Nat /\ earned[b] <= earned'[b]
  BY DEF Earn, TypeOK
<1>2. UNCHANGED <<snap, root, claimed, minted>>
  BY DEF Earn, publisherVars, contract
<1>3. SnapBacked'
  <2> SUFFICES ASSUME NEW r \in Runs, NEW b \in DOMAIN snap[r]
               PROVE  snap[r][b] <= earned'[b]
    BY <1>2 DEF SnapBacked
  <2>1. b \in Accounts /\ snap[r][b] \in Nat
    BY DEF TypeOK, IsRoot
  <2>2. snap[r][b] <= earned[b]
    BY DEF Backing, SnapBacked
  <2>3. QED
    BY <1>1, <2>1, <2>2
<1>4. RootBacked'
  <2> SUFFICES ASSUME NEW b \in DOMAIN root
               PROVE  root[b] <= earned'[b]
    BY <1>2 DEF RootBacked
  <2>1. b \in Accounts /\ root[b] \in Nat
    BY DEF TypeOK, IsRoot
  <2>2. root[b] <= earned[b]
    BY DEF Backing, RootBacked
  <2>3. QED
    BY <1>1, <2>1, <2>2
<1>5. OnlyEarned'
  <2> SUFFICES ASSUME NEW b \in Accounts
               PROVE  minted[b] = claimed[b] /\ minted[b] <= earned'[b]
    BY <1>2 DEF OnlyEarned
  <2>1. minted[b] = claimed[b] /\ minted[b] <= earned[b] /\ minted[b] \in Int
    BY DEF Backing, OnlyEarned, TypeOK
  <2>2. QED
    BY <1>1, <2>1
<1>6. QED
  BY <1>3, <1>4, <1>5 DEF Backing

(* A claim brings an account to what the root lists for it, by minting the *)
(* difference (MathCoin.sol:35-41).                                        *)
LEMMA ClaimEffect ==
    ASSUME TypeOK, Backing, NEW a \in Accounts, Claim(a)
    PROVE  /\ minted' = [minted EXCEPT ![a] = root[a]]
           /\ claimed' = [claimed EXCEPT ![a] = root[a]]
           /\ root[a] \in Nat /\ root[a] <= earned[a] /\ minted[a] < root[a]
           /\ UNCHANGED <<earned, snap, root>>
<1>1. a \in DOMAIN root /\ root[a] \in Nat /\ root[a] > claimed[a]
  BY DEF Claim, HasProof, TypeOK, IsRoot
<1>2. root[a] <= earned[a] /\ minted[a] = claimed[a] /\ claimed[a] \in Nat
  BY <1>1 DEF Backing, RootBacked, OnlyEarned, TypeOK
<1>3. minted[a] + MintAmount(a) = root[a]
  BY <1>1, <1>2 DEF MintAmount
<1>4. minted' = [minted EXCEPT ![a] = minted[a] + MintAmount(a)]
  BY DEF Claim
<1>5. QED
  BY <1>1, <1>2, <1>3, <1>4 DEF Claim, publisherVars

LEMMA BackingClaim ==
    ASSUME TypeOK, Backing, NEW a \in Accounts, Claim(a)
    PROVE  Backing'
<1>1. OnlyEarned'
  <2> SUFFICES ASSUME NEW b \in Accounts
               PROVE  minted'[b] = claimed'[b] /\ minted'[b] <= earned[b]
    BY ClaimEffect DEF OnlyEarned
  <2>1. CASE b = a
    <3>1. minted'[a] = root[a] /\ claimed'[a] = root[a] /\ root[a] <= earned[a]
      BY ClaimEffect DEF TypeOK
    <3>2. QED
      BY <2>1, <3>1
  <2>2. CASE b # a
    BY <2>2, ClaimEffect DEF TypeOK, Backing, OnlyEarned
  <2>3. QED
    BY <2>1, <2>2
<1>2. SnapBacked' /\ RootBacked'
  BY ClaimEffect DEF Backing, SnapBacked, RootBacked
<1>3. QED
  BY <1>1, <1>2 DEF Backing

(* A snapshot lists what is earned when it is taken (publish.ts:12-18).     *)
LEMMA BackingSnapshot ==
    ASSUME TypeOK, Backing, NEW r \in Runs, Snapshot(r)
    PROVE  Backing'
<1>1. UNCHANGED <<earned, root, claimed, minted>>
  BY DEF Snapshot, contract
<1>2. snap' = snap \/ snap' = [snap EXCEPT ![r] = [a \in optedIn |-> earned[a]]]
  BY DEF Snapshot
<1>3. SnapBacked'
  <2> SUFFICES ASSUME NEW q \in Runs, NEW b \in DOMAIN snap'[q]
               PROVE  snap'[q][b] <= earned[b]
    BY <1>1 DEF SnapBacked
  <2>1. CASE snap'[q] = snap[q]
    BY <2>1 DEF Backing, SnapBacked
  <2>2. CASE snap'[q] = [a \in optedIn |-> earned[a]]
    <3>1. b \in optedIn /\ b \in Accounts /\ snap'[q][b] = earned[b]
      BY <2>2 DEF TypeOK
    <3>2. QED
      BY <3>1 DEF TypeOK
  <2>3. QED
    BY <1>2, <2>1, <2>2 DEF TypeOK
<1>4. RootBacked' /\ OnlyEarned'
  BY <1>1 DEF Backing, RootBacked, OnlyEarned
<1>5. QED
  BY <1>3, <1>4 DEF Backing

(* The contract's root is the snapshot of a distribution.                  *)
LEMMA BackingUpdateRoot ==
    ASSUME TypeOK, Backing, NEW n \in Nat, UpdateRoot(n)
    PROVE  Backing'
<1>1. txs[n].dist \in Runs /\ root' = snap[txs[n].dist]
  BY TxFields DEF UpdateRoot, NextToMine
<1>2. UNCHANGED <<earned, snap, claimed, minted>>
  BY DEF UpdateRoot, publisherVars
<1>3. RootBacked'
  BY <1>1, <1>2 DEF RootBacked, Backing, SnapBacked
<1>4. QED
  BY <1>2, <1>3 DEF Backing, SnapBacked, OnlyEarned

LEMMA BackingStep == TypeOK /\ Backing /\ [Next]_vars => Backing'
<1> SUFFICES ASSUME TypeOK, Backing, [Next]_vars
             PROVE  Backing'
  OBVIOUS
<1>1. ASSUME UNCHANGED <<earned, snap, root, claimed, minted>>
      PROVE  Backing'
  BY <1>1 DEF Backing, SnapBacked, RootBacked, OnlyEarned
<1>2. ASSUME NEW a \in Accounts, Earn(a) \/ OptIn(a) \/ Claim(a)
      PROVE  Backing'
  BY <1>1, <1>2, BackingEarn, BackingClaim DEF OptIn, publisherVars, contract
<1>3. ASSUME NEW r \in Runs, Publisher(r)
      PROVE  Backing'
  <2>1. CASE Snapshot(r)
    BY <2>1, BackingSnapshot
  <2>2. CASE ~Snapshot(r)
    BY <1>1, <1>3, <2>2 DEF Publisher, BeginDistribution, CommitDistribution, FailRun, contract
  <2>3. QED
    BY <2>1, <2>2
<1>4. ASSUME NEW c \in Calls,
             SelectPending(c) \/ Sending(c) \/ Resting(c) \/ MarkPublished(c)
      PROVE  Backing'
  BY <1>1, <1>4 DEF SelectPending, Sending, Send, LoseSend, Resting, GetReceipt, Timeout,
         FailCall, MarkPublished, publisherVars, contract
<1>5. ASSUME NEW n \in Nat, NEW s \in {"reverted", "dropped"}, LoseTx(n, s)
      PROVE  Backing'
  BY <1>1, <1>5 DEF LoseTx, publisherVars, contract
<1>6. CASE UNCHANGED vars
  BY <1>1, <1>6 DEF vars, publisherVars, contract
<1>7. QED
  BY <1>2, <1>3, <1>4, <1>5, <1>6, NextCases, BackingUpdateRoot
-----------------------------------------------------------------------------
(* What was posted stays posted, and what a call waits for stays its own,  *)
(* when transactions are added and only those under way are decided.       *)
LEMMA PostingKept ==
    ASSUME Posting, UNCHANGED <<call, status>>,
           \A m \in DOMAIN txs : /\ m \in DOMAIN txs' /\ txs'[m].dist = txs[m].dist
                                 /\ txs[m].state # "sent" => txs'[m] = txs[m]
    PROVE  Posting'
<1>1. CallsPosted'
  BY DEF Posting, CallsPosted, At
<1>2. PublishedWasPosted'
  <2> SUFFICES ASSUME NEW d \in Published
               PROVE  \E n \in DOMAIN txs' : txs'[n] = [dist |-> d, state |-> "mined"]
    BY DEF PublishedWasPosted, Published
  <2>1. PICK n \in DOMAIN txs : txs[n] = [dist |-> d, state |-> "mined"]
    BY DEF Posting, PublishedWasPosted
  <2>2. QED
    BY <2>1
<1>3. QED
  BY <1>1, <1>2 DEF Posting

(* A run's commit makes a distribution pending, not published.             *)
LEMMA PostingPublisher ==
    ASSUME TypeOK, Posting, NEW r \in Runs, Publisher(r)
    PROVE  Posting'
<1>1. UNCHANGED <<call, txs>>
  BY DEF Publisher, Snapshot, BeginDistribution, CommitDistribution, FailRun
<1>2. Published' \subseteq Published
  <2>1. status' = status \/ status' = [status EXCEPT ![r] = "pending_publish"]
    BY DEF Publisher, Snapshot, BeginDistribution, CommitDistribution, FailRun
  <2>2. QED
    BY <2>1 DEF Published, TypeOK
<1>3. QED
  BY <1>1, <1>2 DEF Posting, CallsPosted, PublishedWasPosted, At

(* A call that selects, sends, or comes to rest.                           *)
LEMMA PostingCall ==
    ASSUME TypeOK, Posting, NEW c \in Calls, SelectPending(c) \/ Sending(c) \/ Resting(c)
    PROVE  Posting'
<1>1. call \in [Calls -> CallStates]
  BY DEF TypeOK, CallStates
<1>2. /\ status' = status
      /\ \A m \in DOMAIN txs : m \in DOMAIN txs' /\ txs'[m] = txs[m]
  BY SendEffect DEF SelectPending, Sending, Send, LoseSend, Resting, GetReceipt, Timeout, FailCall
<1>3. PublishedWasPosted'
  BY <1>2 DEF Posting, PublishedWasPosted, Published
<1>4. ASSUME NEW b \in Calls, At(b, {"wait", "mark"}), call'[b] = call[b]
      PROVE  /\ call[b].tx \in DOMAIN txs'
             /\ txs'[call[b].tx].dist = call[b].dist
             /\ call[b].at = "mark" => txs'[call[b].tx].state = "mined"
  BY <1>2, <1>4 DEF Posting, CallsPosted
<1>5. \A b \in Calls \ {c} : call'[b] = call[b]
  BY <1>1 DEF SelectPending, Sending, Send, LoseSend, Resting, GetReceipt, Timeout, FailCall, Goto
<1>6. call'[c].at \in {"wait", "mark"} =>
         /\ call'[c].tx \in DOMAIN txs'
         /\ txs'[call'[c].tx].dist = call'[c].dist
         /\ call'[c].at = "mark" => txs'[call'[c].tx].state = "mined"
  <2>1. CASE SelectPending(c)
    BY <1>1, <2>1 DEF SelectPending, Goto
  <2>2. CASE Send(c)
    <3>1. call'[c] = [at |-> "wait", dist |-> call[c].dist, tx |-> Len(txs) + 1]
      BY <1>1, <2>2 DEF Send, Goto
    <3>2. /\ Len(txs) + 1 \in DOMAIN txs'
          /\ txs'[Len(txs) + 1] = [dist |-> call[c].dist, state |-> "sent"]
      BY <2>2, SendEffect DEF Sending
    <3>3. /\ call'[c].at = "wait" /\ call'[c].tx = Len(txs) + 1
          /\ call'[c].dist = call[c].dist
      BY <3>1
    <3>4. QED
      BY <3>2, <3>3
  <2>3. CASE GetReceipt(c)
    <3>1. /\ At(c, {"wait"}) /\ txs' = txs
          /\ call'[c] = IF Confirms(txs[call[c].tx].state)
                          THEN [call[c] EXCEPT !.at = "mark"] ELSE Idle
      BY <1>1, <2>3 DEF GetReceipt, Goto
    <3>2. /\ call[c].tx \in DOMAIN txs
          /\ txs[call[c].tx].dist = call[c].dist
      BY <3>1 DEF Posting, CallsPosted, At
    <3>3. call[c] \in [at : {"wait", "mark"}, dist : Runs, tx : Nat]
      BY <1>1, <3>1 DEF At, CallStates, Idle
    <3>4. QED
      BY <3>1, <3>2, <3>3 DEF Confirms, Idle
  <2>4. CASE LoseSend(c) \/ Timeout(c) \/ FailCall(c)
    <3>1. call'[c] = Idle
      BY <1>1, <2>4 DEF LoseSend, Timeout, FailCall, Goto
    <3>2. QED
      BY <3>1 DEF Idle
  <2>5. QED
    BY <2>1, <2>2, <2>3, <2>4 DEF Sending, Resting
<1>7. CallsPosted'
  <2> SUFFICES ASSUME NEW b \in Calls, At(b, {"wait", "mark"})'
               PROVE  /\ call'[b].tx \in DOMAIN txs'
                      /\ txs'[call'[b].tx].dist = call'[b].dist
                      /\ call'[b].at = "mark" => txs'[call'[b].tx].state = "mined"
    BY DEF CallsPosted
  <2>1. CASE b = c
    BY <1>6, <2>1 DEF At
  <2>2. CASE b # c
    BY <1>4, <1>5, <2>2 DEF At
  <2>3. QED
    BY <2>1, <2>2
<1>8. QED
  BY <1>3, <1>7 DEF Posting

(* The status flips to published with a mined transaction of its own       *)
(* distribution (publisher.rs:44-51).                                      *)
LEMMA PostingMark ==
    ASSUME TypeOK, Posting, NEW c \in Calls, MarkPublished(c)
    PROVE  Posting'
<1>1. /\ call' = [call EXCEPT ![c] = Idle] /\ txs' = txs
      /\ \A d \in Runs : status'[d] = IF d = call[c].dist THEN "published" ELSE status[d]
  BY DEF MarkPublished, Goto, Marked, PublishedStatus
<1>2. CallsPosted'
  <2> SUFFICES ASSUME NEW b \in Calls, At(b, {"wait", "mark"})'
               PROVE  call'[b] = call[b]
    BY <1>1 DEF Posting, CallsPosted, At
  <2>1. call'[c] = Idle
    BY <1>1 DEF TypeOK
  <2>2. QED
    BY <1>1, <2>1 DEF TypeOK, At, Idle
<1>3. PublishedWasPosted'
  <2> SUFFICES ASSUME NEW d \in Runs, status'[d] = "published"
               PROVE  \E n \in DOMAIN txs : txs[n] = [dist |-> d, state |-> "mined"]
    BY <1>1 DEF PublishedWasPosted, Published
  <2>1. CASE d = call[c].dist
    <3>1. /\ call[c].tx \in DOMAIN txs /\ txs[call[c].tx].dist = d
          /\ txs[call[c].tx].state = "mined"
      BY <2>1 DEF MarkPublished, Posting, CallsPosted, At
    <3>2. txs[call[c].tx] \in Tx
      BY <3>1, TxFields
    <3>3. txs[call[c].tx] = [dist |-> d, state |-> "mined"]
      BY <3>1, <3>2 DEF Tx
    <3>4. QED
      BY <3>1, <3>3
  <2>2. CASE d # call[c].dist
    BY <1>1, <2>2 DEF Posting, PublishedWasPosted, Published
  <2>3. QED
    BY <2>1, <2>2
<1>4. QED
  BY <1>2, <1>3 DEF Posting

LEMMA PostingChain ==
    ASSUME TypeOK, Posting, NEW n \in Nat,
           UpdateRoot(n) \/ \E s \in {"reverted", "dropped"} : LoseTx(n, s)
    PROVE  Posting'
<1>1. PICK s \in {"mined", "reverted", "dropped"} :
         /\ n \in DOMAIN txs /\ txs[n].state = "sent"
         /\ txs' = [txs EXCEPT ![n].state = s]
         /\ UNCHANGED <<call, status>>
  BY DEF UpdateRoot, NextToMine, LoseTx
<1>2. QED
  BY <1>1, ChainEffect, PostingKept

LEMMA PostingStep == TypeOK /\ Posting /\ [Next]_vars => Posting'
<1> SUFFICES ASSUME TypeOK, Posting, [Next]_vars
             PROVE  Posting'
  OBVIOUS
<1>1. ASSUME UNCHANGED <<call, status, txs>>
      PROVE  Posting'
  BY <1>1, PostingKept
<1>2. ASSUME NEW a \in Accounts, Earn(a) \/ OptIn(a) \/ Claim(a)
      PROVE  Posting'
  BY <1>1, <1>2 DEF Earn, OptIn, Claim
<1>3. CASE UNCHANGED vars
  BY <1>1, <1>3 DEF vars
<1>4. QED
  BY <1>2, <1>3, NextCases, PostingPublisher, PostingCall, PostingMark, PostingChain
-----------------------------------------------------------------------------
LEMMA InitIInv == Init => IInv
<1> SUFFICES ASSUME Init
             PROVE  IInv
  OBVIOUS
<1>1. TypeOK
  BY DEF Init, TypeOK, IsRoot, NoRoot, Absent, Idle
<1>2. Backing
  BY DEF Init, Backing, SnapBacked, RootBacked, OnlyEarned, NoRoot
<1>3. Posting
  BY DEF Init, Posting, CallsPosted, PublishedWasPosted, Published, At, Idle, Absent
<1>4. QED
  BY <1>1, <1>2, <1>3 DEF IInv

(* The inductive invariant holds in every state.                           *)
THEOREM Inductive == Spec => []IInv
<1>1. IInv /\ [Next]_vars => IInv'
  BY TypeStep, BackingStep, PostingStep DEF IInv
<1>2. QED
  BY <1>1, InitIInv, PTL DEF Spec

(* Types, and the statuses the CHECK of 005_distributions.sql allows.       *)
THEOREM SettlementTypeOK == Spec => []TypeOK
<1>1. IInv => TypeOK
  BY DEF IInv
<1>2. QED
  BY <1>1, Inductive, PTL

(* No player is minted more than they earned (MathCoin.sol:31-42), however *)
(* runs overlap and whatever is published twice, late or out of order.     *)
THEOREM SettlementOnlyEarned == Spec => []OnlyEarned
<1>1. IInv => OnlyEarned
  BY DEF IInv, Backing
<1>2. QED
  BY <1>1, Inductive, PTL

(* A published distribution's root was mined (publisher.rs:39-51).         *)
THEOREM SettlementPublishedWasPosted == Spec => []PublishedWasPosted
<1>1. IInv => PublishedWasPosted
  BY DEF IInv, Posting
<1>2. QED
  BY <1>1, Inductive, PTL
-----------------------------------------------------------------------------
(* Every step of the settlement is a step of Payout or invisible to it.    *)
LEMMA PayoutStep == IInv /\ [Next]_vars => [ThePayout!Next]_(ThePayout!payoutVars)
<1> SUFFICES ASSUME IInv, [Next]_vars
             PROVE  ThePayout!Next \/ UNCHANGED <<earned, minted>>
  BY DEF ThePayout!payoutVars
<1>1. TypeOK /\ Backing
  BY DEF IInv
<1>2. ASSUME NEW a \in Accounts, Earn(a)
      PROVE  ThePayout!Earn(a)
  BY <1>1, <1>2 DEF Earn, TypeOK, contract, ThePayout!Earn
<1>3. ASSUME NEW a \in Accounts, Claim(a)
      PROVE  ThePayout!Pay(a)
  BY <1>1, <1>3, ClaimEffect DEF TypeOK, ThePayout!Pay
<1>4. ASSUME NEW a \in Accounts, OptIn(a)
      PROVE  UNCHANGED <<earned, minted>>
  BY <1>4 DEF OptIn, contract
<1>5. ASSUME NEW r \in Runs, Publisher(r)
      PROVE  UNCHANGED <<earned, minted>>
  BY <1>5 DEF Publisher, Snapshot, BeginDistribution, CommitDistribution, FailRun, contract
<1>6. ASSUME NEW c \in Calls,
             SelectPending(c) \/ Sending(c) \/ Resting(c) \/ MarkPublished(c)
      PROVE  UNCHANGED <<earned, minted>>
  BY <1>6 DEF SelectPending, Sending, Send, LoseSend, Resting, GetReceipt, Timeout,
         FailCall, MarkPublished, contract
<1>7. ASSUME NEW n \in Nat, UpdateRoot(n) \/ \E s \in {"reverted", "dropped"} : LoseTx(n, s)
      PROVE  UNCHANGED <<earned, minted>>
  BY <1>7 DEF UpdateRoot, LoseTx, contract
<1>8. CASE UNCHANGED vars
  BY <1>8 DEF vars, contract
<1>9. QED
  BY <1>2, <1>3, <1>4, <1>5, <1>6, <1>7, <1>8, NextCases DEF ThePayout!Next

(* The settlement implements Payout: tokens are paid for what was earned,  *)
(* in portions, and nothing else happens to them.                          *)
THEOREM SettlementImplementsPayout == Spec => ImplementsPayout
<1>1. Init => ThePayout!Init
  BY DEF Init, ThePayout!Init
<1>2. QED
  BY <1>1, PayoutStep, Inductive, PTL DEF Spec, ImplementsPayout, ThePayout!Spec
-----------------------------------------------------------------------------
(* One run and one call at a time.  Distributions are then stored in the   *)
(* order of their created_at, each listing all the one before it listed,   *)
(* and posted and published in that order.                                 *)
Alone == ~Overlap /\ \A b, c \in Calls : b = c

Stored == {d \in Runs : status[d] # Absent}
Below(f, g) == \A a \in DOMAIN f : a \in DOMAIN g /\ f[a] <= g[a]
Mined(n) == n \in DOMAIN txs /\ txs[n].state = "mined"

\* A run under way comes after everything stored, and nothing is beside it.
RunsTurn ==
    /\ \A q, r \in Runs : UnderWay(q) /\ UnderWay(r) => q = r
    /\ \A r \in Runs : begun[r] <= clock /\ (status[r] # Absent <=> run[r] = "done")
    /\ \A r \in Runs : DOMAIN snap[r] \subseteq optedIn
    /\ \A d \in Stored, r \in Runs : UnderWay(r) => Below(snap[d], snap[r])
    /\ \A d \in Stored, r \in Runs : run[r] = "writing" => begun[d] < begun[r]

\* Stored distributions grow with created_at, and no two share it.
StoredGrow ==
    \A d, e \in Stored : /\ begun[d] = begun[e] => d = e
                         /\ begun[d] <= begun[e] => Below(snap[d], snap[e])

\* Distributions are published in the order of created_at, and what is
\* submitted is the next.
Foremost == {d \in Runs : Oldest(d)}
Due == Published \cup Foremost
PublishedFirst ==
    /\ \A d \in Published, e \in Pending : begun[d] < begun[e]
    /\ \A c \in Calls : ~At(c, {"idle"}) => call[c].dist \in Foremost
    /\ Published # {} => \E d \in Published : \A e \in Published : begun[e] <= begun[d]

\* Transactions are sent and mined in that order.
PostedInOrder ==
    /\ \A n \in DOMAIN txs : txs[n].dist \in Due
    /\ \A m, n \in DOMAIN txs : m <= n => begun[txs[m].dist] <= begun[txs[n].dist]
    /\ \A m, n \in DOMAIN txs : m < n /\ Mined(n) => txs[m].state # "sent"

\* The contract has the root of the last transaction mined.
LastRoot ==
    \/ root = NoRoot /\ \A n \in DOMAIN txs : ~Mined(n)
    \/ \E n \in DOMAIN txs : /\ Mined(n) /\ root = snap[txs[n].dist]
                             /\ \A m \in DOMAIN txs : Mined(m) => m <= n

\* Without leaks, what was claimed was listed by a published distribution.
ClaimsServed ==
    \A a \in Accounts :
        \/ claimed[a] = 0
        \/ \E d \in Published : a \in DOMAIN snap[d] /\ claimed[a] <= snap[d][a]

Order == RunsTurn /\ StoredGrow /\ PublishedFirst /\ PostedInOrder /\ LastRoot
-----------------------------------------------------------------------------
(* Stored distributions are the published and the pending ones.            *)
LEMMA StoredSplit ==
    ASSUME TypeOK
    PROVE  /\ Stored = Published \cup Pending
           /\ Published \cap Pending = {}
           /\ Stored \subseteq Runs
           /\ \A d \in Runs : begun[d] \in Nat
           /\ Due \subseteq Stored /\ Foremost \subseteq Pending
<1>1. Stored = Published \cup Pending /\ Published \cap Pending = {}
  BY DEF TypeOK, Stored, Published, Pending, Absent
<1>2. QED
  BY <1>1 DEF TypeOK, Stored, Due, Foremost, Oldest

(* There is one oldest pending distribution, since no two share created_at.*)
LEMMA OldestUnique ==
    ASSUME TypeOK, StoredGrow, NEW d \in Runs, NEW e \in Runs, Oldest(d), Oldest(e)
    PROVE  d = e
<1>1. d \in Stored /\ e \in Stored /\ begun[d] \in Nat /\ begun[e] \in Nat
  BY StoredSplit DEF Oldest
<1>2. begun[d] <= begun[e] /\ begun[e] <= begun[d]
  BY DEF Oldest
<1>3. QED
  BY <1>1, <1>2 DEF StoredGrow

(* What a run does leaves stored distributions alone, and what it stores   *)
(* is pending and later than all of them.                                  *)
LEMMA PublisherFrame ==
    ASSUME TypeOK, RunsTurn, NEW r \in Runs, Publisher(r)
    PROVE  /\ \A d \in Stored : /\ snap'[d] = snap[d] /\ begun'[d] = begun[d]
                                /\ status'[d] = status[d]
           /\ \A d \in Runs \ Stored :
                 status'[d] # Absent => /\ status'[d] = "pending_publish"
                                        /\ \A e \in Stored : begun[e] < begun'[d]
           /\ UNCHANGED <<optedIn, call, txs, root, claimed>>
<1>1. \A d \in Runs : d \in Stored <=> run[d] = "done"
  BY DEF RunsTurn, Stored
<1>2. CASE Snapshot(r)
  <2>1. run[r] # "done" /\ status' = status /\ begun' = begun
    BY <1>2 DEF Snapshot
  <2>2. \A d \in Runs \ {r} : snap'[d] = snap[d]
    BY <1>2 DEF Snapshot, TypeOK
  <2>3. QED
    BY <1>1, <1>2, <2>1, <2>2 DEF Snapshot, contract, Stored
<1>3. CASE BeginDistribution(r)
  <2>1. run[r] # "done" /\ status' = status /\ snap' = snap
    BY <1>3 DEF BeginDistribution
  <2>2. \A d \in Runs \ {r} : begun'[d] = begun[d]
    BY <1>3 DEF BeginDistribution, TypeOK
  <2>3. QED
    BY <1>1, <1>3, <2>1, <2>2 DEF BeginDistribution, contract, Stored
<1>4. CASE CommitDistribution(r)
  <2>1. run[r] # "done" /\ snap' = snap /\ begun' = begun
    BY <1>4 DEF CommitDistribution
  <2>2. /\ status'[r] = "pending_publish"
        /\ \A d \in Runs \ {r} : status'[d] = status[d]
    BY <1>4 DEF CommitDistribution, TypeOK
  <2>3. \A e \in Stored : begun[e] < begun[r]
    BY <1>4 DEF CommitDistribution, RunsTurn
  <2>4. QED
    BY <1>1, <1>4, <2>1, <2>2, <2>3 DEF CommitDistribution, contract, Stored
<1>5. CASE FailRun(r)
  BY <1>5 DEF FailRun, contract, Stored
<1>6. QED
  BY <1>2, <1>3, <1>4, <1>5 DEF Publisher

(* A snapshot is taken when no other run is under way, and lists all that  *)
(* any snapshot before it listed, since earnings and addresses only grow.  *)
LEMMA RunsSnapshot ==
    ASSUME TypeOK, SnapBacked, RunsTurn, StoredGrow, Alone, NEW r \in Runs, Snapshot(r)
    PROVE  RunsTurn' /\ StoredGrow'
<1> DEFINE taken == [a \in optedIn |-> earned[a]]
<1>1. /\ run[r] = "idle" /\ \A q \in Runs : ~UnderWay(q)
      /\ UNCHANGED <<optedIn, earned, begun, clock, status>>
  BY DEF Snapshot, Alone
<1>2. \A d \in Runs : d \in Stored <=> run[d] = "done"
  BY DEF RunsTurn, Stored
<1>3. \A d \in Stored : d \in Runs /\ d # r /\ snap'[d] = snap[d]
  BY <1>1, <1>2 DEF Snapshot, TypeOK, Stored
<1>4. Stored' = Stored
  BY <1>1 DEF Stored
<1>5. StoredGrow'
  BY <1>1, <1>3, <1>4 DEF StoredGrow
<1>6. \A q \in Runs \ {r} : run'[q] = run[q] /\ snap'[q] = snap[q]
  BY DEF Snapshot, TypeOK
<1>7. CASE optedIn = {}
  <2>1. run'[r] = "failed" /\ snap' = snap
    BY <1>7 DEF Snapshot, TypeOK
  <2>2. \A q \in Runs : ~UnderWay(q)' /\ run'[q] # "writing"
    BY <1>1, <1>6, <2>1 DEF UnderWay
  <2>3. \A q \in Runs : status'[q] # Absent <=> run'[q] = "done"
    BY <1>1, <1>6, <2>1 DEF RunsTurn
  <2>4. QED
    BY <1>1, <1>5, <2>1, <2>2, <2>3 DEF RunsTurn
<1>8. CASE optedIn # {}
  <2>1. run'[r] = "snapped" /\ snap'[r] = taken
    BY <1>8 DEF Snapshot, TypeOK
  <2>2. \A q \in Runs : (UnderWay(q)' <=> q = r) /\ run'[q] # "writing"
    BY <1>1, <1>6, <2>1 DEF UnderWay
  <2>3. \A q \in Runs : status'[q] # Absent <=> run'[q] = "done"
    BY <1>1, <1>6, <2>1 DEF RunsTurn
  <2>4. \A q \in Runs : DOMAIN snap'[q] \subseteq optedIn
    BY <1>6, <2>1 DEF RunsTurn
  <2>5. ASSUME NEW d \in Stored
        PROVE  Below(snap'[d], snap'[r])
    <3>1. \A a \in DOMAIN snap[d] : a \in optedIn /\ snap[d][a] <= earned[a]
      BY <1>3 DEF RunsTurn, SnapBacked
    <3>2. QED
      BY <1>3, <2>1, <3>1 DEF Below
  <2>6. QED
    BY <1>1, <1>4, <1>5, <2>2, <2>3, <2>4, <2>5 DEF RunsTurn
<1>9. QED
  BY <1>7, <1>8

(* BEGIN fixes a created_at later than any before it.                      *)
LEMMA RunsBegin ==
    ASSUME TypeOK, RunsTurn, StoredGrow, NEW r \in Runs, BeginDistribution(r)
    PROVE  RunsTurn' /\ StoredGrow'
<1>1. /\ run[r] = "snapped" /\ run'[r] = "writing" /\ begun'[r] = clock + 1 /\ clock' = clock + 1
      /\ UNCHANGED <<optedIn, snap, status>>
      /\ \A q \in Runs \ {r} : run'[q] = run[q] /\ begun'[q] = begun[q]
      /\ clock \in Nat /\ \A q \in Runs : begun[q] \in Nat
  BY DEF BeginDistribution, TypeOK
<1>2. Stored' = Stored /\ \A d \in Stored : d \in Runs /\ d # r
  BY <1>1 DEF Stored, RunsTurn
<1>3. StoredGrow'
  BY <1>1, <1>2 DEF StoredGrow
<1>4. \A q \in Runs : UnderWay(q)' <=> UnderWay(q)
  BY <1>1 DEF UnderWay
<1>5. \A q \in Runs : begun'[q] <= clock'
  BY <1>1 DEF RunsTurn
<1>6. \A q \in Runs : run'[q] = "writing" => q = r
  BY <1>1 DEF RunsTurn, UnderWay
<1>7. \A d \in Stored : begun'[d] < begun'[r]
  BY <1>1, <1>2 DEF RunsTurn
<1>8. \A q \in Runs : status'[q] # Absent <=> run'[q] = "done"
  BY <1>1 DEF RunsTurn
<1>9. QED
  BY <1>1, <1>2, <1>3, <1>4, <1>5, <1>6, <1>7, <1>8 DEF RunsTurn

(* A commit stores the run's distribution after all the others.            *)
LEMMA RunsCommit ==
    ASSUME TypeOK, RunsTurn, StoredGrow, NEW r \in Runs, CommitDistribution(r)
    PROVE  RunsTurn' /\ StoredGrow'
<1>1. /\ run[r] = "writing" /\ run'[r] = "done" /\ status'[r] = "pending_publish"
      /\ UNCHANGED <<optedIn, snap, begun, clock>>
      /\ \A q \in Runs \ {r} : run'[q] = run[q] /\ status'[q] = status[q]
      /\ \A q \in Runs : begun[q] \in Nat
  BY DEF CommitDistribution, TypeOK
<1>2. Stored' = Stored \cup {r} /\ r \notin Stored
  BY <1>1 DEF Stored, RunsTurn, Absent
<1>3. \A d \in Stored : Below(snap[d], snap[r]) /\ begun[d] < begun[r] /\ d \in Runs
  BY <1>1 DEF RunsTurn, UnderWay, Stored
<1>4. Below(snap[r], snap[r])
  <2>1. \A a \in DOMAIN snap[r] : snap[r][a] \in Nat
    BY DEF TypeOK, IsRoot
  <2>2. QED
    BY <2>1 DEF Below
<1>5. StoredGrow'
  <2> SUFFICES ASSUME NEW d \in Stored \cup {r}, NEW e \in Stored \cup {r}
               PROVE  /\ begun[d] = begun[e] => d = e
                      /\ begun[d] <= begun[e] => Below(snap[d], snap[e])
    BY <1>1, <1>2 DEF StoredGrow, Below
  <2>1. CASE d \in Stored /\ e \in Stored
    BY <2>1 DEF StoredGrow
  <2>2. CASE d \in Stored /\ e = r
    BY <1>1, <1>3, <2>2
  <2>3. CASE d = r /\ e \in Stored
    BY <1>1, <1>3, <2>3
  <2>4. CASE d = r /\ e = r
    BY <1>4, <2>4
  <2>5. QED
    BY <2>1, <2>2, <2>3, <2>4
<1>6. \A q \in Runs : ~UnderWay(q)' /\ run'[q] # "writing"
  BY <1>1 DEF RunsTurn, UnderWay
<1>7. \A q \in Runs : status'[q] # Absent <=> run'[q] = "done"
  BY <1>1 DEF RunsTurn, Absent
<1>8. QED
  BY <1>1, <1>5, <1>6, <1>7 DEF RunsTurn

(* A run that fails stores nothing.                                        *)
LEMMA RunsFail ==
    ASSUME TypeOK, RunsTurn, StoredGrow, NEW r \in Runs, FailRun(r)
    PROVE  RunsTurn' /\ StoredGrow'
<1>1. /\ run[r] # "done" /\ run'[r] = "failed"
      /\ UNCHANGED <<optedIn, snap, begun, clock, status>>
      /\ \A q \in Runs \ {r} : run'[q] = run[q]
  BY DEF FailRun, UnderWay, TypeOK
<1>2. Stored' = Stored
  BY <1>1 DEF Stored
<1>3. \A q \in Runs : /\ UnderWay(q)' => UnderWay(q)
                      /\ run'[q] = "writing" => run[q] = "writing"
                      /\ run'[q] = "done" <=> run[q] = "done"
  BY <1>1 DEF UnderWay
<1>4. QED
  BY <1>1, <1>2, <1>3 DEF RunsTurn, StoredGrow

(* Whatever a run does keeps the order of runs and distributions.          *)
LEMMA RunsPublisher ==
    ASSUME TypeOK, SnapBacked, RunsTurn, StoredGrow, Alone, NEW r \in Runs, Publisher(r)
    PROVE  RunsTurn' /\ StoredGrow'
BY RunsSnapshot, RunsBegin, RunsCommit, RunsFail DEF Publisher
-----------------------------------------------------------------------------
(* What is due stays due when a run stores a distribution.                 *)
LEMMA PublisherDue ==
    ASSUME TypeOK, RunsTurn, NEW r \in Runs, Publisher(r)
    PROVE  /\ Published' = Published /\ Pending \subseteq Pending'
           /\ \A d \in Stored : begun'[d] = begun[d] /\ snap'[d] = snap[d]
           /\ \A d \in Stored, e \in Pending' \ Pending : begun[d] < begun'[e]
           /\ Foremost \subseteq Foremost' /\ Due \subseteq Due'
<1>1. /\ \A d \in Stored : /\ snap'[d] = snap[d] /\ begun'[d] = begun[d]
                           /\ status'[d] = status[d]
      /\ \A d \in Runs \ Stored :
            status'[d] # Absent => /\ status'[d] = "pending_publish"
                                   /\ \A e \in Stored : begun[e] < begun'[d]
  BY PublisherFrame
<1>2. Stored = Published \cup Pending /\ \A d \in Runs : begun[d] \in Nat /\ begun'[d] \in Nat
  BY StoredSplit, TypePublisher DEF TypeOK
<1>3. Published' = Published /\ Pending \subseteq Pending'
  BY <1>1, <1>2 DEF Published, Pending, Absent
<1>4. \A d \in Stored, e \in Pending' \ Pending : begun[d] < begun'[e]
  BY <1>1, <1>2 DEF Published, Pending, Absent
<1>5. ASSUME NEW d \in Runs, Oldest(d)
      PROVE  Oldest(d)'
  <2>1. d \in Pending /\ d \in Pending' /\ d \in Stored /\ begun'[d] = begun[d]
    BY <1>1, <1>2, <1>3, <1>5 DEF Oldest
  <2>2. ASSUME NEW e \in Pending'
        PROVE  begun[d] <= begun'[e]
    <3>1. CASE e \in Pending
      BY <1>1, <1>2, <1>5, <3>1 DEF Oldest
    <3>2. CASE e \notin Pending
      <4>1. begun[d] < begun'[e] /\ e \in Runs
        BY <1>4, <2>1, <3>2 DEF Pending
      <4>2. QED
        BY <4>1, <1>2
    <3>3. QED
      BY <3>1, <3>2
  <2>3. QED
    BY <2>1, <2>2 DEF Oldest
<1>6. QED
  BY <1>1, <1>3, <1>4, <1>5 DEF Due, Foremost

(* And the order of what was posted and published.                         *)
LEMMA OrderPublisher ==
    ASSUME TypeOK, SnapBacked, Order, Alone, NEW r \in Runs, Publisher(r)
    PROVE  Order'
<1>1. RunsTurn' /\ StoredGrow'
  BY RunsPublisher DEF Order
<1>2. /\ Published' = Published /\ Pending \subseteq Pending'
      /\ \A d \in Stored : begun'[d] = begun[d] /\ snap'[d] = snap[d]
      /\ \A d \in Stored, e \in Pending' \ Pending : begun[d] < begun'[e]
      /\ Foremost \subseteq Foremost' /\ Due \subseteq Due'
  BY PublisherDue DEF Order
<1>3. UNCHANGED <<call, txs, root, claimed>>
  BY PublisherFrame DEF Order
<1>4. Published \subseteq Stored /\ Pending \subseteq Stored
  BY StoredSplit
<1>5. PublishedFirst'
  <2>1. \A d \in Published', e \in Pending' : begun'[d] < begun'[e]
    BY <1>2, <1>4 DEF Order, PublishedFirst
  <2>2. \A c \in Calls : ~At(c, {"idle"}) => call[c].dist \in Foremost'
    BY <1>2, CallFields DEF Order, PublishedFirst
  <2>3. \A d \in Published : begun'[d] = begun[d]
    BY <1>2, <1>4
  <2>4. Published' # {} => \E d \in Published' : \A e \in Published' : begun'[e] <= begun'[d]
    BY <1>2, <2>3 DEF Order, PublishedFirst
  <2>5. QED
    BY <1>3, <2>1, <2>2, <2>4 DEF PublishedFirst, At
<1>6. \A n \in DOMAIN txs : /\ txs[n].dist \in Due' /\ txs[n].dist \in Due
                            /\ txs[n].dist \in Stored
  BY <1>2, TxFields, StoredSplit DEF Order, PostedInOrder
<1>7. \A n \in DOMAIN txs : /\ begun'[txs[n].dist] = begun[txs[n].dist]
                            /\ snap'[txs[n].dist] = snap[txs[n].dist]
  BY <1>2, <1>6
<1>8. PostedInOrder'
  <2>1. \A n \in DOMAIN txs' : txs'[n].dist \in Due'
    BY <1>3, <1>6
  <2>2. QED
    BY <1>3, <1>7, <2>1 DEF Order, PostedInOrder, Mined
<1>9. LastRoot'
  BY <1>3, <1>7 DEF Order, LastRoot, Mined
<1>10. QED
  BY <1>1, <1>5, <1>8, <1>9 DEF Order
-----------------------------------------------------------------------------
(* Players: what they earn and claim, and the addresses they set, leave    *)
(* the distributions alone.                                                *)
LEMMA OrderPlayer ==
    ASSUME TypeOK, Order, NEW a \in Accounts, Earn(a) \/ OptIn(a) \/ Claim(a)
    PROVE  Order'
<1>1. /\ UNCHANGED <<run, snap, begun, clock, status, call, txs, root>>
      /\ optedIn \subseteq optedIn'
  BY DEF Earn, OptIn, Claim, publisherVars, contract
<1>2. UNCHANGED <<Stored, Published, Pending, Foremost, Due>>
  BY <1>1 DEF Stored, Published, Pending, Foremost, Oldest, Due
<1>3. RunsTurn'
  BY <1>1, <1>2 DEF Order, RunsTurn, UnderWay
<1>4. StoredGrow' /\ LastRoot'
  BY <1>1, <1>2 DEF Order, StoredGrow, LastRoot, Mined
<1>5. PublishedFirst'
  BY <1>1, <1>2 DEF Order, PublishedFirst, At
<1>6. PostedInOrder'
  BY <1>1, <1>2 DEF Order, PostedInOrder, Mined
<1>7. QED
  BY <1>3, <1>4, <1>5, <1>6 DEF Order

(* A claim without leaks is one of a published distribution's entries.     *)
LEMMA ServedPlayer ==
    ASSUME TypeOK, ~Leaks, ClaimsServed,
           NEW a \in Accounts, Earn(a) \/ OptIn(a) \/ Claim(a)
    PROVE  ClaimsServed'
<1>1. UNCHANGED <<snap, status>> /\ Published' = Published
  BY DEF Earn, OptIn, Claim, publisherVars, Published
<1>2. CASE Earn(a) \/ OptIn(a)
  BY <1>1, <1>2 DEF Earn, OptIn, contract, ClaimsServed
<1>3. CASE Claim(a)
  <2>1. PICK d \in Published : snap[d] = root
    BY <1>3 DEF Claim, HasProof
  <2>2. a \in DOMAIN root /\ root[a] \in Nat
    BY <1>3 DEF Claim, HasProof, TypeOK, IsRoot
  <2>3. /\ claimed'[a] = root[a]
        /\ \A b \in Accounts \ {a} : claimed'[b] = claimed[b]
    BY <1>3 DEF Claim, TypeOK
  <2>4. a \in DOMAIN snap[d] /\ claimed'[a] <= snap[d][a]
    BY <2>1, <2>2, <2>3
  <2>5. QED
    BY <1>1, <2>3, <2>4 DEF ClaimsServed
<1>4. QED
  BY <1>2, <1>3
-----------------------------------------------------------------------------
(* A call takes up the oldest pending distribution, and keeps it until it  *)
(* comes to rest.                                                          *)
LEMMA CallKeepsOldest ==
    ASSUME TypeOK, PublishedFirst, NEW c \in Calls,
           SelectPending(c) \/ Sending(c) \/ Resting(c), NEW b \in Calls
    PROVE  call'[b].at # "idle" => call'[b].dist \in Foremost
<1>1. call \in [Calls -> CallStates]
  BY DEF TypeOK, CallStates
<1>2. call[b].at # "idle" => call[b].dist \in Foremost
  BY DEF PublishedFirst, At
<1>3. CASE b # c
  BY <1>1, <1>2, <1>3 DEF SelectPending, Sending, Send, LoseSend, Resting, GetReceipt, Timeout,
         FailCall, Goto
<1>4. CASE b = c /\ SelectPending(c)
  <2>1. PICK d \in Runs : Oldest(d) /\ Goto(c, [at |-> "submit", dist |-> d])
    BY <1>4 DEF SelectPending
  <2>2. call'[c] = [at |-> "submit", dist |-> d]
    BY <1>1, <2>1 DEF Goto
  <2>3. QED
    BY <1>4, <2>1, <2>2 DEF Foremost
<1>5. CASE b = c /\ Send(c)
  <2>1. call'[c] = [at |-> "wait", dist |-> call[c].dist, tx |-> Len(txs) + 1]
    BY <1>1, <1>5 DEF Send, Goto
  <2>2. QED
    BY <1>2, <1>5, <2>1 DEF Send, At
<1>6. CASE b = c /\ GetReceipt(c)
  <2>1. /\ At(c, {"wait"})
        /\ \/ call'[c] = Idle
           \/ call'[c] = [call[c] EXCEPT !.at = "mark"]
    BY <1>1, <1>6 DEF GetReceipt, Goto
  <2>2. call[c] \in [at : {"wait", "mark"}, dist : Runs, tx : Nat]
    BY <1>1, <2>1 DEF At, CallStates, Idle
  <2>3. call'[c] # Idle => call'[c].dist = call[c].dist
    BY <2>1, <2>2
  <2>4. QED
    BY <1>2, <1>6, <2>1, <2>3 DEF Idle, At
<1>7. CASE b = c /\ (LoseSend(c) \/ Timeout(c) \/ FailCall(c))
  <2>1. call'[c] = Idle
    BY <1>1, <1>7 DEF LoseSend, Timeout, FailCall, Goto
  <2>2. QED
    BY <1>7, <2>1 DEF Idle
<1>8. QED
  BY <1>3, <1>4, <1>5, <1>6, <1>7 DEF Sending, Resting

(* What a call sends is of the oldest pending distribution: no earlier     *)
(* transaction is of a later one.                                          *)
LEMMA OrderCall ==
    ASSUME TypeOK, Order, NEW c \in Calls, SelectPending(c) \/ Sending(c) \/ Resting(c)
    PROVE  Order'
<1>1. UNCHANGED <<optedIn, run, snap, begun, clock, status, root, claimed>>
  BY DEF SelectPending, Sending, Send, LoseSend, Resting, GetReceipt, Timeout, FailCall,
         publisherVars, contract
<1>2. UNCHANGED <<Stored, Published, Pending, Foremost, Due>>
  BY <1>1 DEF Stored, Published, Pending, Foremost, Oldest, Due
<1>3. RunsTurn' /\ StoredGrow'
  BY <1>1, <1>2 DEF Order, RunsTurn, UnderWay, StoredGrow
<1>4. PublishedFirst'
  <2>1. \A b \in Calls : call'[b].at # "idle" => call'[b].dist \in Foremost
    BY CallKeepsOldest DEF Order
  <2>2. QED
    BY <1>1, <1>2, <2>1 DEF Order, PublishedFirst, At
<1>5. CASE ~Sending(c)
  <2>1. txs' = txs
    BY <1>5 DEF SelectPending, Resting, GetReceipt, Timeout, FailCall
  <2>2. PostedInOrder' /\ LastRoot'
    BY <1>1, <1>2, <2>1 DEF Order, PostedInOrder, LastRoot, Mined
  <2>3. QED
    BY <1>3, <1>4, <2>2 DEF Order
<1>6. CASE Sending(c)
  <2> DEFINE k == Len(txs) + 1
  <2>1. /\ DOMAIN txs = 1..Len(txs) /\ DOMAIN txs' = 1..k /\ Len(txs) \in Nat
        /\ txs'[k] = [dist |-> call[c].dist, state |-> "sent"]
        /\ \A n \in DOMAIN txs : txs'[n] = txs[n]
    <3>1. txs \in Seq(Tx) /\ DOMAIN txs = 1..Len(txs) /\ Len(txs) \in Nat
      BY DEF TypeOK, Tx
    <3>2. txs' = Append(txs, [dist |-> call[c].dist, state |-> "sent"])
      BY <1>6 DEF Sending, Send, LoseSend, SendRaw
    <3>3. DOMAIN txs' = 1..k
      BY <3>1, <3>2
    <3>4. QED
      BY <1>6, <3>1, <3>3, SendEffect
  <2> HIDE DEF k
  <2>2. call[c].dist \in Foremost /\ call[c].dist \in Runs
    BY <1>6, CallFields DEF Order, PublishedFirst, Sending, Send, LoseSend, At
  <2>3. /\ k \in DOMAIN txs' /\ k \in Nat
        /\ \A n \in DOMAIN txs' : n \in Nat /\ n <= k /\ (n # k => n \in DOMAIN txs)
        /\ \A n \in DOMAIN txs : n \in DOMAIN txs' /\ n < k
    BY <2>1 DEF k
  <2>4. \A n \in DOMAIN txs' : txs'[n].dist \in Runs /\ begun[txs'[n].dist] \in Nat
    <3>1. \A n \in DOMAIN txs : txs[n].dist \in Runs
      BY TxFields
    <3>2. \A d \in Runs : begun[d] \in Nat
      BY StoredSplit
    <3>3. QED
      BY <2>1, <2>2, <2>3, <3>1, <3>2
  <2>5. \A n \in DOMAIN txs : txs[n].dist \in Due
    BY DEF Order, PostedInOrder
  <2>6. \A n \in DOMAIN txs' : txs'[n].dist \in Due
    BY <2>1, <2>2, <2>3, <2>5 DEF Due
  <2>7. \A m \in DOMAIN txs : begun[txs[m].dist] <= begun[call[c].dist]
    <3> SUFFICES ASSUME NEW m \in DOMAIN txs
                 PROVE  begun[txs[m].dist] <= begun[call[c].dist]
      OBVIOUS
    <3>1. txs[m].dist \in Runs /\ begun[txs[m].dist] \in Nat /\ begun[call[c].dist] \in Nat
      BY <2>2, TxFields, StoredSplit
    <3>2. CASE txs[m].dist \in Published
      BY <2>2, <3>1, <3>2 DEF Order, PublishedFirst, Foremost, Oldest
    <3>3. CASE txs[m].dist \in Foremost
      BY <2>2, <3>3 DEF Foremost, Oldest
    <3>4. QED
      BY <2>5, <3>2, <3>3 DEF Due
  <2>8. \A m, n \in DOMAIN txs' : m <= n => begun[txs'[m].dist] <= begun[txs'[n].dist]
    <3> SUFFICES ASSUME NEW m \in DOMAIN txs', NEW n \in DOMAIN txs', m <= n
                 PROVE  begun[txs'[m].dist] <= begun[txs'[n].dist]
      OBVIOUS
    <3>1. CASE n # k
      <4>1. m \in DOMAIN txs /\ n \in DOMAIN txs
        BY <2>3, <3>1
      <4>2. QED
        BY <2>1, <4>1 DEF Order, PostedInOrder
    <3>2. CASE n = k /\ m # k
      BY <2>1, <2>3, <2>7, <3>2
    <3>3. CASE n = k /\ m = k
      BY <2>4, <3>3
    <3>4. QED
      BY <3>1, <3>2, <3>3
  <2>9. \A n \in DOMAIN txs' : Mined(n)' => n \in DOMAIN txs /\ Mined(n)
    BY <2>1, <2>3 DEF Mined
  <2>10. \A n \in DOMAIN txs : Mined(n) => Mined(n)'
    BY <2>1, <2>3 DEF Mined
  <2>11. \A m, n \in DOMAIN txs' : m < n /\ Mined(n)' => txs'[m].state # "sent"
    <3> SUFFICES ASSUME NEW m \in DOMAIN txs', NEW n \in DOMAIN txs', m < n, Mined(n)'
                 PROVE  txs'[m].state # "sent"
      OBVIOUS
    <3>1. n \in DOMAIN txs /\ Mined(n) /\ m \in DOMAIN txs
      BY <2>3, <2>9
    <3>2. QED
      BY <2>1, <3>1 DEF Order, PostedInOrder
  <2>12. PostedInOrder'
    BY <1>1, <1>2, <2>6, <2>8, <2>11 DEF PostedInOrder
  <2>13. LastRoot'
    <3>1. CASE root = NoRoot /\ \A n \in DOMAIN txs : ~Mined(n)
      BY <1>1, <2>9, <3>1 DEF LastRoot
    <3>2. CASE \E n \in DOMAIN txs : /\ Mined(n) /\ root = snap[txs[n].dist]
                                     /\ \A m \in DOMAIN txs : Mined(m) => m <= n
      <4>1. PICK n \in DOMAIN txs : /\ Mined(n) /\ root = snap[txs[n].dist]
                                    /\ \A m \in DOMAIN txs : Mined(m) => m <= n
        BY <3>2
      <4>2. /\ n \in DOMAIN txs' /\ Mined(n)' /\ root' = snap'[txs'[n].dist]
            /\ \A m \in DOMAIN txs' : Mined(m)' => m <= n
        BY <1>1, <2>1, <2>3, <2>9, <2>10, <4>1
      <4>3. QED
        BY <4>2 DEF LastRoot
    <3>3. QED
      BY <3>1, <3>2 DEF Order, LastRoot
  <2>14. QED
    BY <1>3, <1>4, <2>12, <2>13 DEF Order
<1>7. QED
  BY <1>5, <1>6
-----------------------------------------------------------------------------
(* The distribution a call marks is the oldest pending one, which comes    *)
(* right after those published (publisher.rs:14-18 and 44-51).             *)
LEMMA MarkEffect ==
    ASSUME TypeOK, Order, NEW c \in Calls, MarkPublished(c)
    PROVE  /\ Published' = Published \cup Foremost
           /\ Foremost = {call[c].dist} /\ Pending' = Pending \ Foremost
           /\ \A d \in Published, e \in Foremost : begun[d] < begun[e]
           /\ \A d \in Foremost, e \in Pending' : begun[d] < begun[e]
           /\ \A d \in Runs : status'[d] # Absent <=> status[d] # Absent
           /\ UNCHANGED <<optedIn, run, snap, begun, clock, txs, root, claimed>>
<1> DEFINE d0 == call[c].dist
<1>1. d0 \in Foremost /\ d0 \in Runs /\ d0 \in Pending
  BY CallFields, StoredSplit DEF MarkPublished, Order, PublishedFirst, At
<1>2. \A d \in Foremost : d = d0
  BY <1>1, OldestUnique DEF Foremost, Order
<1>3. Foremost = {d0}
  BY <1>1, <1>2
<1>4. \A d \in Runs : status'[d] = IF d = d0 THEN "published" ELSE status[d]
  BY DEF MarkPublished, Marked, PublishedStatus
<1>5. Published' = Published \cup {d0} /\ Pending' = Pending \ {d0}
  BY <1>1, <1>4 DEF Published, Pending
<1>6. \A d \in Published : begun[d] < begun[d0]
  BY <1>1 DEF Order, PublishedFirst
<1>7. ASSUME NEW e \in Pending, e # d0
      PROVE  begun[d0] < begun[e]
  <2>1. e \in Stored /\ d0 \in Stored /\ begun[e] \in Nat /\ begun[d0] \in Nat
    BY <1>1, <1>7, StoredSplit DEF Pending
  <2>2. begun[d0] <= begun[e]
    BY <1>1, <1>7 DEF Foremost, Oldest
  <2>3. begun[d0] # begun[e]
    BY <1>7, <2>1 DEF Order, StoredGrow
  <2>4. QED
    BY <2>1, <2>2, <2>3
<1>8. \A d \in Runs : status'[d] # Absent <=> status[d] # Absent
  BY <1>1, <1>4 DEF Pending, Absent
<1>9. UNCHANGED <<optedIn, run, snap, begun, clock, txs, root, claimed>>
  BY DEF MarkPublished, publisherVars, contract
<1>10. QED
  BY <1>3, <1>5, <1>6, <1>7, <1>8, <1>9

(* With no other call under way, marking it leaves nothing out of order.   *)
LEMMA OrderMark ==
    ASSUME TypeOK, Order, Alone, NEW c \in Calls, MarkPublished(c)
    PROVE  Order'
<1>1. /\ Published' = Published \cup Foremost
      /\ Foremost = {call[c].dist} /\ Pending' = Pending \ Foremost
      /\ \A d \in Published, e \in Foremost : begun[d] < begun[e]
      /\ \A d \in Foremost, e \in Pending' : begun[d] < begun[e]
      /\ \A d \in Runs : status'[d] # Absent <=> status[d] # Absent
      /\ UNCHANGED <<optedIn, run, snap, begun, clock, txs, root, claimed>>
  BY MarkEffect
<1>2. Stored' = Stored
  BY <1>1 DEF Stored
<1>3. RunsTurn' /\ StoredGrow'
  BY <1>1, <1>2 DEF Order, RunsTurn, UnderWay, StoredGrow
<1>4. LastRoot'
  BY <1>1 DEF Order, LastRoot, Mined
<1>5. PostedInOrder'
  BY <1>1 DEF Order, PostedInOrder, Due, Mined
<1>6. \A d \in Published', e \in Pending' : begun[d] < begun[e]
  BY <1>1 DEF Order, PublishedFirst
<1>7. \A b \in Calls : call'[b].at = "idle"
  <2>1. call'[c] = Idle
    BY DEF MarkPublished, Goto, TypeOK
  <2>2. QED
    BY <2>1 DEF Alone, Idle
<1>8. \E d \in Published' : \A e \in Published' : begun[e] <= begun[d]
  <2>1. call[c].dist \in Published' /\ begun[call[c].dist] \in Nat
    BY <1>1, CallFields, StoredSplit DEF MarkPublished, At
  <2>2. \A e \in Published' : begun[e] <= begun[call[c].dist]
    <3>1. \A e \in Published' : begun[e] \in Nat
      BY <1>1, StoredSplit
    <3>2. QED
      BY <1>1, <2>1, <3>1
  <2>3. QED
    BY <2>1, <2>2
<1>9. PublishedFirst'
  BY <1>1, <1>6, <1>7, <1>8 DEF PublishedFirst, At
<1>10. QED
  BY <1>3, <1>4, <1>5, <1>9 DEF Order
-----------------------------------------------------------------------------
(* The chain mines in the order of the nonces, so the transaction it mines *)
(* is later than all it mined.                                             *)
LEMMA OrderChain ==
    ASSUME TypeOK, Order, NEW n \in Nat,
           UpdateRoot(n) \/ \E s \in {"reverted", "dropped"} : LoseTx(n, s)
    PROVE  Order'
<1>1. UNCHANGED <<optedIn, run, snap, begun, clock, status, call, claimed>>
  BY DEF UpdateRoot, LoseTx, publisherVars, contract
<1>2. UNCHANGED <<Stored, Published, Pending, Foremost, Due>>
  BY <1>1 DEF Stored, Published, Pending, Foremost, Oldest, Due
<1>3. RunsTurn' /\ StoredGrow'
  BY <1>1, <1>2 DEF Order, RunsTurn, UnderWay, StoredGrow
<1>4. PublishedFirst'
  BY <1>1, <1>2 DEF Order, PublishedFirst, At
<1>5. PICK s \in {"mined", "reverted", "dropped"} :
         /\ n \in DOMAIN txs /\ txs[n].state = "sent"
         /\ txs' = [txs EXCEPT ![n].state = s]
         /\ s = "mined" => NextToMine(n) /\ root' = snap[txs[n].dist]
         /\ s # "mined" => root' = root
  BY DEF UpdateRoot, NextToMine, LoseTx, contract
<1>6. /\ DOMAIN txs' = DOMAIN txs
      /\ \A m \in DOMAIN txs : /\ txs'[m].dist = txs[m].dist
                               /\ txs[m].state # "sent" => txs'[m] = txs[m]
  BY <1>5, ChainEffect
<1>7. /\ txs'[n].state = s
      /\ \A m \in DOMAIN txs : m \in Nat /\ (m # n => txs'[m] = txs[m])
  BY <1>5, TxFields DEF Tx
<1>8. \A m \in DOMAIN txs : Mined(m)' <=> Mined(m) \/ (m = n /\ s = "mined")
  BY <1>5, <1>6, <1>7 DEF Mined
<1>9. \A m \in DOMAIN txs : Mined(m) => m # n
  BY <1>5 DEF Mined
<1>10. ASSUME s = "mined", NEW m \in DOMAIN txs, m < n
       PROVE  txs'[m].state # "sent"
  <2>1. txs[m].state # "sent"
    <3>1. m \in 1..(n - 1)
      BY <1>5, <1>10, TxFields
    <3>2. QED
      BY <1>5, <1>10, <3>1 DEF NextToMine
  <2>2. QED
    BY <1>6, <2>1
<1>11. PostedInOrder'
  <2>1. \A k \in DOMAIN txs' : txs'[k].dist \in Due'
    BY <1>2, <1>6 DEF Order, PostedInOrder
  <2>2. \A l, k \in DOMAIN txs' : l <= k => begun'[txs'[l].dist] <= begun'[txs'[k].dist]
    BY <1>1, <1>6 DEF Order, PostedInOrder
  <2>3. ASSUME NEW l \in DOMAIN txs', NEW k \in DOMAIN txs', l < k, Mined(k)'
        PROVE  txs'[l].state # "sent"
    <3>1. CASE Mined(k)
      <4>1. txs[l].state # "sent"
        BY <1>6, <2>3, <3>1 DEF Order, PostedInOrder
      <4>2. QED
        BY <1>6, <2>3, <4>1
    <3>2. CASE k = n /\ s = "mined"
      BY <1>6, <1>10, <2>3, <3>2
    <3>3. QED
      BY <1>6, <1>8, <2>3, <3>1, <3>2
  <2>4. QED
    BY <2>1, <2>2, <2>3 DEF PostedInOrder
<1>12. LastRoot'
  <2>1. CASE s # "mined"
    <3>1. /\ root' = root /\ snap' = snap
          /\ \A m \in DOMAIN txs : Mined(m)' <=> Mined(m)
      BY <1>1, <1>5, <1>8, <2>1
    <3>2. QED
      BY <1>6, <3>1 DEF Order, LastRoot
  <2>2. CASE s = "mined"
    <3>1. \A m \in DOMAIN txs : Mined(m)' => m <= n
      <4> SUFFICES ASSUME NEW m \in DOMAIN txs, Mined(m), m # n
                   PROVE  m <= n
        BY <1>7, <1>8
      <4>1. ~(n < m)
        BY <1>5 DEF Order, PostedInOrder
      <4>2. QED
        BY <1>7, <4>1
    <3>2. Mined(n)' /\ n \in DOMAIN txs' /\ root' = snap'[txs'[n].dist]
      BY <1>1, <1>5, <1>6, <1>8, <2>2
    <3>3. QED
      BY <1>6, <3>1, <3>2 DEF LastRoot
  <2>3. QED
    BY <2>1, <2>2
<1>13. QED
  BY <1>3, <1>4, <1>11, <1>12 DEF Order

(* A root that replaces another is of a later distribution, which lists    *)
(* all of it.                                                              *)
LEMMA RootStep ==
    ASSUME TypeOK, Order, [Next]_vars
    PROVE  Below(root, root')
<1>1. CASE root' = root
  BY <1>1 DEF Below, TypeOK, IsRoot
<1>2. ASSUME NEW n \in Nat, UpdateRoot(n)
      PROVE  Below(root, root')
  <2>1. n \in DOMAIN txs /\ txs[n].state = "sent" /\ root' = snap[txs[n].dist]
    BY <1>2 DEF UpdateRoot, NextToMine
  <2>2. CASE root = NoRoot
    BY <2>2 DEF Below, NoRoot
  <2>3. CASE \E m \in DOMAIN txs : Mined(m) /\ root = snap[txs[m].dist]
    <3>1. PICK m \in DOMAIN txs : Mined(m) /\ root = snap[txs[m].dist]
      BY <2>3
    <3>2. m \in Nat /\ m <= n
      <4>1. m # n /\ ~(n < m)
        BY <2>1, <3>1 DEF Order, PostedInOrder, Mined
      <4>2. QED
        BY <4>1, TxFields
    <3>3. txs[m].dist \in Stored /\ txs[n].dist \in Stored
      BY <2>1, StoredSplit DEF Order, PostedInOrder
    <3>4. begun[txs[m].dist] <= begun[txs[n].dist]
      BY <2>1, <3>2 DEF Order, PostedInOrder
    <3>5. QED
      BY <2>1, <3>1, <3>3, <3>4 DEF Order, StoredGrow
  <2>4. QED
    BY <2>2, <2>3 DEF Order, LastRoot
<1>3. CASE ~\E n \in Nat : UpdateRoot(n)
  <2>1. root' = root
    <3>1. CASE UNCHANGED vars
      BY <3>1 DEF vars, contract
    <3>2. ASSUME NEW a \in Accounts, Earn(a) \/ OptIn(a) \/ Claim(a)
          PROVE  root' = root
      BY <3>2 DEF Earn, OptIn, Claim, contract
    <3>3. ASSUME NEW r \in Runs, Publisher(r)
          PROVE  root' = root
      BY <3>3 DEF Publisher, Snapshot, BeginDistribution, CommitDistribution, FailRun, contract
    <3>4. ASSUME NEW c \in Calls,
                 SelectPending(c) \/ Sending(c) \/ Resting(c) \/ MarkPublished(c)
          PROVE  root' = root
      BY <3>4 DEF SelectPending, Sending, Send, LoseSend, Resting, GetReceipt, Timeout,
             FailCall, MarkPublished, contract
    <3>5. ASSUME NEW n \in Nat, NEW s \in {"reverted", "dropped"}, LoseTx(n, s)
          PROVE  root' = root
      BY <3>5 DEF LoseTx, contract
    <3>6. QED
      BY <1>3, <3>1, <3>2, <3>3, <3>4, <3>5, NextCases
  <2>2. QED
    BY <1>1, <2>1
<1>4. QED
  BY <1>2, <1>3
-----------------------------------------------------------------------------
(* Nothing is stored at first.                                             *)
LEMMA InitOrder == Init => Order /\ ClaimsServed
<1> SUFFICES ASSUME Init
             PROVE  Order /\ ClaimsServed
  OBVIOUS
<1>1. /\ Stored = {} /\ Published = {} /\ Pending = {} /\ Foremost = {}
      /\ DOMAIN txs = {} /\ \A r \in Runs : ~UnderWay(r)
  BY DEF Init, Stored, Published, Pending, Foremost, Oldest, Absent, UnderWay
<1>2. RunsTurn
  BY <1>1 DEF Init, RunsTurn, UnderWay, NoRoot
<1>3. StoredGrow /\ PublishedFirst
  BY <1>1 DEF Init, StoredGrow, PublishedFirst, At, Idle
<1>4. PostedInOrder /\ LastRoot /\ ClaimsServed
  BY <1>1 DEF Init, PostedInOrder, LastRoot, ClaimsServed
<1>5. QED
  BY <1>2, <1>3, <1>4 DEF Order
-----------------------------------------------------------------------------
(* Other steps than claims leave what was claimed, and the entries of what *)
(* was published, as they were.                                            *)
LEMMA ServedKept ==
    ASSUME ClaimsServed, claimed' = claimed, Published \subseteq Published',
           \A d \in Published : snap'[d] = snap[d]
    PROVE  ClaimsServed'
BY DEF ClaimsServed

(* Every step keeps that what was claimed was served.                      *)
LEMMA ServedStep ==
    ASSUME TypeOK, Order, ~Leaks, ClaimsServed, [Next]_vars
    PROVE  ClaimsServed'
<1>1. ASSUME UNCHANGED <<claimed, status, snap>>
      PROVE  ClaimsServed'
  BY <1>1, ServedKept DEF Published
<1>2. CASE UNCHANGED vars
  BY <1>1, <1>2 DEF vars, publisherVars, contract
<1>3. ASSUME NEW r \in Runs, Publisher(r)
      PROVE  ClaimsServed'
  <2>1. claimed' = claimed
    BY <1>3, PublisherFrame DEF Order
  <2>2. Published' = Published /\ \A d \in Published : snap'[d] = snap[d]
    BY <1>3, PublisherDue, StoredSplit DEF Order
  <2>3. QED
    BY <2>1, <2>2, ServedKept
<1>4. ASSUME NEW c \in Calls, SelectPending(c) \/ Sending(c) \/ Resting(c)
      PROVE  ClaimsServed'
  BY <1>1, <1>4 DEF SelectPending, Sending, Send, LoseSend, Resting, GetReceipt, Timeout,
         FailCall, publisherVars, contract
<1>5. ASSUME NEW c \in Calls, MarkPublished(c)
      PROVE  ClaimsServed'
  BY <1>5, MarkEffect, ServedKept
<1>6. ASSUME NEW n \in Nat, UpdateRoot(n) \/ \E s \in {"reverted", "dropped"} : LoseTx(n, s)
      PROVE  ClaimsServed'
  BY <1>1, <1>6 DEF UpdateRoot, LoseTx, publisherVars, contract
<1>7. QED
  BY <1>2, <1>3, <1>4, <1>5, <1>6, NextCases, ServedPlayer

(* Every step keeps the order.                                             *)
LEMMA OrderStep ==
    ASSUME TypeOK, Backing, Order, Alone, [Next]_vars
    PROVE  Order'
<1>1. CASE UNCHANGED vars
  <2>1. UNCHANGED <<optedIn, run, snap, begun, clock, status, call, txs, root>>
    BY <1>1 DEF vars, publisherVars, contract
  <2>2. UNCHANGED <<Stored, Published, Pending, Foremost, Due>>
    BY <2>1 DEF Stored, Published, Pending, Foremost, Oldest, Due
  <2>3. RunsTurn' /\ StoredGrow' /\ LastRoot'
    BY <2>1, <2>2 DEF Order, RunsTurn, UnderWay, StoredGrow, LastRoot, Mined
  <2>4. PublishedFirst' /\ PostedInOrder'
    BY <2>1, <2>2 DEF Order, PublishedFirst, PostedInOrder, At, Mined
  <2>5. QED
    BY <2>3, <2>4 DEF Order
<1>2. SnapBacked
  BY DEF Backing
<1>3. QED
  BY <1>1, <1>2, NextCases, OrderPlayer, OrderPublisher, OrderCall, OrderMark, OrderChain

(* With one run and one call at a time, the order holds in every state.    *)
THEOREM OrderAlways ==
    ASSUME Alone
    PROVE  Spec => [](IInv /\ Order)
<1>1. IInv /\ Order /\ [Next]_vars => Order'
  BY OrderStep DEF IInv
<1>2. Init => Order
  BY InitOrder
<1>3. QED
  BY <1>1, <1>2, Inductive, PTL DEF Spec

(* When distributions were published, one of them is the latest.           *)
LEMMA LatestPublished ==
    ASSUME TypeOK, Order, NEW D, D \subseteq Published, NEW d \in D,
           \A e \in D : begun[e] <= begun[d]
    PROVE  Latest(D) = d
<1>1. Latest(D) \in D /\ \A e \in D : begun[e] <= begun[Latest(D)]
  BY DEF Latest
<1>2. begun[Latest(D)] <= begun[d] /\ begun[d] <= begun[Latest(D)]
  BY <1>1
<1>3. /\ d \in Stored /\ Latest(D) \in Stored
      /\ begun[d] \in Nat /\ begun[Latest(D)] \in Nat
  BY <1>1, StoredSplit
<1>4. QED
  BY <1>2, <1>3 DEF Order, StoredGrow

(* The root is that of the last transaction mined, whose distribution is   *)
(* the next to be published, or the latest that was.                       *)
LEMMA OrderServed == IInv /\ Order => RootServed
<1> SUFFICES ASSUME IInv, Order
             PROVE  RootServed
  OBVIOUS
<1>1. TypeOK /\ PublishedWasPosted
  BY DEF IInv, Posting
<1>2. CASE root = NoRoot /\ \A n \in DOMAIN txs : ~Mined(n)
  <2>1. Published = {}
    BY <1>1, <1>2 DEF PublishedWasPosted, Mined
  <2>2. QED
    BY <1>2, <2>1 DEF RootServed
<1>3. CASE \E n \in DOMAIN txs : /\ Mined(n) /\ root = snap[txs[n].dist]
                                 /\ \A m \in DOMAIN txs : Mined(m) => m <= n
  <2>1. PICK n \in DOMAIN txs : /\ Mined(n) /\ root = snap[txs[n].dist]
                                /\ \A m \in DOMAIN txs : Mined(m) => m <= n
    BY <1>3
  <2>2. txs[n].dist \in Due
    BY DEF Order, PostedInOrder
  <2>3. CASE txs[n].dist \in Foremost
    BY <2>1, <2>3 DEF RootServed, Foremost
  <2>4. CASE txs[n].dist \in Published
    <3>1. ASSUME NEW d \in Published
          PROVE  begun[d] <= begun[txs[n].dist]
      <4>1. PICK m \in DOMAIN txs : txs[m] = [dist |-> d, state |-> "mined"]
        BY <1>1 DEF PublishedWasPosted
      <4>2. m <= n /\ txs[m].dist = d
        BY <2>1, <4>1 DEF Mined
      <4>3. QED
        BY <4>2 DEF Order, PostedInOrder
    <3>2. Latest(Published) = txs[n].dist
      BY <1>1, <2>4, <3>1, LatestPublished
    <3>3. QED
      BY <2>1, <2>4, <3>2 DEF RootServed
  <2>5. QED
    BY <2>2, <2>3, <2>4 DEF Due
<1>4. QED
  BY <1>2, <1>3 DEF Order, LastRoot

(* The latest published distribution lists what any published one lists.   *)
LEMMA OrderClaimable == TypeOK /\ Order /\ ClaimsServed => ClaimableNotNegative
<1> SUFFICES ASSUME TypeOK, Order, ClaimsServed, NEW a \in Accounts, ServedTo(a) # {}
             PROVE  claimed[a] <= snap[Latest(ServedTo(a))][a]
  BY DEF ClaimableNotNegative
<1>1. ServedTo(a) \subseteq Published /\ Published \subseteq Stored /\ Stored \subseteq Runs
  BY StoredSplit DEF ServedTo
<1>2. PICK p \in Published : \A e \in Published : begun[e] <= begun[p]
  BY <1>1 DEF Order, PublishedFirst
<1>3. ASSUME NEW d \in ServedTo(a)
      PROVE  a \in DOMAIN snap[p] /\ snap[d][a] <= snap[p][a] /\ a \in DOMAIN snap[d]
  <2>1. Below(snap[d], snap[p])
    BY <1>1, <1>2 DEF Order, StoredGrow
  <2>2. QED
    BY <2>1 DEF Below, ServedTo
<1>4. p \in ServedTo(a)
  BY <1>2, <1>3 DEF ServedTo
<1>5. Latest(ServedTo(a)) = p
  BY <1>1, <1>2, <1>4, LatestPublished
<1>6. claimed[a] <= snap[p][a]
  <2>1. snap[p][a] \in Nat /\ claimed[a] \in Nat
    BY <1>1, <1>3, <1>4 DEF TypeOK, IsRoot
  <2>2. CASE claimed[a] = 0
    BY <2>1, <2>2
  <2>3. CASE \E d \in Published : a \in DOMAIN snap[d] /\ claimed[a] <= snap[d][a]
    <3>1. PICK d \in Published : a \in DOMAIN snap[d] /\ claimed[a] <= snap[d][a]
      BY <2>3
    <3>2. d \in ServedTo(a) /\ snap[d][a] \in Nat
      BY <1>1, <3>1 DEF ServedTo, TypeOK, IsRoot
    <3>3. QED
      BY <1>3, <2>1, <3>1, <3>2
  <2>4. QED
    BY <2>2, <2>3 DEF ClaimsServed
<1>7. QED
  BY <1>5, <1>6

(* With one publisher run and one call at a time, the proofs the API       *)
(* serves are those of the contract's root, but for the next distribution, *)
(* which may be on the chain already (publisher.rs:14-51, claim_data.rs).  *)
THEOREM SettlementRootServed ==
    ASSUME Alone
    PROVE  Spec => []RootServed
<1>1. QED
  BY OrderAlways, OrderServed, PTL

(* Under the same condition, a new root lists all that the root before it  *)
(* listed, and no less of it (publish.ts:12, publisher.rs:14-18).          *)
THEOREM SettlementRootGrows ==
    ASSUME Alone
    PROVE  Spec => RootGrows
<1>1. IInv /\ Order /\ [Next]_vars =>
         [\A a \in DOMAIN root : a \in DOMAIN root' /\ root[a] <= root'[a]]_root
  BY RootStep DEF IInv, Below
<1>2. QED
  BY <1>1, OrderAlways, PTL DEF Spec, RootGrows

(* If players moreover have only the proofs the API served them, no-one    *)
(* has claimed more than the latest distribution they are in lists, so     *)
(* that GET /api/me computes no negative amount (me.rs:55-81).             *)
THEOREM SettlementClaimable ==
    ASSUME Alone, ~Leaks
    PROVE  Spec => []ClaimableNotNegative
<1>1. IInv /\ Order /\ ClaimsServed /\ [Next]_vars => ClaimsServed'
  BY ServedStep DEF IInv
<1>2. Init => ClaimsServed
  BY InitOrder
<1>3. IInv /\ Order /\ ClaimsServed => ClaimableNotNegative
  BY OrderClaimable DEF IInv
<1>4. QED
  BY <1>1, <1>2, <1>3, OrderAlways, PTL DEF Spec
-----------------------------------------------------------------------------
(* Waiting.  What `EventuallyPublished' needs of the states: a call that    *)
(* looks for work finds it, and one that waits for a receipt waits for a   *)
(* transaction that is decided, or for the chain, which can go on.         *)

WaitsEnd ==
    \A c \in Calls :
        /\ At(c, {"idle"}) /\ Pending # {} => \E d \in Runs : Oldest(d)
        /\ At(c, {"wait"}) =>
             \/ txs[call[c].tx].state \in {"mined", "reverted", "dropped"}
             \/ \E n \in 1..call[c].tx : NextToMine(n)

(* Of pending distributions one was begun first.                           *)
LEMMA OldestExists ==
    ASSUME TypeOK, Pending # {}
    PROVE  \E d \in Runs : Oldest(d)
<1> DEFINE Times == {begun[d] : d \in Pending}
<1>1. Times \subseteq Nat /\ Times # {}
  <2>1. \A d \in Pending : begun[d] \in Nat
    BY DEF TypeOK, Pending
  <2>2. PICK d \in Pending : TRUE
    OBVIOUS
  <2> QED
    BY <2>1, <2>2
<1>2. PICK t \in Times : \A u \in Times : t <= u
  <2> HIDE DEF Times
  <2> QED
    BY <1>1, LeastNumber
<1>3. PICK d \in Pending : t = begun[d]
  BY <1>2
<1>4. \A e \in Pending : begun[e] \in Times
  OBVIOUS
<1>5. \A e \in Pending : begun[d] <= begun[e]
  <2> HIDE DEF Times
  <2> QED
    BY <1>2, <1>3, <1>4
<1> QED
  BY <1>3, <1>5 DEF Oldest, Pending

(* Of transactions that were sent, the first may be mined.                 *)
LEMMA FirstSentMines ==
    ASSUME TypeOK, NEW n \in DOMAIN txs, txs[n].state = "sent"
    PROVE  \E m \in 1..n : NextToMine(m)
<1> DEFINE SentTo == {m \in 1..n : txs[m].state = "sent"}
<1>1. n \in Nat /\ DOMAIN txs = 1..Len(txs) /\ Len(txs) \in Nat
  BY TxFields
<1>2. SentTo \subseteq Nat /\ n \in SentTo
  BY <1>1
<1>3. PICK m \in SentTo : \A k \in SentTo : m <= k
  <2> HIDE DEF SentTo
  <2> QED
    BY <1>2, LeastNumber
<1>4. \A k \in 1..(m - 1) : txs[k].state # "sent"
  <2> SUFFICES ASSUME NEW k \in 1..(m - 1), txs[k].state = "sent" PROVE FALSE
    OBVIOUS
  <2>1. m \in Nat /\ m <= n /\ k \in 1..n /\ k < m
    BY <1>1, <1>3
  <2> QED
    BY <1>3, <2>1
<1>5. m \in DOMAIN txs /\ m \in 1..n /\ txs[m].state = "sent"
  BY <1>1, <1>3
<1> QED
  BY <1>4, <1>5 DEF NextToMine

(* For any runs and calls, overlapping or not: nobody waits for a row that  *)
(* is not there, or for a receipt that cannot come (publisher.rs:14-47).   *)
THEOREM SettlementWaitsEnd == Spec => []WaitsEnd
<1>1. IInv => WaitsEnd
  <2> SUFFICES ASSUME IInv, NEW c \in Calls, At(c, {"wait"})
               PROVE  \/ txs[call[c].tx].state \in {"mined", "reverted", "dropped"}
                      \/ \E n \in 1..call[c].tx : NextToMine(n)
    BY OldestExists DEF IInv, WaitsEnd
  <2>1. call[c].tx \in DOMAIN txs
    BY DEF IInv, Posting, CallsPosted, At
  <2>2. txs[call[c].tx].state \in {"sent", "mined", "reverted", "dropped"}
    BY <2>1, TxFields DEF IInv, Tx
  <2> QED
    BY <2>1, <2>2, FirstSentMines DEF IInv
<1> QED
  BY <1>1, Inductive, PTL
-----------------------------------------------------------------------------
(* What is stored stays, whatever fails or runs at once: only a run that   *)
(* is under way writes, and a call only marks what was stored.             *)
StoredFirst ==
    /\ \A d \in Stored : run[d] = "done"
    /\ \A c \in Calls : ~At(c, {"idle"}) => call[c].dist \in Stored

\* A stored distribution keeps its entries and its time, and goes from
\* pending to published, if it goes anywhere.
StoredKept ==
    \A d \in Stored :
        /\ snap'[d] = snap[d] /\ begun'[d] = begun[d]
        /\ \/ status'[d] = status[d]
           \/ status[d] = "pending_publish" /\ status'[d] = "published"

LEMMA StoredPublisher ==
    ASSUME TypeOK, StoredFirst, NEW r \in Runs, Publisher(r)
    PROVE  StoredFirst' /\ StoredKept
<1>1. run[r] # "done" /\ r \notin Stored
  BY DEF StoredFirst, Publisher, Snapshot, BeginDistribution, CommitDistribution, FailRun, UnderWay
<1>2. UNCHANGED call /\ \A d \in Runs \ {r} : /\ run'[d] = run[d] /\ status'[d] = status[d]
                                              /\ snap'[d] = snap[d] /\ begun'[d] = begun[d]
  BY DEF TypeOK, Publisher, Snapshot, BeginDistribution, CommitDistribution, FailRun
<1>3. status'[r] = Absent \/ run'[r] = "done"
  BY <1>1 DEF TypeOK, Stored, Publisher, Snapshot, BeginDistribution, CommitDistribution, FailRun
<1>4. Stored \subseteq Stored' /\ Stored' \subseteq Stored \cup {r}
  BY <1>1, <1>2 DEF Stored
<1>5. \A d \in Stored' : run'[d] = "done"
  BY <1>2, <1>3, <1>4 DEF StoredFirst, Stored
<1>6. \A c \in Calls : ~At(c, {"idle"})' => call'[c].dist \in Stored'
  BY <1>2, <1>4 DEF StoredFirst, At
<1> QED
  BY <1>1, <1>2, <1>5, <1>6 DEF StoredFirst, StoredKept, Stored

LEMMA StoredCall ==
    ASSUME TypeOK, StoredFirst, NEW c \in Calls,
           SelectPending(c) \/ Sending(c) \/ Resting(c) \/ MarkPublished(c)
    PROVE  StoredFirst' /\ StoredKept
<1>1. UNCHANGED <<run, snap, begun>> /\ \A b \in Calls \ {c} : call'[b] = call[b]
  BY DEF TypeOK, publisherVars, Goto, SelectPending, Sending, Send, LoseSend, Resting,
     GetReceipt, Timeout, FailCall, MarkPublished
<1>2. call'[c].at = "idle" \/ call'[c].dist \in Stored
  <2>1. CASE SelectPending(c)
    <3>1. PICK d \in Runs : Oldest(d) /\ Goto(c, [at |-> "submit", dist |-> d])
      BY <2>1 DEF SelectPending
    <3>2. d \in Stored
      BY <3>1 DEF Oldest, Pending, Stored, Absent
    <3> QED
      BY <3>1, <3>2 DEF Goto, TypeOK
  <2>2. CASE Sending(c)
    <3>1. call[c].dist \in Stored
      BY <2>2 DEF StoredFirst, Sending, Send, LoseSend, At
    <3> QED
      BY <2>2, <3>1 DEF Sending, Send, LoseSend, Goto, Idle, TypeOK
  <2>3. CASE GetReceipt(c)
    <3>1. call[c].dist \in Stored /\ [call[c] EXCEPT !.at = "mark"].dist = call[c].dist
      BY <2>3, CallFields DEF StoredFirst, GetReceipt, At, CallStates, Idle
    <3> QED
      BY <2>3, <3>1 DEF GetReceipt, Goto, Idle, TypeOK
  <2>4. CASE Timeout(c) \/ FailCall(c) \/ MarkPublished(c)
    BY <2>4 DEF Timeout, FailCall, MarkPublished, Goto, Idle, TypeOK
  <2> QED
    BY <2>1, <2>2, <2>3, <2>4 DEF Resting
<1>3. /\ \A d \in Runs \ Stored : status'[d] = status[d]
      /\ \A d \in Stored : status'[d] \in {status[d], "published"}
  <2>1. CASE MarkPublished(c)
    <3>1. Marked(c) \subseteq Stored
      BY <2>1 DEF MarkPublished, Marked, StoredFirst, At
    <3> QED
      BY <2>1, <3>1 DEF MarkPublished, PublishedStatus, Stored
  <2>2. CASE UNCHANGED status
    BY <2>2
  <2> QED
    BY <2>1, <2>2 DEF SelectPending, Sending, Send, LoseSend, Resting, GetReceipt, Timeout, FailCall
<1>4. Stored' = Stored
  BY <1>3 DEF Stored, Absent
<1>5. \A b \in Calls : ~At(b, {"idle"})' => call'[b].dist \in Stored'
  BY <1>1, <1>2, <1>4 DEF StoredFirst, At
<1>6. \A d \in Stored : status[d] \in {"pending_publish", "published"}
  BY DEF Stored, TypeOK
<1> QED
  BY <1>1, <1>3, <1>4, <1>5, <1>6 DEF StoredFirst, StoredKept

LEMMA StoredStep == TypeOK /\ StoredFirst /\ [Next]_vars => StoredFirst' /\ StoredKept
<1> SUFFICES ASSUME TypeOK, StoredFirst, [Next]_vars PROVE StoredFirst' /\ StoredKept
  OBVIOUS
<1>1. CASE UNCHANGED <<run, snap, begun, status, call>>
  BY <1>1 DEF StoredFirst, StoredKept, Stored, At
<1>2. ASSUME NEW a \in Accounts, Earn(a) \/ OptIn(a) \/ Claim(a)
      PROVE  UNCHANGED <<run, snap, begun, status, call>>
  BY <1>2 DEF Earn, OptIn, Claim, publisherVars
<1>3. ASSUME NEW n \in Nat, UpdateRoot(n) \/ \E s \in {"reverted", "dropped"} : LoseTx(n, s)
      PROVE  UNCHANGED <<run, snap, begun, status, call>>
  BY <1>3 DEF UpdateRoot, LoseTx, publisherVars
<1>4. UNCHANGED vars => UNCHANGED <<run, snap, begun, status, call>>
  BY DEF vars, publisherVars
<1> QED
  BY <1>1, <1>2, <1>3, <1>4, NextCases, StoredPublisher, StoredCall

(* No step touches the entries or the time of a stored distribution, or    *)
(* takes back its publication, for any runs and calls at once              *)
(* (publish.ts:33-63, publisher.rs:49-53).                                 *)
THEOREM SettlementStoredKept == Spec => [][StoredKept]_vars
<1>1. Init => StoredFirst
  BY DEF Init, StoredFirst, Stored, At, Idle
<1> QED
  BY <1>1, StoredStep, SettlementTypeOK, PTL DEF Spec
=============================================================================
