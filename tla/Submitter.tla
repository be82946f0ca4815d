----------------------------- MODULE Submitter ------------------------------
(***************************************************************************)
(* TxSubmitter (tx_submitter.rs): concurrent calls of submit, one at a     *)
(* time between lock and sending, and recover_gap, which takes no lock;    *)
(* one recover_gap at a time.                                              *)
(*                                                                         *)
(* The node counts the sender's transactions and gives each the next       *)
(* number; the submitter keeps a nonce of its own beside that count.  What *)
(* the node does and what the submitter stores when it gets the answer are *)
(* steps of their own.  An answer may be lost after the node took the      *)
(* transaction, others may send with the same key, and a pending           *)
(* transaction may be dropped.                                             *)
(***************************************************************************)
EXTENDS Integers

CONSTANTS
    Submits,     \* the calls of submit
    MaxForeign,  \* bound: transactions of other senders with this key
    MaxDropped   \* bound: transactions the node drops

ASSUME FaultAssumption == MaxForeign \in Nat /\ MaxDropped \in Nat

VARIABLES
    nonce,       \* TxSubmitter.nonce
    lock,        \* submission_lock: the set of its holder
    step, local, \* of a call: where it is, the local `nonce' or `fresh'
    gap,         \* recover_gap: where it is and chain_nonce, local_nonce
    count,       \* the node's get_transaction_count
    foreign, dropped,   \* how many of either there were
    missed,      \* history: transactions the node took whose answer no
                 \* call got
    raced,       \* history: those it took from calls since the last
                 \* recover_gap asked for the count
    setBack      \* history: the same of all recover_gaps that stored

history == <<missed, raced, setBack>>
subVars == <<nonce, lock, step, local, gap, count, foreign, dropped, history>>
-----------------------------------------------------------------------------
SubInit ==
    /\ count = 0
    /\ nonce = count
    /\ lock = {}
    /\ step = [c \in Submits |-> "start"]
    /\ local = [c \in Submits |-> 0]
    /\ gap = [at |-> "idle"]
    /\ foreign = 0 /\ dropped = 0
    /\ missed = 0 /\ raced = 0 /\ setBack = 0

Goto(c, next) == step' = [step EXCEPT ![c] = next]

\* _guard is dropped: before the wait for the receipt, or with an error.
Release(c, next) == lock' = lock \ {c} /\ Goto(c, next)

Lock(c) ==
    /\ step[c] = "start"
    /\ lock = {}
    /\ lock' = {c}
    /\ local' = [local EXCEPT ![c] = nonce]
    /\ Goto(c, "send")
    /\ UNCHANGED <<nonce, gap, count, foreign, dropped, history>>

\* The first try, and the second after a resync: the node takes the
\* transaction ...
Take(c) ==
    /\ \/ step[c] = "send" /\ Goto(c, "sent")
       \/ step[c] = "resend" /\ Goto(c, "resent")
    /\ count' = count + 1
    /\ raced' = raced + 1
    /\ UNCHANGED <<nonce, lock, local, gap, foreign, dropped, missed, setBack>>

\* ... and its answer comes, or is lost, or the call is dropped ...
Accept(c) ==
    /\ step[c] \in {"sent", "resent"}
    /\ nonce' = local[c] + 1
    /\ Release(c, "wait")
    /\ UNCHANGED <<local, gap, count, foreign, dropped, history>>

LoseAnswer(c) ==
    /\ step[c] \in {"sent", "resent"}
    /\ missed' = missed + 1
    /\ Release(c, "failed")
    /\ UNCHANGED <<nonce, local, gap, count, foreign, dropped, raced, setBack>>

\* ... or it refuses it.
Refuse(c) ==
    /\ step[c] \in {"send", "resend"}
    /\ Release(c, "failed")
    /\ UNCHANGED <<nonce, local, gap, count, foreign, dropped, history>>

\* An error that contains "nonce", at the first try only.
BugNonceError(c) ==     \* at every try
    /\ step[c] \in {"send", "resend"}
    /\ Goto(c, "resync")
    /\ UNCHANGED <<nonce, lock, local, gap, count, foreign, dropped, history>>
NonceError(c) ==
    /\ step[c] = "send"
    /\ Goto(c, "resync")
    /\ UNCHANGED <<nonce, lock, local, gap, count, foreign, dropped, history>>

\* The node is asked for its count, which is stored when the answer comes.
AskFresh(c) ==
    /\ step[c] = "resync"
    /\ local' = [local EXCEPT ![c] = count]
    /\ Goto(c, "fresh")
    /\ UNCHANGED <<nonce, lock, gap, count, foreign, dropped, history>>

Resync(c) ==
    /\ step[c] = "fresh"
    /\ nonce' = local[c]
    /\ Goto(c, "resend")
    /\ UNCHANGED <<lock, local, gap, count, foreign, dropped, history>>

FailResync(c) ==
    /\ step[c] \in {"resync", "fresh"}
    /\ Release(c, "failed")
    /\ UNCHANGED <<nonce, local, gap, count, foreign, dropped, history>>

\* The receipt, an error of the node, or confirmation_timeout.
Confirm(c) ==
    /\ step[c] = "wait"
    /\ \E next \in {"done", "failed"} : Goto(c, next)
    /\ UNCHANGED <<nonce, lock, local, gap, count, foreign, dropped, history>>

\* recover_gap: the node's count, the nonce, and a store if that is larger.
ReadChain ==
    /\ gap.at = "idle"
    /\ gap' = [at |-> "chain", chain |-> count]
    /\ raced' = 0
    /\ UNCHANGED <<nonce, lock, step, local, count, foreign, dropped, missed, setBack>>

ReadLocal ==
    /\ gap.at = "chain"
    /\ gap' = [at |-> "local", chain |-> gap.chain, mine |-> nonce]
    /\ UNCHANGED <<nonce, lock, step, local, count, foreign, dropped, history>>

BugAhead == TRUE
Ahead == gap.mine > gap.chain

StoreNonce ==
    /\ gap.at = "local"
    /\ nonce' = IF Ahead THEN gap.chain ELSE nonce
    /\ setBack' = IF gap.mine > gap.chain THEN setBack + raced ELSE setBack
    /\ gap' = [at |-> "idle"]
    /\ UNCHANGED <<lock, step, local, count, foreign, dropped, missed, raced>>

\* get_transaction_count of recover_gap fails, or its caller is gone.
FailRecover ==
    /\ gap.at = "chain"
    /\ gap' = [at |-> "idle"]
    /\ UNCHANGED <<nonce, lock, step, local, count, foreign, dropped, history>>

SendForeign ==
    /\ foreign < MaxForeign
    /\ foreign' = foreign + 1
    /\ count' = count + 1
    /\ missed' = missed + 1
    /\ UNCHANGED <<nonce, lock, step, local, gap, dropped, raced, setBack>>

DropPending ==
    /\ dropped < MaxDropped
    /\ count > 0
    /\ count' = count - 1
    /\ dropped' = dropped + 1
    /\ UNCHANGED <<nonce, lock, step, local, gap, foreign, history>>

Submit(c) ==
    \/ Lock(c) \/ Take(c) \/ Accept(c) \/ LoseAnswer(c) \/ Refuse(c) \/ NonceError(c)
    \/ AskFresh(c) \/ Resync(c) \/ FailResync(c) \/ Confirm(c)

SubNext ==
    \/ \E c \in Submits : Submit(c)
    \/ ReadChain \/ ReadLocal \/ StoreNonce \/ FailRecover
    \/ SendForeign \/ DropPending

\* The lock is granted in turn, and the node or a timeout answers.
SubSpec == SubInit /\ [][SubNext]_subVars /\ \A c \in Submits : WF_subVars(Submit(c))
-----------------------------------------------------------------------------
Holding == {"send", "sent", "resync", "fresh", "resend", "resent"}

SubTypeOK ==
    /\ nonce \in Nat /\ count \in Nat
    /\ foreign \in 0..MaxForeign /\ dropped \in 0..MaxDropped
    /\ missed \in Nat /\ raced \in Nat /\ setBack \in Nat
    /\ step \in [Submits -> {"start", "wait", "done", "failed"} \cup Holding]
    /\ local \in [Submits -> Nat]
    /\ gap \in {[at |-> "idle"]} \cup [at : {"chain"}, chain : Nat]
                 \cup [at : {"local"}, chain : Nat, mine : Nat]
    /\ lock = {c \in Submits : step[c] \in Holding}
    /\ \A c, d \in lock : c = d

\* Whether the node took a transaction whose answer is on its way.
Answering == \E c \in Submits : step[c] \in {"sent", "resent"}
InFlight == IF Answering THEN 1 ELSE 0

\* The nonce is ahead of the node by no more than it dropped.  It is behind
\* by the transaction whose answer is on its way, by those whose answer no
\* call got, and by those the node took while a recover_gap ran that then
\* stored; one that finds no gap costs nothing, whatever it overlaps
\* (tx_submitter.rs:52-70, 90-98; chain_tests.rs:57, 94).
NonceDrift ==
    /\ nonce - dropped <= count
    /\ count <= nonce + missed + setBack + InFlight
=============================================================================
