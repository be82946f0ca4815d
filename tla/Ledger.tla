------------------------------- MODULE Ledger -------------------------------
(***************************************************************************)
(* What the mint promises the players, with no requests, transactions or   *)
(* clocks: a challenge is issued to one player for a fixed reward, and it  *)
(* ends at most once, either credited to that player or void.  The module  *)
(* Mint (POST /api/mint and GET /api/challenge) implements it.             *)
(*                                                                         *)
(* The promise is the one the migrations state: 002_challenges.sql         *)
(* "Lifecycle: PENDING -> CLAIMED | EXPIRED" and 003_earnings.sql          *)
(* "append-only ... UNIQUE(challenge_id) makes double-credit impossible".  *)
(***************************************************************************)
CONSTANTS Users, Challenges, Rewards

VARIABLES
    book,      \* challenge -> Unissued, or its owner, reward and outcome
    credits    \* the credits paid, never taken back

ledgerVars == <<book, credits>>

Unissued == [outcome |-> "unissued"]

Entry == [owner : Users, reward : Rewards,
          outcome : {"open", "credited", "void"}]

Payment == [challenge : Challenges, user : Users, amount : Rewards]

LedgerTypeOK ==
    /\ book \in [Challenges -> Entry \cup {Unissued}]
    /\ credits \subseteq Payment

Init ==
    /\ book = [c \in Challenges |-> Unissued]
    /\ credits = {}

Issue(c, u, amount) ==
    /\ book[c] = Unissued
    /\ book' = [book EXCEPT ![c] = [owner |-> u, reward |-> amount,
                                    outcome |-> "open"]]
    /\ UNCHANGED credits

Credit(c) ==
    /\ book[c].outcome = "open"
    /\ book' = [book EXCEPT ![c].outcome = "credited"]
    /\ credits' = credits \cup {[challenge |-> c, user |-> book[c].owner,
                                 amount |-> book[c].reward]}

Void(c) ==
    /\ book[c].outcome = "open"
    /\ book' = [book EXCEPT ![c].outcome = "void"]
    /\ UNCHANGED credits

Next ==
    \E c \in Challenges :
        \/ \E u \in Users, amount \in Rewards : Issue(c, u, amount)
        \/ Credit(c)
        \/ Void(c)

Spec == Init /\ [][Next]_ledgerVars
=============================================================================
