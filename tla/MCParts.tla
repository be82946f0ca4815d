------------------------------ MODULE MCParts -------------------------------
(***************************************************************************)
(* The game page, the accounts, the transaction submitter and the problem  *)
(* generator for TLC.  They share no state, so they are checked side by    *)
(* side: in a behaviour one of them moves, the others stay as they began.  *)
(***************************************************************************)
EXTENDS GamePage, Accounts, Submitter, ChallengeGen

VARIABLE part       \* the one that moves

vars == <<gameVars, accVars, subVars, genVars, part>>

GameMoves == part = "game" /\ UNCHANGED <<accVars, subVars, genVars, part>>
AccMoves == part = "accounts" /\ UNCHANGED <<gameVars, subVars, genVars, part>>
SubMoves == part = "submitter" /\ UNCHANGED <<gameVars, accVars, genVars, part>>
GenMoves == part = "generator" /\ UNCHANGED <<gameVars, accVars, subVars, part>>

Init ==
    /\ part \in {"game", "accounts", "submitter", "generator"}
    /\ GameInit /\ AccInit /\ SubInit /\ GenInit

Next ==
    \/ GameMoves /\ GameNext
    \/ AccMoves /\ AccNext
    \/ SubMoves /\ SubNext
    \/ GenMoves /\ GenNext

\* The fairness of GameSpec and of SubSpec, for the part that moves.
Spec ==
    /\ Init /\ [][Next]_vars
    /\ WF_vars(GameMoves /\ GetEnds) /\ WF_vars(GameMoves /\ MintEnds)
    /\ \A c \in Submits : WF_vars(SubMoves /\ Submit(c))

\* handleMint resets `submitting' and fetchChallenge `loading', whatever the
\* network does, after a bounded number of retries (Game.vue:76, 114;
\* useApi.ts:28-61).
PageReturns == part = "game" => ([]<>~submitting) /\ ([]<>~loading)

\* The types of all four.
PartsTypeOK == GameTypeOK /\ AccTypeOK /\ SubTypeOK

\* A call of submit comes to an end: no error path keeps the lock from the
\* others, and nothing is tried for ever (tx_submitter.rs:51-88).
EveryCallEnds ==
    part = "submitter" => <>(\A c \in Submits : step[c] \in {"done", "failed"})

\* Nobody waits for ever: neither the player for the page, nor a publication
\* for the lock.
CallsEnd == PageReturns /\ EveryCallEnds
=============================================================================
