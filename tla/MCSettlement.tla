---------------------------- MODULE MCSettlement ----------------------------
(***************************************************************************)
(* Settlement for TLC: one player that earns twice, one that earns once.   *)
(***************************************************************************)
EXTENDS Settlement, TLC

CONSTANTS a1, a2

TwoPlayers == {a1, a2}
TwoAndOne == a1 :> 2 @@ a2 :> 1
=============================================================================
