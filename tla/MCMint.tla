------------------------------- MODULE MCMint -------------------------------
(***************************************************************************)
(* Mint for TLC: the constants the configurations share.                   *)
(***************************************************************************)
EXTENDS Mint, TLC

\* Interchangeable values: no definition of Mint tells two of them apart.
Symmetry == Permutations(Users) \cup Permutations(Challenges)
              \cup Permutations(Answers) \cup Permutations(Requests)

\* The API's clock may run behind the database's (the challenge is late on
\* arrival) or with it.
ClockSkews == {-1, 0}
NoSkew == {0}
=============================================================================
