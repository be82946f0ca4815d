------------------------------- MODULE MCJwks -------------------------------
(***************************************************************************)
(* Jwks for TLC.                                                           *)
(***************************************************************************)
EXTENDS Jwks, TLC

\* Neither requests nor keys are told apart.
Symmetry == Permutations(Requests) \cup Permutations(Keys)
=============================================================================
