---------------------------- MODULE MCRateLimit ----------------------------
(***************************************************************************)
(* RateLimit for TLC.                                                      *)
(***************************************************************************)
EXTENDS RateLimit, TLC

\* Neither requests nor keys are told apart.
Symmetry == Permutations(Requests) \cup Permutations(Keys)
=============================================================================
