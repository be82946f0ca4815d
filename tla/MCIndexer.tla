----------------------------- MODULE MCIndexer ------------------------------
(***************************************************************************)
(* Indexer for TLC: accounts are interchangeable.                          *)
(***************************************************************************)
EXTENDS Indexer, TLC

Symmetry == Permutations(Accounts)
=============================================================================
