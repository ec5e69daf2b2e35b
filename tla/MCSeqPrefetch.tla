-------------------------- MODULE MCSeqPrefetch --------------------------
(***************************************************************************)
(* SeqPrefetch on a small instance: blocks of two numbers, so that a call  *)
(* finds a full, a started and a used-up block, and as many request slots  *)
(* as callers, for a request that was given up.                            *)
(***************************************************************************)
EXTENDS SeqPrefetch, TLC

Symmetry == Permutations(Callers) \cup Permutations(Rpcs)
=============================================================================
