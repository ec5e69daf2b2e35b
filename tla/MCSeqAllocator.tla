-------------------------- MODULE MCSeqAllocator --------------------------
(***************************************************************************)
(* SeqAllocator on a small instance.  Step = 10 makes LowWater 1, so two   *)
(* calls for 5 reach the low-water mark and a call for 7 leaves a rest     *)
(* that the next call cannot use; MaxID bounds the segments ever loaded.   *)
(***************************************************************************)
EXTENDS SeqAllocator
=============================================================================
