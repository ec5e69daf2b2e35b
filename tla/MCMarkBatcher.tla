-------------------------- MODULE MCMarkBatcher --------------------------
(***************************************************************************)
(* MarkBatcher on a small instance: a bucket of two marks is full.  Shards *)
(* share nothing but the callers, so one is enough here; the theorems hold *)
(* for any number of shards and marks.                                     *)
(***************************************************************************)
EXTENDS MarkBatcher

CONSTANTS i1, i2, s1

MCItems == {i1, i2}
MCShardOf == [i \in MCItems |-> s1]
=============================================================================
