----------------------------- MODULE MCSyncSeq -----------------------------
(***************************************************************************)
(* SyncSeq with two users, so that a full bucket exceeds the rate and a    *)
(* level is put back, and three callers, so that one can hold an old floor *)
(* while the second advances the level and the third raises the floor.     *)
(***************************************************************************)
EXTENDS SyncSeq
=============================================================================
