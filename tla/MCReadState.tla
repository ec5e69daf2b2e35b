---------------------------- MODULE MCReadState ----------------------------
(***************************************************************************)
(* ReadState with one MarkRead and one reader at a time, and two messages, *)
(* so that one can commit after its successor.                             *)
(***************************************************************************)
EXTENDS ReadState
=============================================================================
