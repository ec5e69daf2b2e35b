----------------------------- MODULE MCRouting -----------------------------
(***************************************************************************)
(* Routing for a user with two devices, two instances and two connections, *)
(* which may be of one device or of two, to one instance or to both.       *)
(***************************************************************************)
EXTENDS Routing, TLC

Alike == Permutations(Conns) \cup Permutations(Instances) \cup Permutations(Devices)
=============================================================================
