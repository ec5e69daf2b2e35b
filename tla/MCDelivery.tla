---------------------------- MODULE MCDelivery ----------------------------
(***************************************************************************)
(* Delivery on small instances.  Recipients share only the event that is   *)
(* fanned out, so one is enough for what is said of each recipient.  Two   *)
(* messages make an ACK that settles both and a notice that overtakes      *)
(* another; one message leaves room for longer retry chains and for        *)
(* liveness.                                                               *)
(***************************************************************************)
EXTENDS Delivery
=============================================================================
