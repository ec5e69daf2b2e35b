-------------------------- MODULE MCSendMessage --------------------------
(***************************************************************************)
(* SendMessage on a small instance.  Messages of different ids never meet  *)
(* (every table is keyed by the message), so one message is sent three     *)
(* times, on two instances.                                                *)
(***************************************************************************)
EXTENDS SendMessage
=============================================================================
