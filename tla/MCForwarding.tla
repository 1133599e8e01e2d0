---------------------------- MODULE MCForwarding ----------------------------
(***************************************************************************)
(* An instance of Forwarding for TLC.                                      *)
(***************************************************************************)
EXTENDS Forwarding
=============================================================================
