-------------------------- MODULE MCChannelWindow --------------------------
(***************************************************************************)
(* Instances of ChannelWindow for TLC.  UINT32_MAX is the window itself,   *)
(* the tightest value the assumption allows, so that a counter one byte    *)
(* too large overflows.                                                    *)
(***************************************************************************)
EXTENDS ChannelWindow
============================================================================
