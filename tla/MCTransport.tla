---------------------------- MODULE MCTransport ----------------------------
(***************************************************************************)
(* Instances of Transport for TLC.  The budgets of application calls bound *)
(* every counter: a rekey costs each side at most five packets.            *)
(***************************************************************************)
EXTENDS Transport

Mark(b, m) == [byte |-> b, msg |-> m]

\* wolfSSH_SetHighwater(ssh, 0) and wolfSSH_SetMsgHighwater(ssh, 0)
MarksOff == {Mark(0, 0)}

\* Either end with its own marks, down to the first packet.
MarksMixed == {Mark(0, 0), Mark(0, 1), Mark(0, 3), Mark(2, 3)}
============================================================================
