---------------------------- MODULE MCStdinChannel ----------------------------
(* The command channel for TLC: the constants are in stdin_channel.cfg and *)
(* stdin_stop.cfg, small enough for a line to be longer than the line      *)
(* buffer and for a write to be longer than the buffer of stdio.           *)
EXTENDS StdinChannel
=============================================================================
