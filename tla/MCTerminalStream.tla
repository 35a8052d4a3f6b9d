---------------------------- MODULE MCTerminalStream ----------------------------
(* Instances of the remote terminal stream for TLC. *)
EXTENDS TerminalStream
================================================================================
