----------------------------- MODULE MCSessionStart -----------------------------
(***************************************************************************)
(* Small instances of SessionStart for TLC.                                *)
(***************************************************************************)
EXTENDS SessionStart

CONSTANTS r1, r2

=============================================================================
