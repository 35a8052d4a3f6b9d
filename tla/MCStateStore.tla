------------------------------ MODULE MCStateStore ------------------------------
(***************************************************************************)
(* Small instances of StateStore for TLC.                                  *)
(***************************************************************************)
EXTENDS StateStore

CONSTANTS m1, m2, e1

=============================================================================
