-------------------------- MODULE MCOperationRegistry --------------------------
(***************************************************************************)
(* Small instances of OperationRegistry for TLC.                           *)
(***************************************************************************)
EXTENDS OperationRegistry

CONSTANTS o1, o2, o3, k1, k2, w1

=============================================================================
