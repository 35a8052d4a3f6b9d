--------------------------- MODULE MCAgentTaskRunner ---------------------------
(* Instances of the Worker/Judge loop for TLC. *)
EXTENDS AgentTaskRunner, TLC

CONSTANTS p1, p2

Slots    == {p1, p2}
SlotSym  == Permutations(Slots)
================================================================================
