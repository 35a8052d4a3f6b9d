------------------------------ MODULE MCJiraWrites ------------------------------
(***************************************************************************)
(* Small instances of JiraWrites for TLC: the attempts are interchangeable.*)
(***************************************************************************)
EXTENDS JiraWrites, TLC

CONSTANTS w1, w2, w3, comment, assignment

AttemptSym == Permutations(Attempts)

=============================================================================
