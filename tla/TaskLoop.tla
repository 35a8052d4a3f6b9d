-------------------------------- MODULE TaskLoop --------------------------------
(***************************************************************************)
(* What the user is told of a task's life (docs/agent-task-runner.md): the *)
(* stage on the Dashboard, the round and the limit of rounds, and no       *)
(* handler, hook, file or session.                                         *)
(***************************************************************************)
EXTENDS Naturals

CONSTANT MaxRounds   \* the configured limit of rounds

VARIABLES state, round, limit

loop == <<state, round, limit>>

Active   == {"running", "evaluating", "judge-evaluating", "refreshing"}
Finished == {"completed", "failed"}

Init == state = "idle" /\ round = 0 /\ limit = MaxRounds

Move(from, to) ==
  state \in from /\ state' = to /\ UNCHANGED <<round, limit>>

(* The user. *)

Start ==
  /\ state \in Finished \cup {"idle", "paused"}
  /\ state' = "running" /\ round' = 1 /\ UNCHANGED limit

Pause == Move(Active \cup Finished \cup {"idle"}, "paused")

Continue == \E to \in {"running", "judge-evaluating"} :
  Move(Finished \cup {"paused"}, to)

Reset ==
  /\ state \in Finished \cup {"paused"}
  /\ state' = "idle" /\ round' = 0 /\ UNCHANGED limit

\* "Send back" reopens a finished task, beyond its limit if need be.
SendBack ==
  /\ state \in Finished
  /\ state' = "running" /\ round' = round + 1
  /\ limit' = IF limit < round + 1 THEN round + 1 ELSE limit

\* The Worker could not be told: the task is what it was.
Unsend ==
  /\ state = "running" /\ state' \in Finished /\ round' = round - 1
  /\ limit' = limit \/ (limit = round /\ limit' = round - 1)

(* The loop. *)

Check    == Move({"running", "judge-evaluating"}, "evaluating")
Refresh  == Move({"evaluating"}, "refreshing")
Rework   == Move({"evaluating", "refreshing"}, "running")
Judge    == Move({"evaluating", "running"}, "judge-evaluating")
Complete == Move({"judge-evaluating"}, "completed")
Fail     == round = limit /\ Move({"judge-evaluating"}, "failed")

NextRound ==
  /\ state = "judge-evaluating" /\ round < limit
  /\ state' = "running" /\ round' = round + 1 /\ UNCHANGED limit

Next ==
  \/ Start \/ Pause \/ Continue \/ Reset \/ SendBack \/ Unsend
  \/ Check \/ Refresh \/ Rework \/ Judge \/ Complete \/ Fail \/ NextRound

Spec == Init /\ [][Next]_loop
================================================================================
