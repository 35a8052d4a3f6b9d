---------------------------- MODULE TaskLoop_proof ----------------------------
(***************************************************************************)
(* The runner keeps the promises of TaskLoop.                              *)
(*                                                                         *)
(* Every await in AgentTaskRunner is a place where the stage, the round    *)
(* and the limit may have been changed by somebody else.  That each step   *)
(* is still one TaskLoop allows rests on what a function that passes its   *)
(* recheck may conclude (Stage): the stage it expects is one its kind can  *)
(* move on from; a verdict pass that read "continue" below the limit is    *)
(* still below it; and a Send back that must be undone meets exactly the   *)
(* round and the limit it made, because a second one fences the first      *)
(* (OneReject).  The chips are counted in the same invariant (Whole):      *)
(* truncating them to a snapshot restores 1..n only if the snapshot was    *)
(* whole and one round behind.                                             *)
(*                                                                         *)
(* A third part shows who drives a task that is being evaluated (Driven):  *)
(* the owner of the guard passes its recheck, and the injection it waits   *)
(* for is still its own, because whatever else could take it needs a stage *)
(* that is none of the two phases, a fault, or a session left alone by     *)
(* Resend.                                                                 *)
(*                                                                         *)
(* The last part shows that a verdict moves the task once (Unspent), where *)
(* nobody continues a paused task and files that are cleared are gone.     *)
(***************************************************************************)
EXTENDS AgentTaskRunner_proof

Phases == {"evaluating", "refreshing"}

-----------------------------------------------------------------------------
(* Chips. *)

\* As many chips, for the same rounds.
SameRounds(cs, ds) ==
  Len(ds) = Len(cs) /\ \A i \in 1..Len(cs) : ds[i].round = cs[i].round

\* The chips cs are numbered 1..n and the last one is the round r; the first
\* chip also stands for round 0, before which there is none.
Rounds(cs, r) ==
  /\ \A i \in 1..Len(cs) : cs[i].round = i
  /\ Len(cs) = IF Len(cs) = 0 THEN r ELSE IF r = 0 THEN 1 ELSE r

Whole(t) == Rounds(t.chips, t.round) /\ t.round <= t.limit /\ 1 <= t.limit

\* Marking the last chip and recording its verdict leave the rounds alone.
LEMMA Rewritten ==
  ASSUME NEW cs \in Seq(Chip), NEW a \in Actions, NEW b \in BOOLEAN
  PROVE  SameRounds(cs, Mark(cs, a)) /\ SameRounds(cs, Judged(cs, b))
  <1>1. CASE cs = <<>>
    BY <1>1 DEF Mark, Judged, SameRounds
  <1>2. CASE cs # <<>>
    <2>1. Len(cs) \in 1..Len(cs) /\ cs[Len(cs)] \in Chip
      BY <1>2, EmptySeq, ElementOfSeq
    <2> DEFINE c == [cs[Len(cs)] EXCEPT !.action = a]
               d == [cs[Len(cs)] EXCEPT !.judged = b]
    <2>2. c \in Chip /\ c.round = cs[Len(cs)].round
      BY <2>1 DEF Chip
    <2>3. d \in Chip /\ d.round = cs[Len(cs)].round
      BY <2>1 DEF Chip
    <2>4. Mark(cs, a) = [cs EXCEPT ![Len(cs)] = c]
          /\ Judged(cs, b) = [cs EXCEPT ![Len(cs)] = d]
      BY <1>2 DEF Mark, Judged
    <2> HIDE DEF c, d
    <2>5. /\ Len([cs EXCEPT ![Len(cs)] = c]) = Len(cs)
          /\ \A i \in 1..Len(cs) :
               [cs EXCEPT ![Len(cs)] = c][i] = IF i = Len(cs) THEN c ELSE cs[i]
      BY <2>1, <2>2, ExceptSeq
    <2>6. /\ Len([cs EXCEPT ![Len(cs)] = d]) = Len(cs)
          /\ \A i \in 1..Len(cs) :
               [cs EXCEPT ![Len(cs)] = d][i] = IF i = Len(cs) THEN d ELSE cs[i]
      BY <2>1, <2>3, ExceptSeq
    <2> QED
      BY <2>2, <2>3, <2>4, <2>5, <2>6 DEF SameRounds
  <1> QED
    BY <1>1, <1>2

\* Rewriting the chips twice is rewriting them.
LEMMA RewrittenTwice ==
  ASSUME NEW cs, NEW ds, NEW es, SameRounds(cs, ds), SameRounds(ds, es)
  PROVE  SameRounds(cs, es)
  BY DEF SameRounds

\* A task whose chips are rewritten in its round is still whole.
LEMMA WholeRewritten ==
  ASSUME NEW t \in Task, NEW u \in Task, Whole(t), SameRounds(t.chips, u.chips),
         u.round = t.round, u.limit = t.limit
  PROVE  Whole(u)
  <1>1. Len(t.chips) \in Nat
    <2>1. t.chips \in Seq(Chip)
      BY DEF Task
    <2> QED
      BY <2>1, LenProperties
  <1> QED
    BY <1>1 DEF Whole, Rounds, SameRounds

\* #ensureRunningRound, given chips ds already rewritten and a target that is the
\* last chip's round, or the one after an already finished chip: it reuses the last
\* chip or appends the next one, so that the chips go up to the target.
LEMMA Ensured ==
  ASSUME NEW ds \in Seq(Chip), NEW r \in Nat, Rounds(ds, r)
  PROVE  /\ EnsureRunningRound(ds, r) \in Seq(Chip)
         /\ Rounds(EnsureRunningRound(ds, r), r)
         /\ Len(EnsureRunningRound(ds, r)) = IF r = 0 THEN 1 ELSE r
  <1>1. EnsureRunningRound(ds, r) \in Seq(Chip)
    BY RunningRoundType
  <1>2. CASE ds = <<>>
    <2>1. r = 0
      BY <1>2 DEF Rounds
    <2>2. EnsureRunningRound(ds, r) = <<[round |-> 1, action |-> "running", judged |-> FALSE]>>
      BY <1>2, <2>1 DEF EnsureRunningRound
    <2> QED
      BY <1>1, <2>1, <2>2 DEF Rounds
  <1>3. CASE ds # <<>>
    <2>1. Len(ds) \in 1..Len(ds)
      BY <1>3, EmptySeq
    <2>2. Last(ds).round = IF r = 0 THEN 1 ELSE r
      BY <2>1 DEF Rounds, Last
    <2>3. EnsureRunningRound(ds, r) = Mark(ds, "running")
      BY <1>3, <2>2 DEF EnsureRunningRound
    <2>4. SameRounds(ds, EnsureRunningRound(ds, r))
      BY <2>3, Rewritten, ActionsType
    <2> QED
      BY <1>1, <2>1, <2>4 DEF Rounds, SameRounds
  <1> QED
    BY <1>2, <1>3

\* The chip of the next round, once the last one is re-prompted.
LEMMA Opened ==
  ASSUME NEW cs \in Seq(Chip), NEW r \in Nat, Rounds(cs, r)
  PROVE  /\ EnsureRunningRound(Mark(cs, "re-prompted"), r + 1) \in Seq(Chip)
         /\ Rounds(EnsureRunningRound(Mark(cs, "re-prompted"), r + 1), r + 1)
         /\ Len(EnsureRunningRound(Mark(cs, "re-prompted"), r + 1)) = r + 1
  <1> DEFINE ds == Mark(cs, "re-prompted")
             n  == [round |-> r + 1, action |-> "running", judged |-> FALSE]
             es == EnsureRunningRound(ds, r + 1)
  <1> SUFFICES es \in Seq(Chip) /\ Rounds(es, r + 1) /\ Len(es) = r + 1
    OBVIOUS
  <1>1. ds \in Seq(Chip) /\ SameRounds(cs, ds)
    BY MarkType, Rewritten, ActionsType
  <1>2. Rounds(ds, r)
    BY <1>1 DEF Rounds, SameRounds
  <1>3. n \in Chip /\ n.round = r + 1
    BY DEF Chip, Actions
  <1>4. es \in Seq(Chip)
    BY <1>1, RunningRoundType
  <1>5. cs = <<>> => ds = <<>> /\ r = 0
    BY DEF Mark, Rounds
  <1>6. cs # <<>> => /\ ds # <<>> /\ Len(ds) \in 1..Len(ds)
                     /\ Last(ds).action = "re-prompted"
    <2> SUFFICES ASSUME cs # <<>>
                 PROVE  ds # <<>> /\ Len(ds) \in 1..Len(ds) /\ Last(ds).action = "re-prompted"
      OBVIOUS
    <2>1. Len(cs) \in 1..Len(cs) /\ cs[Len(cs)] \in Chip
      BY EmptySeq, ElementOfSeq
    <2> QED
      BY <2>1, <1>1 DEF Mark, Last, SameRounds, Chip
  <1>7. es = IF ds # <<>> /\ (Last(ds).action = "running" \/ Last(ds).round = r + 1)
             THEN Mark(ds, "running") ELSE Append(ds, n)
    <2>1. (IF r + 1 = 0 THEN 1 ELSE r + 1) = r + 1
      OBVIOUS
    <2> QED
      BY <2>1 DEF EnsureRunningRound
  <1>8. SameRounds(ds, Mark(ds, "running"))
    BY <1>1, Rewritten, ActionsType
  <1>9. /\ Len(Append(ds, n)) = Len(ds) + 1 /\ Append(ds, n)[Len(ds) + 1] = n
        /\ \A i \in 1..Len(ds) : Append(ds, n)[i] = ds[i]
    BY <1>1, <1>3, AppendProperties
  <1> HIDE DEF ds, n, es
  <1>10. CASE cs = <<>>
    <2>1. es = Append(ds, n) /\ Len(ds) = 0 /\ r = 0
      BY <1>5, <1>7, <1>10
    <2> QED
      BY <1>3, <1>4, <1>9, <2>1 DEF Rounds
  <1>11. CASE cs # <<>> /\ r = 0
    <2>0. Len(ds) = 1
      BY <1>2, <1>6, <1>11 DEF Rounds
    <2>1. Last(ds).round = 1 /\ Len(ds) = 1
      BY <1>2, <2>0 DEF Rounds, Last
    <2>2. SameRounds(ds, es)
      BY <1>6, <1>7, <1>8, <1>11, <2>1
    <2> QED
      BY <1>2, <1>4, <1>11, <2>1, <2>2 DEF Rounds, SameRounds
  <1>12. CASE cs # <<>> /\ r # 0
    <2>1. Last(ds).round = r /\ Len(ds) = r
      BY <1>2, <1>6, <1>12 DEF Rounds, Last
    <2>2. es = Append(ds, n)
      BY <1>6, <1>7, <1>12, <2>1
    <2> QED
      BY <1>2, <1>3, <1>4, <1>9, <2>1, <2>2 DEF Rounds
  <1> QED
    BY <1>10, <1>11, <1>12

\* The chips of a fresh start.
LEMMA FirstRound ==
  /\ EnsureRunningRound(<<>>, 1) \in Seq(Chip)
  /\ Rounds(EnsureRunningRound(<<>>, 1), 1)
  <1>1. EnsureRunningRound(<<>>, 1) = <<[round |-> 1, action |-> "running", judged |-> FALSE]>>
    BY DEF EnsureRunningRound
  <1>2. EnsureRunningRound(<<>>, 1) \in Seq(Chip)
    <2>1. <<>> \in Seq(Chip) /\ 1 \in Nat
      BY EmptySeq
    <2> QED
      BY <2>1, RunningRoundType
  <1> DEFINE c == [round |-> 1, action |-> "running", judged |-> FALSE]
  <1>3. c.round = 1 /\ Len(<<c>>) = 1 /\ <<c>>[1] = c
    OBVIOUS
  <1> HIDE DEF c
  <1>4. Rounds(<<c>>, 1)
    BY <1>3 DEF Rounds
  <1> QED
    BY <1>1, <1>2, <1>4 DEF c

\* Undoing Send back in the round it opened leaves the chips of its snapshot.
LEMMA RolledBackWhole ==
  ASSUME TypeOK, Whole(task), NEW snap \in Task, Whole(snap), task.round = snap.round + 1
  PROVE  Whole(RolledBack(snap))
  <1> DEFINE n  == IF Len(task.chips) > Len(snap.chips) THEN Len(snap.chips)
                   ELSE Len(task.chips)
             cs == SubSeq(task.chips, 1, n)
             a  == IF snap.chips = <<>> THEN "running" ELSE Last(snap.chips).action
             u  == RolledBack(snap)
  <1>1. /\ task.chips \in Seq(Chip) /\ snap.chips \in Seq(Chip)
        /\ Len(task.chips) \in Nat /\ Len(snap.chips) \in Nat /\ snap.round \in Nat
    BY LenProperties DEF TypeOK, Task
  <1>2. Len(task.chips) = snap.round + 1
    BY <1>1 DEF Whole, Rounds
  <1>3. n = Len(snap.chips)
    BY <1>1, <1>2 DEF Whole, Rounds
  <1>4. \A i \in 1..n : task.chips[i] \in Chip
    BY <1>1, ElementOfSeq
  <1>5. cs \in Seq(Chip) /\ Len(cs) = n /\ \A i \in 1..n : cs[i] = task.chips[i]
    BY <1>1, <1>4, SubSeqProperties
  <1>6. Rounds(cs, snap.round)
    BY <1>1, <1>2, <1>3, <1>5 DEF Whole, Rounds
  <1>7. a \in Actions
    <2>1. CASE snap.chips # <<>>
      <3>1. snap.chips[Len(snap.chips)] \in Chip
        BY <1>1, <2>1, EmptySeq, ElementOfSeq
      <3> QED
        BY <2>1, <3>1 DEF Last, Chip
    <2> QED
      BY <2>1, ActionsType
  <1>8. SameRounds(cs, Mark(cs, a))
    BY <1>5, <1>7, Rewritten
  <1>9. Rounds(Mark(cs, a), snap.round)
    BY <1>6, <1>8 DEF Rounds, SameRounds
  <1>10. u.chips = Mark(cs, a) /\ u.round = snap.round /\ u.limit = snap.limit
    BY DEF RolledBack, TypeOK, Task
  <1> HIDE DEF cs, a, u
  <1> QED
    BY <1>9, <1>10 DEF Whole, u

-----------------------------------------------------------------------------
(* The second inductive invariant. *)

\* No surface offers Start for a task that is under way.  (The handler itself only
\* turns it away in three of the four active states.)
Offered == StartStates \cap Active = {}

\* The limit that Send back leaves.
Raised(t) == IF t.limit < t.round + 1 THEN t.round + 1 ELSE t.limit

\* What a function of the current epoch may conclude when its recheck passes.
Stage(p) ==
  /\ op[p].kind = "dropout" => "shell" \in Faults
  /\ op[p].epoch =>
      /\ Offered /\ op[p].kind = "start" /\ op[p].at = "setup" => op[p].expect \notin Active
      /\ op[p].kind = "reconcile" /\ op[p].at = "read" =>
           op[p].expect \in {"running", "judge-evaluating"}
      /\ op[p].kind = "reset" => op[p].expect \in Finished \cup {"paused"}
      /\ op[p].kind = "evaluate" =>
           IF op[p].at \in {"checks", "clear", "judge"} THEN op[p].expect = "evaluating"
           ELSE op[p].expect \in Phases
      /\ op[p].kind = "verdict" => op[p].expect = "judge-evaluating"
      /\ op[p].kind = "verdict" /\ op[p].at \in {"lock", "feedback"} =>
           op[p].round < task.limit
      /\ op[p].kind = "reject" => Whole(op[p].snap)
      /\ op[p].kind = "reject" /\ op[p].at = "lock" =>
           /\ op[p].expect \in Finished /\ op[p].round = op[p].snap.round
           /\ task.limit = op[p].snap.limit
      /\ op[p].kind = "reject" /\ op[p].at # "lock" =>
           /\ op[p].expect = "running" /\ op[p].round = op[p].snap.round + 1
           /\ task.limit = Raised(op[p].snap)

Rejects(o) == o.kind = "reject" /\ o.epoch

\* One Send back of the current epoch at a time, though a deferred one has already
\* given its guard back.
OneReject == \A p, q \in Ops : Rejects(op[p]) /\ Rejects(op[q]) => p = q

\* The guard of an evaluation is held in its two phases only.
Guarded == Offered /\ evaluating # None => task.state \in Phases

Counted == Whole(task) /\ Guarded /\ OneReject /\ \A p \in Ops : Stage(p)

\* An operation that has nothing to conclude.
Quiet(o) ==
  \/ o.kind \in {"none", "send"} \/ (o.kind = "dropout" /\ "shell" \in Faults)
  \/ o.kind \in {"start", "reconcile"} /\ o.at = "prompt"

\* A function that a step leaves alone may conclude what it could before.
LEMMA StageKept ==
  ASSUME Counted, NEW q \in Ops, Kept(op, op', q) \/ Quiet(op'[q]),
         task'.limit = task.limit \/ ~op'[q].epoch
  PROVE  Stage(q)' /\ (Rejects(op'[q]) => Rejects(op[q]))
  <1>1. CASE Kept(op, op', q)
    BY <1>1 DEF Counted, Stage, Kept, Rejects
  <1>2. CASE Quiet(op'[q])
    BY <1>2 DEF Quiet, Stage, Rejects
  <1> QED
    BY <1>1, <1>2

\* A step after which no function has anything new to conclude.
LEMMA CountQuiet ==
  ASSUME Counted, \A q \in Ops : Kept(op, op', q) \/ Quiet(op'[q]),
         task'.limit = task.limit \/ \A q \in Ops : ~op'[q].epoch,
         Whole(task'), Guarded'
  PROVE  Counted'
  <1>1. \A q \in Ops : Stage(q)' /\ (Rejects(op'[q]) => Rejects(op[q]))
    BY StageKept
  <1>2. OneReject'
    BY <1>1 DEF Counted, OneReject
  <1> QED
    BY <1>1, <1>2 DEF Counted

\* A step that leaves the function in slot p something to conclude.
LEMMA CountOne ==
  ASSUME Counted, NEW p \in Ops, \A q \in Ops \ {p} : Kept(op, op', q),
         task'.limit = task.limit, Stage(p)', Whole(task'), Guarded',
         Rejects(op'[p]) => Rejects(op[p]) \/ \A q \in Ops \ {p} : ~op'[q].epoch
  PROVE  Counted'
  <1>1. \A q \in Ops \ {p} : Stage(q)' /\ (Rejects(op'[q]) => Rejects(op[q]))
    BY StageKept
  <1>2. OneReject'
    BY <1>1 DEF Counted, OneReject, Rejects
  <1> QED
    BY <1>1, <1>2 DEF Counted

\* The invariant holds when the runner is created.
LEMMA InitCounted == Init => Counted
  <1> SUFFICES ASSUME Init PROVE Counted
    OBVIOUS
  <1>1. \A q \in Ops : ~op[q].epoch /\ op[q].kind = "none"
    BY FreeType DEF Init
  <1>2. task.chips = <<>> /\ task.round = 0 /\ task.limit = MaxRounds
    BY DEF Init
  <1>3. Whole(task)
    BY <1>2, BoundAssumption DEF Whole, Rounds
  <1> QED
    BY <1>1, <1>3 DEF Init, Counted, Guarded, OneReject, Rejects, Stage

-----------------------------------------------------------------------------
(* What the shared steps leave of the functions in flight. *)

\* A captured operation is suspended where it was captured, in the current run and
\* session.
LEMMA NewFields ==
  ASSUME NEW kind, NEW at, NEW t
  PROVE  /\ New(kind, at, t).kind = kind /\ New(kind, at, t).at = at
         /\ New(kind, at, t).epoch /\ New(kind, at, t).gen /\ New(kind, at, t).inc
         /\ New(kind, at, t).round = t.round /\ New(kind, at, t).expect = t.state
  BY DEF New, Free

\* A function that ends leaves the others alone and has nothing to conclude.
LEMMA Ends1 ==
  ASSUME IInv, NEW p \in Ops, op' = Done(p)
  PROVE  /\ op'[p] = Free /\ Quiet(op'[p])
         /\ \A q \in Ops \ {p} : op'[q] = op[q] /\ Kept(op, op', q)
         /\ \A q \in Ops : Kept(op, op', q) \/ Quiet(op'[q])
  BY DoneType, FreeType DEF IInv, TypeOK, Kept, Quiet

\* The slots of a halt that ends a function.
LEMMA DoneOthers ==
  ASSUME IInv, NEW p \in Ops
  PROVE  Done(p) \in [Ops -> Op] /\ \A q \in Ops : Done(p)[q] = Free \/ Kept(op, Done(p), q)
  BY DoneType DEF IInv, TypeOK, Kept

\* After an advance of the lifecycle nobody but its author is of the epoch.
LEMMA Advances ==
  ASSUME IInv, NEW p \in Ops, NEW o \in Op, op' = [Fenced(op) EXCEPT ![p] = o]
  PROVE  /\ op'[p] = o
         /\ \A q \in Ops \ {p} : Kept(op, op', q) /\ ~op'[q].epoch
  <1>1. Fenced(op) \in [Ops -> Op]
        /\ \A q \in Ops : Kept(op, Fenced(op), q) /\ ~Fenced(op)[q].epoch
    BY FencedType DEF IInv, TypeOK
  <1> QED
    BY <1>1 DEF Kept

\* A halt in a whole task.
LEMMA Halted ==
  ASSUME Counted, NEW t, NEW f \in [Ops -> Op], Halt(t, f), Whole(t),
         \A q \in Ops : f[q] = Free \/ Kept(op, f, q)
  PROVE  Counted'
  <1>1. \A q \in Ops : ~op'[q].epoch /\ Kept(f, op', q)
    BY FencedType DEF Halt
  <1>2. \A q \in Ops : Kept(op, op', q) \/ Quiet(op'[q])
    BY <1>1, FreeType DEF Kept, Quiet
  <1>3. Guarded' /\ Whole(task')
    BY DEF Halt, ClearGuards, Guarded
  <1> QED
    BY <1>1, <1>3, <1>2, CountQuiet

\* A suspended function that goes on to an injection.
LEMMA Injects ==
  ASSUME IInv, NEW p \in Ops, NEW a \in Points, NEW s \in Sess, NEW t \in Task,
         Inject(p, [op[p] EXCEPT !.at = a], s, t)
  PROVE  /\ op' \in [Ops -> Op] /\ \A q \in Ops \ {p} : Kept(op, op', q)
         /\ op'[p].kind = op[p].kind /\ op'[p].at = a /\ op'[p].epoch = op[p].epoch
         /\ op'[p].expect = op[p].expect /\ op'[p].round = op[p].round
         /\ op'[p].snap = op[p].snap
  <1> DEFINE o == [op[p] EXCEPT !.at = a]
  <1>1. /\ o \in Op /\ o.kind = op[p].kind /\ o.epoch = op[p].epoch /\ o.at = a
        /\ o.expect = op[p].expect /\ o.round = op[p].round /\ o.snap = op[p].snap
    BY MovedType DEF IInv, TypeOK
  <1>2. Inject(p, o, s, t)
    OBVIOUS
  <1> HIDE DEF o
  <1> QED
    BY <1>1, <1>2, InjectType DEF IInv, TypeOK

\* One that goes on without an injection.
LEMMA Moves ==
  ASSUME IInv, NEW p \in Ops, NEW a \in Points, op' = [op EXCEPT ![p].at = a]
  PROVE  /\ \A q \in Ops \ {p} : op'[q] = op[q] /\ Kept(op, op', q)
         /\ op'[p] = [op[p] EXCEPT !.at = a]
         /\ op'[p].kind = op[p].kind /\ op'[p].at = a /\ op'[p].epoch = op[p].epoch
         /\ op'[p].expect = op[p].expect /\ op'[p].round = op[p].round
         /\ op'[p].snap = op[p].snap
  <1> DEFINE o == [op[p] EXCEPT !.at = a]
  <1>1. /\ o.kind = op[p].kind /\ o.epoch = op[p].epoch /\ o.at = a
        /\ o.expect = op[p].expect /\ o.round = op[p].round /\ o.snap = op[p].snap
    BY MovedType DEF IInv, TypeOK
  <1>2. op' = [op EXCEPT ![p] = o]
    OBVIOUS
  <1> HIDE DEF o
  <1>3. op'[p] = o /\ \A q \in Ops \ {p} : op'[q] = op[q]
    BY <1>2 DEF IInv, TypeOK
  <1> QED
    BY <1>1, <1>3 DEF Kept, o

\* An evaluation that begins, or that meets another one.
EvaluationBegins(p, t) ==
  /\ evaluating = None /\ evaluating' = p
  /\ op'[p].kind = "evaluate" /\ op'[p].at = "checks" /\ op'[p].expect = "evaluating"
  /\ op'[p].epoch /\ op'[p].gen /\ op'[p].inc /\ op'[p].round = t.round
  /\ task' \in Task /\ task'.state = "evaluating"
  /\ task'.round = t.round /\ task'.limit = t.limit
EvaluationTurnsAway(p, t) ==
  evaluating # None /\ evaluating' = evaluating /\ task' = t /\ op' = Done(p)

\* #evaluateWorker either begins or turns away; it keeps the chips whole.
LEMMA Evaluates ==
  ASSUME IInv, NEW p \in Ops, NEW t \in Task, Evaluation(p, t)
  PROVE  /\ EvaluationBegins(p, t) \/ EvaluationTurnsAway(p, t)
         /\ \A q \in Ops \ {p} : Kept(op, op', q)
         /\ Whole(t) => Whole(task')
  <1>1. CASE EvaluationTurnsAway(p, t)
    BY <1>1, Ends1 DEF EvaluationTurnsAway
  <1>2. CASE /\ evaluating = None /\ evaluating' = p
             /\ op' = [q \in Ops |->
                  IF q = p THEN [New("evaluate", "checks", t) EXCEPT !.expect = "evaluating"]
                  ELSE [op[q] EXCEPT !.gen = FALSE]]
             /\ task' = [t EXCEPT !.state = "evaluating",
                           !.chips = Judged(Mark(EnsureRunningRound(@, t.round),
                                                 "evaluating"), FALSE)]
    <2> DEFINE o == [New("evaluate", "checks", t) EXCEPT !.expect = "evaluating"]
               g(q) == [op[q] EXCEPT !.gen = FALSE]
               cs == EnsureRunningRound(t.chips, t.round)
               ds == Judged(Mark(cs, "evaluating"), FALSE)
    <2>1. t.chips \in Seq(Chip) /\ t.round \in Nat /\ "evaluating" \in Actions
      BY DEF Task, Actions
    <2>2. cs \in Seq(Chip) /\ Mark(cs, "evaluating") \in Seq(Chip) /\ ds \in Seq(Chip)
      BY <2>1, RunningRoundType, MarkType, JudgedType
    <2>3. SameRounds(cs, Mark(cs, "evaluating")) /\ SameRounds(Mark(cs, "evaluating"), ds)
      BY <2>1, <2>2, Rewritten
    <2>4. SameRounds(cs, ds)
      BY <2>3, RewrittenTwice
    <2>5. /\ o.kind = "evaluate" /\ o.at = "checks" /\ o.expect = "evaluating"
          /\ o.epoch /\ o.gen /\ o.inc /\ o.round = t.round
      BY DEF New, Free
    <2>6. ASSUME NEW q \in Ops
          PROVE  /\ g(q).epoch = op[q].epoch /\ g(q).kind = op[q].kind /\ g(q).at = op[q].at
                 /\ g(q).expect = op[q].expect /\ g(q).round = op[q].round
                 /\ g(q).snap = op[q].snap
      BY Edits DEF IInv, TypeOK, Same
    <2>7. op' = [q \in Ops |-> IF q = p THEN o ELSE g(q)]
      BY <1>2
    <2>8. task' = [t EXCEPT !.state = "evaluating", !.chips = ds]
      BY <1>2
    <2>9. Whole(t) => Rounds(cs, t.round)
      BY <2>1, Ensured DEF Whole
    <2> HIDE DEF o, g, cs, ds
    <2>10. op'[p] = o /\ \A q \in Ops \ {p} : Kept(op, op', q)
      BY <2>6, <2>7 DEF Kept
    <2>11. /\ task' \in Task /\ task'.state = "evaluating"
           /\ task'.round = t.round /\ task'.limit = t.limit /\ task'.chips = ds
      BY <2>2, <2>8 DEF Task, States, Active
    <2>12. Whole(t) => Whole(task')
      <3>1. Len(cs) \in Nat
        BY <2>2, LenProperties
      <3> QED
        BY <2>4, <2>9, <2>11, <3>1 DEF Whole, Rounds, SameRounds
    <2>13. EvaluationBegins(p, t)
      BY <1>2, <2>5, <2>10, <2>11 DEF EvaluationBegins
    <2> QED
      BY <2>10, <2>12, <2>13
  <1> QED
    BY <1>1, <1>2 DEF Evaluation, EvaluationTurnsAway

\* A verdict pass that begins, or that meets another one.
PassBegins(p, t) ==
  /\ handling' = p /\ op'[p].kind = "verdict" /\ op'[p].at = "read"
  /\ op'[p].expect = t.state /\ op'[p].round = t.round

\* #handleJudgeVerdict either begins or leaves the running pass alone.
LEMMA Passes ==
  ASSUME IInv, NEW p \in Ops, NEW t \in Task, NEW idleOnly \in BOOLEAN,
         VerdictPass(p, t, idleOnly)
  PROVE  /\ task' = t /\ evaluating' = evaluating
         /\ PassBegins(p, t) \/ op' = Done(p)
         /\ \A q \in Ops \ {p} : op'[q] = op[q] /\ Kept(op, op', q)
  <1>1. CASE op' = Done(p)
    BY <1>1, Ends1 DEF VerdictPass
  <1>2. CASE /\ handling' = p
             /\ op' = [op EXCEPT ![p] = [New("verdict", "read", t) EXCEPT !.note = idleOnly]]
    <2> DEFINE o == [New("verdict", "read", t) EXCEPT !.note = idleOnly]
    <2>1. o.kind = "verdict" /\ o.at = "read" /\ o.expect = t.state /\ o.round = t.round
      BY DEF New, Free
    <2>2. op' = [op EXCEPT ![p] = o]
      BY <1>2
    <2> HIDE DEF o
    <2>3. op'[p] = o /\ \A q \in Ops \ {p} : op'[q] = op[q]
      BY <2>2 DEF IInv, TypeOK
    <2> QED
      BY <1>2, <2>1, <2>3 DEF VerdictPass, PassBegins, Kept
  <1> QED
    BY <1>1, <1>2 DEF VerdictPass

\* A verdict pass that ends or is replayed.
LEMMA PassEnds ==
  ASSUME IInv, NEW p \in Ops, EndVerdict(p)
  PROVE  /\ op' = Done(p) \/ (Current(p) /\ op'[p] = New("verdict", "read", task))
         /\ \A q \in Ops \ {p} : op'[q] = op[q] /\ Kept(op, op', q)
  <1>1. CASE op' = Done(p)
    BY <1>1, Ends1
  <1>2. CASE Current(p) /\ op' = [op EXCEPT ![p] = New("verdict", "read", task)]
    <2>1. op'[p] = New("verdict", "read", task) /\ \A q \in Ops \ {p} : op'[q] = op[q]
      BY <1>2 DEF IInv, TypeOK
    <2> QED
      BY <1>2, <2>1 DEF Kept
  <1> QED
    BY <1>1, <1>2 DEF EndVerdict

\* A function leaves its round alone when it changes state and flags.
LEMMA WholeKept ==
  ASSUME Whole(task), task'.chips = task.chips, task'.round = task.round,
         task'.limit = task.limit
  PROVE  Whole(task')
  BY DEF Whole

-----------------------------------------------------------------------------
(* The steps keep the second invariant. *)

\* A function that ends, or any step that only takes things from the functions in
\* flight, and does not move the task.
LEMMA QuietStep ==
  ASSUME IInv, Counted, \A q \in Ops : Kept(op, op', q) \/ Quiet(op'[q]),
         task'.chips = task.chips, task'.round = task.round, task'.limit = task.limit,
         task'.state = task.state, evaluating' = evaluating \/ evaluating' = None
  PROVE  Counted'
  <1>1. Whole(task') /\ Guarded'
    BY DEF Counted, Whole, Guarded
  <1> QED
    BY <1>1, CountQuiet

\* Start is offered to a task that is not under way.
LEMMA StartCounts == ASSUME IInv, Counted, NEW p \in Ops, Start(p) PROVE Counted'
  <1>1. /\ New("start", "setup", task) \in Op /\ task' = task /\ evaluating' = None
        /\ op' = [Fenced(op) EXCEPT ![p] = New("start", "setup", task)]
    BY News DEF IInv, TypeOK, IsNew, Start, Advance, ClearGuards
  <1>2. op'[p] = New("start", "setup", task) /\ \A q \in Ops \ {p} : Kept(op, op', q)
    BY <1>1, Advances
  <1>3. Stage(p)'
    BY <1>2, NewFields DEF Stage, Offered, Start
  <1>4. ~Rejects(op'[p])
    BY <1>2, NewFields DEF Rejects
  <1> QED
    BY <1>1, <1>2, <1>3, <1>4, CountOne DEF Counted, Guarded

\* Round 1 of a fresh start.
LEMMA StartSetupCounts == ASSUME IInv, Counted, NEW p \in Ops, StartSetup(p) PROVE Counted'
  <1> DEFINE t == [task EXCEPT !.state = "running", !.round = 1,
                               !.chips = EnsureRunningRound(<<>>, 1)]
             o == New("start", "prompt", t)
  <1>1. At(p, "start", "setup") /\ UNCHANGED guards
    BY DEF StartSetup
  <1>2. CASE op' = Done(p) /\ UNCHANGED task
    BY <1>1, <1>2, Ends1, QuietStep DEF guards
  <1>3. CASE Current(p) /\ task' = t /\ Inject(p, o, "worker", t)
    <2>1. t \in Task /\ Rounds(t.chips, 1) /\ t.round = 1 /\ t.limit = task.limit
      BY FirstRound DEF IInv, TypeOK, Task, States, Active
    <2>2. Whole(t)
      BY <2>1 DEF Counted, Whole
    <2> HIDE DEF t
    <2>3. o \in Op /\ o.kind = "start" /\ o.at = "prompt"
      BY <2>1, News, NewFields DEF IsNew
    <2> HIDE DEF o
    <2>4. op'[p].kind = "start" /\ op'[p].at = "prompt" /\ \A q \in Ops \ {p} : Kept(op, op', q)
      BY <1>3, <2>1, <2>3, InjectType DEF IInv, TypeOK, Sess
    <2>5. Guarded'
      BY <1>1, <1>3 DEF Counted, Guarded, Stage, Current, At, guards, Phases, Active
    <2> QED
      BY <1>3, <2>1, <2>2, <2>4, <2>5, CountQuiet DEF Quiet
  <1> QED
    BY <1>1, <1>2, <1>3 DEF StartSetup

\* The prompt of a start or of a reconciliation is in or refused.
LEMMA PromptedCounts == ASSUME IInv, Counted, NEW p \in Ops, Prompted(p) PROVE Counted'
  <1>1. /\ task'.chips = task.chips /\ task'.round = task.round /\ task'.limit = task.limit
        /\ task'.state = task.state
    BY DEF IInv, TypeOK, Task, Prompted
  <1> QED
    BY <1>1, Ends1, QuietStep DEF Prompted, guards

\* A pause counts nothing.
LEMMA StopCounts == IInv /\ Counted /\ Stop => Counted'
  <1> SUFFICES ASSUME IInv, Counted, Stop PROVE Counted'
    OBVIOUS
  <1> DEFINE t == [task EXCEPT !.state = "paused", !.from = task.state]
  <1>1. /\ t.chips = task.chips /\ t.round = task.round /\ t.limit = task.limit
        /\ t.state = "paused"
    BY DEF IInv, TypeOK, Task
  <1> HIDE DEF t
  <1>2. CASE Halt(t, op)
    <2>1. Whole(t)
      BY <1>1 DEF Counted, Whole
    <2> QED
      BY <1>2, <2>1, Halted DEF IInv, TypeOK, Kept
  <1>3. CASE /\ task.state = "paused" /\ task' = t /\ evaluating' = None
             /\ op' = [p \in Ops |-> [op[p] EXCEPT !.live = FALSE]]
    <2>1. ASSUME NEW p \in Ops PROVE Kept(op, op', p)
      BY <1>3, Edits DEF IInv, TypeOK, Same, Kept
    <2> QED
      BY <1>1, <1>3, <2>1, QuietStep
  <1> QED
    BY <1>2, <1>3 DEF Stop, t

\* Continue goes on with the task as it stands.
LEMMA ResumeCounts == ASSUME IInv, Counted, NEW p \in Ops, Resume(p) PROVE Counted'
  <1> DEFINE to == IF task.from = "judge-evaluating" THEN task.from ELSE "running"
             t  == [task EXCEPT !.state = to, !.from = ""]
             n  == New("reconcile", "read", t)
             b  == task.state \in Finished
             o  == [n EXCEPT !.from = task.from, !.note = b]
  <1>1. /\ t \in Task /\ t.state \in {"running", "judge-evaluating"}
        /\ t.chips = task.chips /\ t.round = task.round /\ t.limit = task.limit
    BY DEF IInv, TypeOK, Task, States, Active
  <1>2. task' = t /\ evaluating' = None /\ b \in BOOLEAN
        /\ op' = IF task.resume THEN Fenced(op) ELSE [Fenced(op) EXCEPT ![p] = o]
    BY DEF Resume, Advance, ClearGuards
  <1> HIDE DEF t
  <1>3. n \in Op /\ n.kind = "reconcile" /\ n.at = "read" /\ n.expect = t.state
    <2>1. n \in Op
      BY <1>1, News DEF IsNew
    <2>2. n.kind = "reconcile" /\ n.at = "read" /\ n.expect = t.state
      BY NewFields
    <2> QED
      BY <2>1, <2>2
  <1>4. task.from \in States \cup {""}
    BY DEF IInv, TypeOK, Task
  <1> HIDE DEF n, b
  <1>5. o \in Op /\ o.kind = "reconcile" /\ o.at = "read" /\ o.expect = t.state
    BY <1>2, <1>3, <1>4 DEF Op
  <1> HIDE DEF o
  <1>6. Whole(task') /\ task'.limit = task.limit /\ Guarded'
    BY <1>1, <1>2 DEF Counted, Whole, Guarded
  <1>7. CASE op' = Fenced(op)
    <2>1. \A q \in Ops : Kept(op, op', q)
      BY <1>7, FencedType DEF IInv, TypeOK
    <2> QED
      BY <1>6, <2>1, CountQuiet
  <1>8. CASE op' = [Fenced(op) EXCEPT ![p] = o]
    <2>1. op'[p] = o /\ \A q \in Ops \ {p} : Kept(op, op', q)
      BY <1>5, <1>8, Advances
    <2>2. Stage(p)' /\ ~Rejects(op'[p])
      BY <1>1, <1>5, <2>1 DEF Stage, Rejects
    <2> QED
      BY <1>6, <2>1, <2>2, CountOne
  <1> QED
    BY <1>2, <1>7, <1>8

\* An evaluation that begins expects what it sets; one that turns away keeps the
\* state it found, in which nobody holds the guard.
LEMMA EvaluationCounts ==
  ASSUME IInv, Counted, NEW p \in Ops, NEW t \in Task, Evaluation(p, t),
         t.chips = task.chips, t.round = task.round, t.limit = task.limit,
         task.state \in {"running", "judge-evaluating"}
  PROVE  Counted'
  <1>1. Whole(t)
    BY DEF Counted, Whole
  <1>2. /\ EvaluationBegins(p, t) \/ EvaluationTurnsAway(p, t)
        /\ \A q \in Ops \ {p} : Kept(op, op', q)
        /\ Whole(task')
    BY <1>1, Evaluates
  <1>3. CASE EvaluationBegins(p, t)
    <2>1. Stage(p)' /\ ~Rejects(op'[p]) /\ Guarded' /\ task'.limit = task.limit
      BY <1>3 DEF EvaluationBegins, Stage, Rejects, Guarded, Phases
    <2> QED
      BY <1>2, <2>1, CountOne
  <1>4. CASE EvaluationTurnsAway(p, t)
    <2>1. \A q \in Ops : Kept(op, op', q) \/ Quiet(op'[q])
      BY <1>4, Ends1 DEF EvaluationTurnsAway
    <2>2. task'.limit = task.limit /\ Guarded'
      BY <1>4 DEF EvaluationTurnsAway, Counted, Guarded, Phases
    <2> QED
      BY <1>2, <2>1, <2>2, CountQuiet
  <1> QED
    BY <1>2, <1>3, <1>4

\* A verdict pass expects the Judge's turn.
LEMMA PassCounts ==
  ASSUME IInv, Counted, NEW p \in Ops, NEW t \in Task, NEW idleOnly \in BOOLEAN,
         VerdictPass(p, t, idleOnly),
         t.chips = task.chips, t.round = task.round, t.limit = task.limit,
         t.state = "judge-evaluating", task.state \in {"running", "judge-evaluating"}
  PROVE  Counted'
  <1>1. /\ task' = t /\ evaluating' = evaluating
        /\ PassBegins(p, t) \/ op' = Done(p)
        /\ \A q \in Ops \ {p} : Kept(op, op', q)
    BY Passes
  <1>2. Whole(task') /\ Guarded' /\ task'.limit = task.limit
    BY <1>1 DEF Counted, Whole, Guarded, Phases
  <1>3. CASE PassBegins(p, t)
    <2>1. Stage(p)' /\ ~Rejects(op'[p])
      BY <1>3 DEF PassBegins, Stage, Rejects
    <2> QED
      BY <1>1, <1>2, <2>1, CountOne
  <1>4. CASE op' = Done(p)
    BY <1>2, <1>4, Ends1, CountQuiet
  <1> QED
    BY <1>1, <1>3, <1>4

\* The reconciliation of Continue.
LEMMA ReconcileCounts == ASSUME IInv, Counted, NEW p \in Ops, Reconcile(p) PROVE Counted'
  <1>1. At(p, "reconcile", "read") /\ op[p] \in Op /\ task \in Task
    BY DEF Reconcile, IInv, TypeOK
  <1>2. ASSUME Current(p) PROVE task.state \in {"running", "judge-evaluating"}
    BY <1>1, <1>2 DEF Counted, Stage, Current, At
  <1>3. CASE op' = Done(p) /\ UNCHANGED <<task, guards, inject>>
    BY <1>3, Ends1, QuietStep DEF guards
  <1>4. CASE Current(p) /\ VerdictPass(p, [task EXCEPT !.state = "judge-evaluating"], FALSE)
    <2> DEFINE t == [task EXCEPT !.state = "judge-evaluating"]
    <2>1. /\ t \in Task /\ t.state = "judge-evaluating"
          /\ t.chips = task.chips /\ t.round = task.round /\ t.limit = task.limit
      BY <1>1 DEF Task, States, Active
    <2>2. VerdictPass(p, t, FALSE)
      BY <1>4
    <2> HIDE DEF t
    <2> QED
      BY <1>2, <1>4, <2>1, <2>2, PassCounts
  <1>5. CASE Current(p) /\ Evaluation(p, [task EXCEPT !.state = "running", !.nudged = FALSE])
    <2> DEFINE t == [task EXCEPT !.state = "running", !.nudged = FALSE]
    <2>1. /\ t \in Task
          /\ t.chips = task.chips /\ t.round = task.round /\ t.limit = task.limit
      BY <1>1 DEF Task, States, Active
    <2>2. Evaluation(p, t)
      BY <1>5
    <2> HIDE DEF t
    <2> QED
      BY <1>2, <1>5, <2>1, <2>2, EvaluationCounts
  <1>6. CASE Current(p) /\ Evaluation(p, task)
    BY <1>1, <1>2, <1>6, EvaluationCounts
  <1>7. CASE Inject(p, [op[p] EXCEPT !.at = "prompt"], "worker", task)
             /\ UNCHANGED <<task, guards>>
    <2>1. /\ \A q \in Ops \ {p} : Kept(op, op', q)
          /\ op'[p].kind = "reconcile" /\ op'[p].at = "prompt"
      BY <1>1, <1>7, Injects, PointsType DEF At, Sess
    <2> QED
      BY <1>7, <2>1, QuietStep DEF Quiet, guards
  <1> QED
    BY <1>3, <1>4, <1>5, <1>6, <1>7 DEF Reconcile

\* resetTask remembers the stage it was allowed in.
LEMMA ResetCounts == ASSUME IInv, Counted, NEW p \in Ops, Reset(p) PROVE Counted'
  <1>1. /\ New("reset", "lock", task) \in Op /\ task' = task /\ evaluating' = None
        /\ op' = [Fenced(op) EXCEPT ![p] = New("reset", "lock", task)]
        /\ task.state \in Finished \cup {"paused"}
    BY News DEF IInv, TypeOK, IsNew, Reset, Advance, ClearGuards
  <1>2. op'[p] = New("reset", "lock", task) /\ \A q \in Ops \ {p} : Kept(op, op', q)
    BY <1>1, Advances
  <1>3. op'[p].kind = "reset" /\ op'[p].expect = task.state
    BY <1>2, NewFields
  <1>4. Stage(p)' /\ ~Rejects(op'[p])
    BY <1>1, <1>3 DEF Stage, Rejects
  <1> QED
    BY <1>1, <1>2, <1>4, CountOne DEF Counted, Guarded

\* Its destructive part clears rounds and chips together.
LEMMA ResetDoneCounts == ASSUME IInv, Counted, NEW p \in Ops, ResetDone(p) PROVE Counted'
  <1>1. CASE op' = Done(p) /\ UNCHANGED <<task, evaluating>>
    BY <1>1, Ends1, QuietStep
  <1>2. CASE /\ task' = [task EXCEPT !.state = "idle", !.round = 0, !.chips = <<>>,
                           !.sent = FALSE, !.from = "", !.resume = FALSE, !.shower = 0]
             /\ op' = [q \in Ops |-> [Done(p)[q] EXCEPT !.live = FALSE]]
             /\ evaluating' = None
    <2>1. task'.chips = <<>> /\ task'.round = 0 /\ task'.limit = task.limit
      BY <1>2 DEF IInv, TypeOK, Task
    <2>2. Whole(task')
      <3>1. task.limit \in Nat
        BY DEF IInv, TypeOK, Task
      <3> QED
        BY <2>1, <3>1 DEF Counted, Whole, Rounds
    <2>3. ASSUME NEW q \in Ops PROVE Kept(op, op', q) \/ Quiet(op'[q])
      <3>1. Done(p)[q] \in Op /\ (Done(p)[q] = op[q] \/ Done(p)[q] = Free)
        BY DoneType DEF IInv, TypeOK
      <3> DEFINE o == Done(p)[q]
      <3>2. op'[q] = [o EXCEPT !.live = FALSE]
        BY <1>2
      <3> HIDE DEF o
      <3>3. Same(o, op'[q])
        BY <3>1, <3>2, Edits DEF o
      <3> QED
        BY <3>1, <3>3, FreeType DEF Same, Kept, Quiet, o
    <2> QED
      BY <1>2, <2>1, <2>2, <2>3, CountQuiet DEF Guarded
  <1> QED
    BY <1>1, <1>2 DEF ResetDone

\* Send back remembers the task as it is, and the others are fenced.
LEMMA RejectCounts == ASSUME IInv, Counted, NEW p \in Ops, Reject(p) PROVE Counted'
  <1> DEFINE n == New("reject", "lock", task)
             o == [n EXCEPT !.snap = task]
  <1>1. task' = task /\ evaluating' = None /\ op' = [Fenced(op) EXCEPT ![p] = o]
        /\ task.state \in Finished /\ task \in Task
    BY DEF IInv, TypeOK, Reject
  <1>2. n \in Op
    BY <1>1, News DEF IsNew
  <1>3. n.kind = "reject" /\ n.at = "lock" /\ n.round = task.round /\ n.expect = task.state
    BY NewFields
  <1> HIDE DEF n
  <1>4. /\ o \in Op /\ o.kind = "reject" /\ o.at = "lock" /\ o.round = task.round
        /\ o.expect = task.state /\ o.snap = task
    BY <1>1, <1>2, <1>3 DEF Op
  <1> HIDE DEF o
  <1>5. op'[p] = o /\ \A q \in Ops \ {p} : Kept(op, op', q) /\ ~op'[q].epoch
    BY <1>1, <1>4, Advances
  <1>6. Stage(p)'
    BY <1>1, <1>4, <1>5 DEF Counted, Stage
  <1> QED
    BY <1>1, <1>5, <1>6, CountOne DEF Counted, Guarded

\* It opens exactly the next round.
LEMMA ReopenedWhole ==
  ASSUME NEW t \in Task, Whole(t)
  PROVE  /\ Whole(Reopened(t)) /\ Reopened(t).round = t.round + 1
         /\ Reopened(t).limit = Raised(t) /\ Reopened(t).state = "running"
  <1> DEFINE cs == EnsureRunningRound(Mark(t.chips, "re-prompted"), t.round + 1)
  <1>1. t.chips \in Seq(Chip) /\ t.round \in Nat /\ t.limit \in Nat
    BY DEF Task
  <1>2. Rounds(cs, t.round + 1)
    BY <1>1, Opened DEF Whole
  <1>3. /\ Reopened(t).chips = cs /\ Reopened(t).round = t.round + 1
        /\ Reopened(t).limit = Raised(t) /\ Reopened(t).state = "running"
    BY DEF Reopened, Raised, Task
  <1> HIDE DEF cs
  <1> QED
    BY <1>1, <1>2, <1>3 DEF Whole, Raised

\* Once WORK_LOCK is back, Send back is one round on, with the limit raised.
LEMMA RejectLockCounts == ASSUME IInv, Counted, NEW p \in Ops, RejectLock(p) PROVE Counted'
  <1>1. At(p, "reject", "lock") /\ evaluating' = evaluating
    BY DEF RejectLock
  <1>2. CASE op' = Done(p) /\ UNCHANGED task
    BY <1>1, <1>2, Ends1, QuietStep
  <1>3. CASE /\ Current(p) /\ task' = Reopened(task)
             /\ Inject(p, [New("reject", "prompt", Reopened(task)) EXCEPT !.snap = op[p].snap],
                       "worker", Reopened(task))
    <2> DEFINE t == Reopened(task)
               n == New("reject", "prompt", t)
               o == [n EXCEPT !.snap = op[p].snap]
    <2>1. /\ t \in Task /\ Whole(t) /\ t.round = task.round + 1
          /\ t.limit = Raised(task) /\ t.state = "running"
      BY ReopenedType, ReopenedWhole DEF IInv, TypeOK, Counted
    <2>2. /\ op[p].snap \in Task /\ Whole(op[p].snap) /\ task.state \in Finished
          /\ op[p].epoch /\ task.round = op[p].snap.round /\ task.limit = op[p].snap.limit
      BY <1>1, <1>3 DEF IInv, Fine, Counted, Stage, Current, At
    <2> HIDE DEF t
    <2>3. n \in Op
      BY <2>1, News DEF IsNew
    <2>4. /\ n.kind = "reject" /\ n.at = "prompt" /\ n.round = t.round
          /\ n.expect = t.state
      BY NewFields
    <2> HIDE DEF n
    <2>5. /\ o \in Op /\ o.kind = "reject" /\ o.at = "prompt" /\ o.round = t.round
          /\ o.expect = t.state /\ o.snap = op[p].snap
      BY <2>2, <2>3, <2>4 DEF Op
    <2>6. Inject(p, o, "worker", t) /\ task' = t
      BY <1>3 DEF n, t
    <2> HIDE DEF o
    <2>7. /\ \A q \in Ops \ {p} : Kept(op, op', q)
          /\ op'[p].kind = o.kind /\ op'[p].at = o.at /\ op'[p].expect = o.expect
          /\ op'[p].round = o.round /\ op'[p].snap = o.snap
      BY <2>1, <2>5, <2>6, InjectType DEF IInv, TypeOK, Sess
    <2>8. task.limit \in Nat /\ task.round \in Nat /\ \A q \in Ops : op[q].round \in Nat
      BY DEF IInv, TypeOK, Task, Op
    <2>9. ASSUME NEW q \in Ops \ {p} PROVE Stage(q)' /\ (Rejects(op'[q]) => Rejects(op[q]))
      <3>1. ~Rejects(op[q])
        BY <1>1, <2>2 DEF Counted, OneReject, Rejects, At
      <3>2. task.limit <= task'.limit
        BY <2>1, <2>6, <2>8 DEF Raised
      <3>3. Kept(op, op', q)
        BY <2>7
      <3>4. op'[q].epoch => op'[q].round = op[q].round
        BY <3>3 DEF Kept
      <3>5. op'[q].epoch /\ op'[q].kind = "verdict" /\ op'[q].at \in {"lock", "feedback"} =>
              op'[q].round < task'.limit
        <4>1. task'.limit \in Nat
          BY <2>1, <2>6 DEF Task
        <4>2. SUFFICES ASSUME op'[q].epoch, op'[q].kind = "verdict",
                              op'[q].at \in {"lock", "feedback"}
                       PROVE  op'[q].round < task'.limit
          OBVIOUS
        <4>3. op[q].round < task.limit
          BY <3>3, <4>2 DEF Counted, Stage, Kept
        <4> QED
          BY <2>8, <3>2, <3>4, <4>1, <4>2, <4>3
      <3> QED
        BY <3>1, <3>3, <3>5 DEF Counted, Stage, Kept, Rejects
    <2>10. Stage(p)'
      BY <2>1, <2>2, <2>5, <2>6, <2>7 DEF Stage, Raised
    <2>11. Guarded'
      BY <1>1, <2>2 DEF Counted, Guarded, Phases, Finished
    <2>12. OneReject'
      BY <1>1, <2>2, <2>9 DEF Counted, OneReject, Rejects, At
    <2> QED
      BY <2>1, <2>6, <2>9, <2>10, <2>11, <2>12 DEF Counted
  <1> QED
    BY <1>2, <1>3 DEF RejectLock

\* A deferred Send back gives up its guard and remembers what it did.
LEMMA RejectDeferredCounts ==
  ASSUME IInv, Counted, NEW p \in Ops, RejectDeferred(p)
  PROVE  Counted'
  <1> DEFINE o == [op[p] EXCEPT !.note = TRUE]
  <1>1. Same(op[p], o)
    BY Edits DEF IInv, TypeOK
  <1>2. op' = [op EXCEPT ![p] = o]
    BY DEF RejectDeferred
  <1> HIDE DEF o
  <1>3. \A q \in Ops : Kept(op, op', q)
    BY <1>1, <1>2 DEF IInv, TypeOK, Same, Kept
  <1> QED
    BY <1>3, QuietStep DEF RejectDeferred

\* Undoing it meets the round it opened.
LEMMA UndoneRound ==
  ASSUME IInv, Counted, NEW p \in Ops, At(p, "reject", "prompt"), Undoable(p)
  PROVE  /\ op[p].epoch /\ task.state = "running" /\ task.round = op[p].snap.round + 1
         /\ task.limit = Raised(op[p].snap)
         /\ op[p].snap \in Task /\ Whole(op[p].snap) /\ op[p].snap.state \in Finished
  BY DEF IInv, Fine, Counted, Stage, Undoable, Current, At

\* A Send back that could not be delivered takes exactly its own round back.
LEMMA RejectPromptedCounts ==
  ASSUME IInv, Counted, NEW p \in Ops, RejectPrompted(p)
  PROVE  Counted'
  <1>1. At(p, "reject", "prompt")
    BY DEF RejectPrompted
  <1>2. CASE Undoable(p) /\ Halt(RolledBack(op[p].snap), Done(p))
    <2>1. Whole(RolledBack(op[p].snap))
      BY <1>1, <1>2, UndoneRound, RolledBackWhole DEF IInv, Counted
    <2> QED
      BY <1>2, <2>1, DoneOthers, Halted
  <1>3. CASE op' = Done(p) /\ UNCHANGED <<task, evaluating>>
    BY <1>3, Ends1, QuietStep
  <1> QED
    BY <1>2, <1>3 DEF RejectPrompted

\* Resend, and the end of an injection nobody waits for, count nothing.
LEMMA ResendCounts ==
  ASSUME IInv, Counted, NEW p \in Ops, NEW s \in Sess, Resend(p, s)
  PROVE  Counted'
  <1> DEFINE o == New("send", "prompt", task)
  <1>1. o \in Op /\ o.kind = "send" /\ Inject(p, o, s, task) /\ task \in Task
        /\ UNCHANGED <<task, guards>>
    BY News DEF IInv, TypeOK, IsNew, Resend
  <1> HIDE DEF o
  <1>2. op'[p].kind = "send" /\ \A q \in Ops \ {p} : Kept(op, op', q)
    BY <1>1, InjectType DEF IInv, TypeOK
  <1> QED
    BY <1>1, <1>2, QuietStep DEF Quiet, guards

\* An injection nobody waits for ends.
LEMMA SentCounts == ASSUME IInv, Counted, NEW p \in Ops, Sent(p) PROVE Counted'
  BY Ends1, QuietStep DEF Sent, guards

\* The Worker's first prompt: the chip of the round it is in.
LEMMA WorkerReadyCounts == ASSUME IInv, Counted, NEW p \in Ops, WorkerReady(p) PROVE Counted'
  <1> DEFINE cs == EnsureRunningRound(task.chips, task.round)
             t == [task EXCEPT !.sent = TRUE, !.resume = FALSE, !.chips = cs]
             o == New("send", "prompt", t)
  <1>1. task.chips \in Seq(Chip) /\ task.round \in Nat
    BY DEF IInv, TypeOK, Task
  <1>2. cs \in Seq(Chip) /\ Rounds(cs, task.round)
    BY <1>1, Ensured DEF Counted, Whole
  <1>3. task' = t /\ Inject(p, o, "worker", t) /\ UNCHANGED guards
    BY DEF WorkerReady
  <1> HIDE DEF cs
  <1>4. /\ t \in Task /\ t.chips = cs /\ t.round = task.round /\ t.limit = task.limit
        /\ t.state = task.state
    BY <1>2 DEF IInv, TypeOK, Task
  <1> HIDE DEF t
  <1>5. o \in Op /\ o.kind = "send"
    BY <1>4, News DEF IsNew
  <1> HIDE DEF o
  <1>6. op'[p].kind = "send" /\ \A q \in Ops \ {p} : Kept(op, op', q)
    BY <1>3, <1>4, <1>5, InjectType DEF IInv, TypeOK, Sess
  <1>7. Whole(task') /\ Guarded'
    BY <1>2, <1>3, <1>4 DEF Counted, Whole, Guarded, guards
  <1> QED
    BY <1>3, <1>4, <1>6, <1>7, CountQuiet DEF Quiet

\* The Worker's idle begins an evaluation of the round it is in.
LEMMA WorkerIdleCounts == ASSUME IInv, Counted, NEW p \in Ops, WorkerIdle(p) PROVE Counted'
  <1>1. Evaluation(p, task) /\ task \in Task /\ task.state = "running"
    BY DEF IInv, TypeOK, WorkerIdle
  <1> QED
    BY <1>1, EvaluationCounts

\* The chip of a step in the same round.
LEMMA MarkedWhole ==
  ASSUME IInv, Counted, NEW a \in Actions, NEW b \in BOOLEAN,
         task' \in Task, task'.round = task.round, task'.limit = task.limit,
         \/ task'.chips = Mark(task.chips, a)
         \/ task'.chips = Judged(task.chips, b)
         \/ task'.chips = task.chips
  PROVE  Whole(task')
  <1>1. task \in Task /\ task.chips \in Seq(Chip)
    BY DEF IInv, TypeOK, Task
  <1>2. SameRounds(task.chips, task'.chips)
    BY <1>1, Rewritten DEF SameRounds
  <1> QED
    BY <1>1, <1>2, WholeRewritten DEF Counted

\* An evaluation that ends, moving the task on or not: it held the guard if it moved it.
LEMMA EvalEnds ==
  ASSUME IInv, Counted, NEW p \in Ops, op[p].kind = "evaluate", EndEval(p), Whole(task'),
         task'.limit = task.limit, task'.state = task.state \/ CurrentRun(p)
  PROVE  Counted'
  <1>1. \A q \in Ops : Kept(op, op', q) \/ Quiet(op'[q])
    BY Ends1 DEF EndEval
  <1>2. Guarded'
    <2>1. CASE task'.state = task.state
      BY <2>1 DEF Counted, Guarded, EndEval, Release
    <2>2. CASE CurrentRun(p)
      BY <2>2 DEF IInv, Fine, CurrentRun, Current, Guarded, EndEval, Release
    <2> QED
      BY <2>1, <2>2
  <1> QED
    BY <1>1, <1>2, CountQuiet

\* One that goes on injecting, where it expects a phase the next point allows.
LEMMA EvalInjects ==
  ASSUME IInv, Counted, NEW p \in Ops, op[p].kind = "evaluate", CurrentRun(p),
         NEW a \in {"judge", "prompt"}, NEW s \in Sess,
         Inject(p, [op[p] EXCEPT !.at = a], s, task),
         a = "judge" => op[p].at = "clear",
         Whole(task'), task'.limit = task.limit, task'.state = task.state,
         evaluating' = evaluating
  PROVE  Counted'
  <1>1. a \in Points /\ task \in Task
    BY PointsType DEF IInv, TypeOK
  <1>2. /\ \A q \in Ops \ {p} : Kept(op, op', q)
        /\ op'[p].kind = "evaluate" /\ op'[p].at = a /\ op'[p].epoch = op[p].epoch
        /\ op'[p].expect = op[p].expect
    BY <1>1, Injects
  <1>3. Stage(p)' /\ ~Rejects(op'[p])
    BY <1>2 DEF Counted, Stage, Rejects, Phases
  <1>4. Guarded'
    BY DEF Counted, Guarded
  <1> QED
    BY <1>2, <1>3, <1>4, CountOne

\* An evaluation's recheck passes in one of its phases.
LEMMA EvaluationPhase ==
  ASSUME IInv, Counted, NEW p \in Ops, op[p].kind = "evaluate", CurrentRun(p)
  PROVE  /\ task.state \in Phases /\ evaluating = p
         /\ op[p].at \in {"checks", "clear", "judge"} => task.state = "evaluating"
  BY DEF IInv, Fine, Counted, Stage, CurrentRun, Current, Phases

\* The checks mark the chip of the round.
LEMMA EvalChecksCounts == ASSUME IInv, Counted, NEW p \in Ops, EvalChecks(p) PROVE Counted'
  <1>1. At(p, "evaluate", "checks") /\ op[p] \in Op /\ task \in Task
        /\ op[p].kind = "evaluate" /\ op[p].at = "checks"
    BY DEF EvalChecks, At, IInv, TypeOK
  <1>2. CASE EndEval(p) /\ UNCHANGED task
    BY <1>1, <1>2, EvalEnds DEF Counted
  <1>3. CASE /\ CurrentRun(p) /\ task' = [task EXCEPT !.chips = Mark(@, "judge-requested")]
             /\ op' = [op EXCEPT ![p].at = "clear"] /\ UNCHANGED evaluating
    <2>1. Mark(task.chips, "judge-requested") \in Seq(Chip)
      BY <1>1, MarkType, ActionsType DEF Task
    <2>2. /\ task' \in Task /\ task'.chips = Mark(task.chips, "judge-requested")
          /\ task'.round = task.round /\ task'.limit = task.limit /\ task'.state = task.state
      BY <1>1, <1>3, <2>1 DEF Task
    <2>3. Whole(task')
      BY <2>2, MarkedWhole, ActionsType
    <2>4. /\ \A q \in Ops \ {p} : Kept(op, op', q)
          /\ op'[p].kind = "evaluate" /\ op'[p].at = "clear" /\ op'[p].epoch = op[p].epoch
          /\ op'[p].expect = op[p].expect
      BY <1>1, <1>3, Moves, PointsType
    <2>5. Stage(p)' /\ ~Rejects(op'[p])
      BY <1>1, <2>4 DEF Counted, Stage, Rejects
    <2>6. Guarded'
      BY <1>3, <2>2 DEF Counted, Guarded
    <2> QED
      BY <2>2, <2>3, <2>4, <2>5, <2>6, CountOne
  <1>4. CASE /\ CurrentRun(p)
             /\ task' = [task EXCEPT !.state = "refreshing", !.chips = Mark(@, "shower")]
             /\ Inject(p, [op[p] EXCEPT !.at = "handoff", !.expect = "refreshing"],
                       "worker", [task EXCEPT !.state = "refreshing", !.chips = Mark(@, "shower")])
    <2> DEFINE t == [task EXCEPT !.state = "refreshing", !.chips = Mark(@, "shower")]
               o == [op[p] EXCEPT !.at = "handoff", !.expect = "refreshing"]
    <2>1. Mark(task.chips, "shower") \in Seq(Chip)
      BY <1>1, MarkType, ActionsType DEF Task
    <2>2. /\ t \in Task /\ t.state = "refreshing" /\ t.chips = Mark(task.chips, "shower")
          /\ t.round = task.round /\ t.limit = task.limit
      BY <1>1, <2>1 DEF Task, States, Active
    <2>3. /\ o \in Op /\ o.kind = "evaluate" /\ o.at = "handoff" /\ o.expect = "refreshing"
      <3>1. "handoff" \in Points /\ "refreshing" \in States
        BY PointsType DEF States, Active
      <3> QED
        BY <1>1, <3>1 DEF Op
    <2>4. Inject(p, o, "worker", t) /\ task' = t
      BY <1>4
    <2> HIDE DEF o, t
    <2>5. /\ \A q \in Ops \ {p} : Kept(op, op', q)
          /\ op'[p].kind = "evaluate" /\ op'[p].at = "handoff" /\ op'[p].expect = "refreshing"
      BY <2>2, <2>3, <2>4, InjectType DEF IInv, TypeOK, Sess
    <2>6. Stage(p)' /\ ~Rejects(op'[p])
      BY <2>5 DEF Stage, Rejects, Phases
    <2>7. Whole(task')
      BY <2>2, <2>4, MarkedWhole, ActionsType
    <2>8. Guarded'
      BY <2>2, <2>4 DEF Guarded, Phases
    <2> QED
      BY <2>2, <2>4, <2>5, <2>6, <2>7, <2>8, CountOne
  <1>5. CASE /\ CurrentRun(p) /\ Inject(p, [op[p] EXCEPT !.at = "prompt"], "worker", task)
             /\ UNCHANGED <<task, evaluating>>
    BY <1>1, <1>5, EvalInjects DEF Counted, Sess
  <1> QED
    BY <1>2, <1>3, <1>4, <1>5 DEF EvalChecks

\* verdict.json is cleared and the Judge is asked.
LEMMA EvalClearCounts == ASSUME IInv, Counted, NEW p \in Ops, EvalClear(p) PROVE Counted'
  <1>1. op[p].kind = "evaluate" /\ op[p].at = "clear" /\ task \in Task
    BY DEF EvalClear, At, IInv, TypeOK
  <1>2. CASE EndEval(p) /\ UNCHANGED task
    BY <1>1, <1>2, EvalEnds DEF Counted
  <1>3. CASE /\ CurrentRun(p) /\ task' = [task EXCEPT !.nudged = FALSE]
             /\ Inject(p, [op[p] EXCEPT !.at = "judge"], "judge", task) /\ UNCHANGED evaluating
    <2>1. /\ task'.chips = task.chips /\ task'.round = task.round
          /\ task'.limit = task.limit /\ task'.state = task.state
      BY <1>1, <1>3 DEF Task
    <2>2. Whole(task')
      BY <2>1, WholeKept DEF Counted
    <2> QED
      BY <1>1, <1>3, <2>1, <2>2, EvalInjects DEF Sess
  <1> QED
    BY <1>2, <1>3 DEF EvalClear

\* A failed evaluation pauses the task or ends.
LEMMA EvalErrorCounts ==
  ASSUME IInv, Counted, NEW p \in Ops, op[p].kind = "evaluate", EvalError(p)
  PROVE  Counted'
  <1> DEFINE t == [task EXCEPT !.state = "paused", !.from = "evaluating"]
  <1>1. CASE Halt(t, Done(p))
    <2>1. t.chips = task.chips /\ t.round = task.round /\ t.limit = task.limit
      BY DEF IInv, TypeOK, Task
    <2> HIDE DEF t
    <2>2. Whole(t)
      BY <2>1 DEF Counted, Whole
    <2> QED
      BY <1>1, <2>2, DoneOthers, Halted
  <1>2. CASE EndEval(p) /\ UNCHANGED task
    BY <1>2, EvalEnds DEF Counted
  <1> QED
    BY <1>1, <1>2 DEF EvalError

\* The Judge has its prompt, or the Worker its re-prompt: the same round.
LEMMA EvalPromptedCounts ==
  ASSUME IInv, Counted, NEW p \in Ops, EvalPrompted(p)
  PROVE  Counted'
  <1>1. op[p].kind = "evaluate" /\ task \in Task
    BY DEF EvalPrompted, IInv, TypeOK
  <1>2. CASE EvalError(p)
    BY <1>1, <1>2, EvalErrorCounts
  <1>3. CASE EndEval(p) /\ task' = task
    BY <1>1, <1>3, EvalEnds DEF Counted
  <1>4. ASSUME NEW a \in Actions, NEW x \in States, CurrentRun(p), EndEval(p),
               task' = [task EXCEPT !.state = x, !.chips = Mark(@, a)]
        PROVE  Counted'
    <2>1. Mark(task.chips, a) \in Seq(Chip)
      BY <1>1, MarkType DEF Task
    <2>2. /\ task' \in Task /\ task'.chips = Mark(task.chips, a)
          /\ task'.round = task.round /\ task'.limit = task.limit
      BY <1>1, <1>4, <2>1 DEF Task
    <2>3. Whole(task')
      BY <2>2, MarkedWhole
    <2> QED
      BY <1>1, <1>4, <2>2, <2>3, EvalEnds
  <1>5. CASE /\ CurrentRun(p) /\ EndEval(p)
             /\ task' = [task EXCEPT !.state = "judge-evaluating",
                                     !.chips = Mark(@, "judge-requested")]
    BY <1>4, <1>5, ActionsType DEF States, Active
  <1>6. CASE /\ CurrentRun(p) /\ EndEval(p)
             /\ task' = [task EXCEPT !.state = "running", !.chips = Mark(@, "running")]
    BY <1>4, <1>6, ActionsType DEF States, Active
  <1> QED
    BY <1>2, <1>3, <1>5, <1>6 DEF EvalPrompted

\* The shower stays in its round up to the restart.
LEMMA ShowerCounts == ASSUME IInv, Counted, NEW p \in Ops, Shower(p) PROVE Counted'
  <1>1. op[p].kind = "evaluate" /\ op[p].at = "handoff" /\ op[p] \in Op
    BY DEF Shower, At, IInv, TypeOK
  <1>2. CASE EvalError(p)
    BY <1>1, <1>2, EvalErrorCounts
  <1>3. CASE EndEval(p) /\ UNCHANGED task
    BY <1>1, <1>3, EvalEnds DEF Counted
  <1>4. CASE CurrentRun(p) /\ Fallback(p) /\ UNCHANGED <<task, guards>>
    BY <1>1, <1>4, EvalInjects DEF Counted, Fallback, Sess, guards
  <1>5. CASE /\ op' = [Drop(op, "worker") EXCEPT
                         ![p] = [op[p] EXCEPT !.at = "restart", !.sess = "none",
                                              !.live = FALSE]]
             /\ UNCHANGED <<task, guards>>
    <2> DEFINE o == [op[p] EXCEPT !.at = "restart", !.sess = "none", !.live = FALSE]
    <2>1. /\ o \in Op /\ o.kind = "evaluate" /\ o.epoch = op[p].epoch
          /\ o.at = "restart" /\ o.expect = op[p].expect
      BY <1>1, PointsType DEF Op
    <2>2. op' = [Drop(op, "worker") EXCEPT ![p] = o] /\ "worker" \in Sess
      BY <1>5 DEF Sess
    <2> HIDE DEF o
    <2>3. op'[p] = o /\ \A q \in Ops \ {p} : Kept(op, op', q)
      BY <2>1, <2>2, RestartType DEF IInv
    <2>4. Stage(p)' /\ ~Rejects(op'[p])
      BY <1>1, <2>1, <2>3 DEF Counted, Stage, Rejects
    <2> QED
      BY <1>5, <2>3, <2>4, CountOne DEF Counted, Guarded, guards
  <1> QED
    BY <1>2, <1>3, <1>4, <1>5 DEF Shower

\* After the shower the Worker goes on with the same round.
LEMMA ShowerDoneCounts == ASSUME IInv, Counted, NEW p \in Ops, ShowerDone(p) PROVE Counted'
  <1>1. op[p].kind = "evaluate" /\ task \in Task
    BY DEF ShowerDone, At, IInv, TypeOK
  <1>2. CASE EndEval(p) /\ UNCHANGED task
    BY <1>1, <1>2, EvalEnds DEF Counted
  <1>3. CASE /\ CurrentRun(p) /\ EndEval(p)
             /\ task' = [task EXCEPT !.state = "running", !.chips = Mark(@, "running"),
                           !.resume = TRUE, !.shower = task.round, !.sent = FALSE]
    <2>1. Mark(task.chips, "running") \in Seq(Chip)
      BY <1>1, MarkType, ActionsType DEF Task
    <2>2. /\ task' \in Task /\ task'.chips = Mark(task.chips, "running")
          /\ task'.round = task.round /\ task'.limit = task.limit
      BY <1>1, <1>3, <2>1 DEF Task, States, Active
    <2>3. Whole(task')
      BY <2>2, MarkedWhole, ActionsType
    <2> QED
      BY <1>1, <1>3, <2>2, <2>3, EvalEnds
  <1>4. CASE CurrentRun(p) /\ Fallback(p) /\ UNCHANGED <<task, evaluating>>
    BY <1>1, <1>4, EvalInjects DEF Counted, Fallback, Sess
  <1> QED
    BY <1>2, <1>3, <1>4 DEF ShowerDone

\* The Judge's recovery prompt counts nothing.
LEMMA JudgeReadyCounts == ASSUME IInv, Counted, NEW p \in Ops, JudgeReady(p) PROVE Counted'
  <1> DEFINE t == [task EXCEPT !.resume = FALSE]
             o == New("send", "prompt", t)
  <1>1. /\ t \in Task /\ t.chips = task.chips /\ t.round = task.round
        /\ t.limit = task.limit /\ t.state = task.state
    BY DEF IInv, TypeOK, Task
  <1>2. task' = t /\ Inject(p, o, "judge", t) /\ UNCHANGED guards
    BY DEF JudgeReady
  <1> HIDE DEF t
  <1>3. o \in Op /\ o.kind = "send"
    BY <1>1, News DEF IsNew
  <1> HIDE DEF o
  <1>4. op'[p].kind = "send" /\ \A q \in Ops \ {p} : Kept(op, op', q)
    BY <1>1, <1>2, <1>3, InjectType DEF IInv, TypeOK, Sess
  <1> QED
    BY <1>1, <1>2, <1>4, QuietStep DEF Quiet, guards

\* The Judge's idle begins a pass over its verdict.
LEMMA JudgeIdleCounts ==
  ASSUME IInv, Counted, NEW p \in Ops, NEW idleOnly \in BOOLEAN, JudgeIdle(p, idleOnly)
  PROVE  Counted'
  <1>1. VerdictPass(p, task, idleOnly) /\ task \in Task /\ task.state = "judge-evaluating"
    BY DEF JudgeIdle, IInv, TypeOK
  <1> QED
    BY <1>1, PassCounts

\* A pass whose recheck passes meets the Judge's turn.
LEMMA VerdictPhase ==
  ASSUME IInv, Counted, NEW p \in Ops, op[p].kind = "verdict", Current(p)
  PROVE  /\ task.state = "judge-evaluating" /\ op[p].epoch /\ op[p].round = task.round
         /\ op[p].at \in {"lock", "feedback"} => task.round < task.limit
  BY DEF Counted, Stage, Current

\* A pass that ends and does not move the task; a replayed one expects the same turn.
LEMMA VerdictEndsCounts ==
  ASSUME IInv, Counted, NEW p \in Ops, op[p].kind = "verdict", EndVerdict(p),
         UNCHANGED <<task, evaluating>>
  PROVE  Counted'
  <1>1. CASE op' = Done(p)
    BY <1>1, Ends1, QuietStep
  <1>2. CASE Current(p) /\ op'[p] = New("verdict", "read", task)
    <2>1. task.state = "judge-evaluating"
      BY <1>2, VerdictPhase
    <2>2. op'[p].kind = "verdict" /\ op'[p].at = "read" /\ op'[p].expect = "judge-evaluating"
      BY <1>2, <2>1, NewFields
    <2>3. Stage(p)' /\ ~Rejects(op'[p])
      BY <2>2 DEF Stage, Rejects
    <2>4. \A q \in Ops \ {p} : Kept(op, op', q)
      BY PassEnds
    <2> QED
      BY <2>3, <2>4, CountOne DEF Counted, Guarded
  <1> QED
    BY <1>1, <1>2, PassEnds

\* A pass that goes on in the same round.
LEMMA VerdictGoesOn ==
  ASSUME IInv, Counted, NEW p \in Ops, op[p].kind = "verdict",
         \A q \in Ops \ {p} : Kept(op, op', q),
         op'[p].kind = "verdict", op'[p].epoch = op[p].epoch,
         op'[p].expect = op[p].expect, op'[p].round = op[p].round,
         op'[p].at \in {"lock", "feedback"} => op[p].round < task.limit,
         Whole(task'), task'.limit = task.limit, task'.state = task.state,
         evaluating' = evaluating
  PROVE  Counted'
  <1>1. Stage(p)' /\ ~Rejects(op'[p])
    BY DEF Counted, Stage, Rejects
  <1>2. Guarded'
    BY DEF Counted, Guarded
  <1> QED
    BY <1>1, <1>2, CountOne

\* A pass that pauses the task.
LEMMA PauseCounts ==
  ASSUME IInv, Counted, NEW p \in Ops,
         Halt([task EXCEPT !.state = "paused", !.from = "judge-evaluating"], Done(p))
  PROVE  Counted'
  <1> DEFINE t == [task EXCEPT !.state = "paused", !.from = "judge-evaluating"]
  <1>1. t.chips = task.chips /\ t.round = task.round /\ t.limit = task.limit /\ Halt(t, Done(p))
    BY DEF IInv, TypeOK, Task
  <1> HIDE DEF t
  <1>2. Whole(t)
    BY <1>1 DEF Counted, Whole
  <1> QED
    BY <1>1, <1>2, DoneOthers, Halted

\* A missing verdict is waited for, reminded of or paused on.
LEMMA VerdictMissingCounts ==
  ASSUME IInv, Counted, NEW p \in Ops, At(p, "verdict", "read"), CurrentRun(p),
         VerdictMissing(p)
  PROVE  Counted'
  <1>1. op[p].kind = "verdict" /\ task \in Task
    BY DEF At, IInv, TypeOK
  <1>2. CASE EndVerdict(p) /\ UNCHANGED <<task, evaluating>>
    BY <1>1, <1>2, VerdictEndsCounts
  <1>3. CASE /\ task' = [task EXCEPT !.nudged = TRUE]
             /\ Inject(p, [op[p] EXCEPT !.at = "nudge"], "judge", task)
             /\ UNCHANGED guards
    <2>1. /\ task'.chips = task.chips /\ task'.round = task.round
          /\ task'.limit = task.limit /\ task'.state = task.state
      BY <1>1, <1>3 DEF Task
    <2>2. Whole(task')
      BY <2>1, WholeKept DEF Counted
    <2>3. /\ \A q \in Ops \ {p} : Kept(op, op', q)
          /\ op'[p].kind = "verdict" /\ op'[p].at = "nudge" /\ op'[p].epoch = op[p].epoch
          /\ op'[p].expect = op[p].expect /\ op'[p].round = op[p].round
      BY <1>1, <1>3, Injects, PointsType DEF Sess
    <2> QED
      BY <1>1, <1>3, <2>1, <2>2, <2>3, VerdictGoesOn DEF guards
  <1>4. CASE Halt([task EXCEPT !.state = "paused", !.from = "judge-evaluating"], Done(p))
    BY <1>4, PauseCounts
  <1> QED
    BY <1>2, <1>3, <1>4 DEF VerdictMissing

\* The last chip tells how the task ended.
LEMMA VerdictEndsTask ==
  ASSUME IInv, Counted, NEW p \in Ops, VerdictEnds(p)
  PROVE  Counted'
  <1> DEFINE end == IF verdict.says = "complete" THEN "completed" ELSE "failed"
             cs == Judged(task.chips, TRUE)
             ds == Mark(cs, end)
             t == [task EXCEPT !.state = end, !.chips = ds]
  <1>1. end \in Finished /\ end \in Actions
    BY ActionsType DEF Finished
  <1>2. Halt(t, Done(p))
    BY DEF VerdictEnds
  <1>3. task \in Task /\ task.chips \in Seq(Chip)
    BY DEF IInv, TypeOK, Task
  <1> HIDE DEF end
  <1>4. cs \in Seq(Chip) /\ SameRounds(task.chips, cs)
    BY <1>1, <1>3, JudgedType, Rewritten
  <1> HIDE DEF cs
  <1>5. ds \in Seq(Chip) /\ SameRounds(cs, ds)
    BY <1>1, <1>4, MarkType, Rewritten
  <1> HIDE DEF ds
  <1>6. SameRounds(task.chips, ds)
    BY <1>4, <1>5, RewrittenTwice
  <1>7. t \in Task /\ t.chips = ds /\ t.round = task.round /\ t.limit = task.limit
    BY <1>1, <1>3, <1>5 DEF Task, States, Finished
  <1> HIDE DEF t
  <1>8. Whole(t)
    BY <1>3, <1>6, <1>7, WholeRewritten DEF Counted
  <1> QED
    BY <1>2, <1>8, DoneOthers, Halted

\* The verdict is read: the limit it was read under is remembered.
LEMMA VerdictReadCounts ==
  ASSUME IInv, Counted, NEW p \in Ops, VerdictRead(p)
  PROVE  Counted'
  <1>1. At(p, "verdict", "read") /\ op[p].kind = "verdict" /\ task \in Task
    BY DEF VerdictRead, At, IInv, TypeOK
  <1>2. CASE EndVerdict(p) /\ UNCHANGED <<task, evaluating>>
    BY <1>1, <1>2, VerdictEndsCounts
  <1>3. CASE CurrentRun(p) /\ VerdictMissing(p)
    BY <1>1, <1>3, VerdictMissingCounts
  <1>4. CASE VerdictEnds(p)
    BY <1>4, VerdictEndsTask
  <1>5. CASE /\ CurrentRun(p) /\ task.round < task.limit
             /\ task' = [task EXCEPT !.chips = Judged(@, TRUE)]
             /\ op' = [op EXCEPT ![p].at = "lock"] /\ UNCHANGED guards
    <2>1. Judged(task.chips, TRUE) \in Seq(Chip)
      BY <1>1, JudgedType DEF Task
    <2>2. /\ task' \in Task /\ task'.chips = Judged(task.chips, TRUE)
          /\ task'.round = task.round /\ task'.limit = task.limit /\ task'.state = task.state
      BY <1>1, <1>5, <2>1 DEF Task
    <2>3. Whole(task')
      BY <2>2, MarkedWhole, ActionsType
    <2>4. /\ \A q \in Ops \ {p} : Kept(op, op', q)
          /\ op'[p].kind = "verdict" /\ op'[p].at = "lock" /\ op'[p].epoch = op[p].epoch
          /\ op'[p].expect = op[p].expect /\ op'[p].round = op[p].round
      BY <1>1, <1>5, Moves, PointsType
    <2>5. op[p].round = task.round
      BY <1>1, <1>5, VerdictPhase DEF CurrentRun
    <2> QED
      BY <1>1, <1>5, <2>2, <2>3, <2>4, <2>5, VerdictGoesOn DEF guards
  <1> QED
    BY <1>2, <1>3, <1>4, <1>5 DEF VerdictRead

\* The reminder is in or refused.
LEMMA NudgedCounts == ASSUME IInv, Counted, NEW p \in Ops, Nudged(p) PROVE Counted'
  <1>1. op[p].kind = "verdict"
    BY DEF Nudged, At
  <1>2. CASE Halt([task EXCEPT !.state = "paused", !.from = "judge-evaluating"], Done(p))
    BY <1>2, PauseCounts
  <1>3. CASE EndVerdict(p) /\ UNCHANGED <<task, evaluating>>
    BY <1>1, <1>3, VerdictEndsCounts
  <1> QED
    BY <1>2, <1>3 DEF Nudged

\* WORK_LOCK goes back before the Worker is told.
LEMMA VerdictLockCounts ==
  ASSUME IInv, Counted, NEW p \in Ops, VerdictLock(p)
  PROVE  Counted'
  <1>1. op[p].kind = "verdict" /\ op[p].at = "lock" /\ task \in Task
        /\ UNCHANGED <<task, evaluating>>
    BY DEF VerdictLock, At, IInv, TypeOK
  <1>2. CASE EndVerdict(p)
    BY <1>1, <1>2, VerdictEndsCounts
  <1>3. CASE CurrentRun(p) /\ Inject(p, [op[p] EXCEPT !.at = "feedback"], "worker", task)
    <2>1. /\ \A q \in Ops \ {p} : Kept(op, op', q)
          /\ op'[p].kind = "verdict" /\ op'[p].at = "feedback" /\ op'[p].epoch = op[p].epoch
          /\ op'[p].expect = op[p].expect /\ op'[p].round = op[p].round
      BY <1>1, <1>3, Injects, PointsType DEF Sess
    <2>2. op[p].round = task.round /\ task.round < task.limit
      BY <1>1, <1>3, VerdictPhase DEF CurrentRun
    <2> QED
      BY <1>1, <2>1, <2>2, VerdictGoesOn DEF Counted
  <1> QED
    BY <1>2, <1>3 DEF VerdictLock

\* The next round, below the limit the verdict was read under.
LEMMA NextRoundWhole ==
  ASSUME NEW t \in Task, Whole(t), t.round < t.limit
  PROVE  Whole(NextRound(t)) /\ NextRound(t).limit = t.limit
         /\ NextRound(t).round = t.round + 1 /\ NextRound(t).state = "running"
  <1> DEFINE cs == EnsureRunningRound(Mark(t.chips, "re-prompted"), t.round + 1)
  <1>1. t.chips \in Seq(Chip) /\ t.round \in Nat /\ t.limit \in Nat
    BY DEF Task
  <1>2. Rounds(cs, t.round + 1)
    BY <1>1, Opened DEF Whole
  <1>3. /\ NextRound(t).chips = cs /\ NextRound(t).round = t.round + 1
        /\ NextRound(t).limit = t.limit /\ NextRound(t).state = "running"
    BY DEF NextRound, Task
  <1> HIDE DEF cs
  <1> QED
    BY <1>1, <1>2, <1>3 DEF Whole

\* The round advances once, when the Worker has its feedback.
LEMMA VerdictPromptedCounts ==
  ASSUME IInv, Counted, NEW p \in Ops, VerdictPrompted(p)
  PROVE  Counted'
  <1>1. op[p].kind = "verdict" /\ op[p].at = "feedback"
    BY DEF VerdictPrompted, At
  <1>2. CASE Halt([task EXCEPT !.state = "paused", !.from = "judge-evaluating"], Done(p))
    BY <1>2, PauseCounts
  <1>3. CASE /\ CurrentRun(p) /\ task' = NextRound(task) /\ op' = Done(p)
             /\ UNCHANGED evaluating
    <2>1. task.round < task.limit /\ task.state = "judge-evaluating"
      BY <1>1, <1>3, VerdictPhase DEF CurrentRun
    <2>2. Whole(task') /\ task'.limit = task.limit
      BY <1>3, <2>1, NextRoundWhole DEF IInv, TypeOK, Counted
    <2>3. Guarded'
      BY <1>3, <2>1 DEF Counted, Guarded, Phases
    <2> QED
      BY <1>3, <2>2, <2>3, Ends1, CountQuiet
  <1>4. CASE EndVerdict(p) /\ UNCHANGED <<task, evaluating>>
    BY <1>1, <1>4, VerdictEndsCounts
  <1> QED
    BY <1>2, <1>3, <1>4 DEF VerdictPrompted

\* A dropout is restarted or pauses the task.
LEMMA DropoutCounts ==
  ASSUME IInv, Counted, NEW p \in Ops, NEW s \in Sess, Dropout(p, s)
  PROVE  Counted'
  <1>1. task \in Task /\ op \in [Ops -> Op]
    BY DEF IInv, TypeOK
  <1>2. CASE Halt([task EXCEPT !.state = "paused", !.from = task.state], op)
    <2> DEFINE t == [task EXCEPT !.state = "paused", !.from = task.state]
    <2>1. t.chips = task.chips /\ t.round = task.round /\ t.limit = task.limit /\ Halt(t, op)
      BY <1>1, <1>2 DEF Task
    <2> HIDE DEF t
    <2>2. Whole(t)
      BY <2>1 DEF Counted, Whole
    <2> QED
      BY <1>1, <2>1, <2>2, Halted DEF Kept
  <1>3. CASE /\ task' = [task EXCEPT !.resume = (s \in told), !.sent = @ /\ s # "worker"]
             /\ op' = [op EXCEPT ![p] = [New("dropout", "restart", task) EXCEPT
                                           !.note = (s = "judge")]]
             /\ UNCHANGED guards
    <2> DEFINE n == New("dropout", "restart", task)
               o == [n EXCEPT !.note = (s = "judge")]
               r == s \in told
               b == task.sent /\ s # "worker"
    <2>1. task' = [task EXCEPT !.resume = r, !.sent = b] /\ op' = [op EXCEPT ![p] = o]
      BY <1>3
    <2>2. n \in Op
      BY <1>1, News DEF IsNew
    <2>3. n.kind = "dropout"
      BY NewFields
    <2> HIDE DEF n
    <2>4. o.kind = "dropout"
      BY <2>2, <2>3 DEF Op
    <2> HIDE DEF o, r, b
    <2>5. /\ task'.chips = task.chips /\ task'.round = task.round
          /\ task'.limit = task.limit /\ task'.state = task.state
      BY <1>1, <2>1 DEF Task
    <2>6. op'[p].kind = "dropout" /\ \A q \in Ops \ {p} : Kept(op, op', q)
      BY <1>1, <2>1, <2>4 DEF Kept
    <2>7. "shell" \in Faults
      BY DEF Dropout
    <2> QED
      BY <1>3, <2>5, <2>6, <2>7, QuietStep DEF Quiet, guards
  <1> QED
    BY <1>2, <1>3 DEF Dropout

\* A restarted session only drops the injections it had.
LEMMA RestartedCounts == ASSUME IInv, Counted, NEW p \in Ops, Restarted(p) PROVE Counted'
  <1> DEFINE s == IF op[p].note THEN "judge" ELSE "worker"
  <1>1. s \in Sess /\ op' = [Drop(op, s) EXCEPT ![p] = Free] /\ UNCHANGED <<task, evaluating>>
    BY DEF Sess, Restarted, guards
  <1> HIDE DEF s
  <1>2. op'[p] = Free /\ \A q \in Ops \ {p} : Kept(op, op', q)
    BY <1>1, FreeType, RestartType DEF IInv
  <1> QED
    BY <1>1, <1>2, FreeType, QuietStep DEF Quiet

\* A written prompt counts nothing.
LEMMA WriteCounts == ASSUME IInv, Counted, NEW p \in Ops, Write(p) PROVE Counted'
  <1> DEFINE o == [op[p] EXCEPT !.written = TRUE]
  <1>1. Same(op[p], o)
    BY Edits DEF IInv, TypeOK
  <1>2. op' = [op EXCEPT ![p] = o] /\ UNCHANGED <<task, evaluating>>
    BY DEF Write, guards
  <1> HIDE DEF o
  <1>3. \A q \in Ops : Kept(op, op', q)
    BY <1>1, <1>2 DEF IInv, TypeOK, Same, Kept
  <1> QED
    BY <1>2, <1>3, QuietStep

\* Nor does a new process.
LEMMA SessionReplacedCounts ==
  ASSUME IInv, Counted, NEW s \in Sess, SessionReplaced(s)
  PROVE  Counted'
  <1>1. \A q \in Ops : Kept(op, op', q)
    BY NewProcessType DEF IInv, TypeOK, SessionReplaced
  <1> QED
    BY <1>1, QuietStep DEF SessionReplaced, guards

\* The Worker's exit pauses the task.
LEMMA WorkerExitCounts == IInv /\ Counted /\ WorkerExit => Counted'
  <1> SUFFICES ASSUME IInv, Counted, WorkerExit PROVE Counted'
    OBVIOUS
  <1> DEFINE t == [task EXCEPT !.state = "paused", !.from = ""]
  <1>1. /\ t.chips = task.chips /\ t.round = task.round /\ t.limit = task.limit
        /\ Halt(t, NewProcess(op))
    BY DEF IInv, TypeOK, Task, WorkerExit
  <1> HIDE DEF t
  <1>2. /\ Whole(t) /\ NewProcess(op) \in [Ops -> Op]
        /\ \A q \in Ops : Kept(op, NewProcess(op), q)
    BY <1>1, NewProcessType DEF Counted, Whole, IInv, TypeOK
  <1> QED
    BY <1>1, <1>2, Halted

\* The watcher acts as the lost hook would have.
LEMMA GraceFiresCounts == ASSUME IInv, Counted, NEW p \in Ops, GraceFires(p) PROVE Counted'
  <1>1. task \in Task
    BY DEF IInv, TypeOK
  <1>2. CASE task.state = "judge-evaluating" /\ VerdictPass(p, task, FALSE)
    BY <1>1, <1>2, PassCounts
  <1>3. CASE task.state = "running" /\ Evaluation(p, task)
    BY <1>1, <1>3, EvaluationCounts
  <1>4. CASE UNCHANGED <<task, op, guards>>
    BY <1>4, QuietStep DEF Kept, guards
  <1> QED
    BY <1>2, <1>3, <1>4 DEF GraceFires

\* What the watcher and the agents do outside the runner.
Outside ==
  \/ WatcherOpens \/ WatcherLooks \/ DirChanges \/ WorkerDone
  \/ \E says \in {"complete", "continue"} : JudgeWrites(says)
  \/ \E s \in Sess : Unheard(s)
  \/ UNCHANGED vars

\* It touches no task, no function, no guard and no injection.
LEMMA OutsideKeeps == Outside => UNCHANGED <<task, op, guards, inject, seen>>
  BY DEF Outside, WatcherOpens, WatcherLooks, DirChanges, WorkerDone, JudgeWrites,
         Unheard, vars

\* So it counts nothing.
LEMMA OutsideCounts == IInv /\ Counted /\ Outside => Counted'
  BY OutsideKeeps, QuietStep DEF Kept, guards

\* Every step keeps the second invariant.
LEMMA StepCounted == IInv /\ Counted /\ [Next]_vars => Counted'
  <1> SUFFICES ASSUME IInv, Counted, [Next]_vars PROVE Counted'
    OBVIOUS
  <1>1. ASSUME NEW p \in Ops, User(p) PROVE Counted'
    BY <1>1, StartCounts, ResumeCounts, ResetCounts, RejectCounts, ResendCounts DEF User
  <1>2. ASSUME NEW p \in Ops, Step(p) PROVE Counted'
    BY <1>2, StartSetupCounts, PromptedCounts, ReconcileCounts, ResetDoneCounts,
       RejectLockCounts, RejectDeferredCounts, RejectPromptedCounts, SentCounts,
       EvalChecksCounts, EvalClearCounts, EvalPromptedCounts, ShowerCounts,
       ShowerDoneCounts, VerdictReadCounts, NudgedCounts, VerdictLockCounts,
       VerdictPromptedCounts, RestartedCounts, WriteCounts
    DEF Step
  <1>3. ASSUME NEW p \in Ops, Heard(p) PROVE Counted'
    BY <1>3, WorkerReadyCounts, WorkerIdleCounts, JudgeReadyCounts, JudgeIdleCounts,
       DropoutCounts
    DEF Heard
  <1> QED
    BY <1>1, <1>2, <1>3, StopCounts, GraceFiresCounts, SessionReplacedCounts,
       WorkerExitCounts, OutsideCounts DEF Next, Outside

\* The invariants of the rounds hold in every reachable state, whatever the limits,
\* the surfaces and the faults.
THEOREM RoundsInvariant == Spec => [](IInv /\ Counted)
  BY InitIInv, StepIInv, InitCounted, StepCounted, PTL DEF Spec

\* The chips of the Dashboard are numbered 1..n without gap or duplicate and the last
\* one is the task's round, through re-prompts, showers, pauses, Send back and its
\* undoing.
THEOREM ChipsAreTheRounds == Spec => []ChipsMatchRounds
  <1>1. IInv /\ Counted => ChipsMatchRounds
    <2> SUFFICES ASSUME IInv, Counted PROVE ChipsMatchRounds
      OBVIOUS
    <2>1. task.chips \in Seq(Chip) /\ DOMAIN task.chips = 1..Len(task.chips)
          /\ Len(task.chips) \in Nat
      BY LenProperties DEF IInv, TypeOK, Task
    <2>2. task.chips # <<>> => Len(task.chips) # 0
      BY <2>1, EmptySeq
    <2> QED
      BY <2>1, <2>2 DEF Counted, Whole, Rounds, ChipsMatchRounds
  <1> QED
    BY <1>1, RoundsInvariant, PTL

-----------------------------------------------------------------------------
(* The task follows TaskLoop. *)

\* A step that leaves stage, round and limit alone.
LEMMA Stays ==
  ASSUME task'.state = task.state, task'.round = task.round, task'.limit = task.limit
  PROVE  [Loop!Next]_(Loop!loop)
  BY DEF Loop!loop

\* The turns of the loop that move the stage and nothing else.
LEMMA Turns ==
  ASSUME task'.round = task.round, task'.limit = task.limit,
         \/ task.state \in {"running", "judge-evaluating"} /\ task'.state = "evaluating"
         \/ task.state = "evaluating" /\ task'.state = "refreshing"
         \/ task.state \in {"evaluating", "refreshing"} /\ task'.state = "running"
         \/ task.state \in {"evaluating", "running"} /\ task'.state = "judge-evaluating"
         \/ task.state = "judge-evaluating" /\ task'.state = "completed"
         \/ task.state = "judge-evaluating" /\ task'.state = "failed"
            /\ task.round = task.limit
  PROVE  Loop!Next
  BY DEF Loop!Next, Loop!Check, Loop!Refresh, Loop!Rework, Loop!Judge, Loop!Complete,
         Loop!Fail, Loop!Move

\* A task that is paused from anywhere.
LEMMA Pauses ==
  ASSUME IInv, task'.state = "paused", task'.round = task.round, task'.limit = task.limit
  PROVE  [Loop!Next]_(Loop!loop)
  <1>1. CASE task.state = "paused"
    BY <1>1, Stays
  <1>2. CASE task.state # "paused"
    <2>1. task.state \in States
      BY DEF IInv, TypeOK, Task
    <2>2. task.state \in Loop!Active \cup Loop!Finished \cup {"idle"}
      BY <1>2, <2>1 DEF States, Active, Finished, Loop!Active, Loop!Finished
    <2> QED
      BY <2>2 DEF Loop!Next, Loop!Pause, Loop!Move
  <1> QED
    BY <1>1, <1>2

\* Round 1 of a fresh start begins out of a stage that is not active.
LEMMA StartSetupFollows ==
  ASSUME IInv, Counted, Offered, NEW p \in Ops, StartSetup(p)
  PROVE  [Loop!Next]_(Loop!loop)
  <1>1. CASE UNCHANGED task
    BY <1>1, Stays
  <1>2. CASE /\ Current(p)
             /\ task' = [task EXCEPT !.state = "running", !.round = 1,
                                     !.chips = EnsureRunningRound(<<>>, 1)]
    <2>1. task.state \notin Active
      BY <1>2 DEF Counted, Stage, Current, StartSetup, At
    <2>2. task \in Task /\ task.state \in States
      BY DEF IInv, TypeOK, Task
    <2>3. task'.state = "running" /\ task'.round = 1 /\ task'.limit = task.limit
      BY <1>2, <2>2 DEF Task
    <2>4. task.state \in Loop!Finished \cup {"idle", "paused"}
      BY <2>1, <2>2 DEF States, Finished, Loop!Finished
    <2> QED
      BY <2>3, <2>4 DEF Loop!Next, Loop!Start
  <1> QED
    BY <1>1, <1>2 DEF StartSetup

\* Stop pauses.
LEMMA StopFollows == IInv /\ Stop => [Loop!Next]_(Loop!loop)
  <1> SUFFICES ASSUME IInv, Stop PROVE [Loop!Next]_(Loop!loop)
    OBVIOUS
  <1>1. task' = [task EXCEPT !.state = "paused", !.from = task.state] /\ task \in Task
    BY DEF Stop, Halt, IInv, TypeOK
  <1>2. task'.state = "paused" /\ task'.round = task.round /\ task'.limit = task.limit
    BY <1>1 DEF Task
  <1> QED
    BY <1>2, Pauses

\* Continue goes back to the Worker's or the Judge's turn.
LEMMA ResumeFollows ==
  ASSUME IInv, NEW p \in Ops, Resume(p)
  PROVE  [Loop!Next]_(Loop!loop)
  <1> DEFINE to == IF task.from = "judge-evaluating" THEN task.from ELSE "running"
  <1>1. task' = [task EXCEPT !.state = to, !.from = ""] /\ task \in Task
        /\ task.state \in Finished \cup {"paused"}
    BY DEF Resume, IInv, TypeOK
  <1>2. to \in {"running", "judge-evaluating"}
    OBVIOUS
  <1> HIDE DEF to
  <1>3. task'.state = to /\ task'.round = task.round /\ task'.limit = task.limit
    BY <1>1 DEF Task
  <1>4. task.state \in Loop!Finished \cup {"paused"}
    BY <1>1 DEF Finished, Loop!Finished
  <1> QED
    BY <1>2, <1>3, <1>4 DEF Loop!Next, Loop!Continue, Loop!Move

\* An evaluation begins out of a turn of the Worker or of Continue; where another one
\* holds the guard the task is in a phase of it, so nothing is moved.
LEMMA EvaluationFollows ==
  ASSUME IInv, Counted, Offered, NEW p \in Ops, NEW t \in Task, Evaluation(p, t),
         t.round = task.round, t.limit = task.limit,
         task.state \in {"running", "judge-evaluating"}
  PROVE  [Loop!Next]_(Loop!loop)
  <1>1. evaluating = None
    BY DEF Counted, Guarded, Phases
  <1>2. EvaluationBegins(p, t)
    BY <1>1, Evaluates DEF EvaluationTurnsAway
  <1> QED
    BY <1>2, Turns DEF EvaluationBegins

\* The reconciliation of Continue reads the verdict that waits, or evaluates.
LEMMA ReconcileFollows ==
  ASSUME IInv, Counted, Offered, NEW p \in Ops, Reconcile(p)
  PROVE  [Loop!Next]_(Loop!loop)
  <1>1. At(p, "reconcile", "read") /\ task \in Task
    BY DEF Reconcile, IInv, TypeOK
  <1>2. ASSUME Current(p) PROVE task.state \in {"running", "judge-evaluating"}
    BY <1>1, <1>2 DEF Counted, Stage, Current, At
  <1>3. CASE UNCHANGED task
    BY <1>3, Stays
  <1>4. CASE Current(p) /\ VerdictPass(p, [task EXCEPT !.state = "judge-evaluating"], FALSE)
    <2>1. task' = [task EXCEPT !.state = "judge-evaluating"]
      BY <1>4 DEF VerdictPass
    <2>2. /\ task'.state = "judge-evaluating"
          /\ task'.round = task.round /\ task'.limit = task.limit
      BY <1>1, <2>1 DEF Task
    <2> QED
      BY <1>2, <1>4, <2>2, Stays, Turns
  <1>5. CASE Current(p) /\ Evaluation(p, [task EXCEPT !.state = "running", !.nudged = FALSE])
    <2> DEFINE t == [task EXCEPT !.state = "running", !.nudged = FALSE]
    <2>1. t \in Task /\ t.round = task.round /\ t.limit = task.limit
      BY <1>1 DEF Task, States, Active
    <2>2. Evaluation(p, t)
      BY <1>5
    <2> HIDE DEF t
    <2> QED
      BY <1>2, <1>5, <2>1, <2>2, EvaluationFollows
  <1>6. CASE Current(p) /\ Evaluation(p, task)
    BY <1>1, <1>2, <1>6, EvaluationFollows
  <1> QED
    BY <1>3, <1>4, <1>5, <1>6 DEF Reconcile

\* A reset happens in the stage it was allowed in.
LEMMA ResetDoneFollows ==
  ASSUME IInv, Counted, NEW p \in Ops, ResetDone(p)
  PROVE  [Loop!Next]_(Loop!loop)
  <1>1. CASE UNCHANGED task
    BY <1>1, Stays
  <1>2. CASE /\ Current(p)
             /\ task' = [task EXCEPT !.state = "idle", !.round = 0, !.chips = <<>>,
                           !.sent = FALSE, !.from = "", !.resume = FALSE, !.shower = 0]
    <2>1. task.state \in Finished \cup {"paused"}
      BY <1>2 DEF Counted, Stage, Current, ResetDone, At
    <2>2. task.state \in Loop!Finished \cup {"paused"}
      BY <2>1 DEF Finished, Loop!Finished
    <2>3. task \in Task
      BY DEF IInv, TypeOK
    <2>4. task'.state = "idle" /\ task'.round = 0 /\ task'.limit = task.limit
      BY <1>2, <2>3 DEF Task
    <2> QED
      BY <2>2, <2>4 DEF Loop!Next, Loop!Reset
  <1> QED
    BY <1>1, <1>2 DEF ResetDone

\* Send back opens the next round of a finished task.
LEMMA RejectLockFollows ==
  ASSUME IInv, Counted, NEW p \in Ops, RejectLock(p)
  PROVE  [Loop!Next]_(Loop!loop)
  <1>1. CASE UNCHANGED task
    BY <1>1, Stays
  <1>2. CASE Current(p) /\ task' = Reopened(task)
    <2>1. task.state \in Finished
      BY <1>2 DEF Counted, Stage, Current, RejectLock, At
    <2>2. task.state \in Loop!Finished
      BY <2>1 DEF Finished, Loop!Finished
    <2>3. task'.state = "running" /\ task'.round = task.round + 1 /\ task'.limit = Raised(task)
      BY <1>2, ReopenedWhole DEF IInv, TypeOK, Counted
    <2> QED
      BY <2>2, <2>3 DEF Loop!Next, Loop!SendBack, Raised
  <1> QED
    BY <1>1, <1>2 DEF RejectLock

\* Undone, it takes back exactly the round it opened and the limit it raised.
LEMMA RejectPromptedFollows ==
  ASSUME IInv, Counted, NEW p \in Ops, RejectPrompted(p)
  PROVE  [Loop!Next]_(Loop!loop)
  <1>1. CASE UNCHANGED task
    BY <1>1, Stays
  <1>2. CASE Undoable(p) /\ Halt(RolledBack(op[p].snap), Done(p))
    <2> DEFINE snap == op[p].snap
    <2>1. /\ task.state = "running" /\ task.round = snap.round + 1
          /\ task.limit = Raised(snap)
          /\ snap \in Task /\ Whole(snap) /\ snap.state \in Finished
      BY <1>2, UndoneRound DEF RejectPrompted
    <2>2. task' = RolledBack(snap) /\ task \in Task
      BY <1>2 DEF Halt, IInv, TypeOK
    <2> HIDE DEF snap
    <2>3. task'.state = snap.state /\ task'.round = snap.round /\ task'.limit = snap.limit
      BY <2>2 DEF RolledBack, Task
    <2>4. snap.round \in Nat /\ snap.limit \in Nat /\ snap.round <= snap.limit
      BY <2>1 DEF Task, Whole
    <2>5. task'.state \in Loop!Finished
      BY <2>1, <2>3 DEF Finished, Loop!Finished
    <2>6. /\ task'.round = task.round - 1
          /\ task'.limit = task.limit
             \/ (task.limit = task.round /\ task'.limit = task.round - 1)
      BY <2>1, <2>3, <2>4 DEF Raised
    <2> QED
      BY <2>1, <2>5, <2>6 DEF Loop!Next, Loop!Unsend
  <1> QED
    BY <1>1, <1>2 DEF RejectPrompted

\* The checks leave the stage alone or begin a shower.
LEMMA EvalChecksFollows ==
  ASSUME IInv, Counted, NEW p \in Ops, EvalChecks(p)
  PROVE  [Loop!Next]_(Loop!loop)
  <1>1. op[p].kind = "evaluate" /\ op[p].at = "checks" /\ task \in Task
    BY DEF EvalChecks, At, IInv, TypeOK
  <1>2. CASE task' = task \/ task' = [task EXCEPT !.chips = Mark(@, "judge-requested")]
    <2>1. task'.state = task.state /\ task'.round = task.round /\ task'.limit = task.limit
      BY <1>1, <1>2 DEF Task
    <2> QED
      BY <2>1, Stays
  <1>3. CASE /\ CurrentRun(p)
             /\ task' = [task EXCEPT !.state = "refreshing", !.chips = Mark(@, "shower")]
    <2>1. task'.state = "refreshing" /\ task'.round = task.round /\ task'.limit = task.limit
      BY <1>1, <1>3 DEF Task
    <2>2. task.state = "evaluating"
      BY <1>1, <1>3, EvaluationPhase
    <2> QED
      BY <2>1, <2>2, Turns
  <1> QED
    BY <1>2, <1>3 DEF EvalChecks

\* A failed evaluation pauses the task or moves nothing.
LEMMA EvalErrorFollows ==
  ASSUME IInv, NEW p \in Ops, EvalError(p)
  PROVE  [Loop!Next]_(Loop!loop)
  <1>1. CASE UNCHANGED task
    BY <1>1, Stays
  <1>2. CASE task' = [task EXCEPT !.state = "paused", !.from = "evaluating"]
    <2>1. task'.state = "paused" /\ task'.round = task.round /\ task'.limit = task.limit
      BY <1>2 DEF IInv, TypeOK, Task
    <2> QED
      BY <2>1, Pauses
  <1> QED
    BY <1>1, <1>2 DEF EvalError, Halt

\* The Judge's turn, or the Worker's again.
LEMMA EvalPromptedFollows ==
  ASSUME IInv, Counted, NEW p \in Ops, EvalPrompted(p)
  PROVE  [Loop!Next]_(Loop!loop)
  <1>1. op[p].kind = "evaluate" /\ task \in Task
    BY DEF EvalPrompted, IInv, TypeOK
  <1>2. CASE EvalError(p)
    BY <1>2, EvalErrorFollows
  <1>3. CASE task' = task
    BY <1>3, Stays
  <1>4. CASE /\ CurrentRun(p) /\ op[p].at = "judge"
             /\ task' = [task EXCEPT !.state = "judge-evaluating",
                                     !.chips = Mark(@, "judge-requested")]
    <2>1. /\ task'.state = "judge-evaluating"
          /\ task'.round = task.round /\ task'.limit = task.limit
      BY <1>1, <1>4 DEF Task
    <2>2. task.state = "evaluating"
      BY <1>1, <1>4, EvaluationPhase
    <2> QED
      BY <2>1, <2>2, Turns
  <1>5. CASE /\ CurrentRun(p)
             /\ task' = [task EXCEPT !.state = "running", !.chips = Mark(@, "running")]
    <2>1. task'.state = "running" /\ task'.round = task.round /\ task'.limit = task.limit
      BY <1>1, <1>5 DEF Task
    <2>2. task.state \in Phases
      BY <1>1, <1>5, EvaluationPhase
    <2> QED
      BY <2>1, <2>2, Turns DEF Phases
  <1> QED
    BY <1>2, <1>3, <1>4, <1>5 DEF EvalPrompted

\* The shower's end.
LEMMA ShowerDoneFollows ==
  ASSUME IInv, Counted, NEW p \in Ops, ShowerDone(p)
  PROVE  [Loop!Next]_(Loop!loop)
  <1>1. op[p].kind = "evaluate" /\ task \in Task
    BY DEF ShowerDone, At, IInv, TypeOK
  <1>2. CASE UNCHANGED task
    BY <1>2, Stays
  <1>3. CASE /\ CurrentRun(p)
             /\ task' = [task EXCEPT !.state = "running", !.chips = Mark(@, "running"),
                           !.resume = TRUE, !.shower = task.round, !.sent = FALSE]
    <2>1. task'.state = "running" /\ task'.round = task.round /\ task'.limit = task.limit
      BY <1>1, <1>3 DEF Task
    <2>2. task.state \in Phases
      BY <1>1, <1>3, EvaluationPhase
    <2> QED
      BY <2>1, <2>2, Turns DEF Phases
  <1> QED
    BY <1>2, <1>3 DEF ShowerDone

\* A verdict pass that pauses.
LEMMA PassPauses ==
  ASSUME IInv, NEW f, Halt([task EXCEPT !.state = "paused", !.from = "judge-evaluating"], f)
  PROVE  [Loop!Next]_(Loop!loop)
  <1>1. task' = [task EXCEPT !.state = "paused", !.from = "judge-evaluating"] /\ task \in Task
    BY DEF Halt, IInv, TypeOK
  <1>2. task'.state = "paused" /\ task'.round = task.round /\ task'.limit = task.limit
    BY <1>1 DEF Task
  <1> QED
    BY <1>2, Pauses

\* A task ends only out of the Judge's turn, and fails only in its last round.
LEMMA VerdictReadFollows ==
  ASSUME IInv, Counted, NEW p \in Ops, VerdictRead(p)
  PROVE  [Loop!Next]_(Loop!loop)
  <1>1. At(p, "verdict", "read") /\ op[p].kind = "verdict" /\ task \in Task
    BY DEF VerdictRead, At, IInv, TypeOK
  <1>2. CASE \/ task' = task \/ task' = [task EXCEPT !.chips = Judged(@, TRUE)]
             \/ task' = [task EXCEPT !.nudged = TRUE]
    <2>1. task'.state = task.state /\ task'.round = task.round /\ task'.limit = task.limit
      BY <1>1, <1>2 DEF Task
    <2> QED
      BY <2>1, Stays
  <1>3. CASE Halt([task EXCEPT !.state = "paused", !.from = "judge-evaluating"], Done(p))
    BY <1>3, PassPauses
  <1>4. CASE CurrentRun(p) /\ VerdictEnds(p)
    <2> DEFINE end == IF verdict.says = "complete" THEN "completed" ELSE "failed"
               cs == Mark(Judged(task.chips, TRUE), end)
    <2>1. task' = [task EXCEPT !.state = end, !.chips = cs]
      BY <1>4 DEF VerdictEnds, Halt
    <2>2. /\ end = "completed" \/ end = "failed"
          /\ end = "failed" => task.round >= task.limit
      BY <1>4 DEF VerdictEnds
    <2> HIDE DEF end, cs
    <2>3. task'.state = end /\ task'.round = task.round /\ task'.limit = task.limit
      BY <1>1, <2>1 DEF Task
    <2>4. task.round \in Nat /\ task.limit \in Nat /\ task.round <= task.limit
      BY <1>1 DEF Task, Counted, Whole
    <2>5. task.state = "judge-evaluating"
      BY <1>1, <1>4, VerdictPhase DEF CurrentRun
    <2> QED
      BY <2>2, <2>3, <2>4, <2>5, Turns
  <1> QED
    BY <1>2, <1>3, <1>4 DEF VerdictRead, VerdictMissing

\* The reminder moves nothing, or its failure pauses the task.
LEMMA NudgedFollows ==
  ASSUME IInv, NEW p \in Ops, Nudged(p)
  PROVE  [Loop!Next]_(Loop!loop)
  BY PassPauses, Stays DEF Nudged

\* The next round begins out of the Judge's turn, below the limit.
LEMMA VerdictPromptedFollows ==
  ASSUME IInv, Counted, NEW p \in Ops, VerdictPrompted(p)
  PROVE  [Loop!Next]_(Loop!loop)
  <1>1. CASE UNCHANGED task
    BY <1>1, Stays
  <1>2. CASE Halt([task EXCEPT !.state = "paused", !.from = "judge-evaluating"], Done(p))
    BY <1>2, PassPauses
  <1>3. CASE CurrentRun(p) /\ task' = NextRound(task)
    <2>1. task.round < task.limit /\ task.state = "judge-evaluating"
      BY <1>3, VerdictPhase DEF CurrentRun, VerdictPrompted, At
    <2>2. /\ task'.state = "running" /\ task'.round = task.round + 1
          /\ task'.limit = task.limit
      BY <1>3, <2>1, NextRoundWhole DEF IInv, TypeOK, Counted
    <2> QED
      BY <2>1, <2>2 DEF Loop!Next, Loop!NextRound
  <1> QED
    BY <1>1, <1>2, <1>3 DEF VerdictPrompted

\* A dropout pauses the task or leaves its stage alone.
LEMMA DropoutFollows ==
  ASSUME IInv, NEW p \in Ops, NEW s \in Sess, Dropout(p, s)
  PROVE  [Loop!Next]_(Loop!loop)
  <1> DEFINE r == s \in told
             b == task.sent /\ s # "worker"
  <1>1. task \in Task
    BY DEF IInv, TypeOK
  <1>2. CASE task' = [task EXCEPT !.state = "paused", !.from = task.state]
    <2>1. task'.state = "paused" /\ task'.round = task.round /\ task'.limit = task.limit
      BY <1>1, <1>2 DEF Task
    <2> QED
      BY <2>1, Pauses
  <1>3. CASE task' = [task EXCEPT !.resume = r, !.sent = b]
    <2> HIDE DEF r, b
    <2>1. task'.state = task.state /\ task'.round = task.round /\ task'.limit = task.limit
      BY <1>1, <1>3 DEF Task
    <2> QED
      BY <2>1, Stays
  <1> QED
    BY <1>2, <1>3 DEF Dropout, Halt

\* The Worker's exit pauses.
LEMMA WorkerExitFollows == IInv /\ WorkerExit => [Loop!Next]_(Loop!loop)
  <1> SUFFICES ASSUME IInv, WorkerExit PROVE [Loop!Next]_(Loop!loop)
    OBVIOUS
  <1>1. task' = [task EXCEPT !.state = "paused", !.from = ""] /\ task \in Task
    BY DEF WorkerExit, Halt, IInv, TypeOK
  <1>2. task'.state = "paused" /\ task'.round = task.round /\ task'.limit = task.limit
    BY <1>1 DEF Task
  <1> QED
    BY <1>2, Pauses

\* The watcher acts as the lost hook would have.
LEMMA GraceFiresFollows ==
  ASSUME IInv, Counted, Offered, NEW p \in Ops, GraceFires(p)
  PROVE  [Loop!Next]_(Loop!loop)
  <1>1. task \in Task
    BY DEF IInv, TypeOK
  <1>2. CASE VerdictPass(p, task, FALSE) \/ UNCHANGED task
    BY <1>2, Stays DEF VerdictPass
  <1>3. CASE task.state = "running" /\ Evaluation(p, task)
    BY <1>1, <1>3, EvaluationFollows
  <1> QED
    BY <1>2, <1>3 DEF GraceFires

\* The steps that leave stage, round and limit alone.
LEMMA OthersStay ==
  ASSUME IInv, NEW p \in Ops,
         \/ Start(p) \/ Reset(p) \/ Reject(p) \/ (\E s \in Sess : Resend(p, s))
         \/ Prompted(p) \/ RejectDeferred(p) \/ Sent(p) \/ EvalClear(p)
         \/ VerdictLock(p) \/ Restarted(p) \/ Write(p)
         \/ WorkerReady(p) \/ JudgeReady(p)
         \/ (\E idleOnly \in BOOLEAN : JudgeIdle(p, idleOnly))
  PROVE  [Loop!Next]_(Loop!loop)
  <1>1. task \in Task
    BY DEF IInv, TypeOK
  <1>2. CASE Prompted(p) \/ EvalClear(p) \/ JudgeReady(p)
    <2>1. \/ task' = task \/ task' = [task EXCEPT !.sent = TRUE]
          \/ task' = [task EXCEPT !.nudged = FALSE] \/ task' = [task EXCEPT !.resume = FALSE]
      BY <1>2 DEF Prompted, EvalClear, JudgeReady
    <2>2. task'.state = task.state /\ task'.round = task.round /\ task'.limit = task.limit
      BY <1>1, <2>1 DEF Task
    <2> QED
      BY <2>2, Stays
  <1>3. CASE WorkerReady(p)
    <2> DEFINE cs == EnsureRunningRound(task.chips, task.round)
    <2>1. task' = [task EXCEPT !.sent = TRUE, !.resume = FALSE, !.chips = cs]
      BY <1>3 DEF WorkerReady
    <2> HIDE DEF cs
    <2>2. task'.state = task.state /\ task'.round = task.round /\ task'.limit = task.limit
      BY <1>1, <2>1 DEF Task
    <2> QED
      BY <2>2, Stays
  <1>4. CASE \E idleOnly \in BOOLEAN : JudgeIdle(p, idleOnly)
    BY <1>4, Stays DEF JudgeIdle, VerdictPass
  <1>5. CASE \/ Start(p) \/ Reset(p) \/ Reject(p) \/ (\E s \in Sess : Resend(p, s))
             \/ RejectDeferred(p) \/ Sent(p) \/ VerdictLock(p) \/ Restarted(p) \/ Write(p)
    <2>1. task' = task
      BY <1>5 DEF Start, Reset, Reject, Resend, RejectDeferred, Sent, VerdictLock,
         Restarted, Write
    <2> QED
      BY <2>1, Stays
  <1> QED
    BY <1>2, <1>3, <1>4, <1>5

\* What the watcher and the agents do moves nothing,
LEMMA OutsideStays == Outside => [Loop!Next]_(Loop!loop)
  BY OutsideKeeps, Stays

\* and a new process neither.
LEMMA SessionReplacedStays ==
  ASSUME NEW s \in Sess, SessionReplaced(s)
  PROVE  [Loop!Next]_(Loop!loop)
  BY Stays DEF SessionReplaced

\* Every step of the runner is a step of TaskLoop or moves nothing the user is told.
LEMMA StepFollows ==
  IInv /\ Counted /\ Offered /\ [Next]_vars => [Loop!Next]_(Loop!loop)
  <1> SUFFICES ASSUME IInv, Counted, Offered, [Next]_vars PROVE [Loop!Next]_(Loop!loop)
    OBVIOUS
  <1>1. ASSUME NEW p \in Ops, User(p) PROVE [Loop!Next]_(Loop!loop)
    BY <1>1, ResumeFollows, OthersStay DEF User
  <1>2. ASSUME NEW p \in Ops, Step(p) PROVE [Loop!Next]_(Loop!loop)
    <2>1. CASE StartSetup(p)
      BY <2>1, StartSetupFollows
    <2>2. CASE Reconcile(p)
      BY <2>2, ReconcileFollows
    <2>3. CASE ResetDone(p)
      BY <2>3, ResetDoneFollows
    <2>4. CASE RejectLock(p)
      BY <2>4, RejectLockFollows
    <2>5. CASE RejectPrompted(p)
      BY <2>5, RejectPromptedFollows
    <2>6. CASE EvalChecks(p)
      BY <2>6, EvalChecksFollows
    <2>7. CASE EvalPrompted(p)
      BY <2>7, EvalPromptedFollows
    <2>8. CASE Shower(p)
      BY <2>8, EvalErrorFollows, Stays DEF Shower
    <2>9. CASE ShowerDone(p)
      BY <2>9, ShowerDoneFollows
    <2>10. CASE VerdictRead(p)
      BY <2>10, VerdictReadFollows
    <2>11. CASE Nudged(p)
      BY <2>11, NudgedFollows
    <2>12. CASE VerdictPrompted(p)
      BY <2>12, VerdictPromptedFollows
    <2>13. CASE \/ Prompted(p) \/ RejectDeferred(p) \/ Sent(p) \/ EvalClear(p)
                \/ VerdictLock(p) \/ Restarted(p) \/ Write(p)
      BY <2>13, OthersStay
    <2> QED
      BY <1>2, <2>1, <2>2, <2>3, <2>4, <2>5, <2>6, <2>7, <2>8, <2>9, <2>10, <2>11,
         <2>12, <2>13 DEF Step
  <1>3. ASSUME NEW p \in Ops, Heard(p) PROVE [Loop!Next]_(Loop!loop)
    <2>1. CASE WorkerIdle(p)
      <3>1. task \in Task
        BY DEF IInv, TypeOK
      <3> QED
        BY <2>1, <3>1, EvaluationFollows DEF WorkerIdle
    <2>2. CASE \/ WorkerReady(p) \/ JudgeReady(p)
               \/ \E idleOnly \in BOOLEAN : JudgeIdle(p, idleOnly)
      BY <2>2, OthersStay
    <2> QED
      BY <1>3, <2>1, <2>2, DropoutFollows DEF Heard
  <1> QED
    BY <1>1, <1>2, <1>3, StopFollows, GraceFiresFollows, SessionReplacedStays,
       WorkerExitFollows, OutsideStays DEF Next, Outside

\* A runner whose surfaces offer Start only to a task that is not under way keeps the
\* promises of TaskLoop, with any number of functions in flight and any fault.
THEOREM TaskLoopIsImplemented == ASSUME Offered PROVE Spec => ImplementsLoop
  <1>1. Init => Loop!Init
    <2> SUFFICES ASSUME Init PROVE Loop!Init
      OBVIOUS
    <2>1. task.state = "idle" /\ task.round = 0 /\ task.limit = MaxRounds
      BY DEF Init
    <2> QED
      BY <2>1 DEF Loop!Init
  <1>2. IInv /\ Counted /\ [Next]_vars => [Loop!Next]_(Loop!loop)
    BY StepFollows
  <1> QED
    BY <1>1, <1>2, RoundsInvariant, PTL DEF Spec, ImplementsLoop, Loop!Spec

-----------------------------------------------------------------------------
(* Who drives a task that is being evaluated. *)

\* Nothing cuts an injection short but the lifecycle itself: no process dies, no agent
\* drops back to its shell, and no write fails during a shower.
Undisturbed ==
  /\ Offered /\ "session" \notin Faults /\ "shell" \notin Faults
  /\ "write" \notin Faults \/ ShowerInterval = 0

Injecting == {"judge", "prompt", "handoff"}

\* The evaluation in slot p can go on, and an injection it waits for is its own.
Drives(p) ==
  /\ op[p].kind = "evaluate" /\ CurrentRun(p)
  /\ op[p].at \in Injecting => Holds(p)

Driven ==
  /\ task.state \in Phases => evaluating \in Ops /\ Drives(evaluating)
  /\ task.state = "refreshing" => ShowerInterval > 0

\* As far as its rechecks can tell.
Alike(o, x) ==
  /\ x.kind = o.kind /\ x.at = o.at /\ x.epoch = o.epoch /\ x.gen = o.gen
  /\ x.inc = o.inc /\ x.expect = o.expect /\ x.round = o.round
  /\ x.sess = o.sess /\ x.live = o.live

SameStage == task'.state = task.state /\ task'.round = task.round

\* A task that is in neither phase needs no driver.
LEMMA Undriven == ASSUME task'.state \notin Phases PROVE Driven'
  BY DEF Driven, Phases

\* The driver is left alone: others may share its session's controller, not take it.
LEMMA DrivenOn ==
  ASSUME IInv, Driven, SameStage,
         task.state \in Phases =>
           /\ evaluating' = evaluating
           /\ Alike(op[evaluating], op'[evaluating])
           /\ \A s \in Sess : ctl'[s] = ctl[s] \/ ctl'[s] = Key(task)
  PROVE  Driven'
  <1>1. CASE task.state \notin Phases
    BY <1>1, Undriven DEF SameStage
  <1>2. CASE task.state \in Phases
    <2>1. PICK e \in Ops : /\ e = evaluating /\ op[e].kind = "evaluate" /\ CurrentRun(e)
                           /\ op[e].at \in Injecting => Holds(e)
      BY <1>2 DEF Driven, Drives
    <2>2. Alike(op[e], op'[e]) /\ evaluating' = e
      BY <1>2, <2>1
    <2>3. \A s \in Sess : ctl'[s] = ctl[s] \/ ctl'[s] = Key(task)
      BY <1>2
    <2>4. op[e].sess \in Sess \cup {"none"}
      BY <2>1 DEF IInv, TypeOK, Op
    <2>5. Key(task') = Key(task)
      BY DEF Key, SameStage
    <2>6. CurrentRun(e)'
      BY <2>1, <2>2 DEF CurrentRun, Current, Alike, SameStage
    <2>7. Holds(e) => Holds(e)'
      BY <2>2, <2>3, <2>4, <2>5 DEF Holds, Alike
    <2>8. Drives(e)'
      BY <2>1, <2>2, <2>6, <2>7 DEF Drives, Alike
    <2> QED
      BY <2>1, <2>2, <2>8 DEF Driven, SameStage
  <1> QED
    BY <1>1, <1>2

\* A function that is no evaluation ends or moves on.
LEMMA OtherMoves ==
  ASSUME IInv, Driven, SameStage, NEW p \in Ops, op[p].kind # "evaluate",
         \A q \in Ops \ {p} : op'[q] = op[q], evaluating' = evaluating, ctl' = ctl
  PROVE  Driven'
  <1>1. ASSUME task.state \in Phases PROVE Alike(op[evaluating], op'[evaluating])
    BY <1>1 DEF Driven, Drives, Alike
  <1> QED
    BY <1>1, DrivenOn

\* An evaluation that ends because its recheck fails was not the driver.
LEMMA StaleEnds ==
  ASSUME IInv, Driven, SameStage, NEW p \in Ops, ~CurrentRun(p), EndEval(p), ctl' = ctl
  PROVE  Driven'
  <1>1. \A q \in Ops \ {p} : op'[q] = op[q]
    BY DoneType DEF EndEval, IInv, TypeOK
  <1>2. ASSUME task.state \in Phases
        PROVE  evaluating' = evaluating /\ Alike(op[evaluating], op'[evaluating])
    BY <1>1, <1>2 DEF Driven, Drives, EndEval, Release, Alike
  <1> QED
    BY <1>2, DrivenOn

\* An evaluation that goes on drives what it expects.
LEMMA DriverMoves ==
  ASSUME IInv, NEW p \in Ops, op[p].kind = "evaluate", CurrentRun(p),
         evaluating' = evaluating, task'.round = task.round,
         op'[p].kind = "evaluate", op'[p].epoch, op'[p].gen, op'[p].inc,
         op'[p].expect = task'.state, op'[p].round = op[p].round,
         op'[p].at \in Injecting =>
           op'[p].sess \in Sess /\ op'[p].live /\ ctl'[op'[p].sess] = Key(task'),
         task'.state = "refreshing" => ShowerInterval > 0
  PROVE  Driven'
  <1>1. evaluating = p
    BY DEF IInv, Fine, CurrentRun, Current
  <1>2. op[p].round = task.round
    BY DEF CurrentRun, Current
  <1>3. CurrentRun(p)'
    BY <1>2 DEF CurrentRun, Current
  <1>4. op'[p].at \in Injecting => Holds(p)'
    BY DEF Holds, Sess
  <1> QED
    BY <1>1, <1>3, <1>4 DEF Driven, Drives

\* What an injection sets.
LEMMA Holding ==
  ASSUME IInv, NEW p \in Ops, NEW o \in Op, NEW s \in Sess, NEW t, Inject(p, o, s, t)
  PROVE  /\ op'[p].sess = s /\ op'[p].live /\ ctl'[s] = Key(t)
         /\ op'[p].kind = o.kind /\ op'[p].at = o.at /\ op'[p].epoch = o.epoch
         /\ op'[p].gen = o.gen /\ op'[p].inc = o.inc
         /\ op'[p].expect = o.expect /\ op'[p].round = o.round
  <1> DEFINE x == [o EXCEPT !.sess = s, !.live = TRUE, !.written = FALSE]
             others == IF ctl[s] = Key(t) THEN op ELSE Drop(op, s)
  <1>1. /\ x.sess = s /\ x.live /\ x.kind = o.kind /\ x.at = o.at /\ x.epoch = o.epoch
        /\ x.gen = o.gen /\ x.inc = o.inc /\ x.expect = o.expect /\ x.round = o.round
    BY DEF Op
  <1>2. op' = [others EXCEPT ![p] = x] /\ ctl' = [ctl EXCEPT ![s] = Key(t)]
    BY DEF Inject
  <1>3. DOMAIN others = Ops
    BY DEF Drop, IInv, TypeOK
  <1> HIDE DEF x, others
  <1>4. op'[p] = x
    BY <1>2, <1>3
  <1>5. ctl'[s] = Key(t)
    BY <1>2 DEF IInv, TypeOK
  <1> QED
    BY <1>1, <1>4, <1>5

\* The driver injects, in the phase the task stays in.
LEMMA DriverInjects ==
  ASSUME IInv, NEW p \in Ops, op[p].kind = "evaluate", CurrentRun(p),
         NEW a \in Points, NEW s \in Sess, Inject(p, [op[p] EXCEPT !.at = a], s, task),
         SameStage, evaluating' = evaluating, task.state = "refreshing" => ShowerInterval > 0
  PROVE  Driven'
  <1> DEFINE o == [op[p] EXCEPT !.at = a]
  <1>1. op[p] \in Op
    BY DEF IInv, TypeOK
  <1>2. /\ o \in Op /\ o.kind = "evaluate" /\ o.epoch = op[p].epoch /\ o.at = a
        /\ o.expect = op[p].expect /\ o.round = op[p].round
    BY <1>1, MovedType
  <1>3. o.gen = op[p].gen /\ o.inc = op[p].inc
    BY <1>1 DEF Op
  <1>4. Inject(p, o, s, task)
    OBVIOUS
  <1> HIDE DEF o
  <1>5. /\ op'[p].sess = s /\ op'[p].live /\ ctl'[s] = Key(task)
        /\ op'[p].kind = o.kind /\ op'[p].epoch = o.epoch
        /\ op'[p].gen = o.gen /\ op'[p].inc = o.inc
        /\ op'[p].expect = o.expect /\ op'[p].round = o.round
    BY <1>2, <1>4, Holding
  <1>6. Key(task') = Key(task)
    BY DEF Key, SameStage
  <1>7. op[p].epoch /\ op[p].gen /\ op[p].inc /\ op[p].expect = task.state
    BY DEF CurrentRun, Current
  <1> QED
    BY <1>2, <1>3, <1>5, <1>6, <1>7, DriverMoves DEF SameStage

\* An evaluation that begins drives; none turns away where the task moves.
LEMMA EvaluationDrives ==
  ASSUME IInv, Counted, Offered, NEW p \in Ops, NEW t \in Task, Evaluation(p, t),
         task.state \in {"running", "judge-evaluating"}
  PROVE  Driven'
  <1>1. evaluating = None
    BY DEF Counted, Guarded, Phases
  <1>2. EvaluationBegins(p, t)
    BY <1>1, Evaluates DEF EvaluationTurnsAway
  <1>3. CurrentRun(p)' /\ op'[p].kind = "evaluate" /\ op'[p].at \notin Injecting
    BY <1>2 DEF EvaluationBegins, CurrentRun, Current, Injecting
  <1> QED
    BY <1>2, <1>3 DEF Driven, Drives, EvaluationBegins
\* A task whose record is edited elsewhere is in the same stage.
LEMMA SameStages ==
  ASSUME IInv,
         \/ task' = task \/ task' = [task EXCEPT !.sent = TRUE]
         \/ task' = [task EXCEPT !.nudged = FALSE] \/ task' = [task EXCEPT !.nudged = TRUE]
         \/ \E cs : task' = [task EXCEPT !.chips = cs]
  PROVE  SameStage
  BY DEF IInv, TypeOK, Task, SameStage

\* The function in slot p, no evaluation, ends and moves nothing.
LEMMA OtherEnds ==
  ASSUME IInv, Driven, SameStage, NEW p \in Ops, op[p].kind # "evaluate",
         op' = Done(p), evaluating' = evaluating, ctl' = ctl
  PROVE  Driven'
  <1>1. \A q \in Ops \ {p} : op'[q] = op[q]
    BY DoneType DEF IInv, TypeOK
  <1> QED
    BY <1>1, OtherMoves

\* Neither phase is a stage the user's actions start from, when Start is offered
\* outside the active stages only.
LEMMA UserDrives ==
  ASSUME IInv, Offered, NEW p \in Ops, Start(p) \/ Resume(p) \/ Reset(p) \/ Reject(p)
  PROVE  Driven'
  <1>1. CASE Start(p) \/ Reset(p) \/ Reject(p)
    <2>1. task' = task /\ task.state \notin Phases
      BY <1>1 DEF Start, Reset, Reject, Offered, Active, Finished, Phases
    <2> QED
      BY <2>1, Undriven
  <1>2. CASE Resume(p)
    <2> DEFINE to == IF task.from = "judge-evaluating" THEN task.from ELSE "running"
    <2>1. task' = [task EXCEPT !.state = to, !.from = ""]
      BY <1>2 DEF Resume
    <2>2. to \notin Phases
      BY DEF Phases
    <2> HIDE DEF to
    <2>3. task'.state = to
      BY <2>1 DEF IInv, TypeOK, Task
    <2> QED
      BY <2>2, <2>3, Undriven
  <1> QED
    BY <1>1, <1>2

\* Stop and the Worker's exit pause.
LEMMA PausesDrive == IInv /\ (Stop \/ WorkerExit) => Driven'
  <1> SUFFICES ASSUME IInv, Stop \/ WorkerExit PROVE Driven'
    OBVIOUS
  <1>1. \E x : task' = [task EXCEPT !.state = "paused", !.from = x]
    BY DEF Stop, WorkerExit, Halt
  <1>2. task'.state = "paused"
    BY <1>1 DEF IInv, TypeOK, Task
  <1> QED
    BY <1>2, Undriven DEF Phases

\* The first turn of a start.
LEMMA StartSetupDrives ==
  ASSUME IInv, Driven, NEW p \in Ops, StartSetup(p)
  PROVE  Driven'
  <1>1. CASE op' = Done(p) /\ UNCHANGED <<task, inject>>
    BY <1>1, OtherEnds DEF StartSetup, At, SameStage, inject, guards
  <1>2. CASE task' = [task EXCEPT !.state = "running", !.round = 1,
                                  !.chips = EnsureRunningRound(<<>>, 1)]
    <2>1. task'.state = "running"
      BY <1>2 DEF IInv, TypeOK, Task
    <2> QED
      BY <2>1, Undriven DEF Phases
  <1> QED
    BY <1>1, <1>2 DEF StartSetup

\* A prompt is in or refused.
LEMMA PromptedDrives ==
  ASSUME IInv, Driven, NEW p \in Ops, Prompted(p) \/ Sent(p)
  PROVE  Driven'
  <1>1. SameStage
    BY SameStages DEF Prompted, Sent
  <1> QED
    BY <1>1, OtherEnds DEF Prompted, Sent, At, guards, inject

\* The reconciliation of Continue happens in a turn of the Worker or of the Judge.
LEMMA ReconcileDrives ==
  ASSUME IInv, Counted, Offered, Driven, NEW p \in Ops, Reconcile(p)
  PROVE  Driven'
  <1>1. op[p].kind = "reconcile" /\ op[p].at = "read" /\ task \in Task
    BY DEF Reconcile, At, IInv, TypeOK
  <1>2. ASSUME Current(p) PROVE task.state \in {"running", "judge-evaluating"}
    BY <1>1, <1>2 DEF Counted, Stage, Current
  <1>3. CASE op' = Done(p) /\ UNCHANGED <<task, guards, inject>>
    BY <1>1, <1>3, OtherEnds DEF SameStage, guards, inject
  <1>4. CASE task' = [task EXCEPT !.state = "judge-evaluating"]
    <2>1. task'.state = "judge-evaluating"
      BY <1>1, <1>4 DEF Task
    <2> QED
      BY <2>1, Undriven DEF Phases
  <1>5. CASE Current(p) /\ Evaluation(p, [task EXCEPT !.state = "running", !.nudged = FALSE])
    <2> DEFINE t == [task EXCEPT !.state = "running", !.nudged = FALSE]
    <2>1. t \in Task
      BY <1>1 DEF Task, States, Active
    <2>2. Evaluation(p, t)
      BY <1>5
    <2> HIDE DEF t
    <2> QED
      BY <1>2, <1>5, <2>1, <2>2, EvaluationDrives
  <1>6. CASE Current(p) /\ Evaluation(p, task)
    BY <1>1, <1>2, <1>6, EvaluationDrives
  <1>7. CASE Current(p) /\ UNCHANGED task
    BY <1>2, <1>7, Undriven DEF Phases
  <1> QED
    BY <1>3, <1>4, <1>5, <1>6, <1>7 DEF Reconcile, VerdictPass

\* A reset happens outside the phases or ends.
LEMMA ResetDoneDrives ==
  ASSUME IInv, Driven, NEW p \in Ops, ResetDone(p)
  PROVE  Driven'
  <1>1. CASE op' = Done(p) /\ UNCHANGED <<task, evaluating, inject>>
    BY <1>1, OtherEnds DEF ResetDone, At, SameStage, inject
  <1>2. CASE task' = [task EXCEPT !.state = "idle", !.round = 0, !.chips = <<>>,
                        !.sent = FALSE, !.from = "", !.resume = FALSE, !.shower = 0]
    <2>1. task'.state = "idle"
      BY <1>2 DEF IInv, TypeOK, Task
    <2> QED
      BY <2>1, Undriven DEF Phases
  <1> QED
    BY <1>1, <1>2 DEF ResetDone

\* So does a Send back, at each of its suspensions.
LEMMA RejectDrives ==
  ASSUME IInv, Counted, Driven, NEW p \in Ops,
         RejectLock(p) \/ RejectDeferred(p) \/ RejectPrompted(p)
  PROVE  Driven'
  <1>1. op[p].kind = "reject" /\ task \in Task /\ op \in [Ops -> Op]
    BY DEF RejectLock, RejectDeferred, RejectPrompted, At, IInv, TypeOK
  <1>2. CASE op' = Done(p) /\ UNCHANGED <<task, evaluating, inject>>
    BY <1>1, <1>2, OtherEnds DEF SameStage, inject
  <1>3. CASE task' = Reopened(task)
    <2>1. task'.state = "running"
      BY <1>3, ReopenedWhole, <1>1 DEF Counted
    <2> QED
      BY <2>1, Undriven DEF Phases
  <1>4. CASE RejectDeferred(p)
    <2>1. \A q \in Ops \ {p} : op'[q] = op[q]
      BY <1>1, <1>4 DEF RejectDeferred
    <2> QED
      BY <1>1, <1>4, <2>1, OtherMoves DEF RejectDeferred, SameStage, inject
  <1>5. CASE /\ At(p, "reject", "prompt") /\ Undoable(p)
             /\ task' = RolledBack(op[p].snap)
    <2> DEFINE snap == op[p].snap
    <2>1. snap \in Task /\ snap.state \in Finished /\ task' = RolledBack(snap)
      BY <1>5, UndoneRound
    <2> HIDE DEF snap
    <2>2. task'.state = snap.state
      BY <1>1, <2>1 DEF RolledBack, Task
    <2> QED
      BY <2>1, <2>2, Undriven DEF Phases, Finished
  <1> QED
    BY <1>2, <1>3, <1>4, <1>5 DEF RejectLock, RejectPrompted, Halt

\* Resend shares a session only with nobody, so it takes no injection from the driver.
LEMMA ResendDrives ==
  ASSUME IInv, Driven, NEW p \in Ops, NEW s \in Sess, Resend(p, s)
  PROVE  Driven'
  <1> DEFINE o == New("send", "prompt", task)
             x == [o EXCEPT !.sess = s, !.live = TRUE, !.written = FALSE]
             others == IF ctl[s] = Key(task) THEN op ELSE Drop(op, s)
  <1>1. /\ op[p] = Free /\ UNCHANGED <<task, evaluating>>
        /\ \A q \in Ops : op[q].sess # s
        /\ op' = [others EXCEPT ![p] = x] /\ ctl' = [ctl EXCEPT ![s] = Key(task)]
    BY DEF Resend, Inject, guards
  <1>2. \A q \in Ops : others[q] = op[q]
    BY <1>1 DEF Drop
  <1>3. DOMAIN others = Ops
    BY DEF Drop, IInv, TypeOK
  <1> HIDE DEF x, others
  <1>4. \A q \in Ops \ {p} : op'[q] = op[q]
    BY <1>1, <1>2, <1>3
  <1>5. \A r \in Sess : ctl'[r] = ctl[r] \/ ctl'[r] = Key(task)
    BY <1>1 DEF IInv, TypeOK
  <1>6. ASSUME task.state \in Phases PROVE Alike(op[evaluating], op'[evaluating])
    BY <1>1, <1>4, <1>6, FreeType DEF Driven, Drives, Alike
  <1> QED
    BY <1>1, <1>5, <1>6, DrivenOn DEF SameStage

\* An agent heard in its own turn.
LEMMA HeardDrives ==
  ASSUME IInv, Counted, Driven, Undisturbed, NEW p \in Ops, Heard(p)
  PROVE  Driven'
  <1>1. task \in Task
    BY DEF IInv, TypeOK
  <1>2. CASE WorkerReady(p)
    <2> DEFINE cs == EnsureRunningRound(task.chips, task.round)
    <2>1. task' = [task EXCEPT !.sent = TRUE, !.resume = FALSE, !.chips = cs]
          /\ task.state = "running"
      BY <1>2 DEF WorkerReady
    <2> HIDE DEF cs
    <2>2. task'.state = "running"
      BY <1>1, <2>1 DEF Task
    <2> QED
      BY <2>2, Undriven DEF Phases
  <1>3. CASE WorkerIdle(p)
    BY <1>1, <1>3, EvaluationDrives DEF WorkerIdle, Undisturbed
  <1>4. CASE JudgeReady(p)
    <2>1. task' = [task EXCEPT !.resume = FALSE] /\ task.state = "judge-evaluating"
      BY <1>4 DEF JudgeReady
    <2>2. task'.state = "judge-evaluating"
      BY <1>1, <2>1 DEF Task
    <2> QED
      BY <2>2, Undriven DEF Phases
  <1>5. CASE \E idleOnly \in BOOLEAN : JudgeIdle(p, idleOnly)
    <2>1. task' = task /\ task.state = "judge-evaluating"
      BY <1>5 DEF JudgeIdle, VerdictPass
    <2> QED
      BY <2>1, Undriven DEF Phases
  <1>6. ~\E s \in Sess : Dropout(p, s)
    BY DEF Dropout, Undisturbed
  <1> QED
    BY <1>2, <1>3, <1>4, <1>5, <1>6 DEF Heard

\* The checks, and what they lead to.
LEMMA EvalChecksDrives ==
  ASSUME IInv, Counted, Driven, NEW p \in Ops, EvalChecks(p)
  PROVE  Driven'
  <1>1. op[p].kind = "evaluate" /\ op[p].at = "checks" /\ op[p] \in Op /\ task \in Task
    BY DEF EvalChecks, At, IInv, TypeOK
  <1>2. CASE ~CurrentRun(p) /\ EndEval(p) /\ UNCHANGED <<task, inject>>
    BY <1>2, StaleEnds DEF SameStage, inject
  <1>3. ASSUME CurrentRun(p)
        PROVE  /\ task.state = "evaluating" /\ op[p].epoch /\ op[p].gen /\ op[p].inc
               /\ op[p].expect = task.state
    BY <1>1, <1>3, EvaluationPhase DEF CurrentRun, Current
  <1>4. CASE /\ CurrentRun(p) /\ task' = [task EXCEPT !.chips = Mark(@, "judge-requested")]
             /\ op' = [op EXCEPT ![p].at = "clear"] /\ UNCHANGED evaluating
    <2> DEFINE o == [op[p] EXCEPT !.at = "clear"]
    <2>1. /\ o.kind = op[p].kind /\ o.at = "clear" /\ o.epoch = op[p].epoch
          /\ o.gen = op[p].gen /\ o.inc = op[p].inc /\ o.expect = op[p].expect
          /\ o.round = op[p].round
      BY <1>1 DEF Op
    <2>2. op'[p] = o
      BY <1>4 DEF IInv, TypeOK
    <2> HIDE DEF o
    <2>3. SameStage
      BY <1>4, SameStages
    <2> QED
      BY <1>1, <1>3, <1>4, <2>1, <2>2, <2>3, DriverMoves DEF SameStage, Injecting
  <1>5. CASE /\ CurrentRun(p) /\ ShowerInterval > 0 /\ UNCHANGED evaluating
             /\ task' = [task EXCEPT !.state = "refreshing", !.chips = Mark(@, "shower")]
             /\ Inject(p, [op[p] EXCEPT !.at = "handoff", !.expect = "refreshing"],
                       "worker", [task EXCEPT !.state = "refreshing", !.chips = Mark(@, "shower")])
    <2> DEFINE t == [task EXCEPT !.state = "refreshing", !.chips = Mark(@, "shower")]
               o == [op[p] EXCEPT !.at = "handoff", !.expect = "refreshing"]
    <2>1. t.state = "refreshing" /\ t.round = task.round
      BY <1>1 DEF Task
    <2>2. /\ o.kind = "evaluate" /\ o.at = "handoff" /\ o.expect = "refreshing"
          /\ o.epoch = op[p].epoch /\ o.gen = op[p].gen /\ o.inc = op[p].inc
          /\ o.round = op[p].round
      BY <1>1 DEF Op
    <2>3. o \in Op
      <3>1. "handoff" \in Points /\ "refreshing" \in States
        BY PointsType DEF States, Active
      <3> QED
        BY <1>1, <3>1 DEF Op
    <2>4. Inject(p, o, "worker", t) /\ task' = t /\ "worker" \in Sess
      BY <1>5 DEF Sess
    <2> HIDE DEF o, t
    <2>5. /\ op'[p].sess = "worker" /\ op'[p].live /\ ctl'["worker"] = Key(t)
          /\ op'[p].kind = o.kind /\ op'[p].epoch = o.epoch
          /\ op'[p].gen = o.gen /\ op'[p].inc = o.inc
          /\ op'[p].expect = o.expect /\ op'[p].round = o.round
      BY <2>3, <2>4, Holding
    <2> QED
      BY <1>1, <1>3, <1>5, <2>1, <2>2, <2>4, <2>5, DriverMoves
  <1>6. CASE /\ CurrentRun(p) /\ Inject(p, [op[p] EXCEPT !.at = "prompt"], "worker", task)
             /\ UNCHANGED <<task, evaluating>>
    BY <1>1, <1>3, <1>6, PointsType, DriverInjects DEF Sess, SameStage
  <1> QED
    BY <1>2, <1>4, <1>5, <1>6 DEF EvalChecks

\* The Judge is asked.
LEMMA EvalClearDrives ==
  ASSUME IInv, Counted, Driven, NEW p \in Ops, EvalClear(p)
  PROVE  Driven'
  <1>1. op[p].kind = "evaluate" /\ op[p].at = "clear"
    BY DEF EvalClear, At
  <1>2. CASE ~CurrentRun(p) /\ EndEval(p) /\ UNCHANGED <<task, inject>>
    BY <1>2, StaleEnds DEF SameStage, inject
  <1>3. CASE /\ CurrentRun(p) /\ task' = [task EXCEPT !.nudged = FALSE]
             /\ Inject(p, [op[p] EXCEPT !.at = "judge"], "judge", task) /\ UNCHANGED evaluating
    <2>1. SameStage /\ task.state = "evaluating"
      BY <1>1, <1>3, SameStages, EvaluationPhase
    <2> QED
      BY <1>1, <1>3, <2>1, PointsType, DriverInjects DEF Sess
  <1> QED
    BY <1>2, <1>3 DEF EvalClear

\* An evaluation whose injection fails pauses the task, or was not the driver: none
\* fails during a shower.
LEMMA EvalErrorDrives ==
  ASSUME IInv, Counted, Driven, Undisturbed, NEW p \in Ops, op[p].kind = "evaluate",
         Threw(p), EvalError(p)
  PROVE  Driven'
  <1>1. CASE task' = [task EXCEPT !.state = "paused", !.from = "evaluating"]
    <2>1. task'.state = "paused"
      BY <1>1 DEF IInv, TypeOK, Task
    <2> QED
      BY <2>1, Undriven DEF Phases
  <1>2. CASE ~CurrentRun(p) /\ EndEval(p) /\ UNCHANGED <<task, inject>>
    BY <1>2, StaleEnds DEF SameStage, inject
  <1>3. CASE CurrentRun(p) /\ task.state # "evaluating"
    <2>1. task.state = "refreshing"
      BY <1>3, EvaluationPhase DEF Phases
    <2>2. ShowerInterval > 0 /\ ShowerInterval = 0
      BY <2>1 DEF Driven, Undisturbed, Threw
    <2> QED
      BY <2>2, BoundAssumption
  <1> QED
    BY <1>1, <1>2, <1>3 DEF EvalError, Halt

\* The driver's own injection is never refused.
LEMMA DriverIsServed ==
  ASSUME IInv, Counted, Driven, NEW p \in Ops, op[p].kind = "evaluate", CurrentRun(p),
         op[p].at \in Injecting
  PROVE  Holds(p)
  BY EvaluationPhase DEF Driven, Drives

\* The evaluation moves the task on, or was not its driver.
LEMMA EvalPromptedDrives ==
  ASSUME IInv, Counted, Driven, Undisturbed, NEW p \in Ops, EvalPrompted(p)
  PROVE  Driven'
  <1>1. op[p].kind = "evaluate" /\ op[p].at \in Injecting /\ task \in Task
    BY DEF EvalPrompted, Injecting, IInv, TypeOK
  <1>2. CASE Threw(p) /\ EvalError(p)
    BY <1>1, <1>2, EvalErrorDrives
  <1>3. CASE Refused(p) /\ EndEval(p) /\ UNCHANGED inject
             /\ (~(Delivered(p) /\ CurrentRun(p)) => task' = task)
    <2>1. ~CurrentRun(p)
      BY <1>1, <1>3, DriverIsServed DEF Refused
    <2> QED
      BY <1>3, <2>1, StaleEnds DEF SameStage, inject
  <1>4. CASE Delivered(p) /\ ~CurrentRun(p) /\ EndEval(p) /\ UNCHANGED <<task, inject>>
    BY <1>4, StaleEnds DEF SameStage, inject
  <1>5. CASE \/ task' = [task EXCEPT !.state = "judge-evaluating",
                                     !.chips = Mark(@, "judge-requested")]
             \/ task' = [task EXCEPT !.state = "running", !.chips = Mark(@, "running")]
    <2>1. task'.state \in {"running", "judge-evaluating"}
      BY <1>1, <1>5 DEF Task
    <2> QED
      BY <2>1, Undriven DEF Phases
  <1> QED
    BY <1>2, <1>3, <1>4, <1>5 DEF EvalPrompted

\* The shower up to its restart.
LEMMA ShowerDrives ==
  ASSUME IInv, Counted, Driven, Undisturbed, NEW p \in Ops, Shower(p)
  PROVE  Driven'
  <1>1. op[p].kind = "evaluate" /\ op[p].at = "handoff" /\ op[p] \in Op
    BY DEF Shower, At, IInv, TypeOK
  <1>2. CASE Threw(p) /\ EvalError(p)
    BY <1>1, <1>2, EvalErrorDrives
  <1>3. CASE ~CurrentRun(p) /\ EndEval(p) /\ UNCHANGED <<task, inject>>
    BY <1>3, StaleEnds DEF SameStage, inject
  <1>4. ASSUME CurrentRun(p) PROVE task.state = "refreshing" => ShowerInterval > 0
    BY DEF Driven
  <1>5. CASE CurrentRun(p) /\ Fallback(p) /\ UNCHANGED <<task, guards>>
    BY <1>1, <1>4, <1>5, PointsType, DriverInjects DEF Fallback, Sess, SameStage, guards
  <1>6. CASE /\ CurrentRun(p)
             /\ op' = [Drop(op, "worker") EXCEPT
                         ![p] = [op[p] EXCEPT !.at = "restart", !.sess = "none",
                                              !.live = FALSE]]
             /\ UNCHANGED <<task, guards>>
    <2> DEFINE o == [op[p] EXCEPT !.at = "restart", !.sess = "none", !.live = FALSE]
    <2>1. /\ o.kind = op[p].kind /\ o.at = "restart" /\ o.epoch = op[p].epoch
          /\ o.gen = op[p].gen /\ o.inc = op[p].inc /\ o.expect = op[p].expect
          /\ o.round = op[p].round
      BY <1>1 DEF Op
    <2>2. op'[p] = o
      BY <1>6 DEF Drop
    <2> HIDE DEF o
    <2>3. op[p].epoch /\ op[p].gen /\ op[p].inc /\ op[p].expect = task.state
      BY <1>6 DEF CurrentRun, Current
    <2> QED
      BY <1>1, <1>4, <1>6, <2>1, <2>2, <2>3, DriverMoves DEF Injecting, guards
  <1> QED
    BY <1>2, <1>3, <1>5, <1>6 DEF Shower

\* The shower's end.
LEMMA ShowerDoneDrives ==
  ASSUME IInv, Driven, Undisturbed, NEW p \in Ops, ShowerDone(p)
  PROVE  Driven'
  <1>1. CASE ~CurrentRun(p) /\ EndEval(p) /\ UNCHANGED <<task, inject>>
    BY <1>1, StaleEnds DEF SameStage, inject
  <1>2. CASE task' = [task EXCEPT !.state = "running", !.chips = Mark(@, "running"),
                        !.resume = TRUE, !.shower = task.round, !.sent = FALSE]
    <2>1. task'.state = "running"
      BY <1>2 DEF IInv, TypeOK, Task
    <2> QED
      BY <2>1, Undriven DEF Phases
  <1> QED
    BY <1>1, <1>2 DEF ShowerDone, Undisturbed

\* A verdict pass that ends.
LEMMA PassDrives ==
  ASSUME IInv, Driven, NEW p \in Ops, op[p].kind = "verdict", EndVerdict(p),
         UNCHANGED <<task, evaluating, inject>>
  PROVE  Driven'
  BY PassEnds, OtherMoves DEF SameStage, inject

\* One whose recheck passes meets the Judge's turn, which needs no driver.
LEMMA VerdictDrives ==
  ASSUME IInv, Counted, Driven, NEW p \in Ops,
         VerdictRead(p) \/ Nudged(p) \/ VerdictLock(p) \/ VerdictPrompted(p)
  PROVE  Driven'
  <1>1. op[p].kind = "verdict" /\ task \in Task
    BY DEF VerdictRead, Nudged, VerdictLock, VerdictPrompted, At, IInv, TypeOK
  <1>2. CASE EndVerdict(p) /\ UNCHANGED <<task, evaluating, inject>>
    BY <1>1, <1>2, PassDrives
  <1>3. CASE task' = [task EXCEPT !.state = "paused", !.from = "judge-evaluating"]
    <2>1. task'.state = "paused"
      BY <1>1, <1>3 DEF Task
    <2> QED
      BY <2>1, Undriven DEF Phases
  <1>4. CASE CurrentRun(p) /\ (VerdictRead(p) \/ VerdictLock(p) \/ VerdictPrompted(p))
    <2>1. task.state = "judge-evaluating"
      BY <1>1, <1>4, VerdictPhase DEF CurrentRun
    <2>2. \/ task' = task \/ task' = [task EXCEPT !.nudged = TRUE]
          \/ \E cs : task' = [task EXCEPT !.chips = cs]
          \/ \E x \in {"paused", "completed", "failed", "running"} : task'.state = x
      <3>1. CASE VerdictEnds(p)
        <4> DEFINE end == IF verdict.says = "complete" THEN "completed" ELSE "failed"
                   cs == Mark(Judged(task.chips, TRUE), end)
        <4>1. task' = [task EXCEPT !.state = end, !.chips = cs]
          BY <3>1 DEF VerdictEnds, Halt
        <4>2. end \in {"completed", "failed"}
          OBVIOUS
        <4> HIDE DEF end, cs
        <4>3. task'.state = end
          BY <1>1, <4>1 DEF Task
        <4> QED
          BY <4>2, <4>3
      <3>2. CASE task' = [task EXCEPT !.state = "paused", !.from = "judge-evaluating"]
        BY <1>1, <3>2 DEF Task
      <3>3. CASE task' = NextRound(task)
        BY <1>1, <3>3 DEF NextRound, Task
      <3> QED
        BY <1>4, <3>1, <3>2, <3>3 DEF VerdictRead, VerdictMissing, VerdictLock,
           VerdictPrompted, Halt
    <2>3. task'.state \notin Phases
      BY <1>1, <2>1, <2>2, SameStages DEF SameStage, Phases
    <2> QED
      BY <2>3, Undriven
  <1> QED
    BY <1>2, <1>3, <1>4 DEF VerdictRead, Nudged, VerdictLock, VerdictPrompted, Halt

\* A write leaves the injection with its holder.
LEMMA WriteDrives ==
  ASSUME IInv, Driven, NEW p \in Ops, Write(p)
  PROVE  Driven'
  <1> DEFINE o == [op[p] EXCEPT !.written = TRUE]
  <1>1. op[p] \in Op /\ op \in [Ops -> Op]
    BY DEF IInv, TypeOK
  <1>2. Alike(op[p], o)
    BY <1>1 DEF Op, Alike
  <1>3. op' = [op EXCEPT ![p] = o] /\ UNCHANGED <<task, evaluating, ctl>>
    BY DEF Write, guards, inject
  <1> HIDE DEF o
  <1>4. \A q \in Ops : Alike(op[q], op'[q])
    BY <1>1, <1>2, <1>3 DEF Alike
  <1> QED
    BY <1>3, <1>4, DrivenOn DEF Driven, SameStage

\* The grace window acts in a turn of the Worker or of the Judge.
LEMMA GraceFiresDrives ==
  ASSUME IInv, Counted, Offered, Driven, NEW p \in Ops, GraceFires(p)
  PROVE  Driven'
  <1>1. task \in Task
    BY DEF IInv, TypeOK
  <1>2. CASE task.state = "judge-evaluating" /\ VerdictPass(p, task, FALSE)
    BY <1>2, Undriven DEF VerdictPass, Phases
  <1>3. CASE task.state = "running" /\ Evaluation(p, task)
    BY <1>1, <1>3, EvaluationDrives
  <1>4. CASE UNCHANGED <<task, op, guards, inject>>
    BY <1>4, DrivenOn DEF SameStage, Alike, guards, inject
  <1> QED
    BY <1>2, <1>3, <1>4 DEF GraceFires

\* Every step leaves a task that is being evaluated its driver.
LEMMA StepDriven ==
  IInv /\ Counted /\ Undisturbed /\ Driven /\ [Next]_vars => Driven'
  <1> SUFFICES ASSUME IInv, Counted, Undisturbed, Driven, [Next]_vars PROVE Driven'
    OBVIOUS
  <1>1. Offered /\ "session" \notin Faults /\ "shell" \notin Faults
    BY DEF Undisturbed
  <1>2. ASSUME NEW p \in Ops, User(p) PROVE Driven'
    BY <1>1, <1>2, UserDrives, ResendDrives DEF User
  <1>3. ASSUME NEW p \in Ops, Step(p) PROVE Driven'
    <2>1. ~Restarted(p)
      BY <1>1 DEF Restarted, At, Counted, Stage
    <2>2. CASE StartSetup(p) \/ Prompted(p) \/ Sent(p) \/ Reconcile(p) \/ ResetDone(p)
      BY <1>1, <2>2, StartSetupDrives, PromptedDrives, ReconcileDrives, ResetDoneDrives
    <2>3. CASE RejectLock(p) \/ RejectDeferred(p) \/ RejectPrompted(p)
      BY <2>3, RejectDrives
    <2>4. CASE EvalChecks(p) \/ EvalClear(p) \/ EvalPrompted(p) \/ Shower(p) \/ ShowerDone(p)
      BY <2>4, EvalChecksDrives, EvalClearDrives, EvalPromptedDrives, ShowerDrives,
         ShowerDoneDrives
    <2>5. CASE VerdictRead(p) \/ Nudged(p) \/ VerdictLock(p) \/ VerdictPrompted(p)
      BY <2>5, VerdictDrives
    <2> QED
      BY <1>3, <2>1, <2>2, <2>3, <2>4, <2>5, WriteDrives DEF Step
  <1>4. CASE Outside
    BY <1>4, OutsideKeeps, DrivenOn DEF SameStage, Alike, guards, inject
  <1>5. ~\E s \in Sess : SessionReplaced(s)
    BY <1>1 DEF SessionReplaced
  <1> QED
    BY <1>1, <1>2, <1>3, <1>4, <1>5, PausesDrive, HeardDrives, GraceFiresDrives
    DEF Next, Outside

\* Between the phases somebody is always left to drive the task, in any interleaving of
\* hooks, user and watcher, with files that fail and hooks that are lost; not when a
\* process dies, an agent drops out, or a write fails in a shower.
THEOREM AnEvaluationIsDriven == ASSUME Undisturbed PROVE Spec => []EvaluationDriven
  <1>1. Init => Driven
    <2> SUFFICES ASSUME Init PROVE Driven
      OBVIOUS
    <2>1. task.state = "idle"
      BY DEF Init
    <2> QED
      BY <2>1 DEF Driven, Phases
  <1>2. IInv /\ Counted /\ Driven /\ [Next]_vars => Driven'
    BY StepDriven
  <1>3. Driven => EvaluationDriven
    BY DEF Driven, Drives, EvaluationDriven, Phases
  <1> QED
    BY <1>1, <1>2, <1>3, RoundsInvariant, PTL DEF Spec

-----------------------------------------------------------------------------
(* A verdict moves the task once. *)

\* Nobody continues a task that was paused or is over, and a file that is cleared is
\* gone: with either, a verdict that moved the task can be read again.
Clearable == "resume" \notin UserOps /\ "disk" \notin Faults

\* An evaluation that has cleared the last verdict and is asking for the next.
AsksJudge(o) == o.kind = "evaluate" /\ o.at = "judge" /\ o.epoch

\* The Judge's turn, and the asking for it, never meet a spent verdict.
Unspent ==
  /\ ~respent
  /\ task.state = "judge-evaluating" => ~verdict.spent
  /\ \A p \in Ops : AsksJudge(op[p]) => ~verdict.spent /\ task.state # "judge-evaluating"
  /\ \A p \in Ops : op[p].kind # "reconcile"

\* An operation that cannot bring a spent verdict before the loop.
Harmless(o) == ~AsksJudge(o) /\ o.kind # "reconcile"

\* A step that begins no Judge's turn and spends nothing.
LEMMA UnspentKept ==
  ASSUME Unspent, respent' = respent, verdict' = verdict \/ ~verdict'.spent,
         task'.state = "judge-evaluating" => task.state = "judge-evaluating",
         \A q \in Ops : Kept(op, op', q) \/ Harmless(op'[q])
  PROVE  Unspent'
  BY DEF Unspent, Harmless, AsksJudge, Kept

\* A halt ends every asking, so what it did to the verdict is of no consequence.
LEMMA UnspentHalts ==
  ASSUME Unspent, ~respent', NEW t, NEW f \in [Ops -> Op], Halt(t, f),
         t.state # "judge-evaluating",
         \A q \in Ops : f[q] = Free \/ Kept(op, f, q)
  PROVE  Unspent'
  <1>1. \A q \in Ops : ~op'[q].epoch /\ Kept(f, op', q)
    BY FencedType DEF Halt
  <1>2. \A q \in Ops : op'[q].kind # "reconcile"
    BY <1>1, FreeType DEF Unspent, Kept
  <1>3. task'.state # "judge-evaluating"
    BY DEF Halt
  <1> QED
    BY <1>1, <1>2, <1>3 DEF Unspent, AsksJudge

\* The function in slot p goes on as something harmless, or ends.
LEMMA UnspentMoves ==
  ASSUME Unspent, NEW p \in Ops, \A q \in Ops \ {p} : Kept(op, op', q), Harmless(op'[p]),
         respent' = respent, verdict' = verdict \/ ~verdict'.spent,
         task'.state = "judge-evaluating" => task.state = "judge-evaluating"
  PROVE  Unspent'
  <1>1. \A q \in Ops : Kept(op, op', q) \/ Harmless(op'[q])
    OBVIOUS
  <1> QED
    BY <1>1, UnspentKept

\* It ends.
LEMMA UnspentEnds ==
  ASSUME IInv, Unspent, NEW p \in Ops, op' = Done(p),
         respent' = respent, verdict' = verdict \/ ~verdict'.spent,
         task'.state = "judge-evaluating" => task.state = "judge-evaluating"
  PROVE  Unspent'
  <1>1. Harmless(op'[p])
    BY Ends1, FreeType DEF Harmless, AsksJudge
  <1> QED
    BY <1>1, Ends1, UnspentMoves

\* It begins an injection as a new operation that asks no Judge.
LEMMA UnspentInjects ==
  ASSUME IInv, Unspent, NEW p \in Ops, NEW o \in Op, NEW s \in Sess, NEW t \in Task,
         Inject(p, o, s, t), o.kind # "reconcile", o.kind # "evaluate" \/ o.at # "judge",
         respent' = respent, verdict' = verdict \/ ~verdict'.spent,
         task'.state = "judge-evaluating" => task.state = "judge-evaluating"
  PROVE  Unspent'
  <1>1. /\ \A q \in Ops \ {p} : Kept(op, op', q)
        /\ op'[p].kind = o.kind /\ op'[p].at = o.at
    BY InjectType DEF IInv, TypeOK
  <1>2. Harmless(op'[p])
    BY <1>1 DEF Harmless, AsksJudge
  <1> QED
    BY <1>1, <1>2, UnspentMoves

\* A suspended function goes on to an injection that asks no Judge.
LEMMA UnspentGoesOn ==
  ASSUME IInv, Unspent, NEW p \in Ops, NEW a \in Points, a # "judge", NEW s \in Sess,
         Inject(p, [op[p] EXCEPT !.at = a], s, task), UNCHANGED <<respent, verdict>>,
         task'.state = "judge-evaluating" => task.state = "judge-evaluating"
  PROVE  Unspent'
  <1>1. task \in Task
    BY DEF IInv, TypeOK
  <1>2. /\ \A q \in Ops \ {p} : Kept(op, op', q)
        /\ op'[p].kind = op[p].kind /\ op'[p].at = a
    BY <1>1, Injects
  <1>3. Harmless(op'[p])
    BY <1>2 DEF Harmless, AsksJudge, Unspent
  <1> QED
    BY <1>2, <1>3, UnspentMoves

\* What the user does brings no verdict back: Continue is not among it.
LEMMA UserSpendsNothing ==
  ASSUME IInv, Unspent, Clearable, NEW p \in Ops, User(p)
  PROVE  Unspent'
  <1>1. task \in Task
    BY DEF IInv, TypeOK
  <1>2. CASE Start(p)
    <2> DEFINE o == New("start", "setup", task)
    <2>1. o \in Op /\ o.kind = "start"
      BY <1>1, News DEF IsNew
    <2>2. op' = [Fenced(op) EXCEPT ![p] = o]
      BY <1>2 DEF Start
    <2> HIDE DEF o
    <2>3. Harmless(op'[p]) /\ \A q \in Ops \ {p} : Kept(op, op', q)
      BY <2>1, <2>2, Advances DEF Harmless, AsksJudge
    <2> QED
      BY <1>2, <2>3, UnspentMoves DEF Start, files
  <1>3. ~Resume(p)
    BY DEF Resume, Clearable
  <1>4. CASE Reset(p)
    <2> DEFINE o == New("reset", "lock", task)
    <2>1. o \in Op /\ o.kind = "reset"
      BY <1>1, News DEF IsNew
    <2>2. op' = [Fenced(op) EXCEPT ![p] = o]
      BY <1>4 DEF Reset
    <2> HIDE DEF o
    <2>3. Harmless(op'[p]) /\ \A q \in Ops \ {p} : Kept(op, op', q)
      BY <2>1, <2>2, Advances DEF Harmless, AsksJudge
    <2> QED
      BY <1>4, <2>3, UnspentMoves DEF Reset, files, seen
  <1>5. CASE Reject(p)
    <2> DEFINE n == New("reject", "lock", task)
               o == [n EXCEPT !.snap = task]
    <2>1. n \in Op /\ n.kind = "reject"
      BY <1>1, News DEF IsNew
    <2> HIDE DEF n
    <2>2. o \in Op /\ o.kind = "reject"
      BY <1>1, <2>1 DEF Op
    <2>3. op' = [Fenced(op) EXCEPT ![p] = o]
      BY <1>5 DEF Reject, n
    <2> HIDE DEF o
    <2>4. Harmless(op'[p]) /\ \A q \in Ops \ {p} : Kept(op, op', q)
      BY <2>2, <2>3, Advances DEF Harmless, AsksJudge
    <2> QED
      BY <1>5, <2>4, UnspentMoves DEF Reject, files
  <1>6. ASSUME NEW s \in Sess, Resend(p, s) PROVE Unspent'
    <2> DEFINE o == New("send", "prompt", task)
    <2>1. o \in Op /\ o.kind = "send"
      BY <1>1, News DEF IsNew
    <2>2. Inject(p, o, s, task)
      BY <1>6 DEF Resend
    <2> HIDE DEF o
    <2> QED
      BY <1>1, <1>6, <2>1, <2>2, UnspentInjects DEF Resend, files, seen
  <1> QED
    BY <1>2, <1>3, <1>4, <1>5, <1>6 DEF User

\* Nor do the starts, resets and Send backs that go on.
LEMMA UserStepsSpendNothing ==
  ASSUME IInv, Counted, Unspent, NEW p \in Ops,
         \/ StartSetup(p) \/ Prompted(p) \/ Reconcile(p) \/ ResetDone(p)
         \/ RejectLock(p) \/ RejectDeferred(p) \/ RejectPrompted(p) \/ Sent(p)
  PROVE  Unspent'
  <1>1. task \in Task
    BY DEF IInv, TypeOK
  <1>2. CASE StartSetup(p)
    <2> DEFINE t == [task EXCEPT !.state = "running", !.round = 1,
                                 !.chips = EnsureRunningRound(<<>>, 1)]
               o == New("start", "prompt", t)
    <2>1. CASE op' = Done(p) /\ UNCHANGED task
      BY <1>2, <2>1, UnspentEnds DEF StartSetup, files, seen
    <2>2. CASE task' = t /\ Inject(p, o, "worker", t)
      <3>1. t \in Task /\ t.state = "running"
        BY <1>1, FirstRound DEF Task, States, Active
      <3> HIDE DEF t
      <3>2. o \in Op /\ o.kind = "start"
        BY <3>1, News DEF IsNew
      <3> HIDE DEF o
      <3> QED
        BY <1>2, <2>2, <3>1, <3>2, UnspentInjects DEF StartSetup, files, seen, Sess
    <2> QED
      BY <1>2, <2>1, <2>2 DEF StartSetup
  <1>3. CASE Prompted(p)
    <2>1. SameStage
      BY <1>3, SameStages DEF Prompted
    <2> QED
      BY <1>3, <2>1, UnspentEnds DEF Prompted, files, seen, SameStage
  <1>4. ~Reconcile(p)
    BY DEF Reconcile, At, Unspent
  <1>5. CASE ResetDone(p)
    <2>1. CASE op' = Done(p) /\ UNCHANGED task
      BY <1>5, <2>1, UnspentEnds DEF ResetDone, seen
    <2>2. CASE /\ task' = [task EXCEPT !.state = "idle", !.round = 0, !.chips = <<>>,
                             !.sent = FALSE, !.from = "", !.resume = FALSE, !.shower = 0]
               /\ op' = [q \in Ops |-> [Done(p)[q] EXCEPT !.live = FALSE]]
      <3>1. task'.state = "idle"
        BY <1>1, <2>2 DEF Task
      <3>2. ASSUME NEW q \in Ops PROVE Kept(op, op', q) \/ Harmless(op'[q])
        <4> DEFINE o == Done(p)[q]
        <4>1. o \in Op /\ (o = op[q] \/ o = Free)
          BY DoneType DEF IInv, TypeOK
        <4>2. op'[q] = [o EXCEPT !.live = FALSE]
          BY <2>2
        <4> HIDE DEF o
        <4>3. Same(o, op'[q])
          BY <4>1, <4>2, Edits
        <4> QED
          BY <4>1, <4>3, FreeType DEF Same, Kept, Harmless, AsksJudge
      <3> QED
        BY <1>5, <3>1, <3>2, UnspentKept DEF ResetDone, seen
    <2> QED
      BY <1>5, <2>1, <2>2 DEF ResetDone
  <1>6. CASE RejectLock(p)
    <2> DEFINE t == Reopened(task)
               n == New("reject", "prompt", t)
               o == [n EXCEPT !.snap = op[p].snap]
    <2>1. CASE op' = Done(p) /\ UNCHANGED task
      BY <1>6, <2>1, UnspentEnds DEF RejectLock, seen
    <2>2. CASE task' = t /\ Inject(p, o, "worker", t)
      <3>1. t \in Task /\ t.state = "running"
        BY <1>1, ReopenedType, ReopenedWhole DEF Counted
      <3> HIDE DEF t
      <3>2. n \in Op /\ n.kind = "reject"
        BY <3>1, News DEF IsNew
      <3> HIDE DEF n
      <3>3. o \in Op /\ o.kind = "reject"
        BY <3>2 DEF IInv, TypeOK, Op
      <3> HIDE DEF o
      <3> QED
        BY <1>6, <2>2, <3>1, <3>3, UnspentInjects DEF RejectLock, seen, Sess
    <2> QED
      BY <1>6, <2>1, <2>2 DEF RejectLock
  <1>7. CASE RejectDeferred(p)
    <2> DEFINE o == [op[p] EXCEPT !.note = TRUE]
    <2>1. Same(op[p], o)
      BY Edits DEF IInv, TypeOK
    <2>2. op' = [op EXCEPT ![p] = o]
      BY <1>7 DEF RejectDeferred
    <2> HIDE DEF o
    <2>3. \A q \in Ops : Kept(op, op', q)
      BY <2>1, <2>2 DEF IInv, TypeOK, Same, Kept
    <2> QED
      BY <1>7, <2>3, UnspentKept DEF RejectDeferred, files, seen
  <1>8. CASE RejectPrompted(p)
    <2>1. CASE op' = Done(p) /\ UNCHANGED <<task, seen>>
      BY <1>8, <2>1, UnspentEnds DEF RejectPrompted, files, seen
    <2>2. CASE Undoable(p) /\ Halt(RolledBack(op[p].snap), Done(p)) /\ UNCHANGED respent
      <3>1. op[p].snap \in Task /\ op[p].snap.state \in Finished
        BY <1>8, <2>2, UndoneRound DEF RejectPrompted
      <3> DEFINE t == RolledBack(op[p].snap)
      <3>2. t.state = op[p].snap.state /\ Halt(t, Done(p))
        BY <1>1, <2>2 DEF RolledBack, Task
      <3> HIDE DEF t
      <3>3. ~respent' /\ t.state # "judge-evaluating"
        BY <2>2, <3>1, <3>2 DEF Unspent, Finished
      <3> QED
        BY <3>2, <3>3, DoneOthers, UnspentHalts
    <2> QED
      BY <1>8, <2>1, <2>2 DEF RejectPrompted
  <1>9. CASE Sent(p)
    BY <1>9, UnspentEnds DEF Sent, files, seen
  <1> QED
    BY <1>2, <1>3, <1>4, <1>5, <1>6, <1>7, <1>8, <1>9

\* An evaluation that begins is at its checks.
LEMMA EvaluationSpendsNothing ==
  ASSUME IInv, Unspent, NEW p \in Ops, Evaluation(p, task), UNCHANGED <<respent, verdict>>
  PROVE  Unspent'
  <1>1. task \in Task
    BY DEF IInv, TypeOK
  <1>2. CASE EvaluationBegins(p, task)
    <2>1. Harmless(op'[p]) /\ task'.state = "evaluating"
      BY <1>2 DEF EvaluationBegins, Harmless, AsksJudge
    <2> QED
      BY <1>1, <2>1, Evaluates, UnspentMoves
  <1>3. CASE EvaluationTurnsAway(p, task)
    BY <1>3, UnspentEnds DEF EvaluationTurnsAway
  <1> QED
    BY <1>1, <1>2, <1>3, Evaluates

\* A verdict pass that begins has read nothing yet.
LEMMA PassSpendsNothing ==
  ASSUME IInv, Unspent, NEW p \in Ops, NEW idleOnly \in BOOLEAN,
         VerdictPass(p, task, idleOnly), UNCHANGED <<respent, verdict>>
  PROVE  Unspent'
  <1>1. task \in Task
    BY DEF IInv, TypeOK
  <1>2. task' = task /\ \A q \in Ops \ {p} : Kept(op, op', q)
    BY <1>1, Passes
  <1>3. CASE PassBegins(p, task)
    <2>1. Harmless(op'[p])
      BY <1>3 DEF PassBegins, Harmless, AsksJudge
    <2> QED
      BY <1>2, <2>1, UnspentMoves
  <1>4. CASE op' = Done(p)
    BY <1>2, <1>4, UnspentEnds
  <1> QED
    BY <1>1, <1>3, <1>4, Passes

\* The agents are heard.
LEMMA HeardSpendsNothing ==
  ASSUME IInv, Unspent, NEW p \in Ops, Heard(p)
  PROVE  Unspent'
  <1>1. task \in Task /\ op \in [Ops -> Op]
    BY DEF IInv, TypeOK
  <1>2. CASE WorkerReady(p)
    <2> DEFINE cs == EnsureRunningRound(task.chips, task.round)
               t == [task EXCEPT !.sent = TRUE, !.resume = FALSE, !.chips = cs]
               o == New("send", "prompt", t)
    <2>1. task' = t /\ Inject(p, o, "worker", t) /\ UNCHANGED <<respent, verdict>>
      BY <1>2 DEF WorkerReady, files, seen
    <2>2. cs \in Seq(Chip)
      BY <1>1, RunningRoundType DEF Task
    <2> HIDE DEF cs
    <2>3. t \in Task /\ t.state = task.state
      BY <1>1, <2>2 DEF Task
    <2> HIDE DEF t
    <2>4. o \in Op /\ o.kind = "send"
      BY <2>3, News DEF IsNew
    <2> HIDE DEF o
    <2> QED
      BY <2>1, <2>3, <2>4, UnspentInjects DEF Sess
  <1>3. CASE WorkerIdle(p)
    BY <1>3, EvaluationSpendsNothing DEF WorkerIdle, files, seen
  <1>4. CASE JudgeReady(p)
    <2> DEFINE t == [task EXCEPT !.resume = FALSE]
               o == New("send", "prompt", t)
    <2>1. task' = t /\ Inject(p, o, "judge", t) /\ UNCHANGED <<respent, verdict>>
      BY <1>4 DEF JudgeReady, files, seen
    <2>2. t \in Task /\ t.state = task.state
      BY <1>1 DEF Task
    <2> HIDE DEF t
    <2>3. o \in Op /\ o.kind = "send"
      BY <2>2, News DEF IsNew
    <2> HIDE DEF o
    <2> QED
      BY <2>1, <2>2, <2>3, UnspentInjects DEF Sess
  <1>5. ASSUME NEW idleOnly \in BOOLEAN, JudgeIdle(p, idleOnly) PROVE Unspent'
    BY <1>5, PassSpendsNothing DEF JudgeIdle, files, seen
  <1>6. ASSUME NEW s \in Sess, Dropout(p, s) PROVE Unspent'
    <2>1. CASE Halt([task EXCEPT !.state = "paused", !.from = task.state], op)
               /\ UNCHANGED respent
      <3> DEFINE t == [task EXCEPT !.state = "paused", !.from = task.state]
      <3>1. t.state = "paused" /\ Halt(t, op)
        BY <1>1, <2>1 DEF Task
      <3> HIDE DEF t
      <3>2. \A q \in Ops : Kept(op, op, q)
        BY DEF Kept
      <3>3. ~respent'
        BY <2>1 DEF Unspent
      <3> QED
        BY <1>1, <3>1, <3>2, <3>3, UnspentHalts
    <2>2. CASE /\ task' = [task EXCEPT !.resume = (s \in told), !.sent = @ /\ s # "worker"]
               /\ op' = [op EXCEPT ![p] = [New("dropout", "restart", task) EXCEPT
                                             !.note = (s = "judge")]]
               /\ UNCHANGED seen
      <3> DEFINE n == New("dropout", "restart", task)
                 o == [n EXCEPT !.note = (s = "judge")]
                 r == s \in told
                 b == task.sent /\ s # "worker"
      <3>1. task' = [task EXCEPT !.resume = r, !.sent = b] /\ op' = [op EXCEPT ![p] = o]
        BY <2>2
      <3>2. n \in Op /\ n.kind = "dropout"
        BY <1>1, News DEF IsNew
      <3> HIDE DEF n
      <3>3. o.kind = "dropout"
        BY <3>2 DEF Op
      <3> HIDE DEF o, r, b
      <3>4. task'.state = task.state
        BY <1>1, <3>1 DEF Task
      <3>5. Harmless(op'[p]) /\ \A q \in Ops \ {p} : Kept(op, op', q)
        BY <1>1, <3>1, <3>3 DEF Kept, Harmless, AsksJudge
      <3> QED
        BY <1>6, <2>2, <3>4, <3>5, UnspentMoves DEF Dropout, files, seen
    <2> QED
      BY <1>6, <2>1, <2>2 DEF Dropout
  <1> QED
    BY <1>2, <1>3, <1>4, <1>5, <1>6 DEF Heard

\* The checks go on to clear the old verdict, to a shower or to a re-prompt.
LEMMA EvalChecksSpendNothing ==
  ASSUME IInv, Unspent, NEW p \in Ops, EvalChecks(p)
  PROVE  Unspent'
  <1>1. task \in Task /\ op[p] \in Op /\ UNCHANGED <<respent, verdict>>
    BY DEF EvalChecks, IInv, TypeOK, files, seen
  <1>2. CASE EndEval(p) /\ UNCHANGED task
    BY <1>1, <1>2, UnspentEnds DEF EndEval
  <1>3. CASE /\ task' = [task EXCEPT !.chips = Mark(@, "judge-requested")]
             /\ op' = [op EXCEPT ![p].at = "clear"]
    <2>1. SameStage
      BY <1>3, SameStages
    <2>2. op'[p].at = "clear" /\ op'[p].kind = op[p].kind
          /\ \A q \in Ops \ {p} : Kept(op, op', q)
      BY <1>3, PointsType, Moves
    <2>3. Harmless(op'[p])
      BY <2>2 DEF Harmless, AsksJudge, Unspent
    <2> QED
      BY <1>1, <2>1, <2>2, <2>3, UnspentMoves DEF SameStage
  <1>4. CASE /\ task' = [task EXCEPT !.state = "refreshing", !.chips = Mark(@, "shower")]
             /\ Inject(p, [op[p] EXCEPT !.at = "handoff", !.expect = "refreshing"],
                       "worker", [task EXCEPT !.state = "refreshing", !.chips = Mark(@, "shower")])
    <2> DEFINE t == [task EXCEPT !.state = "refreshing", !.chips = Mark(@, "shower")]
               o == [op[p] EXCEPT !.at = "handoff", !.expect = "refreshing"]
    <2>1. Mark(task.chips, "shower") \in Seq(Chip) /\ "refreshing" \in States
      BY <1>1, MarkType, ActionsType DEF Task, States, Active
    <2>2. t \in Task /\ t.state = "refreshing"
      BY <1>1, <2>1 DEF Task
    <2>3. o \in Op /\ o.kind = op[p].kind /\ o.at = "handoff"
      BY <1>1, <2>1, PointsType DEF Op
    <2>4. Inject(p, o, "worker", t) /\ task' = t
      BY <1>4
    <2> HIDE DEF o, t
    <2>5. o.kind # "reconcile"
      BY <2>3 DEF Unspent
    <2> QED
      BY <1>1, <2>2, <2>3, <2>4, <2>5, UnspentInjects DEF Sess
  <1>5. CASE /\ Inject(p, [op[p] EXCEPT !.at = "prompt"], "worker", task)
             /\ UNCHANGED task
    BY <1>1, <1>5, PointsType, UnspentGoesOn DEF Sess
  <1> QED
    BY <1>2, <1>3, <1>4, <1>5 DEF EvalChecks

\* Before the Judge is asked, its last verdict is gone.
LEMMA EvalClearSpendsNothing ==
  ASSUME IInv, Counted, Unspent, Clearable, NEW p \in Ops, EvalClear(p)
  PROVE  Unspent'
  <1>1. /\ op[p].kind = "evaluate" /\ op[p].at = "clear" /\ task \in Task
        /\ respent' = respent /\ ~verdict'.spent
    BY DEF EvalClear, At, IInv, TypeOK, Clearable, seen, NoFile
  <1>2. CASE EndEval(p) /\ UNCHANGED task
    BY <1>1, <1>2, UnspentEnds DEF EndEval
  <1>3. CASE /\ CurrentRun(p) /\ task' = [task EXCEPT !.nudged = FALSE]
             /\ Inject(p, [op[p] EXCEPT !.at = "judge"], "judge", task)
    <2>1. task'.state = "evaluating"
      BY <1>1, <1>3, SameStages, EvaluationPhase DEF SameStage
    <2>2. \A q \in Ops \ {p} : Kept(op, op', q)
      BY <1>1, <1>3, PointsType, Injects DEF Sess
    <2>3. op'[p].kind = "evaluate"
      BY <1>1, <1>3, PointsType, Injects DEF Sess
    <2> QED
      BY <1>1, <2>1, <2>2, <2>3 DEF Unspent, AsksJudge, Kept
  <1> QED
    BY <1>2, <1>3 DEF EvalClear

\* An evaluation that fails pauses or just ends.
LEMMA EvalErrorSpendsNothing ==
  ASSUME IInv, Unspent, NEW p \in Ops, EvalError(p), UNCHANGED verdict
  PROVE  Unspent'
  <1>1. CASE EndEval(p) /\ UNCHANGED <<task, seen>>
    BY <1>1, UnspentEnds DEF EndEval, seen
  <1>2. CASE /\ Halt([task EXCEPT !.state = "paused", !.from = "evaluating"], Done(p))
             /\ UNCHANGED respent
    <2> DEFINE t == [task EXCEPT !.state = "paused", !.from = "evaluating"]
    <2>1. t.state = "paused" /\ Halt(t, Done(p)) /\ ~respent'
      BY <1>2 DEF IInv, TypeOK, Task, Unspent
    <2> HIDE DEF t
    <2> QED
      BY <2>1, DoneOthers, UnspentHalts
  <1> QED
    BY <1>1, <1>2 DEF EvalError

\* The Judge's turn begins with the verdict cleared, and no other evaluation is asking.
LEMMA EvalPromptedSpendsNothing ==
  ASSUME IInv, Counted, Unspent, NEW p \in Ops, EvalPrompted(p)
  PROVE  Unspent'
  <1>1. op[p].kind = "evaluate" /\ task \in Task /\ verdict' = verdict
    BY DEF EvalPrompted, IInv, TypeOK, files
  <1>2. CASE EvalError(p)
    BY <1>1, <1>2, EvalErrorSpendsNothing
  <1>3. CASE EndEval(p) /\ UNCHANGED <<task, seen>>
    BY <1>1, <1>3, UnspentEnds DEF EndEval, seen
  <1>4. CASE /\ EndEval(p) /\ UNCHANGED seen
             /\ task' = [task EXCEPT !.state = "running", !.chips = Mark(@, "running")]
    <2>1. task'.state = "running"
      BY <1>1, <1>4 DEF Task
    <2> QED
      BY <1>1, <1>4, <2>1, UnspentEnds DEF EndEval, seen
  <1>5. CASE CurrentRun(p) /\ op[p].at = "judge" /\ EndEval(p) /\ UNCHANGED seen
    <2>1. AsksJudge(op[p])
      BY <1>1, <1>5 DEF AsksJudge, CurrentRun, Current
    <2>2. \A q \in Ops \ {p} : op'[q] = op[q] /\ ~AsksJudge(op[q])
      BY <1>1, <1>5, <2>1, Ends1 DEF IInv, Fine, AsksJudge, EndEval
    <2>3. Harmless(op'[p])
      BY <1>5, Ends1, FreeType DEF EndEval, Harmless, AsksJudge
    <2> QED
      BY <1>1, <1>5, <2>1, <2>2, <2>3 DEF Unspent, Harmless, seen
  <1> QED
    BY <1>2, <1>3, <1>4, <1>5 DEF EvalPrompted

\* A shower asks the Worker only.
LEMMA ShowerSpendsNothing ==
  ASSUME IInv, Unspent, NEW p \in Ops, Shower(p) \/ ShowerDone(p)
  PROVE  Unspent'
  <1>1. task \in Task /\ op[p] \in Op /\ op[p].kind = "evaluate" /\ verdict' = verdict
    BY DEF Shower, ShowerDone, At, IInv, TypeOK, files
  <1>2. CASE EvalError(p)
    BY <1>1, <1>2, EvalErrorSpendsNothing
  <1>3. CASE EndEval(p) /\ UNCHANGED <<task, seen>>
    BY <1>1, <1>3, UnspentEnds DEF EndEval, seen
  <1>4. CASE Fallback(p) /\ UNCHANGED <<task, seen>>
    BY <1>1, <1>4, PointsType, UnspentGoesOn DEF Fallback, Sess, seen
  <1>5. CASE /\ op' = [Drop(op, "worker") EXCEPT
                         ![p] = [op[p] EXCEPT !.at = "restart", !.sess = "none",
                                              !.live = FALSE]]
             /\ UNCHANGED <<task, seen>>
    <2> DEFINE o == [op[p] EXCEPT !.at = "restart", !.sess = "none", !.live = FALSE]
    <2>1. o \in Op /\ o.kind = "evaluate" /\ o.at = "restart"
      BY <1>1, PointsType DEF Op
    <2>2. op' = [Drop(op, "worker") EXCEPT ![p] = o] /\ "worker" \in Sess
      BY <1>5 DEF Sess
    <2> HIDE DEF o
    <2>3. op'[p] = o /\ \A q \in Ops \ {p} : Kept(op, op', q)
      BY <2>1, <2>2, RestartType DEF IInv
    <2>4. Harmless(op'[p])
      BY <2>1, <2>3 DEF Harmless, AsksJudge
    <2> QED
      BY <1>1, <1>5, <2>3, <2>4, UnspentMoves DEF seen
  <1>6. CASE /\ EndEval(p) /\ UNCHANGED seen
             /\ task' = [task EXCEPT !.state = "running", !.chips = Mark(@, "running"),
                           !.resume = TRUE, !.shower = task.round, !.sent = FALSE]
    <2>1. task'.state = "running"
      BY <1>1, <1>6 DEF Task
    <2> QED
      BY <1>1, <1>6, <2>1, UnspentEnds DEF EndEval, seen
  <1>7. CASE Shower(p)
    BY <1>2, <1>3, <1>4, <1>5, <1>7 DEF Shower
  <1>8. CASE ShowerDone(p)
    BY <1>3, <1>4, <1>6, <1>8 DEF ShowerDone
  <1> QED
    BY <1>7, <1>8

\* A pass that ends or is replayed.
LEMMA EndVerdictSpendsNothing ==
  ASSUME IInv, Unspent, NEW p \in Ops, EndVerdict(p), UNCHANGED <<task, verdict, respent>>
  PROVE  Unspent'
  <1>1. CASE op' = Done(p)
    BY <1>1, UnspentEnds
  <1>2. CASE op'[p] = New("verdict", "read", task)
    <2>1. Harmless(op'[p])
      BY <1>2, NewFields DEF Harmless, AsksJudge
    <2> QED
      BY <2>1, PassEnds, UnspentMoves
  <1> QED
    BY <1>1, <1>2, PassEnds

\* A pass that pauses the task, or ends it.
LEMMA VerdictHaltSpends ==
  ASSUME IInv, Unspent, ~respent', NEW p \in Ops, NEW t, Halt(t, Done(p)),
         t.state # "judge-evaluating"
  PROVE  Unspent'
  BY DoneOthers, UnspentHalts

\* What a pass reads is not spent: it moves the task once, and spends it.
LEMMA VerdictSpends ==
  ASSUME IInv, Counted, Unspent, NEW p \in Ops,
         VerdictRead(p) \/ Nudged(p) \/ VerdictLock(p) \/ VerdictPrompted(p)
  PROVE  Unspent'
  <1>1. task \in Task /\ op[p] \in Op /\ op[p].kind = "verdict" /\ op \in [Ops -> Op]
    BY DEF VerdictRead, Nudged, VerdictLock, VerdictPrompted, At, IInv, TypeOK
  <1>2. CASE EndVerdict(p) /\ UNCHANGED <<task, verdict, respent>>
    BY <1>2, EndVerdictSpendsNothing
  <1>3. CASE /\ Halt([task EXCEPT !.state = "paused", !.from = "judge-evaluating"], Done(p))
             /\ UNCHANGED respent
    <2> DEFINE t == [task EXCEPT !.state = "paused", !.from = "judge-evaluating"]
    <2>1. t.state = "paused" /\ Halt(t, Done(p)) /\ ~respent'
      BY <1>1, <1>3 DEF Task, Unspent
    <2> HIDE DEF t
    <2> QED
      BY <2>1, VerdictHaltSpends
  <1>4. ASSUME CurrentRun(p) PROVE task.state = "judge-evaluating" /\ ~verdict.spent
    BY <1>1, <1>4, VerdictPhase DEF CurrentRun, Unspent
  <1>5. ASSUME CurrentRun(p), NEW a \in {"nudge", "feedback"}, NEW s \in Sess,
               Inject(p, [op[p] EXCEPT !.at = a], s, task),
               UNCHANGED <<verdict, respent>>, SameStage
        PROVE  Unspent'
    BY <1>5, PointsType, UnspentGoesOn DEF SameStage
  <1>6. CASE CurrentRun(p) /\ VerdictEnds(p)
    <2> DEFINE end == IF verdict.says = "complete" THEN "completed" ELSE "failed"
               t == [task EXCEPT !.state = end, !.chips = Mark(Judged(@, TRUE), end)]
    <2>1. end \in {"completed", "failed"}
      OBVIOUS
    <2>2. Halt(t, Done(p)) /\ Spend
      BY <1>6 DEF VerdictEnds
    <2>3. t.state = end
      BY <1>1 DEF Task
    <2> HIDE DEF end, t
    <2>4. ~respent' /\ t.state # "judge-evaluating"
      BY <1>4, <1>6, <2>1, <2>2, <2>3 DEF Spend, Unspent
    <2> QED
      BY <2>2, <2>4, VerdictHaltSpends
  <1>7. CASE VerdictRead(p)
    <2>1. CASE ~CurrentRun(p)
      BY <1>2, <1>7, <2>1 DEF VerdictRead, files, seen
    <2>2. CASE CurrentRun(p) /\ VerdictMissing(p)
      <3>1. CASE EndVerdict(p) /\ UNCHANGED <<task, seen>>
        BY <1>2, <2>2, <3>1 DEF VerdictMissing, files, seen
      <3>2. CASE /\ task' = [task EXCEPT !.nudged = TRUE] /\ UNCHANGED seen
                 /\ Inject(p, [op[p] EXCEPT !.at = "nudge"], "judge", task)
        <4>1. SameStage
          BY <3>2, SameStages
        <4> QED
          BY <1>5, <2>2, <3>2, <4>1 DEF VerdictMissing, files, seen, Sess
      <3> QED
        BY <1>3, <2>2, <3>1, <3>2 DEF VerdictMissing
    <2>3. CASE /\ task' = [task EXCEPT !.chips = Judged(@, TRUE)]
               /\ op' = [op EXCEPT ![p].at = "lock"] /\ UNCHANGED <<files, seen>>
      <3>1. SameStage
        BY <2>3, SameStages
      <3>2. op'[p].kind = "verdict" /\ \A q \in Ops \ {p} : Kept(op, op', q)
        BY <1>1, <2>3, PointsType, Moves
      <3>3. Harmless(op'[p])
        BY <3>2 DEF Harmless, AsksJudge
      <3> QED
        BY <2>3, <3>1, <3>2, <3>3, UnspentMoves DEF SameStage, files, seen
    <2> QED
      BY <1>6, <1>7, <2>1, <2>2, <2>3 DEF VerdictRead
  <1>8. CASE Nudged(p)
    BY <1>2, <1>3, <1>8 DEF Nudged, files, seen
  <1>9. CASE VerdictLock(p)
    <2>1. UNCHANGED <<task, verdict, respent>> /\ SameStage
      BY <1>9 DEF VerdictLock, seen, SameStage
    <2> QED
      BY <1>2, <1>5, <1>9, <2>1 DEF VerdictLock, Sess
  <1>10. CASE VerdictPrompted(p)
    <2>1. CASE CurrentRun(p) /\ task' = NextRound(task) /\ Spend /\ op' = Done(p)
      <3>1. ~respent'
        BY <1>4, <2>1 DEF Spend, Unspent
      <3>2. task'.state = "running"
        BY <1>1, <2>1 DEF NextRound, Task
      <3>3. \A q \in Ops : ~AsksJudge(op[q])
        BY <1>4, <2>1 DEF Unspent
      <3>4. \A q \in Ops : Kept(op, op', q) \/ Harmless(op'[q])
        BY <2>1, Ends1, FreeType DEF Harmless, AsksJudge
      <3>5. \A q \in Ops : Harmless(op'[q])
        BY <3>3, <3>4 DEF Unspent, Harmless, AsksJudge, Kept
      <3> QED
        BY <3>1, <3>2, <3>5 DEF Unspent, Harmless
    <2> QED
      BY <1>2, <1>3, <1>10, <2>1 DEF VerdictPrompted, files, seen
  <1> QED
    BY <1>7, <1>8, <1>9, <1>10

\* Sessions, prompts that land, the watcher and the agents.
LEMMA OthersSpendNothing ==
  ASSUME IInv, Unspent,
         \/ Stop \/ WorkerExit \/ Outside
         \/ \E s \in Sess : SessionReplaced(s)
         \/ \E p \in Ops : GraceFires(p) \/ Restarted(p) \/ Write(p)
  PROVE  Unspent'
  <1>1. task \in Task /\ op \in [Ops -> Op] /\ \A q \in Ops : Kept(op, op, q)
    BY DEF IInv, TypeOK, Kept
  <1>2. CASE Stop
    <2> DEFINE t == [task EXCEPT !.state = "paused", !.from = task.state]
    <2>1. t.state = "paused" /\ ~respent' /\ respent' = respent /\ verdict' = verdict
      BY <1>1, <1>2 DEF Task, Stop, Unspent, files
    <2>2. CASE Halt(t, op)
      <3> HIDE DEF t
      <3> QED
        BY <1>1, <2>1, <2>2, UnspentHalts
    <2>3. CASE task' = t /\ op' = [p \in Ops |-> [op[p] EXCEPT !.live = FALSE]]
      <3>1. \A q \in Ops : Same(op[q], op'[q])
        BY <1>1, <2>3, Edits
      <3>2. \A q \in Ops : Kept(op, op', q)
        BY <3>1 DEF Same, Kept
      <3> QED
        BY <2>1, <2>3, <3>2, UnspentKept
    <2> QED
      BY <1>2, <2>2, <2>3 DEF Stop
  <1>3. CASE WorkerExit
    <2> DEFINE t == [task EXCEPT !.state = "paused", !.from = ""]
    <2>1. t.state = "paused" /\ ~respent' /\ Halt(t, NewProcess(op))
      BY <1>1, <1>3 DEF Task, WorkerExit, Unspent
    <2> HIDE DEF t
    <2> QED
      BY <1>1, <2>1, NewProcessType, UnspentHalts
  <1>4. CASE Outside
    <2>1. task' = task /\ op' = op /\ respent' = respent
      BY <1>4, OutsideKeeps DEF seen
    <2>2. verdict' = verdict \/ ~verdict'.spent
      BY <1>4 DEF Outside, WatcherOpens, WatcherLooks, DirChanges, WorkerDone, JudgeWrites,
                  Unheard, vars, files
    <2> QED
      BY <1>1, <2>1, <2>2, UnspentKept
  <1>5. ASSUME NEW s \in Sess, SessionReplaced(s) PROVE Unspent'
    <2>1. \A q \in Ops : Kept(op, op', q)
      BY <1>1, <1>5, NewProcessType DEF SessionReplaced
    <2> QED
      BY <1>5, <2>1, UnspentKept DEF SessionReplaced, files, seen
  <1>6. ASSUME NEW p \in Ops, GraceFires(p) PROVE Unspent'
    <2>1. UNCHANGED <<verdict, respent>>
      BY <1>6 DEF GraceFires, files, seen
    <2>2. CASE UNCHANGED <<task, op>>
      BY <1>1, <2>1, <2>2, UnspentKept
    <2> QED
      BY <1>6, <2>1, <2>2, EvaluationSpendsNothing, PassSpendsNothing DEF GraceFires
  <1>7. ASSUME NEW p \in Ops, Restarted(p) PROVE Unspent'
    <2> DEFINE s == IF op[p].note THEN "judge" ELSE "worker"
    <2>1. s \in Sess /\ op' = [Drop(op, s) EXCEPT ![p] = Free]
          /\ UNCHANGED <<task, verdict, respent>>
      BY <1>7 DEF Sess, Restarted, files, seen
    <2> HIDE DEF s
    <2>2. op'[p] = Free /\ \A q \in Ops \ {p} : Kept(op, op', q)
      BY <2>1, FreeType, RestartType DEF IInv
    <2>3. Harmless(op'[p])
      BY <2>2, FreeType DEF Harmless, AsksJudge
    <2> QED
      BY <2>1, <2>2, <2>3, UnspentMoves
  <1>8. ASSUME NEW p \in Ops, Write(p) PROVE Unspent'
    <2> DEFINE o == [op[p] EXCEPT !.written = TRUE]
    <2>1. Same(op[p], o)
      BY <1>1, Edits
    <2>2. op' = [op EXCEPT ![p] = o]
      BY <1>8 DEF Write
    <2> HIDE DEF o
    <2>3. \A q \in Ops : Kept(op, op', q)
      BY <1>1, <2>1, <2>2 DEF Same, Kept
    <2> QED
      BY <1>8, <2>3, UnspentKept DEF Write, files, seen
  <1> QED
    BY <1>2, <1>3, <1>4, <1>5, <1>6, <1>7, <1>8

\* Every step keeps spent verdicts from the loop.
LEMMA StepUnspent ==
  ASSUME Clearable
  PROVE  IInv /\ Counted /\ Unspent /\ [Next]_vars => Unspent'
  <1> SUFFICES ASSUME IInv, Counted, Unspent, [Next]_vars PROVE Unspent'
    OBVIOUS
  <1>1. ASSUME NEW p \in Ops, Step(p) PROVE Unspent'
    BY <1>1, UserStepsSpendNothing, EvalChecksSpendNothing, EvalClearSpendsNothing,
       EvalPromptedSpendsNothing, ShowerSpendsNothing, VerdictSpends, OthersSpendNothing
    DEF Step
  <1> QED
    BY <1>1, UserSpendsNothing, HeardSpendsNothing, OthersSpendNothing DEF Next, Outside

\* A verdict moves the task once: it is cleared before the Judge is asked for another,
\* and in the Judge's turn nobody but one pass can spend it.  That Continue reads the
\* files again, and that a file may resist being cleared, are the two ways to use one
\* verdict twice.
THEOREM VerdictsAreSpentOnce == ASSUME Clearable PROVE Spec => []VerdictSpentOnce
  <1>1. Init => Unspent
    <2> SUFFICES ASSUME Init PROVE Unspent
      OBVIOUS
    <2>1. task.state = "idle" /\ ~respent /\ \A p \in Ops : op[p] = Free
      BY DEF Init
    <2> QED
      BY <2>1, FreeType DEF Unspent, AsksJudge
  <1>2. IInv /\ Counted /\ Unspent /\ [Next]_vars => Unspent'
    BY StepUnspent
  <1>3. Unspent => VerdictSpentOnce
    BY DEF Unspent, VerdictSpentOnce
  <1> QED
    BY <1>1, <1>2, <1>3, RoundsInvariant, PTL DEF Spec
=============================================================================
