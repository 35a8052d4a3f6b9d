------------------------ MODULE AgentTaskRunner_proof ------------------------
(***************************************************************************)
(* Safety of the Worker/Judge loop for every number of concurrent          *)
(* functions, rounds, showers and restarts and every set of user           *)
(* operations and faults.                                                  *)
(*                                                                         *)
(* None of the three properties is inductive by itself.  That a halted     *)
(* task stays halted rests on what every suspended function may still do   *)
(* when it resumes, so IInv says of each one (Fine): with the current      *)
(* epoch it was asked for, an evaluation or verdict pass meets an active   *)
(* task and owns its guard, a reset was captured on a halted task, and a   *)
(* Send back remembers a finished one.  A halt advances the epoch, which   *)
(* empties the first three for everybody at once (HaltIInv); every other   *)
(* step must show that the task goes on and that the other functions keep  *)
(* what they captured (Frame).                                             *)
(***************************************************************************)
EXTENDS AgentTaskRunner, SequenceTheorems, TLAPS

\* A freshly captured operation.
IsNew(o, kind, t) ==
  /\ o \in Op /\ o.kind = kind /\ o.epoch /\ o.expect = t.state
  /\ o.round = t.round /\ o.snap = None

\* What a captured operation holds: #captureTaskOperation yields a well-typed
\* operation of the current epoch, with the task's state and round and no snapshot.
LEMMA NewType ==
  ASSUME NEW kind \in Kinds, NEW at \in Points, NEW t \in Task
  PROVE  IsNew(New(kind, at, t), kind, t)
  <1>1. t.round \in Nat /\ t.state \in States
    BY DEF Task
  <1>2. Free \in Op
    BY DEF Free, Op, Kinds, Points, States, Active, Finished, Sess
  <1> QED
    BY <1>1, <1>2 DEF IsNew, New, Op, Free

\* The same for each operation the handlers capture.
LEMMA News ==
  ASSUME NEW t \in Task
  PROVE  /\ IsNew(New("start", "setup", t), "start", t)
         /\ IsNew(New("start", "prompt", t), "start", t)
         /\ IsNew(New("reconcile", "read", t), "reconcile", t)
         /\ IsNew(New("reset", "lock", t), "reset", t)
         /\ IsNew(New("reject", "lock", t), "reject", t)
         /\ IsNew(New("reject", "prompt", t), "reject", t)
         /\ IsNew(New("send", "prompt", t), "send", t)
         /\ IsNew(New("evaluate", "checks", t), "evaluate", t)
         /\ IsNew(New("verdict", "read", t), "verdict", t)
         /\ IsNew(New("dropout", "restart", t), "dropout", t)
  <1>1. IsNew(New("start", "setup", t), "start", t)
    <2>1. "start" \in Kinds /\ "setup" \in Points
      BY DEF Kinds, Points
    <2> QED
      BY <2>1, NewType
  <1>2. IsNew(New("start", "prompt", t), "start", t)
    <2>1. "start" \in Kinds /\ "prompt" \in Points
      BY DEF Kinds, Points
    <2> QED
      BY <2>1, NewType
  <1>3. IsNew(New("reconcile", "read", t), "reconcile", t)
    <2>1. "reconcile" \in Kinds /\ "read" \in Points
      BY DEF Kinds, Points
    <2> QED
      BY <2>1, NewType
  <1>4. IsNew(New("reset", "lock", t), "reset", t)
    <2>1. "reset" \in Kinds /\ "lock" \in Points
      BY DEF Kinds, Points
    <2> QED
      BY <2>1, NewType
  <1>5. IsNew(New("reject", "lock", t), "reject", t)
    <2>1. "reject" \in Kinds /\ "lock" \in Points
      BY DEF Kinds, Points
    <2> QED
      BY <2>1, NewType
  <1>6. IsNew(New("reject", "prompt", t), "reject", t)
    <2>1. "reject" \in Kinds /\ "prompt" \in Points
      BY DEF Kinds, Points
    <2> QED
      BY <2>1, NewType
  <1>7. IsNew(New("send", "prompt", t), "send", t)
    <2>1. "send" \in Kinds /\ "prompt" \in Points
      BY DEF Kinds, Points
    <2> QED
      BY <2>1, NewType
  <1>8. IsNew(New("evaluate", "checks", t), "evaluate", t)
    <2>1. "evaluate" \in Kinds /\ "checks" \in Points
      BY DEF Kinds, Points
    <2> QED
      BY <2>1, NewType
  <1>9. IsNew(New("verdict", "read", t), "verdict", t)
    <2>1. "verdict" \in Kinds /\ "read" \in Points
      BY DEF Kinds, Points
    <2> QED
      BY <2>1, NewType
  <1>10. IsNew(New("dropout", "restart", t), "dropout", t)
    <2>1. "dropout" \in Kinds /\ "restart" \in Points
      BY DEF Kinds, Points
    <2> QED
      BY <2>1, NewType
  <1> QED
    BY <1>1, <1>2, <1>3, <1>4, <1>5, <1>6, <1>7, <1>8, <1>9, <1>10

\* A free slot is an operation of no kind and no epoch.
LEMMA FreeType == Free \in Op /\ Free.kind = "none" /\ Free.epoch = FALSE
  BY DEF Free, Op, Kinds, Points, States, Active, Finished, Sess

\* Same, with its edits below: what most steps leave of a captured operation.
Same(o, x) ==
  /\ x \in Op /\ x.kind = o.kind /\ x.at = o.at /\ x.epoch = o.epoch
  /\ x.expect = o.expect /\ x.round = o.round /\ x.snap = o.snap

\* Bookkeeping of injections, runs and incarnations leaves an operation the same.
LEMMA Edits ==
  ASSUME NEW o \in Op
  PROVE  /\ Same(o, [o EXCEPT !.live = FALSE])
         /\ Same(o, [o EXCEPT !.gen = FALSE])
         /\ Same(o, [o EXCEPT !.note = TRUE])
         /\ Same(o, [o EXCEPT !.written = TRUE])
         /\ Same(o, [o EXCEPT !.inc = FALSE, !.live = FALSE])
         /\ \A s \in Sess : Same(o, [o EXCEPT !.sess = s, !.live = TRUE, !.written = FALSE])
  <1>1. Same(o, [o EXCEPT !.live = FALSE])
    <2>1. [o EXCEPT !.live = FALSE] \in Op
      BY ZenonT(30) DEF Op
    <2> QED
      BY <2>1, ZenonT(30) DEF Same, Op
  <1>2. Same(o, [o EXCEPT !.gen = FALSE])
    <2>1. [o EXCEPT !.gen = FALSE] \in Op
      BY ZenonT(30) DEF Op
    <2> QED
      BY <2>1, ZenonT(30) DEF Same, Op
  <1>3. Same(o, [o EXCEPT !.note = TRUE])
    <2>1. [o EXCEPT !.note = TRUE] \in Op
      BY ZenonT(30) DEF Op
    <2> QED
      BY <2>1, ZenonT(30) DEF Same, Op
  <1>4. Same(o, [o EXCEPT !.written = TRUE])
    <2>1. [o EXCEPT !.written = TRUE] \in Op
      BY ZenonT(30) DEF Op
    <2> QED
      BY <2>1, ZenonT(30) DEF Same, Op
  <1>5. Same(o, [o EXCEPT !.inc = FALSE, !.live = FALSE])
    <2>1. [o EXCEPT !.inc = FALSE, !.live = FALSE] \in Op
      BY ZenonT(30) DEF Op
    <2> QED
      BY <2>1, ZenonT(30) DEF Same, Op
  <1>6. ASSUME NEW s \in Sess
        PROVE  Same(o, [o EXCEPT !.sess = s, !.live = TRUE, !.written = FALSE])
    <2>1. [o EXCEPT !.sess = s, !.live = TRUE, !.written = FALSE] \in Op
      BY ZenonT(30) DEF Op
    <2> QED
      BY <2>1, ZenonT(30) DEF Same, Op
  <1> QED
    BY <1>1, <1>2, <1>3, <1>4, <1>5, <1>6

\* Setting the last chip's action keeps the chips well-typed.
LEMMA MarkType ==
  ASSUME NEW cs \in Seq(Chip), NEW a \in Actions
  PROVE  Mark(cs, a) \in Seq(Chip)
  <1>1. CASE cs = <<>>
    BY <1>1 DEF Mark
  <1>2. CASE cs # <<>>
    <2>1. Len(cs) \in 1..Len(cs) /\ cs[Len(cs)] \in Chip
      BY <1>2, EmptySeq, ElementOfSeq
    <2>2. [cs[Len(cs)] EXCEPT !.action = a] \in Chip
      BY <2>1 DEF Chip
    <2>3. [cs EXCEPT ![Len(cs)] = [cs[Len(cs)] EXCEPT !.action = a]] \in Seq(Chip)
      BY <2>1, <2>2, ExceptSeq
    <2> QED
      BY <1>2, <2>3 DEF Mark
  <1> QED
    BY <1>1, <1>2

\* So does setting whether its verdict was read.
LEMMA JudgedType ==
  ASSUME NEW cs \in Seq(Chip), NEW b \in BOOLEAN
  PROVE  Judged(cs, b) \in Seq(Chip)
  <1>1. CASE cs = <<>>
    BY <1>1 DEF Judged
  <1>2. CASE cs # <<>>
    <2>1. Len(cs) \in 1..Len(cs) /\ cs[Len(cs)] \in Chip
      BY <1>2, EmptySeq, ElementOfSeq
    <2>2. [cs[Len(cs)] EXCEPT !.judged = b] \in Chip
      BY <2>1 DEF Chip
    <2>3. [cs EXCEPT ![Len(cs)] = [cs[Len(cs)] EXCEPT !.judged = b]] \in Seq(Chip)
      BY <2>1, <2>2, ExceptSeq
    <2> QED
      BY <1>2, <2>3 DEF Judged
  <1> QED
    BY <1>1, <1>2

\* #ensureRunningRound keeps the chips well-typed.
LEMMA RunningRoundType ==
  ASSUME NEW cs \in Seq(Chip), NEW r \in Nat
  PROVE  EnsureRunningRound(cs, r) \in Seq(Chip)
  <1> DEFINE n == IF r = 0 THEN 1 ELSE r
  <1>1. [round |-> n, action |-> "running", judged |-> FALSE] \in Chip
    BY DEF Chip, Actions
  <1>2. Append(cs, [round |-> n, action |-> "running", judged |-> FALSE]) \in Seq(Chip)
    BY <1>1, AppendProperties
  <1>3. Mark(cs, "running") \in Seq(Chip)
    BY MarkType DEF Actions
  <1> QED
    BY <1>2, <1>3 DEF EnsureRunningRound

\* From f to g, slot q keeps what it captured; its epoch may only end, and what
\* is compared under it with it.
Kept(f, g, q) ==
  /\ g[q].kind = f[q].kind /\ g[q].at = f[q].at /\ g[q].snap = f[q].snap
  /\ g[q].epoch => /\ f[q].epoch
                   /\ g[q].expect = f[q].expect /\ g[q].round = f[q].round

\* #advanceTaskLifecycle leaves no function with the current epoch and changes
\* nothing else that its later checks look at.
LEMMA FencedType ==
  ASSUME NEW f \in [Ops -> Op]
  PROVE  /\ Fenced(f) \in [Ops -> Op]
         /\ \A q \in Ops : Kept(f, Fenced(f), q) /\ ~Fenced(f)[q].epoch
  <1> DEFINE g(q) == [f[q] EXCEPT !.epoch = FALSE, !.gen = FALSE, !.live = FALSE,
                             !.inc = FALSE, !.round = 0, !.expect = "idle", !.from = ""]
  <1>1. ASSUME NEW q \in Ops
        PROVE  /\ g(q) \in Op /\ ~g(q).epoch
               /\ g(q).kind = f[q].kind /\ g(q).at = f[q].at /\ g(q).snap = f[q].snap
    <2> DEFINE o == f[q]
    <2>1. o \in Op
      OBVIOUS
    <2> HIDE DEF o
    <2>2. 0 \in Nat /\ "idle" \in States
      BY DEF States
    <2>3. [o EXCEPT !.epoch = FALSE, !.gen = FALSE, !.live = FALSE,
             !.inc = FALSE, !.round = 0, !.expect = "idle", !.from = ""] \in Op
      BY <2>1, <2>2, ZenonT(60) DEF Op
    <2> QED
      BY <2>1, <2>3, ZenonT(60) DEF o, Op
  <1>2. Fenced(f) = [q \in Ops |-> g(q)]
    BY DEF Fenced
  <1> HIDE DEF g
  <1> QED
    BY <1>1, <1>2 DEF Kept

\* Cancelling a session's injection changes no captured operation.
LEMMA DropType ==
  ASSUME NEW f \in [Ops -> Op], NEW s \in Sess
  PROVE  /\ Drop(f, s) \in [Ops -> Op]
         /\ \A q \in Ops : Kept(f, Drop(f, s), q) /\ (Drop(f, s)[q].epoch = f[q].epoch)
  <1>1. ASSUME NEW q \in Ops
        PROVE  /\ [f[q] EXCEPT !.live = FALSE] \in Op
               /\ Drop(f, s)[q] = IF f[q].sess = s THEN [f[q] EXCEPT !.live = FALSE] ELSE f[q]
    BY Edits DEF Same, Drop
  <1> QED
    BY <1>1, Edits DEF Drop, Same, Kept

\* Beginning an injection writes the slot that begins it and leaves every other
\* function what it captured.
LEMMA InjectType ==
  ASSUME op \in [Ops -> Op], ctl \in [Sess -> Ctl \cup {None}], told \subseteq Sess,
         NEW p \in Ops, NEW o \in Op, NEW s \in Sess, NEW t \in Task, Inject(p, o, s, t)
  PROVE  /\ op' \in [Ops -> Op] /\ ctl' \in [Sess -> Ctl \cup {None}] /\ told' \subseteq Sess
         /\ \A q \in Ops \ {p} : Kept(op, op', q)
         /\ op'[p].kind = o.kind /\ op'[p].at = o.at /\ op'[p].epoch = o.epoch
         /\ op'[p].expect = o.expect /\ op'[p].round = o.round /\ op'[p].snap = o.snap
  <1> DEFINE others == IF ctl[s] = Key(t) THEN op ELSE Drop(op, s)
             n == [o EXCEPT !.sess = s, !.live = TRUE, !.written = FALSE]
  <1>1. others \in [Ops -> Op] /\ \A q \in Ops : Kept(op, others, q)
    BY DropType DEF Kept
  <1>2. n \in Op /\ n.kind = o.kind /\ n.at = o.at /\ n.epoch = o.epoch
        /\ n.expect = o.expect /\ n.round = o.round /\ n.snap = o.snap
    BY Edits DEF Same
  <1>3. op' = [others EXCEPT ![p] = n]
    BY DEF Inject
  <1> HIDE DEF others, n
  <1>4. op' \in [Ops -> Op] /\ op'[p] = n /\ \A q \in Ops \ {p} : op'[q] = others[q]
    BY <1>1, <1>2, <1>3
  <1>5. Key(t) \in Ctl
    BY DEF Key, Ctl, Task
  <1>6. ctl' \in [Sess -> Ctl \cup {None}] /\ told' \subseteq Sess
    BY <1>5 DEF Inject
  <1> QED
    BY <1>1, <1>2, <1>4, <1>6 DEF Kept

\* A new process ends incarnations and changes nothing else that is kept.
LEMMA NewProcessType ==
  ASSUME NEW f \in [Ops -> Op]
  PROVE  /\ NewProcess(f) \in [Ops -> Op]
         /\ \A q \in Ops : Kept(f, NewProcess(f), q)
  <1> DEFINE g(q) == [f[q] EXCEPT !.inc = FALSE, !.live = FALSE]
  <1>1. ASSUME NEW q \in Ops
        PROVE  /\ g(q) \in Op /\ g(q).epoch = f[q].epoch
               /\ g(q).kind = f[q].kind /\ g(q).at = f[q].at
               /\ g(q).expect = f[q].expect /\ g(q).round = f[q].round
               /\ g(q).snap = f[q].snap
    BY Edits DEF Same
  <1>2. NewProcess(f) = [q \in Ops |-> g(q)]
    BY DEF NewProcess
  <1> HIDE DEF g
  <1> QED
    BY <1>1, <1>2 DEF Kept

\* A function that ends frees its own slot only.
LEMMA DoneType ==
  ASSUME op \in [Ops -> Op], NEW p \in Ops
  PROVE  /\ Done(p) \in [Ops -> Op] /\ Done(p)[p] = Free
         /\ \A q \in Ops \ {p} : Done(p)[q] = op[q]
  BY FreeType DEF Done

-----------------------------------------------------------------------------
(* The inductive invariant. *)

\* What every function in flight can rely on.
Fine(p) ==
  /\ op[p].epoch /\ op[p].kind \notin {"none", "reset", "send"} => asked
  /\ op[p].epoch /\ op[p].kind \in {"evaluate", "verdict"} => task.state \in Active
  /\ op[p].kind = "reset" /\ op[p].epoch => op[p].expect \notin Active
  /\ op[p].kind = "reject" => op[p].snap \in Task /\ op[p].snap.state \in Finished
  /\ op[p].kind = "evaluate" /\ op[p].epoch => evaluating = p
  /\ op[p].kind = "verdict" /\ op[p].epoch => handling = p

IInv == TypeOK /\ RunsOnlyWhenAsked /\ \A p \in Ops : Fine(p)

\* A step of another function leaves this one its guard.
Untouched(q) ==
  /\ Kept(op, op', q)
  /\ op'[q].epoch /\ op[q].kind = "evaluate" /\ evaluating = q => evaluating' = q
  /\ op'[q].epoch /\ op[q].kind = "verdict" /\ handling = q => handling' = q

\* No step but a halt ends the loop.
GoesOn ==
  /\ asked => asked'
  /\ task.state \in Active => task'.state \in Active
  /\ task'.state \in Active => asked'

\* A function that another step leaves alone still has its guard.
LEMMA FineKept ==
  ASSUME IInv, GoesOn, NEW q \in Ops, Untouched(q)
  PROVE  Fine(q)'
  BY DEF IInv, Fine, Untouched, GoesOn, Kept

\* A step of the function in slot p that goes on keeps the invariant if it is fine
\* itself and leaves the others alone.
LEMMA Frame ==
  ASSUME IInv, TypeOK', GoesOn, NEW p \in Ops, Fine(p)',
         \A q \in Ops \ {p} : Untouched(q)
  PROVE  IInv'
  <1>1. \A q \in Ops : Fine(q)'
    BY FineKept
  <1> QED
    BY <1>1 DEF IInv, GoesOn, RunsOnlyWhenAsked

\* Pausing, completing or failing the task, from any function, keeps the
\* invariant: the epoch advances, so no one is left who could object.
LEMMA HaltIInv ==
  ASSUME IInv, NEW t \in Task, t.state \notin Active,
         NEW f \in [Ops -> Op], \A q \in Ops : f[q] = Free \/ Kept(op, f, q),
         Halt(t, f),
         dropouts' \in [Sess -> Nat], agent' \in [Sess -> {"idle", "busy"}],
         lock' \in BOOLEAN, verdict' \in Verdict, respent' \in BOOLEAN
  PROVE  IInv'
  <1>1. op' \in [Ops -> Op] /\ \A q \in Ops : Kept(f, op', q) /\ ~op'[q].epoch
    BY FencedType DEF Halt
  <1>2. TypeOK'
    BY <1>1 DEF IInv, TypeOK, Halt, ClearGuards, NoInjection
  <1>3. ASSUME NEW q \in Ops PROVE Fine(q)'
    BY <1>1, FreeType DEF IInv, Fine, Kept
  <1> QED
    BY <1>2, <1>3 DEF IInv, RunsOnlyWhenAsked, Halt
-----------------------------------------------------------------------------
(* The steps that several actions share. *)

\* An injection leaves the other functions their guards.
LEMMA InjectKeeps ==
  ASSUME IInv, NEW p \in Ops, NEW o \in Op, NEW s \in Sess, NEW t \in Task,
         Inject(p, o, s, t), UNCHANGED <<evaluating, handling>>
  PROVE  /\ op' \in [Ops -> Op] /\ ctl' \in [Sess -> Ctl \cup {None}] /\ told' \subseteq Sess
         /\ \A q \in Ops \ {p} : Untouched(q)
         /\ op'[p].kind = o.kind /\ op'[p].epoch = o.epoch
         /\ op'[p].expect = o.expect /\ op'[p].snap = o.snap
  <1>1. /\ op' \in [Ops -> Op] /\ ctl' \in [Sess -> Ctl \cup {None}] /\ told' \subseteq Sess
        /\ \A q \in Ops \ {p} : Kept(op, op', q)
        /\ op'[p].kind = o.kind /\ op'[p].epoch = o.epoch
        /\ op'[p].expect = o.expect /\ op'[p].snap = o.snap
    BY InjectType DEF IInv, TypeOK
  <1> QED
    BY <1>1 DEF Untouched

\* So does a function that ends without taking a guard from another.
LEMMA DoneKeeps ==
  ASSUME IInv, NEW p \in Ops, op' = Done(p),
         \A q \in Ops \ {p} : evaluating = q => evaluating' = q,
         \A q \in Ops \ {p} : handling = q => handling' = q
  PROVE  op' \in [Ops -> Op] /\ Fine(p)' /\ \A q \in Ops \ {p} : Untouched(q)
  BY DoneType, FreeType DEF IInv, TypeOK, Fine, Untouched, Kept

\* #evaluateWorker takes the guard or turns away.
LEMMA EvaluationKeeps ==
  ASSUME IInv, NEW p \in Ops, NEW t \in Task, Evaluation(p, t), asked'
  PROVE  /\ task' \in Task /\ (t.state \in Active => task'.state \in Active)
         /\ op' \in [Ops -> Op] /\ evaluating' \in Ops \cup {None}
         /\ Fine(p)' /\ \A q \in Ops \ {p} : Untouched(q)
  <1>1. CASE task' = t /\ op' = Done(p) /\ UNCHANGED evaluating
    BY <1>1, DoneKeeps DEF IInv, TypeOK, Evaluation
  <1>2. CASE /\ evaluating = None /\ evaluating' = p
             /\ op' = [q \in Ops |->
                  IF q = p THEN [New("evaluate", "checks", t) EXCEPT !.expect = "evaluating"]
                  ELSE [op[q] EXCEPT !.gen = FALSE]]
             /\ task' = [t EXCEPT !.state = "evaluating",
                           !.chips = Judged(Mark(EnsureRunningRound(@, t.round),
                                                 "evaluating"), FALSE)]
    <2> DEFINE o == [New("evaluate", "checks", t) EXCEPT !.expect = "evaluating"]
               g(q) == [op[q] EXCEPT !.gen = FALSE]
    <2>1. t.chips \in Seq(Chip) /\ t.round \in Nat /\ "evaluating" \in Actions
      BY DEF Task, Actions
    <2>2. Judged(Mark(EnsureRunningRound(t.chips, t.round), "evaluating"), FALSE) \in Seq(Chip)
      BY <2>1, RunningRoundType, MarkType, JudgedType
    <2>3. task' \in Task /\ task'.state = "evaluating"
      BY <1>2, <2>2 DEF Task, States, Active
    <2>4. IsNew(New("evaluate", "checks", t), "evaluate", t)
      BY News
    <2>5. o \in Op /\ o.kind = "evaluate"
      BY <2>4 DEF IsNew, Op, States, Active
    <2>6. ASSUME NEW q \in Ops
          PROVE  /\ g(q) \in Op /\ g(q).epoch = op[q].epoch
                 /\ g(q).kind = op[q].kind /\ g(q).at = op[q].at
                 /\ g(q).expect = op[q].expect /\ g(q).round = op[q].round
                 /\ g(q).snap = op[q].snap
      BY Edits DEF IInv, TypeOK, Same
    <2>7. op' = [q \in Ops |-> IF q = p THEN o ELSE g(q)]
      BY <1>2
    <2> HIDE DEF o, g
    <2>8. op' \in [Ops -> Op] /\ op'[p].kind = "evaluate"
          /\ \A q \in Ops \ {p} : Kept(op, op', q)
      BY <2>5, <2>6, <2>7 DEF Kept
    <2>9. \A q \in Ops \ {p} : Untouched(q)
      BY <1>2, <2>8, NoneAssumption DEF Untouched, Evaluation
    <2>10. Fine(p)'
      BY <1>2, <2>3, <2>8 DEF Fine, Active
    <2> QED
      BY <1>2, <2>3, <2>8, <2>9, <2>10 DEF Active
  <1> QED
    BY <1>1, <1>2 DEF Evaluation

\* #handleJudgeVerdict takes the guard, or turns away and may queue itself.
LEMMA VerdictPassKeeps ==
  ASSUME IInv, NEW p \in Ops, NEW t \in Task, t.state \in Active,
         NEW idleOnly \in BOOLEAN, VerdictPass(p, t, idleOnly), asked'
  PROVE  /\ task' \in Task /\ task'.state \in Active
         /\ op' \in [Ops -> Op] /\ handling' \in Ops \cup {None} /\ pending' \in BOOLEAN
         /\ Fine(p)' /\ \A q \in Ops \ {p} : Untouched(q)
  <1>1. CASE /\ handling = None /\ handling' = p /\ UNCHANGED pending
             /\ op' = [op EXCEPT ![p] = [New("verdict", "read", t) EXCEPT !.note = idleOnly]]
    <2> DEFINE o == [New("verdict", "read", t) EXCEPT !.note = idleOnly]
    <2>1. IsNew(New("verdict", "read", t), "verdict", t)
      BY News
    <2>2. o \in Op /\ o.kind = "verdict"
      BY <2>1 DEF IsNew, Op
    <2>3. op' = [op EXCEPT ![p] = o]
      BY <1>1
    <2> HIDE DEF o
    <2>4. op' \in [Ops -> Op] /\ op'[p] = o /\ \A q \in Ops \ {p} : op'[q] = op[q]
      BY <2>2, <2>3 DEF IInv, TypeOK
    <2>5. Fine(p)'
      BY <1>1, <2>2, <2>4 DEF Fine, VerdictPass
    <2>6. \A q \in Ops \ {p} : Untouched(q)
      BY <1>1, <2>4, NoneAssumption DEF Untouched, Kept, VerdictPass
    <2> QED
      BY <1>1, <2>4, <2>5, <2>6 DEF IInv, TypeOK, VerdictPass
  <1>2. CASE /\ handling # None
             /\ pending' = (pending \/ (op[handling].note /\ ~idleOnly))
             /\ op' = Done(p) /\ UNCHANGED handling
    <2>1. op' \in [Ops -> Op] /\ Fine(p)' /\ \A q \in Ops \ {p} : Untouched(q)
      BY <1>2, DoneKeeps DEF VerdictPass
    <2> QED
      BY <1>2, <2>1 DEF IInv, TypeOK, VerdictPass
  <1> QED
    BY <1>1, <1>2 DEF VerdictPass

\* The finally block of #handleJudgeVerdict: it releases its own guard only, and a
\* replayed pass is the owner again.
LEMMA EndVerdictKeeps ==
  ASSUME IInv, NEW p \in Ops, op[p].kind = "verdict", EndVerdict(p),
         UNCHANGED <<task, asked, evaluating>>
  PROVE  /\ op' \in [Ops -> Op] /\ handling' \in Ops \cup {None} /\ pending' \in BOOLEAN
         /\ Fine(p)' /\ \A q \in Ops \ {p} : Untouched(q)
  <1>1. CASE op' = Done(p) /\ \A q \in Ops \ {p} : handling = q => handling' = q
    BY <1>1, DoneKeeps, NoneAssumption DEF EndVerdict, IInv, TypeOK
  <1>2. CASE /\ handling = p /\ Current(p) /\ handling' = p /\ pending' = FALSE
             /\ op' = [op EXCEPT ![p] = New("verdict", "read", task)]
    <2>1. IsNew(New("verdict", "read", task), "verdict", task)
      BY News DEF IInv, TypeOK
    <2>2. /\ op' \in [Ops -> Op] /\ op'[p].kind = "verdict"
          /\ \A q \in Ops \ {p} : op'[q] = op[q]
      BY <1>2, <2>1 DEF IInv, TypeOK, IsNew
    <2>3. Fine(p)'
      BY <1>2, <2>2 DEF IInv, Fine, Current
    <2> QED
      BY <1>2, <2>2, <2>3 DEF Untouched, Kept
  <1> QED
    BY <1>1, <1>2 DEF EndVerdict

\* The release closure of #evaluateWorker frees its own guard only.
LEMMA EndEvalKeeps ==
  ASSUME IInv, NEW p \in Ops, EndEval(p), UNCHANGED handling
  PROVE  /\ op' \in [Ops -> Op] /\ evaluating' \in Ops \cup {None}
         /\ Fine(p)' /\ \A q \in Ops \ {p} : Untouched(q)
  BY DoneKeeps, NoneAssumption DEF EndEval, Release, IInv, TypeOK

-----------------------------------------------------------------------------
(* The user's actions. *)

\* The invariant holds when the runner is created.
LEMMA InitIInv == Init => IInv
  <1> SUFFICES ASSUME Init PROVE IInv
    OBVIOUS
  <1>1. task \in Task
    BY BoundAssumption, EmptySeq DEF Init, Task, States, Active, Finished
  <1>2. op \in [Ops -> Op] /\ \A q \in Ops : op[q] = Free
    BY FreeType DEF Init
  <1>3. TypeOK
    BY <1>1, <1>2 DEF Init, TypeOK, Verdict, NoFile
  <1>4. RunsOnlyWhenAsked
    BY DEF Init, RunsOnlyWhenAsked, Active
  <1>5. ASSUME NEW q \in Ops PROVE Fine(q)
    BY <1>2, FreeType DEF Fine
  <1> QED
    BY <1>3, <1>4, <1>5 DEF IInv

\* What #advanceTaskLifecycle does to the types.
LEMMA AdvanceTypes ==
  ASSUME TypeOK, Advance
  PROVE  /\ evaluating' \in Ops \cup {None} /\ handling' \in Ops \cup {None}
         /\ pending' \in BOOLEAN /\ rejecting' \in Ops \cup {None}
         /\ ctl' \in [Sess -> Ctl \cup {None}] /\ told' \subseteq Sess
         /\ watching' \in BOOLEAN /\ dirty' \in BOOLEAN
         /\ grace' \in Grace \cup {None}
  BY DEF TypeOK, Advance, ClearGuards, NoInjection, Grace

\* A function that starts by advancing the lifecycle.
LEMMA AdvancedOps ==
  ASSUME TypeOK, NEW p \in Ops, NEW o \in Op, op' = [Fenced(op) EXCEPT ![p] = o]
  PROVE  /\ op' \in [Ops -> Op] /\ op'[p] = o
         /\ \A q \in Ops \ {p} : Untouched(q)
  <1>1. Fenced(op) \in [Ops -> Op] /\ \A q \in Ops : Kept(op, Fenced(op), q) /\ ~Fenced(op)[q].epoch
    BY FencedType DEF TypeOK
  <1> QED
    BY <1>1 DEF Untouched, Kept

\* Start keeps the inductive invariant.
LEMMA StartStep == ASSUME IInv, NEW p \in Ops, Start(p) PROVE IInv'
  <1>1. New("start", "setup", task) \in Op
    BY News DEF IInv, TypeOK, IsNew
  <1>2. op' \in [Ops -> Op] /\ op'[p] = New("start", "setup", task)
        /\ \A q \in Ops \ {p} : Untouched(q)
    BY <1>1, AdvancedOps DEF IInv, Start
  <1>3. TypeOK'
    BY <1>2, AdvanceTypes DEF IInv, TypeOK, Start, files
  <1>4. GoesOn
    BY DEF GoesOn, Start
  <1>5. Fine(p)'
    BY <1>2, News DEF IInv, TypeOK, Fine, Start, IsNew
  <1> QED
    BY <1>2, <1>3, <1>4, <1>5, Frame

\* StartSetup keeps the inductive invariant.
LEMMA StartSetupStep == ASSUME IInv, NEW p \in Ops, StartSetup(p) PROVE IInv'
  <1> DEFINE t == [task EXCEPT !.state = "running", !.round = 1,
                               !.chips = EnsureRunningRound(<<>>, 1)]
             o == New("start", "prompt", t)
  <1>1. CASE ~Current(p) /\ op' = Done(p) /\ UNCHANGED <<task, inject>>
    <2>1. TypeOK'
      BY <1>1, DoneType DEF IInv, TypeOK, StartSetup, guards, inject, watch, files, seen
    <2>2. GoesOn
      BY <1>1 DEF IInv, GoesOn, RunsOnlyWhenAsked, StartSetup, seen
    <2>3. Fine(p)' /\ \A q \in Ops \ {p} : Untouched(q)
      BY <1>1, DoneType, FreeType DEF IInv, TypeOK, Fine, Untouched, Kept, StartSetup, guards
    <2> QED
      BY <2>1, <2>2, <2>3, Frame
  <1>2. CASE Current(p) /\ task' = t /\ Inject(p, o, "worker", t)
    <2>1. t \in Task
      BY RunningRoundType, EmptySeq DEF IInv, TypeOK, Task, States, Active
    <2> HIDE DEF t
    <2>2. o \in Op /\ o.kind = "start" /\ o.epoch
      BY <2>1, News DEF IsNew
    <2> HIDE DEF o
    <2>3. /\ op' \in [Ops -> Op] /\ ctl' \in [Sess -> Ctl \cup {None}] /\ told' \subseteq Sess
          /\ op'[p].kind = "start" /\ op'[p].epoch
          /\ \A q \in Ops \ {p} : Kept(op, op', q)
      BY <1>2, <2>1, <2>2, InjectType DEF IInv, TypeOK, Sess
    <2>4. TypeOK'
      BY <1>2, <2>1, <2>3 DEF IInv, TypeOK, StartSetup, guards, watch, files, seen
    <2>5. asked
      BY <1>2 DEF IInv, Fine, StartSetup, Current, At
    <2>6. GoesOn
      BY <1>2, <2>5 DEF GoesOn, StartSetup, seen, t, Active
    <2>7. Fine(p)' /\ \A q \in Ops \ {p} : Untouched(q)
      BY <2>3, <2>5 DEF Fine, Untouched, StartSetup, guards, seen
    <2> QED
      BY <2>3, <2>4, <2>6, <2>7, Frame
  <1> QED
    BY <1>1, <1>2 DEF StartSetup

\* Prompted keeps the inductive invariant.
LEMMA PromptedStep == ASSUME IInv, NEW p \in Ops, Prompted(p) PROVE IInv'
  <1>1. task' \in Task /\ task'.state = task.state
    BY DEF IInv, TypeOK, Prompted, Task
  <1>2. TypeOK'
    BY <1>1, DoneType DEF IInv, TypeOK, Prompted, guards, inject, watch, files, seen
  <1>3. GoesOn
    BY <1>1 DEF IInv, GoesOn, RunsOnlyWhenAsked, Prompted, seen
  <1>4. Fine(p)' /\ \A q \in Ops \ {p} : Untouched(q)
    BY DoneType, FreeType DEF IInv, TypeOK, Fine, Untouched, Kept, Prompted, guards
  <1> QED
    BY <1>2, <1>3, <1>4, Frame

\* stopTask and pauseTask: a halt, or a second pause of a paused task.
LEMMA StopStep == IInv /\ Stop => IInv'
  <1> SUFFICES ASSUME IInv, Stop PROVE IInv'
    OBVIOUS
  <1> DEFINE t == [task EXCEPT !.state = "paused", !.from = task.state]
  <1>1. t \in Task /\ t.state \notin Active
    BY DEF IInv, TypeOK, Task, States, Active
  <1>2. CASE Halt(t, op)
    BY <1>1, <1>2, HaltIInv DEF IInv, TypeOK, Stop, Kept, files
  <1>3. CASE /\ task.state = "paused"
             /\ task' = t /\ evaluating' = None /\ NoInjection
             /\ op' = [p \in Ops |-> [op[p] EXCEPT !.live = FALSE]]
             /\ UNCHANGED <<handling, pending, rejecting, told, watch, asked>>
    <2> DEFINE g(p) == [op[p] EXCEPT !.live = FALSE]
    <2>1. ASSUME NEW p \in Ops
          PROVE  /\ g(p) \in Op /\ g(p).epoch = op[p].epoch
                 /\ g(p).kind = op[p].kind /\ g(p).at = op[p].at
                 /\ g(p).expect = op[p].expect /\ g(p).round = op[p].round
                 /\ g(p).snap = op[p].snap
      BY Edits DEF IInv, TypeOK, Same
    <2>2. op' = [p \in Ops |-> g(p)]
      BY <1>3
    <2> HIDE DEF g
    <2>2b. op' \in [Ops -> Op] /\ \A p \in Ops : Kept(op, op', p)
      BY <2>1, <2>2 DEF Kept
    <2>3. TypeOK'
      BY <1>1, <1>3, <2>2b DEF IInv, TypeOK, NoInjection, Stop, watch, files
    <2>4. GoesOn
      BY <1>1, <1>3 DEF GoesOn, Active
    <2>5. ASSUME NEW p \in Ops PROVE Untouched(p)
      BY <1>3, <2>2b DEF IInv, Fine, Untouched, Kept, Active
    <2>6. \A p \in Ops : Fine(p)'
      BY <2>4, <2>5, FineKept
    <2> QED
      BY <1>1, <1>3, <2>3, <2>6 DEF IInv, RunsOnlyWhenAsked
  <1> QED
    BY <1>2, <1>3 DEF Stop

\* Resume keeps the inductive invariant.
LEMMA ResumeStep == ASSUME IInv, NEW p \in Ops, Resume(p) PROVE IInv'
  <1> DEFINE to == IF task.from = "judge-evaluating" THEN task.from ELSE "running"
             t  == [task EXCEPT !.state = to, !.from = ""]
             o  == [New("reconcile", "read", t) EXCEPT
                      !.from = task.from, !.note = task.state \in Finished]
  <1>1. t \in Task /\ t.state \in Active
    BY DEF IInv, TypeOK, Task, States, Active
  <1>2. IsNew(New("reconcile", "read", t), "reconcile", t)
    BY <1>1, News
  <1>3. o \in Op /\ o.kind = "reconcile"
    <2>1. task.from \in States \cup {""}
      BY DEF IInv, TypeOK, Task
    <2>2. (task.state \in Finished) \in BOOLEAN
      OBVIOUS
    <2>3. ASSUME NEW n \in Op, NEW f \in States \cup {""}, NEW b \in BOOLEAN
          PROVE  [n EXCEPT !.from = f, !.note = b] \in Op
                 /\ [n EXCEPT !.from = f, !.note = b].kind = n.kind
      BY DEF Op
    <2>4. New("reconcile", "read", t) \in Op /\ New("reconcile", "read", t).kind = "reconcile"
      BY <1>2 DEF IsNew
    <2> DEFINE n == New("reconcile", "read", t)
               b == task.state \in Finished
    <2> HIDE DEF n, b
    <2>5. n \in Op /\ n.kind = "reconcile" /\ b \in BOOLEAN
      BY <2>2, <2>4 DEF n, b
    <2>6. [n EXCEPT !.from = task.from, !.note = b] \in Op
          /\ [n EXCEPT !.from = task.from, !.note = b].kind = "reconcile"
      BY <2>1, <2>3, <2>5
    <2> QED
      BY <2>6 DEF n, b
  <1>4. task' = t /\ asked'
        /\ op' = IF task.resume THEN Fenced(op) ELSE [Fenced(op) EXCEPT ![p] = o]
    BY DEF Resume
  <1> HIDE DEF t, o
  <1>5. op' \in [Ops -> Op] /\ (\A q \in Ops \ {p} : Untouched(q)) /\ Fine(p)'
    <2>1. CASE op' = [Fenced(op) EXCEPT ![p] = o]
      BY <1>3, <1>4, <2>1, AdvancedOps DEF IInv, TypeOK, Fine
    <2>2. CASE op' = Fenced(op)
      <3>1. op' \in [Ops -> Op] /\ \A q \in Ops : Kept(op, op', q) /\ ~op'[q].epoch
        BY <2>2, FencedType DEF IInv, TypeOK
      <3> QED
        BY <3>1 DEF IInv, Fine, Untouched, Kept
    <2> QED
      BY <1>4, <2>1, <2>2
  <1>6. TypeOK'
    BY <1>1, <1>4, <1>5, AdvanceTypes DEF IInv, TypeOK, Resume, files
  <1>7. GoesOn
    BY <1>1, <1>4 DEF GoesOn
  <1> QED
    BY <1>5, <1>6, <1>7, Frame

\* Reconcile keeps the inductive invariant.
LEMMA ReconcileStep == ASSUME IInv, NEW p \in Ops, Reconcile(p) PROVE IInv'
  <1>1. op[p].kind = "reconcile" /\ op[p] \in Op /\ asked' = asked
    BY DEF IInv, TypeOK, Reconcile, At, seen
  <1>2. CASE op' = Done(p) /\ UNCHANGED <<task, guards, inject>>
    <2>1. op' \in [Ops -> Op] /\ Fine(p)' /\ \A q \in Ops \ {p} : Untouched(q)
      BY <1>2, DoneKeeps DEF guards
    <2>2. TypeOK'
      BY <1>2, <2>1 DEF IInv, TypeOK, Reconcile, guards, inject, watch, files, seen
    <2>3. GoesOn
      BY <1>1, <1>2 DEF IInv, RunsOnlyWhenAsked, GoesOn
    <2> QED
      BY <2>1, <2>2, <2>3, Frame
  <1>3. CASE Current(p) /\ VerdictPass(p, [task EXCEPT !.state = "judge-evaluating"], FALSE)
    <2> DEFINE t == [task EXCEPT !.state = "judge-evaluating"]
    <2>1. t \in Task /\ t.state \in Active
      BY DEF IInv, TypeOK, Task, States, Active
    <2>2. asked'
      BY <1>1, <1>3 DEF IInv, Fine, Current
    <2> HIDE DEF t
    <2>3. /\ task' \in Task /\ task'.state \in Active
          /\ op' \in [Ops -> Op] /\ handling' \in Ops \cup {None} /\ pending' \in BOOLEAN
          /\ Fine(p)' /\ \A q \in Ops \ {p} : Untouched(q)
      BY <1>3, <2>1, <2>2, VerdictPassKeeps DEF t
    <2>4. TypeOK'
      BY <1>3, <2>3 DEF IInv, TypeOK, Reconcile, VerdictPass, inject, watch, files, seen
    <2>5. GoesOn
      BY <2>2, <2>3 DEF GoesOn
    <2> QED
      BY <2>3, <2>4, <2>5, Frame
  <1>4. ASSUME NEW t \in Task, Current(p), Evaluation(p, t),
               task.state \in Active => t.state \in Active
        PROVE  IInv'
    <2>1. asked'
      BY <1>1, <1>4 DEF IInv, Fine, Current
    <2>2. /\ task' \in Task /\ (t.state \in Active => task'.state \in Active)
          /\ op' \in [Ops -> Op] /\ evaluating' \in Ops \cup {None}
          /\ Fine(p)' /\ \A q \in Ops \ {p} : Untouched(q)
      BY <1>4, <2>1, EvaluationKeeps
    <2>3. TypeOK'
      BY <1>4, <2>2 DEF IInv, TypeOK, Reconcile, Evaluation, inject, watch, files, seen
    <2>4. GoesOn
      BY <1>4, <2>1, <2>2 DEF GoesOn
    <2> QED
      BY <2>2, <2>3, <2>4, Frame
  <1>5. CASE Current(p) /\ Evaluation(p, [task EXCEPT !.state = "running", !.nudged = FALSE])
    <2>1. /\ [task EXCEPT !.state = "running", !.nudged = FALSE] \in Task
          /\ [task EXCEPT !.state = "running", !.nudged = FALSE].state \in Active
      BY DEF IInv, TypeOK, Task, States, Active
    <2> QED
      BY <1>4, <1>5, <2>1
  <1>6. CASE Current(p) /\ Evaluation(p, task)
    BY <1>4, <1>6 DEF IInv, TypeOK
  <1>7. CASE /\ Current(p) /\ Inject(p, [op[p] EXCEPT !.at = "prompt"], "worker", task)
             /\ UNCHANGED <<task, guards>>
    <2> DEFINE o == [op[p] EXCEPT !.at = "prompt"]
    <2>1. o \in Op /\ o.kind = "reconcile" /\ o.epoch = op[p].epoch
      BY <1>1 DEF Op, Points
    <2> HIDE DEF o
    <2>2. /\ op' \in [Ops -> Op] /\ ctl' \in [Sess -> Ctl \cup {None}] /\ told' \subseteq Sess
          /\ \A q \in Ops \ {p} : Untouched(q)
          /\ op'[p].kind = o.kind /\ op'[p].epoch = o.epoch
      BY <1>7, <2>1, InjectKeeps DEF IInv, TypeOK, Sess, guards, o
    <2>3. TypeOK'
      BY <1>7, <2>2 DEF IInv, TypeOK, Reconcile, guards, watch, files, seen
    <2>4. GoesOn
      BY <1>1, <1>7 DEF IInv, RunsOnlyWhenAsked, GoesOn
    <2>5. Fine(p)'
      BY <1>1, <2>1, <2>2 DEF IInv, Fine
    <2> QED
      BY <2>2, <2>3, <2>4, <2>5, Frame
  <1> QED
    BY <1>2, <1>3, <1>5, <1>6, <1>7 DEF Reconcile

\* resetTask is offered on a halted task only.
LEMMA ResetStep == ASSUME IInv, NEW p \in Ops, Reset(p) PROVE IInv'
  <1>1. IsNew(New("reset", "lock", task), "reset", task)
    BY News DEF IInv, TypeOK
  <1>2. op' \in [Ops -> Op] /\ op'[p] = New("reset", "lock", task)
        /\ \A q \in Ops \ {p} : Untouched(q)
    BY <1>1, AdvancedOps DEF IInv, Reset, IsNew
  <1>3. TypeOK'
    BY <1>2, AdvanceTypes DEF IInv, TypeOK, Reset, files, seen
  <1>4. GoesOn
    BY DEF IInv, RunsOnlyWhenAsked, GoesOn, Reset, seen
  <1>5. Fine(p)'
    BY <1>1, <1>2 DEF IInv, Fine, Reset, IsNew, Active, Finished
  <1> QED
    BY <1>2, <1>3, <1>4, <1>5, Frame

\* It destroys nothing unless the task is still in that halted state.
LEMMA ResetDoneStep == ASSUME IInv, NEW p \in Ops, ResetDone(p) PROVE IInv'
  <1>1. CASE op' = Done(p) /\ UNCHANGED <<task, evaluating, inject, dropouts>>
    <2>1. op' \in [Ops -> Op] /\ Fine(p)' /\ \A q \in Ops \ {p} : Untouched(q)
      BY <1>1, DoneKeeps DEF ResetDone
    <2>2. TypeOK'
      BY <1>1, <2>1 DEF IInv, TypeOK, ResetDone, inject, watch, seen, Touched
    <2>3. GoesOn
      BY <1>1 DEF IInv, RunsOnlyWhenAsked, GoesOn, ResetDone, seen
    <2> QED
      BY <2>1, <2>2, <2>3, Frame
  <1>2. CASE /\ Current(p) /\ lock' = TRUE /\ Touched
             /\ task' = [task EXCEPT !.state = "idle", !.round = 0, !.chips = <<>>,
                           !.sent = FALSE, !.from = "", !.resume = FALSE, !.shower = 0]
             /\ op' = [q \in Ops |-> [Done(p)[q] EXCEPT !.live = FALSE]]
             /\ NoInjection /\ told' = {}
             /\ evaluating' = None /\ dropouts' = [s \in Sess |-> 0]
    <2> DEFINE g(q) == [Done(p)[q] EXCEPT !.live = FALSE]
    <2>1. ASSUME NEW q \in Ops
          PROVE  /\ g(q) \in Op /\ g(q).epoch = Done(p)[q].epoch
                 /\ g(q).kind = Done(p)[q].kind /\ g(q).at = Done(p)[q].at
                 /\ g(q).expect = Done(p)[q].expect /\ g(q).round = Done(p)[q].round
                 /\ g(q).snap = Done(p)[q].snap
      <3>1. Done(p)[q] \in Op
        BY DoneType DEF IInv, TypeOK
      <3> QED
        BY <3>1, Edits DEF Same
    <2>2. op' = [q \in Ops |-> g(q)]
      BY <1>2
    <2> HIDE DEF g
    <2>3. op' \in [Ops -> Op] /\ \A q \in Ops : Kept(Done(p), op', q)
      BY <2>1, <2>2 DEF Kept
    <2>4. task' \in Task /\ task'.state = "idle"
      BY <1>2, EmptySeq DEF IInv, TypeOK, Task, States, Active
    <2>5. task.state \notin Active
      BY <1>2 DEF IInv, Fine, Current, ResetDone, At
    <2>6. TypeOK'
      BY <1>2, <2>3, <2>4 DEF IInv, TypeOK, ResetDone, NoInjection, Touched, seen
    <2>7. GoesOn
      BY <2>4, <2>5 DEF GoesOn, ResetDone, seen, Active
    <2>8. Fine(p)'
      BY <2>3, DoneType, FreeType DEF IInv, TypeOK, Fine, Kept
    <2>9. ASSUME NEW q \in Ops \ {p} PROVE Untouched(q)
      BY <2>3, <2>5, DoneType DEF IInv, TypeOK, Fine, Untouched, Kept, ResetDone
    <2> QED
      BY <2>6, <2>7, <2>8, <2>9, Frame
  <1> QED
    BY <1>1, <1>2 DEF ResetDone

\* Reject keeps the inductive invariant.
LEMMA RejectStep == ASSUME IInv, NEW p \in Ops, Reject(p) PROVE IInv'
  <1> DEFINE o == [New("reject", "lock", task) EXCEPT !.snap = task]
  <1>1. IsNew(New("reject", "lock", task), "reject", task)
    BY News DEF IInv, TypeOK
  <1>2. o \in Op /\ o.kind = "reject" /\ o.snap = task
    BY <1>1 DEF IInv, TypeOK, IsNew, Op
  <1>3. op' = [Fenced(op) EXCEPT ![p] = o]
    BY DEF Reject
  <1> HIDE DEF o
  <1>4. op' \in [Ops -> Op] /\ op'[p] = o /\ \A q \in Ops \ {p} : Untouched(q)
    BY <1>2, <1>3, AdvancedOps DEF IInv
  <1>5. TypeOK'
    BY <1>4 DEF IInv, TypeOK, Reject, NoInjection, Grace, files
  <1>6. GoesOn
    BY DEF GoesOn, Reject
  <1>7. Fine(p)'
    BY <1>2, <1>4 DEF IInv, TypeOK, Fine, Reject
  <1> QED
    BY <1>4, <1>5, <1>6, <1>7, Frame

\* Send back reopens the task as running.
LEMMA ReopenedType ==
  ASSUME NEW t \in Task
  PROVE  Reopened(t) \in Task /\ Reopened(t).state = "running"
  <1>0. t.chips \in Seq(Chip) /\ t.round \in Nat
    BY DEF Task
  <1>1. t.chips \in Seq(Chip) /\ t.round + 1 \in Nat
    BY <1>0
  <1>1b. "re-prompted" \in Actions
    BY DEF Actions
  <1>2. EnsureRunningRound(Mark(t.chips, "re-prompted"), t.round + 1) \in Seq(Chip)
    BY <1>1, <1>1b, MarkType, RunningRoundType
  <1> QED
    BY <1>1, <1>2 DEF Reopened, Task, States, Active

\* RejectLock keeps the inductive invariant.
LEMMA RejectLockStep == ASSUME IInv, NEW p \in Ops, RejectLock(p) PROVE IInv'
  <1>1. op[p].kind = "reject" /\ asked' = asked
    BY DEF RejectLock, At, seen
  <1>2. CASE op' = Done(p) /\ Unreject(p) /\ UNCHANGED <<task, inject>>
    <2>1. op' \in [Ops -> Op] /\ Fine(p)' /\ \A q \in Ops \ {p} : Untouched(q)
      BY <1>2, DoneKeeps DEF RejectLock
    <2>2. TypeOK'
      BY <1>2, <2>1 DEF IInv, TypeOK, RejectLock, Unreject, inject, watch, seen, Touched
    <2>3. GoesOn
      BY <1>1, <1>2 DEF IInv, RunsOnlyWhenAsked, GoesOn
    <2> QED
      BY <2>1, <2>2, <2>3, Frame
  <1>3. CASE /\ Current(p) /\ lock' = TRUE /\ Touched
             /\ task' = Reopened(task)
             /\ Inject(p, [New("reject", "prompt", Reopened(task)) EXCEPT !.snap = op[p].snap],
                       "worker", Reopened(task))
             /\ UNCHANGED rejecting
    <2> DEFINE t == Reopened(task)
               o == [New("reject", "prompt", t) EXCEPT !.snap = op[p].snap]
    <2>1. t \in Task /\ t.state = "running"
      BY ReopenedType DEF IInv, TypeOK
    <2> HIDE DEF t
    <2>2. IsNew(New("reject", "prompt", t), "reject", t)
      BY <2>1, News
    <2>3. op[p].snap \in Task /\ op[p].snap.state \in Finished /\ asked
      BY <1>1, <1>3 DEF IInv, Fine, Current
    <2>4. o \in Op /\ o.kind = "reject" /\ o.snap = op[p].snap
      BY <2>2, <2>3 DEF IsNew, Op
    <2> HIDE DEF o
    <2>5. /\ op' \in [Ops -> Op] /\ ctl' \in [Sess -> Ctl \cup {None}] /\ told' \subseteq Sess
          /\ \A q \in Ops \ {p} : Untouched(q)
          /\ op'[p].kind = o.kind /\ op'[p].snap = o.snap
      <3>1. Inject(p, o, "worker", t) /\ UNCHANGED <<evaluating, handling>> /\ "worker" \in Sess
        BY <1>3 DEF RejectLock, Sess, t, o
      <3> QED
        BY <2>1, <2>4, <3>1, InjectKeeps
    <2>6. TypeOK'
      BY <1>3, <2>1, <2>5 DEF IInv, TypeOK, RejectLock, Touched, seen, t
    <2>7. GoesOn
      BY <1>1, <1>3, <2>1, <2>3 DEF GoesOn, Active, t
    <2>8. Fine(p)'
      BY <1>1, <2>3, <2>4, <2>5 DEF Fine
    <2> QED
      BY <2>5, <2>6, <2>7, <2>8, Frame
  <1> QED
    BY <1>2, <1>3 DEF RejectLock

\* RejectDeferred keeps the inductive invariant.
LEMMA RejectDeferredStep == ASSUME IInv, NEW p \in Ops, RejectDeferred(p) PROVE IInv'
  <1> DEFINE o == [op[p] EXCEPT !.note = TRUE]
  <1>1. /\ o \in Op /\ o.kind = op[p].kind /\ o.epoch = op[p].epoch
        /\ o.expect = op[p].expect /\ o.snap = op[p].snap
    BY Edits DEF IInv, TypeOK, Same
  <1>2. op' = [op EXCEPT ![p] = o]
    BY DEF RejectDeferred
  <1> HIDE DEF o
  <1>3. op' \in [Ops -> Op] /\ op'[p] = o /\ \A q \in Ops \ {p} : op'[q] = op[q]
    BY <1>1, <1>2 DEF IInv, TypeOK
  <1>4. TypeOK'
    BY <1>3 DEF IInv, TypeOK, RejectDeferred, Unreject, inject, watch, files, seen
  <1>5. GoesOn
    BY DEF IInv, RunsOnlyWhenAsked, GoesOn, RejectDeferred, seen
  <1>6. Fine(p)' /\ \A q \in Ops \ {p} : Untouched(q)
    BY <1>1, <1>3 DEF IInv, Fine, Untouched, Kept, RejectDeferred, seen
  <1> QED
    BY <1>4, <1>5, <1>6, Frame

\* Undoing Send back restores the state it found.
LEMMA RolledBackType ==
  ASSUME TypeOK, NEW snap \in Task
  PROVE  RolledBack(snap) \in Task /\ RolledBack(snap).state = snap.state
  <1> DEFINE n  == IF Len(task.chips) > Len(snap.chips) THEN Len(snap.chips)
                   ELSE Len(task.chips)
             cs == SubSeq(task.chips, 1, n)
             a  == IF snap.chips = <<>> THEN "running" ELSE Last(snap.chips).action
  <1>1. task.chips \in Seq(Chip) /\ snap.chips \in Seq(Chip)
    BY DEF TypeOK, Task
  <1>2. n \in Nat /\ n <= Len(task.chips)
    BY <1>1, LenProperties
  <1>3. \A i \in 1..n : task.chips[i] \in Chip
    BY <1>1, <1>2, ElementOfSeq
  <1>4. cs \in Seq(Chip)
    BY <1>2, <1>3, SubSeqProperties
  <1>5. a \in Actions
    <2>1. CASE snap.chips = <<>>
      BY <2>1 DEF Actions
    <2>2. CASE snap.chips # <<>>
      <3>1. Len(snap.chips) \in 1..Len(snap.chips)
        BY <1>1, <2>2, EmptySeq
      <3>2. snap.chips[Len(snap.chips)] \in Chip
        BY <1>1, <3>1, ElementOfSeq
      <3> QED
        BY <2>2, <3>2 DEF Last, Chip
    <2> QED
      BY <2>1, <2>2
  <1>6. Mark(cs, a) \in Seq(Chip)
    BY <1>4, <1>5, MarkType
  <1>7. RolledBack(snap) = [task EXCEPT !.state = snap.state, !.round = snap.round,
                              !.limit = snap.limit, !.chips = Mark(cs, a)]
    BY DEF RolledBack
  <1> HIDE DEF n, cs, a
  <1> QED
    BY <1>6, <1>7 DEF TypeOK, Task

\* A failed Send back halts in the finished state of its snapshot.
LEMMA RejectPromptedStep == ASSUME IInv, NEW p \in Ops, RejectPrompted(p) PROVE IInv'
  <1>1. op[p].snap \in Task /\ op[p].snap.state \in Finished
    BY DEF IInv, Fine, RejectPrompted, At
  <1>2. CASE Halt(RolledBack(op[p].snap), Done(p)) /\ UNCHANGED respent
    <2>1. RolledBack(op[p].snap) \in Task /\ RolledBack(op[p].snap).state \notin Active
      BY <1>1, RolledBackType DEF IInv, Active, Finished
    <2>2. Done(p) \in [Ops -> Op] /\ \A q \in Ops : Done(p)[q] = Free \/ Kept(op, Done(p), q)
      BY DoneType DEF IInv, TypeOK, Kept
    <2>3. /\ dropouts' \in [Sess -> Nat] /\ agent' \in [Sess -> {"idle", "busy"}]
          /\ lock' \in BOOLEAN /\ verdict' \in Verdict /\ respent' \in BOOLEAN
      BY <1>2 DEF IInv, TypeOK, RejectPrompted, files
    <2> QED
      BY <1>2, <2>1, <2>2, <2>3, HaltIInv
  <1>3. CASE /\ op' = Done(p) /\ Unreject(p)
             /\ UNCHANGED <<task, evaluating, handling, pending, inject, watch, seen>>
    <2>1. op' \in [Ops -> Op] /\ Fine(p)' /\ \A q \in Ops \ {p} : Untouched(q)
      BY <1>3, DoneKeeps
    <2>2. TypeOK'
      BY <1>3, <2>1 DEF IInv, TypeOK, RejectPrompted, Unreject, inject, watch, files, seen
    <2>3. GoesOn
      BY <1>3 DEF IInv, RunsOnlyWhenAsked, GoesOn, seen
    <2> QED
      BY <2>1, <2>2, <2>3, Frame
  <1> QED
    BY <1>2, <1>3 DEF RejectPrompted

\* Resend keeps the inductive invariant.
LEMMA ResendStep == ASSUME IInv, NEW p \in Ops, NEW s \in Sess, Resend(p, s) PROVE IInv'
  <1>1. IsNew(New("send", "prompt", task), "send", task)
    BY News DEF IInv, TypeOK
  <1>2. /\ op' \in [Ops -> Op] /\ ctl' \in [Sess -> Ctl \cup {None}] /\ told' \subseteq Sess
        /\ \A q \in Ops \ {p} : Untouched(q)
        /\ op'[p].kind = "send"
    <2>1. New("send", "prompt", task) \in Op /\ New("send", "prompt", task).kind = "send"
      BY <1>1 DEF IsNew
    <2>2. Inject(p, New("send", "prompt", task), s, task) /\ UNCHANGED <<evaluating, handling>>
      BY DEF Resend, guards
    <2>3. task \in Task
      BY DEF IInv, TypeOK
    <2> QED
      BY <2>1, <2>2, <2>3, InjectKeeps
  <1>3. TypeOK'
    BY <1>2 DEF IInv, TypeOK, Resend, guards, watch, files, seen
  <1>4. GoesOn
    BY DEF IInv, RunsOnlyWhenAsked, GoesOn, Resend, seen
  <1>5. Fine(p)'
    BY <1>2 DEF Fine
  <1> QED
    BY <1>2, <1>3, <1>4, <1>5, Frame

\* Sent keeps the inductive invariant.
LEMMA SentStep == ASSUME IInv, NEW p \in Ops, Sent(p) PROVE IInv'
  <1>1. op' \in [Ops -> Op] /\ Fine(p)' /\ \A q \in Ops \ {p} : Untouched(q)
    BY DoneKeeps DEF Sent, guards
  <1>2. TypeOK'
    BY <1>1 DEF IInv, TypeOK, Sent, guards, inject, watch, files, seen
  <1>3. GoesOn
    BY DEF IInv, RunsOnlyWhenAsked, GoesOn, Sent, seen
  <1> QED
    BY <1>1, <1>2, <1>3, Frame

-----------------------------------------------------------------------------
(* The Worker's turn. *)

\* A function that ends by halting the loop.
LEMMA DoneHalts ==
  ASSUME IInv, NEW p \in Ops, NEW t \in Task, t.state \notin Active, Halt(t, Done(p)),
         dropouts' \in [Sess -> Nat], agent' \in [Sess -> {"idle", "busy"}],
         lock' \in BOOLEAN, verdict' \in Verdict, respent' \in BOOLEAN
  PROVE  IInv'
  <1>1. Done(p) \in [Ops -> Op] /\ \A q \in Ops : Done(p)[q] = Free \/ Kept(op, Done(p), q)
    BY DoneType DEF IInv, TypeOK, Kept
  <1> QED
    BY <1>1, HaltIInv

\* A function that goes on to its next suspension, with or without an injection.
LEMMA MovedType ==
  ASSUME NEW o \in Op, NEW a \in Points
  PROVE  /\ [o EXCEPT !.at = a] \in Op
         /\ [o EXCEPT !.at = a].kind = o.kind /\ [o EXCEPT !.at = a].epoch = o.epoch
         /\ [o EXCEPT !.at = a].expect = o.expect /\ [o EXCEPT !.at = a].snap = o.snap
         /\ [o EXCEPT !.at = a].at = a /\ [o EXCEPT !.at = a].round = o.round
  <1>1. [o EXCEPT !.at = a] \in Op
    BY ZenonT(30) DEF Op
  <1> QED
    BY <1>1, ZenonT(30) DEF Op

\* Some suspension points.
LEMMA PointsType ==
  /\ "prompt" \in Points /\ "clear" \in Points /\ "judge" \in Points
  /\ "handoff" \in Points /\ "restart" \in Points /\ "nudge" \in Points
  /\ "feedback" \in Points /\ "lock" \in Points
  BY DEF Points

\* Some chip actions.
LEMMA ActionsType ==
  /\ "judge-requested" \in Actions /\ "shower" \in Actions /\ "running" \in Actions
  /\ "completed" \in Actions /\ "failed" \in Actions /\ "re-prompted" \in Actions
  BY DEF Actions

\* An evaluation or a verdict pass that goes on to inject keeps its guard.
LEMMA InjectedOn ==
  ASSUME IInv, NEW p \in Ops, NEW a \in Points, NEW s \in Sess, NEW t \in Task,
         Inject(p, [op[p] EXCEPT !.at = a], s, t), UNCHANGED <<evaluating, handling, asked>>,
         op[p].kind \in {"evaluate", "verdict"}, task'.state \in Active
  PROVE  /\ op' \in [Ops -> Op] /\ ctl' \in [Sess -> Ctl \cup {None}] /\ told' \subseteq Sess
         /\ Fine(p)' /\ \A q \in Ops \ {p} : Untouched(q)
  <1> DEFINE o == [op[p] EXCEPT !.at = a]
  <1>1. o \in Op /\ o.kind = op[p].kind /\ o.epoch = op[p].epoch
    BY MovedType DEF IInv, TypeOK
  <1>2. Inject(p, o, s, t) /\ UNCHANGED <<evaluating, handling>>
    OBVIOUS
  <1> HIDE DEF o
  <1>3. /\ op' \in [Ops -> Op] /\ ctl' \in [Sess -> Ctl \cup {None}] /\ told' \subseteq Sess
        /\ \A q \in Ops \ {p} : Untouched(q)
        /\ op'[p].kind = o.kind /\ op'[p].epoch = o.epoch
    BY <1>1, <1>2, InjectKeeps
  <1>4. Fine(p)'
    BY <1>1, <1>3 DEF IInv, Fine
  <1> QED
    BY <1>3, <1>4

\* WorkerReady keeps the inductive invariant.
LEMMA WorkerReadyStep == ASSUME IInv, NEW p \in Ops, WorkerReady(p) PROVE IInv'
  <1> DEFINE t == [task EXCEPT !.sent = TRUE, !.resume = FALSE,
                     !.chips = EnsureRunningRound(@, task.round)]
             o == New("send", "prompt", t)
  <1>1. EnsureRunningRound(task.chips, task.round) \in Seq(Chip)
    BY RunningRoundType DEF IInv, TypeOK, Task
  <1>2. t \in Task /\ t.state = task.state
    BY <1>1 DEF IInv, TypeOK, Task
  <1>3. task' = t /\ Inject(p, o, "worker", t) /\ UNCHANGED <<evaluating, handling>>
    BY DEF WorkerReady, guards
  <1> HIDE DEF t
  <1>4. o \in Op /\ o.kind = "send"
    BY <1>2, News DEF IsNew
  <1> HIDE DEF o
  <1>5. /\ op' \in [Ops -> Op] /\ ctl' \in [Sess -> Ctl \cup {None}] /\ told' \subseteq Sess
        /\ \A q \in Ops \ {p} : Untouched(q)
        /\ op'[p].kind = "send"
    BY <1>2, <1>3, <1>4, InjectKeeps DEF Sess
  <1>6. agent' \in [Sess -> {"idle", "busy"}]
    BY DEF IInv, TypeOK, WorkerReady, Ends
  <1>7. TypeOK'
    BY <1>2, <1>3, <1>5, <1>6 DEF IInv, TypeOK, WorkerReady, guards, watch, files, seen
  <1>8. GoesOn
    BY <1>2, <1>3 DEF IInv, RunsOnlyWhenAsked, GoesOn, WorkerReady, seen
  <1>9. Fine(p)'
    BY <1>5 DEF Fine
  <1> QED
    BY <1>5, <1>7, <1>8, <1>9, Frame

\* WorkerIdle keeps the inductive invariant.
LEMMA WorkerIdleStep == ASSUME IInv, NEW p \in Ops, WorkerIdle(p) PROVE IInv'
  <1>1. asked /\ asked' /\ Evaluation(p, task) /\ task \in Task
    BY DEF IInv, TypeOK, RunsOnlyWhenAsked, Active, WorkerIdle, seen
  <1>2. /\ task' \in Task /\ (task.state \in Active => task'.state \in Active)
        /\ op' \in [Ops -> Op] /\ evaluating' \in Ops \cup {None}
        /\ Fine(p)' /\ \A q \in Ops \ {p} : Untouched(q)
    BY <1>1, EvaluationKeeps
  <1>3. agent' \in [Sess -> {"idle", "busy"}] /\ dropouts' \in [Sess -> Nat]
    BY DEF IInv, TypeOK, WorkerIdle, Ends
  <1>4. TypeOK'
    BY <1>1, <1>2, <1>3 DEF IInv, TypeOK, WorkerIdle, Evaluation, inject, watch, files, seen
  <1>5. GoesOn
    BY <1>1, <1>2 DEF GoesOn
  <1> QED
    BY <1>2, <1>4, <1>5, Frame

\* An evaluation that ends while the task goes on.
LEMMA EndEvalStep ==
  ASSUME IInv, NEW p \in Ops, EndEval(p), UNCHANGED <<handling, pending, rejecting, inject>>,
         UNCHANGED <<dropouts, asked, respent>>, task' \in Task,
         task'.state = task.state \/ (task.state \in Active /\ task'.state \in Active),
         watching' \in BOOLEAN, dirty' \in BOOLEAN, grace' \in Grace \cup {None},
         lock' \in BOOLEAN, verdict' \in Verdict, agent' \in [Sess -> {"idle", "busy"}]
  PROVE  IInv'
  <1>1. /\ op' \in [Ops -> Op] /\ evaluating' \in Ops \cup {None}
        /\ Fine(p)' /\ \A q \in Ops \ {p} : Untouched(q)
    BY EndEvalKeeps
  <1>2. TypeOK'
    BY <1>1 DEF IInv, TypeOK, inject
  <1>3. GoesOn
    BY DEF IInv, RunsOnlyWhenAsked, GoesOn
  <1> QED
    BY <1>1, <1>2, <1>3, Frame

\* One that goes on with an injection.
LEMMA InjectedOnStep ==
  ASSUME IInv, NEW p \in Ops, NEW a \in Points, NEW s \in Sess, NEW t \in Task,
         Inject(p, [op[p] EXCEPT !.at = a], s, t),
         op[p].kind \in {"evaluate", "verdict"},
         UNCHANGED <<guards, dropouts, seen>>, task' \in Task,
         task.state \in Active, task'.state \in Active,
         watching' \in BOOLEAN, dirty' \in BOOLEAN, grace' \in Grace \cup {None},
         lock' \in BOOLEAN, verdict' \in Verdict, agent' \in [Sess -> {"idle", "busy"}]
  PROVE  IInv'
  <1>1. /\ op' \in [Ops -> Op] /\ ctl' \in [Sess -> Ctl \cup {None}] /\ told' \subseteq Sess
        /\ Fine(p)' /\ \A q \in Ops \ {p} : Untouched(q)
    BY InjectedOn DEF guards, seen
  <1>2. TypeOK'
    BY <1>1 DEF IInv, TypeOK, guards, seen
  <1>3. GoesOn
    BY DEF IInv, RunsOnlyWhenAsked, GoesOn, seen
  <1> QED
    BY <1>1, <1>2, <1>3, Frame

\* EvalChecks keeps the inductive invariant.
LEMMA EvalChecksStep == ASSUME IInv, NEW p \in Ops, EvalChecks(p) PROVE IInv'
  <1>1. op[p].kind = "evaluate" /\ op[p] \in Op /\ task.chips \in Seq(Chip) /\ asked' = asked
        /\ UNCHANGED <<handling, pending, rejecting, dropouts, watch, files, agent, seen>>
    BY DEF IInv, TypeOK, Task, EvalChecks, At, seen
  <1>2. CASE ~CurrentRun(p) /\ EndEval(p) /\ UNCHANGED <<task, inject>>
    BY <1>1, <1>2, EndEvalStep DEF IInv, TypeOK, watch, files, seen
  <1>3. ASSUME CurrentRun(p) PROVE op[p].epoch /\ task.state \in Active
    BY <1>1, <1>3 DEF IInv, Fine, CurrentRun, Current
  <1>4. CASE /\ CurrentRun(p) /\ task' = [task EXCEPT !.chips = Mark(@, "judge-requested")]
             /\ op' = [op EXCEPT ![p].at = "clear"] /\ UNCHANGED <<evaluating, inject>>
    <2>1. Mark(task.chips, "judge-requested") \in Seq(Chip)
      BY <1>1, MarkType, ActionsType
    <2>2. task' \in Task /\ task'.state = task.state
      BY <1>4, <2>1 DEF IInv, TypeOK, Task
    <2> DEFINE o == [op[p] EXCEPT !.at = "clear"]
    <2>3. o \in Op /\ o.kind = op[p].kind /\ o.epoch = op[p].epoch
      BY <1>1, MovedType, PointsType
    <2>4. op' = [op EXCEPT ![p] = o]
      BY <1>4
    <2> HIDE DEF o
    <2>5. op' \in [Ops -> Op] /\ op'[p] = o /\ \A q \in Ops \ {p} : op'[q] = op[q]
      BY <2>3, <2>4 DEF IInv, TypeOK
    <2>6. TypeOK'
      BY <1>1, <1>4, <2>2, <2>5 DEF IInv, TypeOK, inject, watch, files, seen
    <2>7. GoesOn
      BY <1>1, <2>2 DEF IInv, RunsOnlyWhenAsked, GoesOn
    <2>8. Fine(p)' /\ \A q \in Ops \ {p} : Untouched(q)
      BY <1>1, <1>4, <2>2, <2>3, <2>5 DEF IInv, Fine, Untouched, Kept
    <2> QED
      BY <2>6, <2>7, <2>8, Frame
  <1>5. CASE /\ CurrentRun(p)
             /\ task' = [task EXCEPT !.state = "refreshing", !.chips = Mark(@, "shower")]
             /\ Inject(p, [op[p] EXCEPT !.at = "handoff", !.expect = "refreshing"],
                       "worker", [task EXCEPT !.state = "refreshing", !.chips = Mark(@, "shower")])
             /\ UNCHANGED evaluating
    <2> DEFINE t == [task EXCEPT !.state = "refreshing", !.chips = Mark(@, "shower")]
               o == [op[p] EXCEPT !.at = "handoff", !.expect = "refreshing"]
    <2>1. Mark(task.chips, "shower") \in Seq(Chip)
      BY <1>1, MarkType, ActionsType
    <2>2. t \in Task /\ t.state \in Active
      BY <2>1 DEF IInv, TypeOK, Task, States, Active
    <2>3. "handoff" \in Points /\ "refreshing" \in States
      BY PointsType DEF States, Active
    <2>4. o \in Op /\ o.kind = "evaluate" /\ o.epoch = op[p].epoch
      BY <1>1, <2>3 DEF Op
    <2>5. Inject(p, o, "worker", t) /\ "worker" \in Sess /\ task' = t
      BY <1>5 DEF Sess
    <2> HIDE DEF o, t
    <2>6. /\ op' \in [Ops -> Op] /\ ctl' \in [Sess -> Ctl \cup {None}] /\ told' \subseteq Sess
          /\ \A q \in Ops \ {p} : Untouched(q)
          /\ op'[p].kind = o.kind /\ op'[p].epoch = o.epoch
      BY <1>1, <1>5, <2>2, <2>4, <2>5, InjectKeeps
    <2>7. TypeOK'
      BY <1>1, <1>5, <2>2, <2>5, <2>6 DEF IInv, TypeOK, watch, files, seen
    <2>8. GoesOn
      BY <1>1, <1>3, <1>5, <2>2, <2>5 DEF IInv, RunsOnlyWhenAsked, GoesOn
    <2>9. Fine(p)'
      BY <1>1, <1>5, <2>2, <2>4, <2>5, <2>6 DEF IInv, Fine
    <2> QED
      BY <2>6, <2>7, <2>8, <2>9, Frame
  <1>6. CASE /\ CurrentRun(p) /\ Inject(p, [op[p] EXCEPT !.at = "prompt"], "worker", task)
             /\ UNCHANGED <<task, evaluating>>
    <2>1. "prompt" \in Points /\ "worker" \in Sess /\ task \in Task
      BY PointsType DEF Sess, IInv, TypeOK
    <2> QED
      BY <1>1, <1>3, <1>6, <2>1, InjectedOnStep DEF IInv, TypeOK, guards, watch, files, seen
  <1> QED
    BY <1>1, <1>2, <1>4, <1>5, <1>6 DEF EvalChecks

\* EvalClear keeps the inductive invariant.
LEMMA EvalClearStep == ASSUME IInv, NEW p \in Ops, EvalClear(p) PROVE IInv'
  <1>1. /\ op[p].kind = "evaluate" /\ task \in Task
        /\ UNCHANGED <<handling, pending, rejecting, dropouts, lock, agent, seen>>
    BY DEF IInv, TypeOK, EvalClear, At
  <1>2. /\ watching' \in BOOLEAN /\ dirty' \in BOOLEAN /\ grace' \in Grace \cup {None}
        /\ verdict' \in Verdict
    <2>1. NoFile \in Verdict
      BY DEF Verdict, NoFile
    <2>2. CASE verdict' = NoFile /\ Touched
      BY <2>1, <2>2 DEF IInv, TypeOK, Touched
    <2>3. CASE UNCHANGED <<verdict, watch>>
      BY <2>3 DEF IInv, TypeOK, watch
    <2> QED
      BY <2>2, <2>3 DEF EvalClear
  <1>3. CASE ~CurrentRun(p) /\ EndEval(p) /\ UNCHANGED <<task, inject>>
    BY <1>1, <1>2, <1>3, EndEvalStep DEF IInv, TypeOK, seen
  <1>4. CASE /\ CurrentRun(p) /\ task' = [task EXCEPT !.nudged = FALSE]
             /\ Inject(p, [op[p] EXCEPT !.at = "judge"], "judge", task) /\ UNCHANGED evaluating
    <2>1. task' \in Task /\ task'.state = task.state
      BY <1>4 DEF IInv, TypeOK, Task
    <2>2. task.state \in Active
      BY <1>1, <1>4 DEF IInv, Fine, CurrentRun, Current
    <2>3. "judge" \in Points /\ "judge" \in Sess
      BY PointsType DEF Sess
    <2> QED
      BY <1>1, <1>2, <1>4, <2>1, <2>2, <2>3, InjectedOnStep DEF IInv, TypeOK, guards, seen
  <1> QED
    BY <1>3, <1>4 DEF EvalClear

\* #evaluateWorker's catch: a halt, or an evaluation that ends.
LEMMA EvalErrorStep ==
  ASSUME IInv, NEW p \in Ops, EvalError(p), UNCHANGED <<dropouts, files, agent>>
  PROVE  IInv'
  <1>1. CASE CurrentRun(p) /\ task.state = "evaluating"
    <2>1. Halt([task EXCEPT !.state = "paused", !.from = "evaluating"], Done(p))
          /\ UNCHANGED respent
      BY <1>1 DEF EvalError
    <2>2. /\ [task EXCEPT !.state = "paused", !.from = "evaluating"] \in Task
          /\ [task EXCEPT !.state = "paused", !.from = "evaluating"].state \notin Active
      BY DEF IInv, TypeOK, Task, States, Active
    <2> QED
      BY <2>1, <2>2, DoneHalts DEF IInv, TypeOK, files
  <1>2. CASE ~(CurrentRun(p) /\ task.state = "evaluating")
    <2>1. EndEval(p) /\ UNCHANGED <<task, handling, pending, rejecting, inject, watch, seen>>
      BY <1>2 DEF EvalError
    <2> QED
      BY <2>1, EndEvalStep DEF IInv, TypeOK, watch, files, seen
  <1> QED
    BY <1>1, <1>2

\* EvalPrompted keeps the inductive invariant.
LEMMA EvalPromptedStep == ASSUME IInv, NEW p \in Ops, EvalPrompted(p) PROVE IInv'
  <1>1. op[p].kind = "evaluate" /\ UNCHANGED <<dropouts, files, agent>>
    BY DEF EvalPrompted
  <1>2. CASE EvalError(p)
    BY <1>1, <1>2, EvalErrorStep
  <1>3. CASE /\ EndEval(p)
             /\ UNCHANGED <<handling, pending, rejecting, inject, watch, seen>>
             /\ task' = IF ~(Delivered(p) /\ CurrentRun(p)) THEN task
                        ELSE IF op[p].at = "judge"
                        THEN [task EXCEPT !.state = "judge-evaluating",
                                          !.chips = Mark(@, "judge-requested")]
                        ELSE [task EXCEPT !.state = "running", !.chips = Mark(@, "running")]
    <2>1. /\ Mark(task.chips, "judge-requested") \in Seq(Chip)
          /\ Mark(task.chips, "running") \in Seq(Chip)
      <3>1. task.chips \in Seq(Chip)
        BY DEF IInv, TypeOK, Task
      <3> QED
        BY <3>1, MarkType, ActionsType
    <2>2. CASE task' = task
      BY <1>1, <1>3, <2>2, EndEvalStep DEF IInv, TypeOK, watch, files, seen
    <2>3. ASSUME CurrentRun(p) PROVE task.state \in Active
      BY <1>1, <2>3 DEF IInv, Fine, CurrentRun, Current
    <2>4. CASE CurrentRun(p) /\ task' = [task EXCEPT !.state = "judge-evaluating",
                                           !.chips = Mark(@, "judge-requested")]
      <3>1. task' \in Task /\ task'.state \in Active
        BY <2>1, <2>4 DEF IInv, TypeOK, Task, States, Active
      <3> QED
        BY <1>1, <1>3, <2>3, <2>4, <3>1, EndEvalStep DEF IInv, TypeOK, watch, files, seen
    <2>5. CASE CurrentRun(p) /\ task' = [task EXCEPT !.state = "running",
                                           !.chips = Mark(@, "running")]
      <3>1. task' \in Task /\ task'.state \in Active
        BY <2>1, <2>5 DEF IInv, TypeOK, Task, States, Active
      <3> QED
        BY <1>1, <1>3, <2>3, <2>5, <3>1, EndEvalStep DEF IInv, TypeOK, watch, files, seen
    <2> QED
      BY <1>3, <2>2, <2>4, <2>5
  <1> QED
    BY <1>2, <1>3 DEF EvalPrompted

\* The runner's own restart of the Worker in a shower.
LEMMA RestartType ==
  ASSUME TypeOK, NEW p \in Ops, NEW s \in Sess, NEW o \in Op,
         op' = [Drop(op, s) EXCEPT ![p] = o]
  PROVE  op' \in [Ops -> Op] /\ op'[p] = o /\ \A q \in Ops \ {p} : Kept(op, op', q)
  <1>1. Drop(op, s) \in [Ops -> Op] /\ \A q \in Ops : Kept(op, Drop(op, s), q)
    BY DropType DEF TypeOK
  <1> QED
    BY <1>1 DEF Kept

\* Shower keeps the inductive invariant.
LEMMA ShowerStep == ASSUME IInv, NEW p \in Ops, Shower(p) PROVE IInv'
  <1>1. op[p].kind = "evaluate" /\ op[p] \in Op /\ task \in Task
        /\ UNCHANGED <<dropouts, files>>
    BY DEF IInv, TypeOK, Shower, At
  <1>2. CASE EvalError(p) /\ UNCHANGED agent
    BY <1>1, <1>2, EvalErrorStep
  <1>3. CASE /\ EndEval(p)
             /\ UNCHANGED <<task, handling, pending, rejecting, inject, watch, agent, seen>>
    BY <1>1, <1>3, EndEvalStep DEF IInv, TypeOK, watch, files, seen
  <1>4. CASE /\ CurrentRun(p) /\ Fallback(p) /\ UNCHANGED agent
             /\ UNCHANGED <<task, guards, watch, seen>>
    <2>1. "prompt" \in Points /\ "worker" \in Sess /\ task.state \in Active
      BY <1>1, <1>4, PointsType DEF Sess, IInv, Fine, CurrentRun, Current
    <2> QED
      BY <1>1, <1>4, <2>1, InjectedOnStep DEF Fallback, IInv, TypeOK, watch, files
  <1>5. CASE /\ op' = [Drop(op, "worker") EXCEPT
                         ![p] = [op[p] EXCEPT !.at = "restart", !.sess = "none",
                                              !.live = FALSE]]
             /\ ctl' = [ctl EXCEPT !["worker"] = None] /\ UNCHANGED told
             /\ agent' = [agent EXCEPT !["worker"] = "idle"]
             /\ UNCHANGED <<task, guards, watch, seen>>
    <2> DEFINE o == [op[p] EXCEPT !.at = "restart", !.sess = "none", !.live = FALSE]
    <2>1. o \in Op /\ o.kind = "evaluate" /\ o.epoch = op[p].epoch
      BY <1>1, PointsType DEF Op
    <2>2. op' = [Drop(op, "worker") EXCEPT ![p] = o] /\ "worker" \in Sess
      BY <1>5 DEF Sess
    <2> HIDE DEF o
    <2>3. op' \in [Ops -> Op] /\ op'[p] = o /\ \A q \in Ops \ {p} : Kept(op, op', q)
      BY <2>1, <2>2, RestartType DEF IInv
    <2>4. ctl' \in [Sess -> Ctl \cup {None}] /\ agent' \in [Sess -> {"idle", "busy"}]
      BY <1>5 DEF IInv, TypeOK
    <2>5. TypeOK'
      BY <1>1, <1>5, <2>3, <2>4 DEF IInv, TypeOK, guards, watch, files, seen
    <2>6. GoesOn
      BY <1>5 DEF IInv, RunsOnlyWhenAsked, GoesOn, seen
    <2>7. Fine(p)' /\ \A q \in Ops \ {p} : Untouched(q)
      BY <1>1, <1>5, <2>1, <2>3 DEF IInv, Fine, Untouched, guards, seen
    <2> QED
      BY <2>5, <2>6, <2>7, Frame
  <1> QED
    BY <1>2, <1>3, <1>4, <1>5 DEF Shower

\* ShowerDone keeps the inductive invariant.
LEMMA ShowerDoneStep == ASSUME IInv, NEW p \in Ops, ShowerDone(p) PROVE IInv'
  <1>1. op[p].kind = "evaluate" /\ task \in Task
        /\ UNCHANGED <<handling, pending, rejecting, dropouts, watch, files, agent, seen>>
    BY DEF IInv, TypeOK, ShowerDone, At
  <1>2. CASE EndEval(p) /\ UNCHANGED <<task, inject>>
    BY <1>1, <1>2, EndEvalStep DEF IInv, TypeOK, watch, files, seen
  <1>3. ASSUME CurrentRun(p) PROVE task.state \in Active
    BY <1>1, <1>3 DEF IInv, Fine, CurrentRun, Current
  <1>4. CASE /\ CurrentRun(p) /\ EndEval(p)
             /\ task' = [task EXCEPT !.state = "running", !.chips = Mark(@, "running"),
                           !.resume = TRUE, !.shower = task.round, !.sent = FALSE]
             /\ UNCHANGED inject
    <2>1. Mark(task.chips, "running") \in Seq(Chip)
      BY <1>1, MarkType, ActionsType DEF Task
    <2>2. task' \in Task /\ task'.state \in Active
      BY <1>1, <1>4, <2>1 DEF Task, States, Active
    <2> QED
      BY <1>1, <1>3, <1>4, <2>2, EndEvalStep DEF IInv, TypeOK, watch, files, seen
  <1>5. CASE CurrentRun(p) /\ Fallback(p) /\ UNCHANGED <<task, evaluating>>
    <2>1. "prompt" \in Points /\ "worker" \in Sess
      BY PointsType DEF Sess
    <2> QED
      BY <1>1, <1>3, <1>5, <2>1, InjectedOnStep DEF Fallback, IInv, TypeOK, guards, watch, files, seen
  <1> QED
    BY <1>2, <1>4, <1>5 DEF ShowerDone
-----------------------------------------------------------------------------
(* The Judge's turn. *)

\* JudgeReady keeps the inductive invariant.
LEMMA JudgeReadyStep == ASSUME IInv, NEW p \in Ops, JudgeReady(p) PROVE IInv'
  <1> DEFINE t == [task EXCEPT !.resume = FALSE]
             o == New("send", "prompt", t)
  <1>1. t \in Task /\ t.state = task.state
    BY DEF IInv, TypeOK, Task
  <1>2. task' = t /\ Inject(p, o, "judge", t) /\ UNCHANGED <<evaluating, handling>>
    BY DEF JudgeReady, guards
  <1> HIDE DEF t
  <1>3. o \in Op /\ o.kind = "send"
    BY <1>1, News DEF IsNew
  <1> HIDE DEF o
  <1>4. /\ op' \in [Ops -> Op] /\ ctl' \in [Sess -> Ctl \cup {None}] /\ told' \subseteq Sess
        /\ \A q \in Ops \ {p} : Untouched(q)
        /\ op'[p].kind = "send"
    BY <1>1, <1>2, <1>3, InjectKeeps DEF Sess
  <1>5. agent' \in [Sess -> {"idle", "busy"}]
    BY DEF IInv, TypeOK, JudgeReady, Ends
  <1>6. TypeOK'
    BY <1>1, <1>2, <1>4, <1>5 DEF IInv, TypeOK, JudgeReady, guards, watch, files, seen
  <1>7. GoesOn
    BY <1>1, <1>2 DEF IInv, RunsOnlyWhenAsked, GoesOn, JudgeReady, seen
  <1>8. Fine(p)'
    BY <1>4 DEF Fine
  <1> QED
    BY <1>4, <1>6, <1>7, <1>8, Frame

\* JudgeIdle keeps the inductive invariant.
LEMMA JudgeIdleStep ==
  ASSUME IInv, NEW p \in Ops, NEW idleOnly \in BOOLEAN, JudgeIdle(p, idleOnly)
  PROVE  IInv'
  <1>1. asked' /\ VerdictPass(p, task, idleOnly) /\ task \in Task /\ task.state \in Active
    BY DEF IInv, TypeOK, RunsOnlyWhenAsked, Active, JudgeIdle, seen
  <1>2. /\ task' \in Task /\ task'.state \in Active
        /\ op' \in [Ops -> Op] /\ handling' \in Ops \cup {None} /\ pending' \in BOOLEAN
        /\ Fine(p)' /\ \A q \in Ops \ {p} : Untouched(q)
    BY <1>1, VerdictPassKeeps
  <1>3. agent' \in [Sess -> {"idle", "busy"}] /\ dropouts' \in [Sess -> Nat]
    BY DEF IInv, TypeOK, JudgeIdle, Ends
  <1>4. TypeOK'
    BY <1>1, <1>2, <1>3 DEF IInv, TypeOK, JudgeIdle, VerdictPass, inject, watch, files, seen
  <1>5. GoesOn
    BY <1>1, <1>2 DEF GoesOn
  <1> QED
    BY <1>2, <1>4, <1>5, Frame

\* A verdict pass that ends while the task goes on.
LEMMA EndVerdictStep ==
  ASSUME IInv, NEW p \in Ops, op[p].kind = "verdict", EndVerdict(p),
         UNCHANGED <<task, evaluating, rejecting, dropouts, seen>>,
         ctl' \in [Sess -> Ctl \cup {None}], told' \subseteq Sess,
         watching' \in BOOLEAN, dirty' \in BOOLEAN, grace' \in Grace \cup {None},
         lock' \in BOOLEAN, verdict' \in Verdict, agent' \in [Sess -> {"idle", "busy"}]
  PROVE  IInv'
  <1>1. /\ op' \in [Ops -> Op] /\ handling' \in Ops \cup {None} /\ pending' \in BOOLEAN
        /\ Fine(p)' /\ \A q \in Ops \ {p} : Untouched(q)
    BY EndVerdictKeeps DEF seen
  <1>2. TypeOK'
    BY <1>1 DEF IInv, TypeOK, seen
  <1>3. GoesOn
    BY DEF IInv, RunsOnlyWhenAsked, GoesOn, seen
  <1> QED
    BY <1>1, <1>2, <1>3, Frame

\* What the verdict pass pauses with.
LEMMA PausedType ==
  ASSUME TypeOK
  PROVE  /\ [task EXCEPT !.state = "paused", !.from = "judge-evaluating"] \in Task
         /\ [task EXCEPT !.state = "paused", !.from = "judge-evaluating"].state \notin Active
  BY DEF TypeOK, Task, States, Active

\* No verdict file: wait, remind, or pause.
LEMMA VerdictMissingStep ==
  ASSUME IInv, NEW p \in Ops, op[p].kind = "verdict", CurrentRun(p), VerdictMissing(p),
         UNCHANGED <<dropouts, agent>>
  PROVE  IInv'
  <1>1. UNCHANGED files /\ task.state \in Active
    BY DEF IInv, Fine, CurrentRun, Current, VerdictMissing
  <1>2. CASE /\ EndVerdict(p)
             /\ UNCHANGED <<task, evaluating, rejecting, inject, watch, seen>>
    BY <1>1, <1>2, EndVerdictStep DEF IInv, TypeOK, inject, watch, files
  <1>3. CASE /\ task' = [task EXCEPT !.nudged = TRUE]
             /\ Inject(p, [op[p] EXCEPT !.at = "nudge"], "judge", task)
             /\ UNCHANGED <<guards, watch, seen>>
    <2>1. task' \in Task /\ task'.state = task.state /\ task \in Task
      BY <1>3 DEF IInv, TypeOK, Task
    <2>2. "nudge" \in Points /\ "judge" \in Sess
      BY PointsType DEF Sess
    <2> QED
      BY <1>1, <1>3, <2>1, <2>2, InjectedOnStep DEF IInv, TypeOK, watch, files
  <1>4. CASE /\ Halt([task EXCEPT !.state = "paused", !.from = "judge-evaluating"], Done(p))
             /\ UNCHANGED respent
    BY <1>1, <1>4, PausedType, DoneHalts DEF IInv, TypeOK, files
  <1> QED
    BY <1>2, <1>3, <1>4 DEF VerdictMissing

\* A spent verdict is still a verdict.
LEMMA SpendType ==
  ASSUME TypeOK, Spend
  PROVE  verdict' \in Verdict /\ respent' \in BOOLEAN
  BY DEF TypeOK, Spend, Verdict

\* The verdict ends the task.
LEMMA VerdictEndsStep ==
  ASSUME IInv, NEW p \in Ops, VerdictEnds(p), UNCHANGED <<dropouts, agent>>
  PROVE  IInv'
  <1> DEFINE end == IF verdict.says = "complete" THEN "completed" ELSE "failed"
             t == [task EXCEPT !.state = end, !.chips = Mark(Judged(@, TRUE), end)]
  <1>1. end \in Finished /\ end \in Actions
    BY ActionsType DEF Finished
  <1>2. Halt(t, Done(p)) /\ Spend /\ UNCHANGED lock
    BY DEF VerdictEnds
  <1> HIDE DEF end
  <1>3. Mark(Judged(task.chips, TRUE), end) \in Seq(Chip)
    <2>1. Judged(task.chips, TRUE) \in Seq(Chip)
      BY JudgedType DEF IInv, TypeOK, Task
    <2> QED
      BY <1>1, <2>1, MarkType
  <1>4. t \in Task /\ t.state \notin Active
    BY <1>1, <1>3 DEF IInv, TypeOK, Task, States, Finished, Active
  <1> HIDE DEF t
  <1>5. verdict' \in Verdict /\ respent' \in BOOLEAN
    BY <1>2, SpendType DEF IInv
  <1> QED
    BY <1>2, <1>4, <1>5, DoneHalts DEF IInv, TypeOK

\* VerdictRead keeps the inductive invariant.
LEMMA VerdictReadStep == ASSUME IInv, NEW p \in Ops, VerdictRead(p) PROVE IInv'
  <1>1. op[p].kind = "verdict" /\ op[p] \in Op /\ UNCHANGED <<dropouts, agent>>
    BY DEF IInv, TypeOK, VerdictRead, At
  <1>2. CASE /\ EndVerdict(p)
             /\ UNCHANGED <<task, evaluating, rejecting, inject, watch, files, seen>>
    BY <1>1, <1>2, EndVerdictStep DEF IInv, TypeOK, inject, watch, files
  <1>3. CASE CurrentRun(p) /\ VerdictMissing(p)
    BY <1>1, <1>3, VerdictMissingStep
  <1>4. CASE VerdictEnds(p)
    BY <1>1, <1>4, VerdictEndsStep
  <1>5. CASE /\ CurrentRun(p) /\ task' = [task EXCEPT !.chips = Judged(@, TRUE)]
             /\ op' = [op EXCEPT ![p].at = "lock"]
             /\ UNCHANGED <<guards, inject, watch, files, seen>>
    <2>1. Judged(task.chips, TRUE) \in Seq(Chip)
      BY JudgedType DEF IInv, TypeOK, Task
    <2>2. task' \in Task /\ task'.state = task.state
      BY <1>5, <2>1 DEF IInv, TypeOK, Task
    <2> DEFINE o == [op[p] EXCEPT !.at = "lock"]
    <2>3. o \in Op /\ o.kind = op[p].kind /\ o.epoch = op[p].epoch
      BY <1>1, MovedType, PointsType
    <2>4. op' = [op EXCEPT ![p] = o]
      BY <1>5
    <2> HIDE DEF o
    <2>5. op' \in [Ops -> Op] /\ op'[p] = o /\ \A q \in Ops \ {p} : op'[q] = op[q]
      BY <2>3, <2>4 DEF IInv, TypeOK
    <2>6. TypeOK'
      BY <1>1, <1>5, <2>2, <2>5 DEF IInv, TypeOK, guards, inject, watch, files, seen
    <2>7. GoesOn
      BY <1>5, <2>2 DEF IInv, RunsOnlyWhenAsked, GoesOn, seen
    <2>8. Fine(p)' /\ \A q \in Ops \ {p} : Untouched(q)
      BY <1>1, <1>5, <2>2, <2>3, <2>5 DEF IInv, Fine, Untouched, Kept, guards, seen
    <2> QED
      BY <2>6, <2>7, <2>8, Frame
  <1> QED
    BY <1>2, <1>3, <1>4, <1>5 DEF VerdictRead

\* Nudged keeps the inductive invariant.
LEMMA NudgedStep == ASSUME IInv, NEW p \in Ops, Nudged(p) PROVE IInv'
  <1>1. op[p].kind = "verdict" /\ UNCHANGED <<dropouts, files, agent>>
    BY DEF Nudged, At
  <1>2. CASE /\ Halt([task EXCEPT !.state = "paused", !.from = "judge-evaluating"], Done(p))
             /\ UNCHANGED respent
    BY <1>1, <1>2, PausedType, DoneHalts DEF IInv, TypeOK, files
  <1>3. CASE /\ EndVerdict(p)
             /\ UNCHANGED <<task, evaluating, rejecting, inject, watch, seen>>
    BY <1>1, <1>3, EndVerdictStep DEF IInv, TypeOK, inject, watch, files
  <1> QED
    BY <1>2, <1>3 DEF Nudged

\* VerdictLock keeps the inductive invariant.
LEMMA VerdictLockStep == ASSUME IInv, NEW p \in Ops, VerdictLock(p) PROVE IInv'
  <1>1. /\ op[p].kind = "verdict" /\ task \in Task
        /\ UNCHANGED <<task, evaluating, rejecting, verdict, dropouts, agent, seen>>
    BY DEF IInv, TypeOK, VerdictLock, At
  <1>2. /\ watching' \in BOOLEAN /\ dirty' \in BOOLEAN /\ grace' \in Grace \cup {None}
        /\ lock' \in BOOLEAN
    <2>1. CASE lock' = TRUE /\ Touched
      BY <2>1 DEF IInv, TypeOK, Touched
    <2>2. CASE UNCHANGED <<lock, watch>>
      BY <2>2 DEF IInv, TypeOK, watch
    <2> QED
      BY <2>1, <2>2 DEF VerdictLock
  <1>3. CASE EndVerdict(p) /\ UNCHANGED inject
    BY <1>1, <1>2, <1>3, EndVerdictStep DEF IInv, TypeOK, inject
  <1>4. CASE /\ CurrentRun(p) /\ Inject(p, [op[p] EXCEPT !.at = "feedback"], "worker", task)
             /\ UNCHANGED <<handling, pending>>
    <2>1. "feedback" \in Points /\ "worker" \in Sess
      BY PointsType DEF Sess
    <2>2. task.state \in Active
      BY <1>1, <1>4 DEF IInv, Fine, CurrentRun, Current
    <2> QED
      BY <1>1, <1>2, <1>4, <2>1, <2>2, InjectedOnStep DEF IInv, TypeOK, guards
  <1> QED
    BY <1>3, <1>4 DEF VerdictLock

\* The next round is a running task.
LEMMA NextRoundType ==
  ASSUME NEW t \in Task
  PROVE  NextRound(t) \in Task /\ NextRound(t).state \in Active
  <1>1. t.chips \in Seq(Chip) /\ t.round \in Nat
    BY DEF Task
  <1>2. t.round + 1 \in Nat
    BY <1>1
  <1>2b. Mark(t.chips, "re-prompted") \in Seq(Chip)
    BY <1>1, MarkType, ActionsType
  <1>3. EnsureRunningRound(Mark(t.chips, "re-prompted"), t.round + 1) \in Seq(Chip)
    BY <1>2, <1>2b, RunningRoundType
  <1> QED
    BY <1>2, <1>3 DEF NextRound, Task, States, Active

\* VerdictPrompted keeps the inductive invariant.
LEMMA VerdictPromptedStep == ASSUME IInv, NEW p \in Ops, VerdictPrompted(p) PROVE IInv'
  <1>1. op[p].kind = "verdict" /\ UNCHANGED <<dropouts, agent>>
    BY DEF VerdictPrompted, At
  <1>2. CASE /\ Halt([task EXCEPT !.state = "paused", !.from = "judge-evaluating"], Done(p))
             /\ UNCHANGED <<respent, files>>
    BY <1>1, <1>2, PausedType, DoneHalts DEF IInv, TypeOK, files
  <1>3. CASE /\ CurrentRun(p) /\ task' = NextRound(task) /\ Spend /\ op' = Done(p)
             /\ handling' = (IF handling = p THEN None ELSE handling)
             /\ pending' = (pending /\ handling # p)
             /\ UNCHANGED <<evaluating, rejecting, inject, watch, lock, asked>>
    <2>1. task' \in Task /\ task'.state \in Active
      BY <1>3, NextRoundType DEF IInv, TypeOK
    <2>2. verdict' \in Verdict /\ respent' \in BOOLEAN
      BY <1>3, SpendType DEF IInv
    <2>3. op' \in [Ops -> Op] /\ Fine(p)' /\ \A q \in Ops \ {p} : Untouched(q)
      BY <1>3, DoneKeeps
    <2>4. TypeOK'
      BY <1>1, <1>3, <2>1, <2>2, <2>3 DEF IInv, TypeOK, inject, watch
    <2>5. task.state \in Active /\ asked
      BY <1>1, <1>3 DEF IInv, RunsOnlyWhenAsked, Fine, CurrentRun, Current
    <2>6. GoesOn
      BY <1>3, <2>1, <2>5 DEF GoesOn
    <2> QED
      BY <2>3, <2>4, <2>6, Frame
  <1>4. CASE /\ EndVerdict(p)
             /\ UNCHANGED <<task, evaluating, rejecting, inject, watch, files, seen>>
    BY <1>1, <1>4, EndVerdictStep DEF IInv, TypeOK, inject, watch, files
  <1> QED
    BY <1>2, <1>3, <1>4 DEF VerdictPrompted
-----------------------------------------------------------------------------
(* Sessions, watcher, agents. *)

\* Counting a dropout.
LEMMA CountedType ==
  ASSUME NEW d \in [Sess -> Nat], NEW s \in Sess
  PROVE  [d EXCEPT ![s] = @ + 1] \in [Sess -> Nat]
  <1>1. d[s] + 1 \in Nat
    OBVIOUS
  <1>2. ASSUME NEW n \in Nat PROVE [d EXCEPT ![s] = n] \in [Sess -> Nat]
    OBVIOUS
  <1> QED
    BY <1>1, <1>2

\* Dropout keeps the inductive invariant.
LEMMA DropoutStep == ASSUME IInv, NEW p \in Ops, NEW s \in Sess, Dropout(p, s) PROVE IInv'
  <1>1. UNCHANGED <<files, agent>>
    BY DEF Dropout
  <1>2. CASE /\ dropouts' = [dropouts EXCEPT ![s] = 0]
             /\ Halt([task EXCEPT !.state = "paused", !.from = task.state], op)
             /\ UNCHANGED respent
    <2>1. /\ [task EXCEPT !.state = "paused", !.from = task.state] \in Task
          /\ [task EXCEPT !.state = "paused", !.from = task.state].state \notin Active
      BY DEF IInv, TypeOK, Task, States, Active
    <2>2. op \in [Ops -> Op] /\ dropouts' \in [Sess -> Nat]
      BY <1>2 DEF IInv, TypeOK
    <2> QED
      BY <1>1, <1>2, <2>1, <2>2, HaltIInv DEF IInv, TypeOK, Kept, files
  <1>3. CASE /\ dropouts' = [dropouts EXCEPT ![s] = @ + 1]
             /\ task' = [task EXCEPT !.resume = (s \in told), !.sent = @ /\ s # "worker"]
             /\ op' = [op EXCEPT ![p] = [New("dropout", "restart", task) EXCEPT
                                           !.note = (s = "judge")]]
             /\ UNCHANGED <<guards, inject, watch, seen>>
    <2> DEFINE o == [New("dropout", "restart", task) EXCEPT !.note = (s = "judge")]
               r == s \in told
               b == task.sent /\ s # "worker"
    <2>1. r \in BOOLEAN /\ b \in BOOLEAN
      OBVIOUS
    <2>2. task' = [task EXCEPT !.resume = r, !.sent = b]
      BY <1>3
    <2>3. op' = [op EXCEPT ![p] = o]
      BY <1>3
    <2>4. IsNew(New("dropout", "restart", task), "dropout", task)
      BY News DEF IInv, TypeOK
    <2>5. o \in Op /\ o.kind = "dropout"
      BY <2>4 DEF IsNew, Op
    <2> HIDE DEF o, r, b
    <2>6. task' \in Task /\ task'.state = task.state
      BY <2>1, <2>2 DEF IInv, TypeOK, Task
    <2>7. op' \in [Ops -> Op] /\ op'[p] = o /\ \A q \in Ops \ {p} : op'[q] = op[q]
      BY <2>3, <2>5 DEF IInv, TypeOK
    <2>8. asked /\ asked'
      BY <1>3 DEF IInv, RunsOnlyWhenAsked, Dropout, Active, seen
    <2>9. dropouts' \in [Sess -> Nat]
      <3>1. dropouts \in [Sess -> Nat]
        BY DEF IInv, TypeOK
      <3>2. dropouts' = [dropouts EXCEPT ![s] = @ + 1]
        BY <1>3
      <3> QED
        BY <3>1, <3>2, CountedType
    <2>10. TypeOK'
      BY <1>1, <1>3, <2>6, <2>7, <2>9 DEF IInv, TypeOK, guards, inject, watch, files, seen
    <2>11. GoesOn
      BY <2>6, <2>8 DEF GoesOn
    <2>12. Fine(p)' /\ \A q \in Ops \ {p} : Untouched(q)
      BY <1>3, <2>5, <2>7, <2>8 DEF Fine, Untouched, Kept, guards
    <2> QED
      BY <2>10, <2>11, <2>12, Frame
  <1> QED
    BY <1>2, <1>3 DEF Dropout

\* Restarted keeps the inductive invariant.
LEMMA RestartedStep == ASSUME IInv, NEW p \in Ops, Restarted(p) PROVE IInv'
  <1> DEFINE s == IF op[p].note THEN "judge" ELSE "worker"
  <1>1. s \in Sess
    BY DEF Sess
  <1>2. op' = [Drop(op, s) EXCEPT ![p] = Free] /\ ctl' = [ctl EXCEPT ![s] = None]
        /\ agent' = [agent EXCEPT ![s] = "idle"]
    BY DEF Restarted
  <1> HIDE DEF s
  <1>3. op' \in [Ops -> Op] /\ op'[p] = Free /\ \A q \in Ops \ {p} : Kept(op, op', q)
    BY <1>1, <1>2, FreeType, RestartType DEF IInv
  <1>4. ctl' \in [Sess -> Ctl \cup {None}] /\ agent' \in [Sess -> {"idle", "busy"}]
    BY <1>2 DEF IInv, TypeOK
  <1>5. TypeOK'
    BY <1>3, <1>4 DEF IInv, TypeOK, Restarted, guards, watch, files, seen
  <1>6. GoesOn
    BY DEF IInv, RunsOnlyWhenAsked, GoesOn, Restarted, seen
  <1>7. Fine(p)' /\ \A q \in Ops \ {p} : Untouched(q)
    BY <1>3, FreeType DEF Fine, Untouched, Restarted, guards
  <1> QED
    BY <1>5, <1>6, <1>7, Frame

\* Write keeps the inductive invariant.
LEMMA WriteStep == ASSUME IInv, NEW p \in Ops, Write(p) PROVE IInv'
  <1> DEFINE o == [op[p] EXCEPT !.written = TRUE]
  <1>1. /\ o \in Op /\ o.kind = op[p].kind /\ o.epoch = op[p].epoch
        /\ o.expect = op[p].expect /\ o.snap = op[p].snap
    BY Edits DEF IInv, TypeOK, Same
  <1>2. op' = [op EXCEPT ![p] = o]
    BY DEF Write
  <1> HIDE DEF o
  <1>3. op' \in [Ops -> Op] /\ op'[p] = o /\ \A q \in Ops \ {p} : op'[q] = op[q]
    BY <1>1, <1>2 DEF IInv, TypeOK
  <1>4. dropouts' \in [Sess -> Nat] /\ agent' \in [Sess -> {"idle", "busy"}]
    <2>1. dropouts \in [Sess -> Nat] /\ agent \in [Sess -> {"idle", "busy"}]
      BY DEF IInv, TypeOK
    <2>2. /\ dropouts' = [dropouts EXCEPT ![op[p].sess] = 0] \/ dropouts' = dropouts
          /\ agent' = [agent EXCEPT ![op[p].sess] = "busy"]
      BY DEF Write
    <2> DEFINE s == op[p].sess
    <2> HIDE DEF s
    <2>3. [dropouts EXCEPT ![s] = 0] \in [Sess -> Nat]
      BY <2>1
    <2>4. [agent EXCEPT ![s] = "busy"] \in [Sess -> {"idle", "busy"}]
      BY <2>1
    <2> QED
      BY <2>1, <2>2, <2>3, <2>4 DEF s
  <1>5. TypeOK'
    BY <1>3, <1>4 DEF IInv, TypeOK, Write, guards, inject, watch, files, seen
  <1>6. GoesOn
    BY DEF IInv, RunsOnlyWhenAsked, GoesOn, Write, seen
  <1>7. Fine(p)' /\ \A q \in Ops \ {p} : Untouched(q)
    BY <1>1, <1>3 DEF IInv, Fine, Untouched, Kept, Write, guards, seen
  <1> QED
    BY <1>5, <1>6, <1>7, Frame

\* A step that starts no function and moves no task.
LEMMA FrameAll ==
  ASSUME IInv, TypeOK', UNCHANGED <<task, asked, evaluating, handling>>,
         \A q \in Ops : Kept(op, op', q)
  PROVE  IInv'
  <1>1. GoesOn
    BY DEF IInv, RunsOnlyWhenAsked, GoesOn
  <1>2. \A q \in Ops : Untouched(q)
    BY DEF Untouched
  <1>3. \A q \in Ops : Fine(q)'
    BY <1>1, <1>2, FineKept
  <1> QED
    BY <1>3 DEF IInv, RunsOnlyWhenAsked

\* SessionReplaced keeps the inductive invariant.
LEMMA SessionReplacedStep == ASSUME IInv, NEW s \in Sess, SessionReplaced(s) PROVE IInv'
  <1>1. op' \in [Ops -> Op] /\ \A q \in Ops : Kept(op, op', q)
    BY NewProcessType DEF IInv, TypeOK, SessionReplaced
  <1>2. grace' \in Grace \cup {None} /\ agent' \in [Sess -> {"idle", "busy"}]
    BY DEF IInv, TypeOK, SessionReplaced, Grace
  <1>3. TypeOK'
    BY <1>1, <1>2 DEF IInv, TypeOK, SessionReplaced, NoInjection, guards, files, seen
  <1> QED
    BY <1>1, <1>3, FrameAll DEF SessionReplaced, guards, seen

\* WorkerExit keeps the inductive invariant.
LEMMA WorkerExitStep == IInv /\ WorkerExit => IInv'
  <1> SUFFICES ASSUME IInv, WorkerExit PROVE IInv'
    OBVIOUS
  <1>1. /\ [task EXCEPT !.state = "paused", !.from = ""] \in Task
        /\ [task EXCEPT !.state = "paused", !.from = ""].state \notin Active
    BY DEF IInv, TypeOK, Task, States, Active
  <1>2. NewProcess(op) \in [Ops -> Op] /\ \A q \in Ops : Kept(op, NewProcess(op), q)
    BY NewProcessType DEF IInv, TypeOK
  <1>3. agent' \in [Sess -> {"idle", "busy"}]
    BY DEF IInv, TypeOK, WorkerExit
  <1> QED
    BY <1>1, <1>2, <1>3, HaltIInv DEF IInv, TypeOK, WorkerExit, files

\* GraceFires keeps the inductive invariant.
LEMMA GraceFiresStep == ASSUME IInv, NEW p \in Ops, GraceFires(p) PROVE IInv'
  <1>1. task \in Task /\ grace' = None
        /\ UNCHANGED <<dropouts, watching, dirty, files, agent, seen>>
    BY DEF IInv, TypeOK, GraceFires
  <1>2. CASE task.state = "judge-evaluating" /\ VerdictPass(p, task, FALSE)
    <2>1. asked' /\ task.state \in Active
      BY <1>1, <1>2 DEF IInv, RunsOnlyWhenAsked, Active, seen
    <2>2. /\ task' \in Task /\ task'.state \in Active
          /\ op' \in [Ops -> Op] /\ handling' \in Ops \cup {None} /\ pending' \in BOOLEAN
          /\ Fine(p)' /\ \A q \in Ops \ {p} : Untouched(q)
      BY <1>1, <1>2, <2>1, VerdictPassKeeps
    <2>3. TypeOK'
      BY <1>1, <1>2, <2>2 DEF IInv, TypeOK, VerdictPass, inject, files, seen
    <2>4. GoesOn
      BY <2>1, <2>2 DEF GoesOn
    <2> QED
      BY <2>2, <2>3, <2>4, Frame
  <1>3. CASE task.state = "running" /\ Evaluation(p, task)
    <2>1. asked' /\ task.state \in Active
      BY <1>1, <1>3 DEF IInv, RunsOnlyWhenAsked, Active, seen
    <2>2. /\ task' \in Task /\ (task.state \in Active => task'.state \in Active)
          /\ op' \in [Ops -> Op] /\ evaluating' \in Ops \cup {None}
          /\ Fine(p)' /\ \A q \in Ops \ {p} : Untouched(q)
      BY <1>1, <1>3, <2>1, EvaluationKeeps
    <2>3. TypeOK'
      BY <1>1, <1>3, <2>2 DEF IInv, TypeOK, Evaluation, inject, files, seen
    <2>4. GoesOn
      BY <2>1, <2>2 DEF GoesOn
    <2> QED
      BY <2>2, <2>3, <2>4, Frame
  <1>4. CASE UNCHANGED <<task, op, guards, inject>>
    <2>1. TypeOK'
      BY <1>1, <1>4 DEF IInv, TypeOK, guards, inject, files, seen
    <2> QED
      BY <1>1, <1>4, <2>1, FrameAll DEF Kept, guards, seen
  <1> QED
    BY <1>2, <1>3, <1>4 DEF GraceFires

\* The steps of the watcher and the agents that only change files, signals and
\* turns.
LEMMA OutsideSteps ==
  ASSUME IInv,
         \/ WatcherOpens \/ WatcherLooks \/ DirChanges \/ WorkerDone
         \/ \E says \in {"complete", "continue"} : JudgeWrites(says)
         \/ \E s \in Sess : Unheard(s)
         \/ UNCHANGED vars
  PROVE  IInv'
  <1>1. UNCHANGED <<task, op, guards, inject, dropouts, seen>>
    BY DEF WatcherOpens, WatcherLooks, DirChanges, WorkerDone, JudgeWrites, Unheard, vars
  <1>2. /\ watching' \in BOOLEAN /\ dirty' \in BOOLEAN /\ lock' \in BOOLEAN
        /\ verdict' \in Verdict /\ agent' \in [Sess -> {"idle", "busy"}]
    <2>1. CASE WatcherOpens
      BY <2>1 DEF IInv, TypeOK, WatcherOpens, files
    <2>2. CASE WatcherLooks
      BY <2>2 DEF IInv, TypeOK, WatcherLooks, files
    <2>3. CASE DirChanges
      BY <2>3 DEF IInv, TypeOK, DirChanges, files
    <2>4. CASE WorkerDone
      BY <2>4 DEF IInv, TypeOK, WorkerDone, Touched
    <2>5. ASSUME NEW says \in {"complete", "continue"}, JudgeWrites(says)
          PROVE  /\ watching' \in BOOLEAN /\ dirty' \in BOOLEAN /\ lock' \in BOOLEAN
                 /\ verdict' \in Verdict /\ agent' \in [Sess -> {"idle", "busy"}]
      BY <2>5 DEF IInv, TypeOK, JudgeWrites, Touched, Verdict
    <2>6. CASE \E s \in Sess : Unheard(s)
      BY <2>6 DEF IInv, TypeOK, Unheard, watch, files
    <2>7. CASE UNCHANGED vars
      BY <2>7 DEF IInv, TypeOK, vars, watch, files
    <2> QED
      BY <2>1, <2>2, <2>3, <2>4, <2>5, <2>6, <2>7
  <1>3. grace' \in Grace \cup {None}
    <2>1. CASE WatcherLooks
      <3>1. [state |-> task.state, round |-> task.round, epoch |-> TRUE, inc |-> TRUE] \in Grace
        BY DEF IInv, TypeOK, Task, Grace
      <3> QED
        BY <2>1, <3>1 DEF IInv, TypeOK, WatcherLooks
    <2>2. CASE ~WatcherLooks
      BY <2>2 DEF IInv, TypeOK, WatcherOpens, DirChanges, WorkerDone, JudgeWrites,
                  Unheard, Touched, watch, vars
    <2> QED
      BY <2>1, <2>2
  <1>4. TypeOK'
    BY <1>1, <1>2, <1>3 DEF IInv, TypeOK, guards, inject, seen
  <1> QED
    BY <1>1, <1>4, FrameAll DEF Kept, guards, seen

-----------------------------------------------------------------------------
(* The theorems. *)

\* Every step of every handler keeps the inductive invariant.
LEMMA StepIInv == IInv /\ [Next]_vars => IInv'
  <1> SUFFICES ASSUME IInv, [Next]_vars PROVE IInv'
    OBVIOUS
  <1>1. ASSUME NEW p \in Ops, User(p) PROVE IInv'
    BY <1>1, StartStep, ResumeStep, ResetStep, RejectStep, ResendStep DEF User
  <1>2. ASSUME NEW p \in Ops, Step(p) PROVE IInv'
    BY <1>2, StartSetupStep, PromptedStep, ReconcileStep, ResetDoneStep, RejectLockStep,
       RejectDeferredStep, RejectPromptedStep, SentStep, EvalChecksStep, EvalClearStep,
       EvalPromptedStep, ShowerStep, ShowerDoneStep, VerdictReadStep, NudgedStep,
       VerdictLockStep, VerdictPromptedStep, RestartedStep, WriteStep
    DEF Step
  <1>3. ASSUME NEW p \in Ops, Heard(p) PROVE IInv'
    BY <1>3, WorkerReadyStep, WorkerIdleStep, JudgeReadyStep, JudgeIdleStep, DropoutStep
    DEF Heard
  <1> QED
    BY <1>1, <1>2, <1>3, StopStep, GraceFiresStep, SessionReplacedStep, WorkerExitStep,
       OutsideSteps DEF Next

\* The inductive invariant holds in every reachable state, whatever the numbers of
\* concurrent functions, rounds, showers and restarts, and whatever faults occur.
THEOREM Invariant == Spec => []IInv
  BY InitIInv, StepIInv, PTL DEF Spec

\* Types are kept by every handler of the runner.
THEOREM TypeCorrect == Spec => []TypeOK
  <1>1. IInv => TypeOK
    BY DEF IInv
  <1> QED
    BY <1>1, Invariant, PTL

\* Nothing in flight brings a halted task back: an active task was asked for by a
\* Start, Continue or Send back since it was last paused, completed or failed.
THEOREM NothingRevivesTheTask == Spec => []RunsOnlyWhenAsked
  <1>1. IInv => RunsOnlyWhenAsked
    BY DEF IInv
  <1> QED
    BY <1>1, Invariant, PTL

\* The re-entrance guard of #evaluateWorker: at most one evaluation of the current
\* epoch, and the guard is its own.
THEOREM EvaluationsAreGuarded == Spec => []OneEvaluation
  <1>1. IInv => OneEvaluation
    BY DEF IInv, Fine, OneEvaluation
  <1> QED
    BY <1>1, Invariant, PTL

\* The re-entrance guard of #handleJudgeVerdict: at most one verdict pass of the
\* current epoch, and the guard is its own.
THEOREM VerdictPassesAreGuarded == Spec => []OneVerdictPass
  <1>1. IInv => OneVerdictPass
    BY DEF IInv, Fine, OneVerdictPass
  <1> QED
    BY <1>1, Invariant, PTL
==============================================================================
