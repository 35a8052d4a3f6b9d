---------------------------- MODULE AgentTaskRunner ----------------------------
(***************************************************************************)
(* The Worker/Judge loop of one standard task                              *)
(* (electron/backend/agent-task-runner.ts).  The Worker edits, signals     *)
(* "done" by removing WORK_LOCK and goes idle; the runner checks and asks  *)
(* the Judge, who answers in verdict.json and goes idle; "continue" starts *)
(* the next round, "complete" ends the task.                               *)
(*                                                                         *)
(* Every handler is an async function: between two awaits the user may     *)
(* pause, reset or restart, the agents may signal again, sessions may be   *)
(* replaced.  `op[p]' is one such function in flight, `at' the await it is *)
(* suspended on; a run of awaits with nothing but a recheck in between is  *)
(* one suspension, and a file is read in the step that uses it.            *)
(*                                                                         *)
(* The code's lifecycle epoch, run generation and session incarnations are *)
(* counters compared for equality only: op[p].epoch says "no advance since *)
(* captured", .gen and .inc likewise, so the model needs no bound on them. *)
(* A session's injection controller is ctl[s], and op[p].live says that p  *)
(* still holds the one in the map.                                         *)
(*                                                                         *)
(* Left out: rate-limit holds, Companion mode, the programmatic judge,     *)
(* prompt texts and /clear, timing fields, alerts and logs; an injection   *)
(* held back politely is one not written yet, an idle it consumes is one   *)
(* unheard.  Task ids, cwd and panels never change.                        *)
(*                                                                         *)
(* x_variant, just before x, is x with a seeded fault; no action uses it.  *)
(***************************************************************************)
EXTENDS Naturals, Sequences, FiniteSets

CONSTANTS Ops,            \* slots for async functions in flight
          None,           \* no owner, no controller, no snapshot
          MaxRounds,      \* the task's configured maxRounds
          RoundBound,     \* bound: Send back is not taken beyond this round
          ShowerInterval, \* showerInterval, 0 disables
          MaxDropouts,    \* MAX_DROPOUT_RESTARTS
          UserOps,        \* user operations of this instance
          StartStates,    \* states in which a surface offers Start
          Faults          \* what may go wrong: "disk" (a file operation), "write" (an
                          \*   injection), "session" (its process), "shell" (the
                          \*   agent), "lost" (a hook), "unwatched" (no watcher)

ASSUME BoundAssumption ==
  /\ MaxRounds \in Nat \ {0} /\ RoundBound \in Nat
  /\ ShowerInterval \in Nat /\ MaxDropouts \in Nat

Active   == {"running", "evaluating", "judge-evaluating", "refreshing"}
Finished == {"completed", "failed"}
States   == Active \cup Finished \cup {"idle", "paused"}
Sess     == {"worker", "judge"}
Actions  == {"running", "evaluating", "shower", "judge-requested",
             "re-prompted", "completed", "failed"}
Chip     == [round : Nat, action : Actions, judged : BOOLEAN]
Task     == [state : States, round : Nat, limit : Nat, chips : Seq(Chip),
             sent : BOOLEAN, from : States \cup {""}, resume : BOOLEAN,
             nudged : BOOLEAN, shower : Nat]
Kinds    == {"none", "start", "reset", "reject", "reconcile", "evaluate",
             "verdict", "send", "dropout"}
Points   == {"none", "setup", "prompt", "lock", "read", "checks", "clear",
             "judge", "handoff", "restart", "nudge", "feedback"}
Op       == [kind : Kinds, at : Points, round : Nat, expect : States,
             epoch : BOOLEAN, gen : BOOLEAN, inc : BOOLEAN,
             sess : Sess \cup {"none"}, live : BOOLEAN, written : BOOLEAN,
             note : BOOLEAN, from : States \cup {""}, snap : Task \cup {None}]
Ctl      == [state : States, round : Nat]
Grace    == [state : States, round : Nat, epoch : BOOLEAN, inc : BOOLEAN]
Verdict  == [says : {"none", "complete", "continue"}, spent : BOOLEAN]
ASSUME NoneAssumption == None \notin Ops \cup Task \cup Ctl \cup Grace

VARIABLES
  task,        \* the task object (sent = promptSent, from = pausedFromState,
               \*   resume = showerResumePrompt is set, shower = lastShowerRound)
  op,          \* slot -> the async function suspended in it
  evaluating,  \* #evaluating / #evaluationOwners
  handling,    \* #handlingStandardVerdict
  pending,     \* #pendingStandardVerdict
  rejecting,   \* #rejectingVerdict / #rejectOwners
  ctl,         \* session -> operation of its injection controller
  told,        \* sessions with a #lastInjected
  dropouts,    \* #dropoutCtx
  watching, dirty, grace, \* task dir watcher: open, change debounced, armed timer
  lock,        \* WORK_LOCK exists
  verdict,     \* verdict.json; spent: observation, a verdict that moved the task
  agent,       \* session -> "idle", "busy"
  asked,       \* observation: Start, Continue or Send back since the last halt
  respent      \* observation: a spent verdict moved the task again

guards  == <<evaluating, handling, pending, rejecting>>
inject  == <<ctl, told>>
watch   == <<watching, dirty, grace>>
files   == <<lock, verdict>>
seen    == <<asked, respent>>
vars    == <<task, op, guards, inject, dropouts, watch, files, agent, seen>>

TypeOK ==
  /\ task \in Task
  /\ op \in [Ops -> Op]
  /\ evaluating \in Ops \cup {None} /\ handling \in Ops \cup {None}
  /\ pending \in BOOLEAN /\ rejecting \in Ops \cup {None}
  /\ ctl \in [Sess -> Ctl \cup {None}] /\ told \subseteq Sess
  /\ dropouts \in [Sess -> Nat]
  /\ watching \in BOOLEAN /\ dirty \in BOOLEAN /\ grace \in Grace \cup {None}
  /\ lock \in BOOLEAN /\ verdict \in Verdict
  /\ agent \in [Sess -> {"idle", "busy"}]
  /\ asked \in BOOLEAN /\ respent \in BOOLEAN

NoFile == [says |-> "none", spent |-> FALSE]
Free   == [kind |-> "none", at |-> "none", round |-> 0, expect |-> "idle",
           epoch |-> FALSE, gen |-> FALSE, inc |-> FALSE, sess |-> "none",
           live |-> FALSE, written |-> FALSE, note |-> FALSE, from |-> "",
           snap |-> None]

Init ==
  /\ task = [state |-> "idle", round |-> 0, limit |-> MaxRounds, chips |-> <<>>,
             sent |-> FALSE, from |-> "", resume |-> FALSE, nudged |-> FALSE,
             shower |-> 0]
  /\ op = [p \in Ops |-> Free]
  /\ evaluating = None /\ handling = None /\ pending = FALSE /\ rejecting = None
  /\ ctl = [s \in Sess |-> None] /\ told = {} /\ dropouts = [s \in Sess |-> 0]
  /\ watching = FALSE /\ dirty = FALSE /\ grace = None
  /\ lock = TRUE /\ verdict = NoFile
  /\ agent = [s \in Sess |-> "idle"]
  /\ asked = FALSE /\ respent = FALSE
--------------------------------------------------------------------------------
(* Round chips. *)

Last(cs) == cs[Len(cs)]
Mark(cs, a) == IF cs = <<>> THEN cs ELSE [cs EXCEPT ![Len(cs)].action = a]
Judged(cs, b) == IF cs = <<>> THEN cs ELSE [cs EXCEPT ![Len(cs)].judged = b]
Unjudged == \A i \in DOMAIN task.chips : i = Len(task.chips) => ~task.chips[i].judged

EnsureRunningRound(cs, r) ==
  LET target == IF r = 0 THEN 1 ELSE r
  IN  IF cs # <<>> /\ (Last(cs).action = "running" \/ Last(cs).round = target)
      THEN Mark(cs, "running")
      ELSE Append(cs, [round |-> target, action |-> "running", judged |-> FALSE])

(* Captured operations and their checks. *)

New(kind, at, t) ==
  [Free EXCEPT !.kind = kind, !.at = at, !.round = t.round, !.expect = t.state,
               !.epoch = TRUE, !.gen = TRUE, !.inc = TRUE]

\* #currentTaskOperation: start and reset do not check the round.
Current(p) ==
  /\ op[p].epoch /\ op[p].inc /\ task.state = op[p].expect
  /\ op[p].kind \in {"start", "reset"} \/ op[p].round = task.round

\* #getCurrentStandardTask: the run generation too.
CurrentRun(p) == Current(p) /\ op[p].gen

\* #advanceTaskLifecycle: operations of the old epoch fail every later check,
\* and so do the injections they hold; what else those checks compare is
\* forgotten with it.
Fenced_variant(f) == f
Fenced(f) ==
  [q \in Ops |-> [f[q] EXCEPT !.epoch = FALSE, !.gen = FALSE, !.live = FALSE,
                     !.inc = FALSE, !.round = 0, !.expect = "idle", !.from = ""]]

ClearGuards ==
  evaluating' = None /\ handling' = None /\ pending' = FALSE /\ rejecting' = None
NoInjection == ctl' = [s \in Sess |-> None]

Advance ==
  /\ ClearGuards /\ NoInjection
  /\ grace' = IF grace = None THEN None ELSE [grace EXCEPT !.epoch = FALSE]
  /\ UNCHANGED <<told, watching, dirty>>

\* #setTaskState to paused, completed or failed from another state: advances,
\* cancels injections, closes the watcher.
Halt(t, f) ==
  /\ task' = t /\ op' = Fenced(f)
  /\ ClearGuards /\ NoInjection /\ UNCHANGED told
  /\ watching' = FALSE /\ dirty' = FALSE /\ grace' = None
  /\ asked' = FALSE

Done(p) == [op EXCEPT ![p] = Free]
Release(p) == evaluating' = IF evaluating = p THEN None ELSE evaluating
Touched == dirty' = (dirty \/ watching) /\ UNCHANGED <<watching, grace>>

(* Injections.  #beginSessionInjection shares the session's controller while *)
(* its operation is current and otherwise supersedes it.                     *)

Key_variant(t) == [state |-> t.state]

Key(t) == [state |-> t.state, round |-> t.round]
Drop(f, s) ==
  [q \in Ops |-> IF f[q].sess = s THEN [f[q] EXCEPT !.live = FALSE] ELSE f[q]]

Inject(p, o, s, t) ==
  LET others == IF ctl[s] = Key(t) THEN op ELSE Drop(op, s)
  IN  /\ op' = [others EXCEPT ![p] = [o EXCEPT !.sess = s, !.live = TRUE,
                                               !.written = FALSE]]
      /\ ctl' = [ctl EXCEPT ![s] = Key(t)] /\ told' = told \cup {s}

\* #isCurrentInjection
Holds(p) ==
  op[p].sess # "none" /\ op[p].live /\ ctl[op[p].sess] = Key(task)

At(p, kind, at) == op[p].kind = kind /\ op[p].at = at
Delivered(p) == op[p].written /\ Holds(p)
Refused(p)   == ~Holds(p)
Threw(p)     == "write" \in Faults /\ Holds(p) /\ ~op[p].written
Settled(p)   == Refused(p) \/ Threw(p) \/ Delivered(p)

\* #writeAndSubmit: the prompt goes into the session.  UserPromptSubmit, when
\* the provider has that hook, clears the dropout count.
Write(p) ==
  /\ Holds(p) /\ ~op[p].written
  /\ op' = [op EXCEPT ![p].written = TRUE]
  /\ agent' = [agent EXCEPT ![op[p].sess] = "busy"]
  /\ \/ dropouts' = [dropouts EXCEPT ![op[p].sess] = 0]
     \/ UNCHANGED dropouts
  /\ UNCHANGED <<task, guards, inject, watch, files, seen>>
--------------------------------------------------------------------------------
(* Starting an evaluation and a verdict pass; t is the task they start from. *)

Evaluation_variant(p, t) ==
  /\ evaluating = None /\ evaluating' = p
  /\ op' = [q \in Ops |-> IF q = p THEN New("evaluate", "checks", t)
                          ELSE [op[q] EXCEPT !.gen = FALSE]]
  /\ task' = [t EXCEPT !.state = "evaluating",
                !.chips = Judged(Mark(EnsureRunningRound(@, t.round), "evaluating"), FALSE)]
  /\ UNCHANGED <<handling, pending, rejecting, inject>>

\* #evaluateWorker up to the built-in checks.
Evaluation(p, t) ==
  /\ \/ /\ evaluating # None
        /\ task' = t /\ op' = Done(p) /\ UNCHANGED evaluating
     \/ /\ evaluating = None
        /\ evaluating' = p
        /\ op' = [q \in Ops |->
             IF q = p THEN [New("evaluate", "checks", t) EXCEPT !.expect = "evaluating"]
             ELSE [op[q] EXCEPT !.gen = FALSE]]
        /\ task' = [t EXCEPT !.state = "evaluating",
                      !.chips = Judged(Mark(EnsureRunningRound(@, t.round),
                                            "evaluating"), FALSE)]
  /\ UNCHANGED <<handling, pending, rejecting, inject>>

VerdictPass_variant(p, t, idleOnly) ==
  /\ task' = t /\ handling' = p
  /\ op' = [op EXCEPT ![p] = [New("verdict", "read", t) EXCEPT !.note = idleOnly]]
  /\ UNCHANGED <<evaluating, pending, rejecting, inject>>

\* #handleJudgeVerdict up to reading the file: one pass at a time; a real stop
\* that meets an idle-only pass is queued.
VerdictPass(p, t, idleOnly) ==
  /\ task' = t
  /\ \/ /\ handling = None
        /\ handling' = p /\ UNCHANGED pending
        /\ op' = [op EXCEPT ![p] = [New("verdict", "read", t) EXCEPT !.note = idleOnly]]
     \/ /\ handling # None
        /\ pending' = (pending \/ (op[handling].note /\ ~idleOnly))
        /\ op' = Done(p) /\ UNCHANGED handling
  /\ UNCHANGED <<evaluating, rejecting, inject>>
--------------------------------------------------------------------------------
(* What the user does. *)

Start(p) ==
  /\ "start" \in UserOps /\ op[p] = Free
  /\ task.state \notin {"running", "evaluating", "judge-evaluating"}
  /\ task.state \in StartStates
  /\ Advance
  /\ op' = [Fenced(op) EXCEPT ![p] = New("start", "setup", task)]
  /\ asked' = TRUE
  /\ UNCHANGED <<task, dropouts, files, agent, respent>>

StartSetup(p) ==
  /\ At(p, "start", "setup")
  /\ \/ /\ ~Current(p)
        /\ op' = Done(p) /\ UNCHANGED <<task, inject>>
     \/ /\ Current(p)
        /\ LET t == [task EXCEPT !.state = "running", !.round = 1,
                                 !.chips = EnsureRunningRound(<<>>, 1)]
           IN  task' = t /\ Inject(p, New("start", "prompt", t), "worker", t)
  /\ UNCHANGED <<guards, dropouts, watch, files, agent, seen>>

\* The prompt that startTask or #reconcileAfterResume was injecting.
Prompted(p) ==
  /\ op[p].kind \in {"start", "reconcile"} /\ op[p].at = "prompt"
  /\ Settled(p)
  /\ task' = IF Delivered(p) /\ Current(p) THEN [task EXCEPT !.sent = TRUE] ELSE task
  /\ op' = Done(p)
  /\ UNCHANGED <<guards, inject, dropouts, watch, files, agent, seen>>

\* stopTask and, in the active states, pauseTask.
Stop ==
  /\ "stop" \in UserOps
  /\ LET t == [task EXCEPT !.state = "paused", !.from = task.state]
     IN  \/ task.state # "paused" /\ Halt(t, op)
         \/ /\ task.state = "paused"
            /\ task' = t /\ evaluating' = None /\ NoInjection
            /\ op' = [p \in Ops |-> [op[p] EXCEPT !.live = FALSE]]
            /\ UNCHANGED <<handling, pending, rejecting, told, watch, asked>>
  /\ UNCHANGED <<dropouts, files, agent, respent>>

\* resumeTask; #reconcileAfterResume follows unless a recovery prompt waits.
Resume(p) ==
  /\ "resume" \in UserOps /\ op[p] = Free
  /\ task.state \in Finished \cup {"paused"}
  /\ Advance
  /\ LET to == IF task.from = "judge-evaluating" THEN task.from ELSE "running"
         t  == [task EXCEPT !.state = to, !.from = ""]
     IN  /\ task' = t
         /\ op' = IF task.resume THEN Fenced(op)
                  ELSE [Fenced(op) EXCEPT ![p] =
                         [New("reconcile", "read", t) EXCEPT
                            !.from = task.from, !.note = task.state \in Finished]]
  /\ asked' = TRUE
  /\ UNCHANGED <<dropouts, files, agent, respent>>

Reconcile(p) ==
  /\ At(p, "reconcile", "read")
  /\ \/ /\ ~Current(p)
        /\ op' = Done(p) /\ UNCHANGED <<task, guards, inject>>
     \/ /\ Current(p) /\ verdict.says # "none" /\ Unjudged
        /\ VerdictPass(p, [task EXCEPT !.state = "judge-evaluating"], FALSE)
     \/ /\ Current(p) /\ (verdict.says = "none" \/ ~Unjudged)
        /\ \/ /\ op[p].from = "judge-evaluating"
              /\ Evaluation(p, [task EXCEPT !.state = "running", !.nudged = FALSE])
           \/ /\ op[p].from # "judge-evaluating" /\ task.sent /\ ~op[p].note /\ ~lock
              /\ Evaluation(p, task)
           \/ /\ op[p].from # "judge-evaluating" /\ task.sent
              /\ op[p].note \/ (lock /\ agent["worker"] = "busy")
              /\ op' = Done(p) /\ UNCHANGED <<task, guards, inject>>
           \/ /\ op[p].from # "judge-evaluating"
              /\ ~task.sent \/ (~op[p].note /\ lock /\ agent["worker"] = "idle")
              /\ Inject(p, [op[p] EXCEPT !.at = "prompt"], "worker", task)
              /\ UNCHANGED <<task, guards>>
  /\ UNCHANGED <<dropouts, watch, files, agent, seen>>

\* resetTask: WORK_LOCK first, the destructive part only once it is on disk.
Reset(p) ==
  /\ "reset" \in UserOps /\ op[p] = Free
  /\ task.state \in Finished \cup {"paused"}
  /\ Advance
  /\ op' = [Fenced(op) EXCEPT ![p] = New("reset", "lock", task)]
  /\ UNCHANGED <<task, dropouts, files, agent, seen>>

ResetDone(p) ==
  /\ At(p, "reset", "lock")
  /\ \/ /\ "disk" \in Faults
        /\ op' = Done(p)
        /\ UNCHANGED <<task, evaluating, inject, dropouts, watch, lock>>
     \/ /\ lock' = TRUE /\ Touched
        /\ \/ /\ Current(p)
              /\ task' = [task EXCEPT !.state = "idle", !.round = 0, !.chips = <<>>,
                            !.sent = FALSE, !.from = "", !.resume = FALSE, !.shower = 0]
              /\ op' = [q \in Ops |-> [Done(p)[q] EXCEPT !.live = FALSE]]
              /\ NoInjection /\ told' = {}
              /\ evaluating' = None /\ dropouts' = [s \in Sess |-> 0]
           \/ /\ ~Current(p) /\ op' = Done(p)
              /\ UNCHANGED <<task, evaluating, inject, dropouts>>
  /\ UNCHANGED <<handling, pending, rejecting, verdict, agent, seen>>

\* rejectTaskVerdict ("Send back").
Reject(p) ==
  /\ "reject" \in UserOps /\ op[p] = Free
  /\ rejecting = None /\ task.state \in Finished
  /\ task.round < RoundBound
  /\ evaluating' = None /\ handling' = None /\ pending' = FALSE /\ rejecting' = p
  /\ NoInjection
  /\ grace' = IF grace = None THEN None ELSE [grace EXCEPT !.epoch = FALSE]
  /\ op' = [Fenced(op) EXCEPT ![p] = [New("reject", "lock", task) EXCEPT !.snap = task]]
  /\ asked' = TRUE
  /\ UNCHANGED <<task, told, watching, dirty, dropouts, files, agent, respent>>

Reopened(t) ==
  LET r == t.round + 1
  IN  [t EXCEPT !.state = "running", !.round = r,
                !.limit = IF @ < r THEN r ELSE @,
                !.chips = EnsureRunningRound(Mark(@, "re-prompted"), r)]

Unreject(p) == rejecting' = IF rejecting = p THEN None ELSE rejecting

RejectLock(p) ==
  /\ At(p, "reject", "lock")
  /\ \/ /\ "disk" \in Faults
        /\ op' = Done(p) /\ Unreject(p) /\ UNCHANGED <<task, inject, watch, lock>>
     \/ /\ ~Current(p)
        /\ lock' = TRUE /\ Touched
        /\ op' = Done(p) /\ Unreject(p) /\ UNCHANGED <<task, inject>>
     \/ /\ Current(p)
        /\ lock' = TRUE /\ Touched
        /\ task' = Reopened(task)
        /\ Inject(p, [New("reject", "prompt", Reopened(task)) EXCEPT !.snap = op[p].snap],
                  "worker", Reopened(task))
        /\ UNCHANGED rejecting
  /\ UNCHANGED <<evaluating, handling, pending, verdict, dropouts, agent, seen>>

\* #awaitUnlessUserDefers: the write waits for the user, the answer does not.
RejectDeferred(p) ==
  /\ At(p, "reject", "prompt") /\ ~op[p].note /\ ~op[p].written
  /\ op' = [op EXCEPT ![p].note = TRUE] /\ Unreject(p)
  /\ UNCHANGED <<task, evaluating, handling, pending, inject, dropouts, watch,
                 files, agent, seen>>

RolledBack_variant(snap) ==
  [task EXCEPT !.state = snap.state, !.round = snap.round, !.limit = snap.limit]

RolledBack(snap) ==
  [task EXCEPT !.state = snap.state, !.round = snap.round, !.limit = snap.limit,
     !.chips = Mark(SubSeq(@, 1, IF Len(@) > Len(snap.chips) THEN Len(snap.chips)
                                 ELSE Len(@)),
                    IF snap.chips = <<>> THEN "running" ELSE Last(snap.chips).action)]

Undoable_variant(p) == op[p].snap # None

\* At most a session was replaced: #onlySessionsChanged, after the answer only.
\* (A write that throws is caught in the turn of the event loop it held in, and the
\* rollback that captures again still asks for "running".)
Undoable(p) ==
  \/ Current(p)
  \/ op[p].note /\ op[p].epoch /\ task.state = "running" /\ task.round = op[p].round

RejectPrompted(p) ==
  /\ At(p, "reject", "prompt") /\ Settled(p)
  /\ \/ /\ ~Delivered(p) /\ Undoable(p)
        /\ Halt(RolledBack(op[p].snap), Done(p))
        /\ UNCHANGED respent
     \/ /\ Delivered(p) \/ ~Undoable(p)
        /\ op' = Done(p) /\ Unreject(p)
        /\ UNCHANGED <<task, evaluating, handling, pending, inject, watch, seen>>
  /\ UNCHANGED <<dropouts, files, agent>>

\* resendLastInstruction: not beside a delivery already in flight.
Resend(p, s) ==
  /\ "resend" \in UserOps /\ op[p] = Free
  /\ s \in told /\ \A q \in Ops : op[q].sess # s
  /\ Inject(p, New("send", "prompt", task), s, task)
  /\ UNCHANGED <<task, guards, dropouts, watch, files, agent, seen>>

\* An injection nobody waits for: first prompt, recovery prompt, Resend.
Sent(p) ==
  /\ At(p, "send", "prompt") /\ Settled(p)
  /\ op' = Done(p)
  /\ UNCHANGED <<task, guards, inject, dropouts, watch, files, agent, seen>>
--------------------------------------------------------------------------------
(* The Worker's turn ended: onAgentIdle, and #evaluateWorker's body. *)

Ends(s) == agent' = agent \/ agent' = [agent EXCEPT ![s] = "idle"]

\* The first idle after a start, a shower or a restart: the prompt goes in.
WorkerReady(p) ==
  /\ op[p] = Free /\ task.state = "running" /\ ~task.sent
  /\ LET t == [task EXCEPT !.sent = TRUE, !.resume = FALSE,
                 !.chips = EnsureRunningRound(@, task.round)]
     IN  task' = t /\ Inject(p, New("send", "prompt", t), "worker", t)
  /\ Ends("worker")
  /\ UNCHANGED <<guards, dropouts, watch, files, seen>>

WorkerIdle(p) ==
  /\ op[p] = Free /\ task.state = "running" /\ task.sent
  /\ Evaluation(p, task)
  /\ dropouts' = [dropouts EXCEPT !["worker"] = 0]
  /\ Ends("worker")
  /\ UNCHANGED <<watch, files, seen>>

EndEval(p) == op' = Done(p) /\ Release(p)

\* The checks fail: shower or re-prompt, in the same round.  They pass: on to
\* the Judge.  They may also fail on open TODO items.
EvalChecks(p) ==
  /\ At(p, "evaluate", "checks")
  /\ \/ /\ ~CurrentRun(p) /\ EndEval(p) /\ UNCHANGED <<task, inject>>
     \/ /\ CurrentRun(p) /\ ~lock
        /\ task' = [task EXCEPT !.chips = Mark(@, "judge-requested")]
        /\ op' = [op EXCEPT ![p].at = "clear"]
        /\ UNCHANGED <<evaluating, inject>>
     \/ /\ CurrentRun(p)
        /\ ShowerInterval > 0 /\ task.round >= ShowerInterval + task.shower
        /\ LET t == [task EXCEPT !.state = "refreshing", !.chips = Mark(@, "shower")]
           IN  /\ task' = t
               /\ Inject(p, [op[p] EXCEPT !.at = "handoff", !.expect = "refreshing"],
                         "worker", t)
        /\ UNCHANGED evaluating
     \/ /\ CurrentRun(p)
        /\ ShowerInterval = 0 \/ task.round < ShowerInterval + task.shower
        /\ Inject(p, [op[p] EXCEPT !.at = "prompt"], "worker", task)
        /\ UNCHANGED <<task, evaluating>>
  /\ UNCHANGED <<handling, pending, rejecting, dropouts, watch, files, agent, seen>>

EvalClear_variant(p) ==
  /\ At(p, "evaluate", "clear")
  /\ \/ /\ ~CurrentRun(p) /\ EndEval(p) /\ UNCHANGED <<task, inject>>
     \/ /\ CurrentRun(p)
        /\ task' = [task EXCEPT !.nudged = FALSE]
        /\ Inject(p, [op[p] EXCEPT !.at = "judge"], "judge", task)
        /\ UNCHANGED evaluating
  /\ UNCHANGED <<handling, pending, rejecting, dropouts, watch, files, agent, seen>>

\* clearVerdict lands, or fails unnoticed, whatever the recheck after it says.
EvalClear(p) ==
  /\ At(p, "evaluate", "clear")
  /\ \/ verdict' = NoFile /\ Touched
     \/ "disk" \in Faults /\ UNCHANGED <<verdict, watch>>
  /\ \/ /\ ~CurrentRun(p) /\ EndEval(p) /\ UNCHANGED <<task, inject>>
     \/ /\ CurrentRun(p)
        /\ task' = [task EXCEPT !.nudged = FALSE]
        /\ Inject(p, [op[p] EXCEPT !.at = "judge"], "judge", task)
        /\ UNCHANGED evaluating
  /\ UNCHANGED <<handling, pending, rejecting, dropouts, lock, agent, seen>>

\* #evaluateWorker's catch: pause, unless the task is refreshing.
EvalError(p) ==
  IF CurrentRun(p) /\ task.state = "evaluating"
  THEN Halt([task EXCEPT !.state = "paused", !.from = "evaluating"], Done(p))
       /\ UNCHANGED respent
  ELSE EndEval(p)
       /\ UNCHANGED <<task, handling, pending, rejecting, inject, watch, seen>>

\* The judge prompt, or the re-prompt, has been injected or refused.
EvalPrompted(p) ==
  /\ op[p].kind = "evaluate" /\ op[p].at \in {"judge", "prompt"} /\ Settled(p)
  /\ \/ Threw(p) /\ EvalError(p)
     \/ /\ Refused(p) \/ Delivered(p)
        /\ EndEval(p)
        /\ task' = IF ~(Delivered(p) /\ CurrentRun(p)) THEN task
                   ELSE IF op[p].at = "judge"
                   THEN [task EXCEPT !.state = "judge-evaluating",
                                     !.chips = Mark(@, "judge-requested")]
                   ELSE [task EXCEPT !.state = "running", !.chips = Mark(@, "running")]
        /\ UNCHANGED <<handling, pending, rejecting, inject, watch, seen>>
  /\ UNCHANGED <<dropouts, files, agent>>

\* #performShower fails: re-prompt from "refreshing".
Fallback(p) == Inject(p, [op[p] EXCEPT !.at = "prompt"], "worker", task)

\* #performShower up to the restart: the directive is in and the handoff file
\* came (or not); the runner's own restart cancels the injection, not the epoch.
Shower(p) ==
  /\ At(p, "evaluate", "handoff") /\ Settled(p)
  /\ \/ /\ Threw(p) /\ EvalError(p)
        /\ UNCHANGED agent
     \/ /\ ~Threw(p) /\ ~CurrentRun(p) /\ EndEval(p)
        /\ UNCHANGED <<task, handling, pending, rejecting, inject, watch, agent, seen>>
     \/ /\ ~Threw(p) /\ CurrentRun(p)
        /\ \/ Fallback(p) /\ UNCHANGED agent
           \/ /\ Delivered(p)
              /\ op' = [Drop(op, "worker") EXCEPT
                          ![p] = [op[p] EXCEPT !.at = "restart", !.sess = "none",
                                               !.live = FALSE]]
              /\ ctl' = [ctl EXCEPT !["worker"] = None] /\ UNCHANGED told
              /\ agent' = [agent EXCEPT !["worker"] = "idle"]
        /\ UNCHANGED <<task, guards, watch, seen>>
  /\ UNCHANGED <<dropouts, files>>

ShowerDone(p) ==
  /\ At(p, "evaluate", "restart")
  /\ \/ ~CurrentRun(p) /\ EndEval(p) /\ UNCHANGED <<task, inject>>
     \/ /\ CurrentRun(p) /\ EndEval(p)
        /\ task' = [task EXCEPT !.state = "running", !.chips = Mark(@, "running"),
                      !.resume = TRUE, !.shower = task.round, !.sent = FALSE]
        /\ UNCHANGED inject
     \/ /\ CurrentRun(p) /\ "session" \in Faults
        /\ Fallback(p) /\ UNCHANGED <<task, evaluating>>
  /\ UNCHANGED <<handling, pending, rejecting, dropouts, watch, files, agent, seen>>
--------------------------------------------------------------------------------
(* The Judge's turn ended: onAgentIdle, and #handleJudgeVerdict's body. *)

JudgeReady(p) ==
  /\ op[p] = Free /\ task.state = "judge-evaluating" /\ task.resume
  /\ LET t == [task EXCEPT !.resume = FALSE]
     IN  task' = t /\ Inject(p, New("send", "prompt", t), "judge", t)
  /\ Ends("judge")
  /\ UNCHANGED <<guards, dropouts, watch, files, seen>>

\* idleOnly: an idle_prompt or other notification, no proof the turn ended.
JudgeIdle(p, idleOnly) ==
  /\ op[p] = Free /\ task.state = "judge-evaluating" /\ ~task.resume
  /\ VerdictPass(p, task, idleOnly)
  /\ dropouts' = [dropouts EXCEPT !["judge"] = 0]
  /\ Ends("judge")
  /\ UNCHANGED <<watch, files, seen>>

\* The finally block: the guard goes to its owner only, and a queued stop is
\* replayed while the task still waits for the verdict.
EndVerdict(p) ==
  IF handling = p
  THEN /\ pending' = FALSE
       /\ IF pending /\ Current(p)
          THEN handling' = p /\ op' = [op EXCEPT ![p] = New("verdict", "read", task)]
          ELSE handling' = None /\ op' = Done(p)
  ELSE op' = Done(p) /\ UNCHANGED <<handling, pending>>

Spend == verdict' = [verdict EXCEPT !.spent = TRUE]
         /\ respent' = (respent \/ verdict.spent)

\* Missing file: wait on an idle-only signal, remind once (again after the
\* user's own turn), wait while busy, then pause.
VerdictMissing(p) ==
  /\ verdict.says = "none"
  /\ \/ /\ op[p].note \/ task.nudged
        /\ EndVerdict(p)
        /\ UNCHANGED <<task, evaluating, rejecting, inject, watch, seen>>
     \/ /\ ~op[p].note
        /\ task' = [task EXCEPT !.nudged = TRUE]
        /\ Inject(p, [op[p] EXCEPT !.at = "nudge"], "judge", task)
        /\ UNCHANGED <<guards, watch, seen>>
     \/ /\ ~op[p].note /\ task.nudged /\ agent["judge"] = "idle"
        /\ Halt([task EXCEPT !.state = "paused", !.from = "judge-evaluating"], Done(p))
        /\ UNCHANGED respent
  /\ UNCHANGED files

\* "complete", or "continue" in the last round: the task ends.
VerdictEnds(p) ==
  LET end == IF verdict.says = "complete" THEN "completed" ELSE "failed"
  IN  /\ verdict.says = "complete" \/ (verdict.says = "continue" /\ task.round >= task.limit)
      /\ Halt([task EXCEPT !.state = end, !.chips = Mark(Judged(@, TRUE), end)], Done(p))
      /\ Spend /\ UNCHANGED lock

VerdictRead(p) ==
  /\ At(p, "verdict", "read")
  /\ \/ /\ ~CurrentRun(p) /\ EndVerdict(p)
        /\ UNCHANGED <<task, evaluating, rejecting, inject, watch, files, seen>>
     \/ CurrentRun(p) /\ VerdictMissing(p)
     \/ CurrentRun(p) /\ VerdictEnds(p)
     \/ /\ CurrentRun(p) /\ verdict.says = "continue" /\ task.round < task.limit
        /\ task' = [task EXCEPT !.chips = Judged(@, TRUE)]
        /\ op' = [op EXCEPT ![p].at = "lock"]
        /\ UNCHANGED <<guards, inject, watch, files, seen>>
  /\ UNCHANGED <<dropouts, agent>>

Nudged(p) ==
  /\ At(p, "verdict", "nudge") /\ Settled(p)
  /\ \/ /\ Threw(p) /\ CurrentRun(p)
        /\ Halt([task EXCEPT !.state = "paused", !.from = "judge-evaluating"], Done(p))
        /\ UNCHANGED respent
     \/ /\ ~Threw(p) \/ ~CurrentRun(p)
        /\ EndVerdict(p)
        /\ UNCHANGED <<task, evaluating, rejecting, inject, watch, seen>>
  /\ UNCHANGED <<dropouts, files, agent>>

\* "continue": the lock goes back (a failure is only logged), then the Worker
\* is told.
VerdictLock_variant(p) ==
  /\ At(p, "verdict", "lock")
  /\ \/ /\ ~Current(p) /\ EndVerdict(p) /\ UNCHANGED <<task, inject>>
     \/ /\ Current(p)
        /\ LET t == [task EXCEPT !.round = @ + 1]
           IN  /\ task' = t
               /\ Inject(p, [op[p] EXCEPT !.at = "feedback", !.round = @ + 1], "worker", t)
        /\ UNCHANGED <<handling, pending>>
  /\ UNCHANGED <<evaluating, rejecting, watch, files, dropouts, agent, seen>>

VerdictLock(p) ==
  /\ At(p, "verdict", "lock")
  /\ \/ lock' = TRUE /\ Touched
     \/ "disk" \in Faults /\ UNCHANGED <<lock, watch>>
  /\ \/ ~CurrentRun(p) /\ EndVerdict(p) /\ UNCHANGED inject
     \/ /\ CurrentRun(p)
        /\ Inject(p, [op[p] EXCEPT !.at = "feedback"], "worker", task)
        /\ UNCHANGED <<handling, pending>>
  /\ UNCHANGED <<task, evaluating, rejecting, verdict, dropouts, agent, seen>>

NextRound(t) ==
  [t EXCEPT !.state = "running", !.round = @ + 1,
            !.chips = EnsureRunningRound(Mark(@, "re-prompted"), t.round + 1)]

\* The round advances only once the Worker has its feedback.
VerdictPrompted(p) ==
  /\ At(p, "verdict", "feedback") /\ Settled(p)
  /\ \/ /\ Threw(p) /\ CurrentRun(p)
        /\ Halt([task EXCEPT !.state = "paused", !.from = "judge-evaluating"], Done(p))
        /\ UNCHANGED <<respent, files>>
     \/ /\ Delivered(p) /\ CurrentRun(p)
        /\ task' = NextRound(task) /\ Spend
        /\ op' = Done(p)
        /\ handling' = (IF handling = p THEN None ELSE handling)
        /\ pending' = (pending /\ handling # p)
        /\ UNCHANGED <<evaluating, rejecting, inject, watch, lock, asked>>
     \/ /\ Refused(p) \/ ~CurrentRun(p)
        /\ EndVerdict(p)
        /\ UNCHANGED <<task, evaluating, rejecting, inject, watch, files, seen>>
  /\ UNCHANGED <<dropouts, agent>>
--------------------------------------------------------------------------------
(* Sessions. *)

\* onAgentIdle finds the agent gone and its shell alive: #handleAgentDropout.
Dropout(p, s) ==
  /\ "shell" \in Faults /\ op[p] = Free /\ agent[s] = "idle"
  /\ \/ s = "worker" /\ task.state = "running" /\ task.sent
     \/ s = "judge" /\ task.state = "judge-evaluating" /\ ~task.resume
  /\ \/ /\ dropouts[s] >= MaxDropouts
        /\ dropouts' = [dropouts EXCEPT ![s] = 0]
        /\ Halt([task EXCEPT !.state = "paused", !.from = task.state], op)
        /\ UNCHANGED respent
     \/ /\ dropouts[s] < MaxDropouts
        /\ dropouts' = [dropouts EXCEPT ![s] = @ + 1]
        /\ task' = [task EXCEPT !.resume = (s \in told), !.sent = @ /\ s # "worker"]
        /\ op' = [op EXCEPT ![p] = [New("dropout", "restart", task) EXCEPT
                                      !.note = (s = "judge")]]
        /\ UNCHANGED <<guards, inject, watch, seen>>
  /\ UNCHANGED <<files, agent>>

\* #restartTaskSession: a managed restart cancels the session's injection and
\* keeps its incarnation.
Restarted(p) ==
  /\ At(p, "dropout", "restart")
  /\ LET s == IF op[p].note THEN "judge" ELSE "worker"
     IN  /\ op' = [Drop(op, s) EXCEPT ![p] = Free]
         /\ ctl' = [ctl EXCEPT ![s] = None]
         /\ agent' = [agent EXCEPT ![s] = "idle"]
  /\ UNCHANGED <<task, guards, told, dropouts, watch, files, seen>>

\* A new process in the session: injections are cancelled and no operation
\* captured before may go on.
NewProcess(f) ==
  [q \in Ops |-> [f[q] EXCEPT !.inc = FALSE, !.live = FALSE]]

\* cancelPendingInput: a respawn, a restart by the user, a closed panel.  (The
\* other session's injection is refused by the same check: its operation is
\* captured with both incarnations.)
SessionReplaced(s) ==
  /\ "session" \in Faults
  /\ op' = NewProcess(op) /\ NoInjection
  /\ grace' = IF grace = None THEN None ELSE [grace EXCEPT !.inc = FALSE]
  /\ agent' = [agent EXCEPT ![s] = "idle"]
  /\ UNCHANGED <<task, guards, told, dropouts, watching, dirty, files, seen>>

\* onSessionExit: the Worker's process died while the task was active.
WorkerExit ==
  /\ "session" \in Faults /\ task.state \in Active
  /\ Halt([task EXCEPT !.state = "paused", !.from = ""], NewProcess(op))
  /\ agent' = [agent EXCEPT !["worker"] = "idle"]
  /\ UNCHANGED <<dropouts, files, respent>>
--------------------------------------------------------------------------------
(* The task dir watcher, a backstop for idle hooks that never come. *)

WatcherOpens ==
  /\ task.state \in Active /\ ~watching /\ "unwatched" \notin Faults
  /\ watching' = TRUE
  /\ UNCHANGED <<task, op, guards, inject, dropouts, dirty, grace, files, agent, seen>>

\* Another file of the task dir changes (TASK_LOG.jsonl, an agent's notes) or, once
\* fs.watch has thrown or failed, the poll comes round.
DirChanges ==
  /\ watching /\ ~dirty /\ dirty' = TRUE
  /\ UNCHANGED <<task, op, guards, inject, dropouts, watching, grace, files, agent, seen>>

\* What a hook should have handled by now.
Overdue ==
  \/ task.state = "judge-evaluating" /\ verdict.says # "none" /\ Unjudged
  \/ task.state = "running" /\ task.sent /\ ~lock

WatcherLooks_variant ==
  /\ watching /\ dirty /\ dirty' = FALSE
  /\ grace' = IF grace = None /\ Overdue /\ task.state = "running"
              THEN [state |-> task.state, round |-> task.round,
                    epoch |-> TRUE, inc |-> TRUE]
              ELSE grace
  /\ UNCHANGED <<task, op, guards, inject, dropouts, watching, files, agent, seen>>

\* #reconcileFromWatcher after the debounce: one grace window at a time.
WatcherLooks ==
  /\ watching /\ dirty /\ dirty' = FALSE
  /\ grace' = IF grace = None /\ Overdue
              THEN [state |-> task.state, round |-> task.round,
                    epoch |-> TRUE, inc |-> TRUE]
              ELSE grace
  /\ UNCHANGED <<task, op, guards, inject, dropouts, watching, files, agent, seen>>

GraceCurrent ==
  /\ grace.epoch /\ grace.inc
  /\ grace.state = task.state /\ grace.round = task.round

\* The grace window is over: act if the situation still holds.
GraceFires(p) ==
  /\ grace # None /\ grace' = None
  /\ op[p] = Free
  /\ \/ /\ GraceCurrent /\ Overdue /\ task.state = "judge-evaluating"
        /\ VerdictPass(p, task, FALSE)
     \/ /\ GraceCurrent /\ Overdue /\ task.state = "running"
        /\ Evaluation(p, task)
     \/ /\ ~GraceCurrent \/ ~Overdue
        /\ UNCHANGED <<task, op, guards, inject>>
  /\ UNCHANGED <<dropouts, watching, dirty, files, agent, seen>>
--------------------------------------------------------------------------------
(* The agents. *)

\* The Worker believes it is done.
WorkerDone ==
  /\ agent["worker"] = "busy" /\ lock
  /\ lock' = FALSE /\ Touched
  /\ UNCHANGED <<task, op, guards, inject, dropouts, verdict, agent, seen>>

\* A Judge writes its verdict once per request.
JudgeWrites(says) ==
  /\ agent["judge"] = "busy" /\ (verdict.says = "none" \/ verdict.spent)
  /\ verdict' = [says |-> says, spent |-> FALSE] /\ Touched
  /\ UNCHANGED <<task, op, guards, inject, dropouts, lock, agent, seen>>

\* A turn ends and no branch of onAgentIdle acts on it: the state does not wait
\* for it, a write waits for the user in that session, or the hook is lost.
Unheard(s) ==
  /\ agent[s] = "busy"
  /\ \/ "lost" \in Faults
     \/ task.state # (IF s = "worker" THEN "running" ELSE "judge-evaluating")
     \/ \E q \in Ops : op[q].sess = s /\ ~op[q].written
  /\ agent' = [agent EXCEPT ![s] = "idle"]
  /\ UNCHANGED <<task, op, guards, inject, dropouts, watch, files, seen>>
--------------------------------------------------------------------------------
User(p) == Start(p) \/ Resume(p) \/ Reset(p) \/ Reject(p) \/ (\E s \in Sess : Resend(p, s))

\* The next step of the function in slot p.
Step(p) ==
  \/ StartSetup(p) \/ Prompted(p) \/ Reconcile(p) \/ ResetDone(p)
  \/ RejectLock(p) \/ RejectDeferred(p) \/ RejectPrompted(p) \/ Sent(p)
  \/ EvalChecks(p) \/ EvalClear(p) \/ EvalPrompted(p) \/ Shower(p) \/ ShowerDone(p)
  \/ VerdictRead(p) \/ Nudged(p) \/ VerdictLock(p) \/ VerdictPrompted(p)
  \/ Restarted(p) \/ Write(p)

Heard(p) ==
  \/ WorkerReady(p) \/ WorkerIdle(p) \/ JudgeReady(p)
  \/ \E idleOnly \in BOOLEAN : JudgeIdle(p, idleOnly)
  \/ \E s \in Sess : Dropout(p, s)

Next ==
  \/ Stop
  \/ \E p \in Ops : User(p) \/ Step(p) \/ Heard(p) \/ GraceFires(p)
  \/ \E s \in Sess : SessionReplaced(s) \/ Unheard(s)
  \/ WorkerExit \/ WatcherOpens \/ WatcherLooks \/ DirChanges \/ WorkerDone
  \/ \E says \in {"complete", "continue"} : JudgeWrites(says)

Spec == Init /\ [][Next]_vars

\* Promises settle and timers fire; nothing is assumed of the user, the agents
\* or the hooks.  (A user who never leaves the composer can hold back a Write
\* for ever: that one is assumed to leave.)  Nor that the task dir changes again:
\* fs.watch reports a change once, and the code polls only after it has failed.
FairSpec ==
  /\ Spec
  /\ \A p \in Ops : WF_vars(Step(p))
  /\ WF_vars(\E p \in Ops : GraceFires(p))
  /\ WF_vars(WatcherOpens) /\ WF_vars(WatcherLooks)
--------------------------------------------------------------------------------
(* Properties. *)

\* Nothing in flight brings a task back: it is in an active state only while the
\* user's last effective word was Start, Continue or Send back, however many
\* handlers were suspended when it was paused, completed or failed.
RunsOnlyWhenAsked == task.state \in Active => asked

\* One evaluation of the current epoch at a time, and it holds the guard
\* (#evaluateWorker's re-entrance check against hook, watcher and Continue).
OneEvaluation ==
  \A p \in Ops : op[p].kind = "evaluate" /\ op[p].epoch => evaluating = p

\* One verdict pass of the current epoch at a time, and it holds the guard:
\* two idle signals never read the same verdict side by side.
OneVerdictPass ==
  \A p \in Ops : op[p].kind = "verdict" /\ op[p].epoch => handling = p

\* The round chips are numbered 1..n without gap or duplicate, and the last one
\* is the round the task counts, through re-prompts, showers, pauses, Send back
\* and its rollback (#ensureRunningRound, "ROUNDS 1 1").
ChipsMatchRounds ==
  /\ \A i \in DOMAIN task.chips : task.chips[i].round = i
  /\ task.chips # <<>> => Len(task.chips) = (IF task.round = 0 THEN 1 ELSE task.round)

\* A verdict file moves the task once (completes, fails it or opens a round).
VerdictSpentOnce == ~respent

\* Between the phases somebody is always left to drive the task: an evaluating
\* or refreshing task has a current evaluation in flight, not refused.
EvaluationDriven ==
  task.state \in {"evaluating", "refreshing"} =>
    \E p \in Ops : op[p].kind = "evaluate" /\ CurrentRun(p)

\* The two ways for the backstop to miss a change: a window armed for another
\* stage is still open (one at a time, and it is refused when it fires), or a pass
\* that found no verdict still holds the guard while its nudge waits to go in.
Missed ==
  \/ grace # None /\ ~GraceCurrent
  \/ \E p \in Ops : At(p, "verdict", "nudge")

\* A finished Worker or a written verdict that the open watcher has seen does not
\* wait for ever for a hook that was lost ("covers the case where a hook never
\* arrives"), although the directory may never change again.
LostHookCovered == (dirty /\ Overdue /\ ~Missed) ~> ~Overdue

\* No interleaving takes the task outside its lifecycle: it completes or fails
\* only out of a Judge's turn, rounds advance only there and by Send back, and
\* a failed Send back undoes exactly its own round.
Loop == INSTANCE TaskLoop WITH state <- task.state, round <- task.round,
                               limit <- task.limit
ImplementsLoop == Loop!Spec
================================================================================
