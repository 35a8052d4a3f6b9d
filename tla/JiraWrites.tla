------------------------------- MODULE JiraWrites -------------------------------
(***************************************************************************)
(* Writes to Jira (electron/backend/jira/jira-write-journal.ts and         *)
(* jira-write-safety.ts): an entry is saved before the request is sent and *)
(* marked afterwards; what is left in doubt blocks its repetition, over    *)
(* restarts too, until Jira was asked what became of it.                   *)
(*                                                                         *)
(* A write is an attempt at an action (issue, kind and content: the        *)
(* fingerprint).  An "append" adds something, other actions set a state.   *)
(* A journal operation runs alone on the journal's queue and either saves  *)
(* the whole journal or changes nothing, so it is one step.  Jira has      *)
(* applied a request, or never will, when its answer or its failure is     *)
(* seen; others use Jira too, and may undo or bring about the same.        *)
(***************************************************************************)
EXTENDS Naturals, FiniteSets

CONSTANTS
  Attempts,      \* calls of execute...() of the whole history
  Actions,       \* what they ask for, by fingerprint
  Appends,       \* the actions that add a comment or a worklog
  Versioned,     \* the transitions: judged by the issue's last update, too
  MaxEntries,    \* entries the journal holds
  AppendWindow,  \* how long an append that succeeded blocks the same one
  Tolerance,     \* how far before its submission reconciliation looks
  MaxTime,       \* bound of the clock
  MaxLives,      \* bound: starts of the process
  Faults,        \* subset of {"save"}: saving the journal may fail
  None

ASSUME JiraAssumption ==
  /\ Appends \subseteq Actions /\ Versioned \subseteq Actions \ Appends
  /\ MaxEntries \in Nat \ {0} /\ AppendWindow \in Nat /\ Tolerance \in Nat
  /\ MaxTime \in Nat /\ MaxLives \in Nat \ {0}
  /\ None \notin Attempts \cup Actions
  /\ IsFiniteSet(Attempts)

States == {"pending", "unknown", "failed", "succeeded", "applied", "not-applied"}
Entries == [action : Actions, state : States, submitted : 0..MaxTime, updated : 0..MaxTime]
Verdicts == {"applied", "not-applied", "unresolved"}

VARIABLES
  mem, disk,     \* attempt -> its entry, or None
  loaded,        \* the journal of this life was read
  pc,            \* attempt -> "new", "posting", "marking", "done"
  answer,        \* attempt -> what the request returned
  shown,         \* attempts whose call returned to a window of this life
  evidence,      \* attempt -> what a reconciliation in flight has read in Jira
  now, lives,
  \* Jira
  applied,       \* attempt -> when Jira applied its request, or None
  undone,        \* applied attempts that others have taken out of Jira again
  \* observations
  act,           \* attempt -> the action it asks for
  told           \* attempt -> what the user was last told of it

journal == <<mem, disk, loaded>>
calls   == <<pc, answer, shown, evidence>>
jira    == <<applied, undone>>
vars    == <<journal, calls, now, lives, jira, act, told>>

Answers == {"ok", "rejected", "not-sent", "unclear"}
Words == {"succeeded", "failed", "unknown", "refused", "applied", "not-applied"}

ASSUME NoneAssumption ==
  /\ None \notin Entries /\ None \notin Nat
  /\ None \notin Answers \cup Words \cup Verdicts

TypeOK ==
  /\ mem \in [Attempts -> Entries \cup {None}] /\ disk \in [Attempts -> Entries \cup {None}]
  /\ loaded \in BOOLEAN
  /\ pc \in [Attempts -> {"new", "posting", "marking", "done"}]
  /\ answer \in [Attempts -> Answers \cup {None}]
  /\ evidence \in [Attempts -> Verdicts \cup {None}]
  /\ shown \subseteq Attempts
  /\ now \in 0..MaxTime /\ lives \in 1..MaxLives
  /\ applied \in [Attempts -> (0..MaxTime) \cup {None}] /\ undone \subseteq Attempts
  /\ act \in [Attempts -> Actions \cup {None}]
  /\ told \in [Attempts -> Words \cup {None}]
  /\ Cardinality({w \in Attempts : mem[w] # None}) <= MaxEntries

Init ==
  /\ mem = [w \in Attempts |-> None] /\ disk = mem /\ loaded = FALSE
  /\ pc = [w \in Attempts |-> "new"]
  /\ answer = [w \in Attempts |-> None] /\ evidence = answer /\ shown = {}
  /\ now = 0 /\ lives = 1
  /\ applied = [w \in Attempts |-> None] /\ undone = {}
  /\ act = [w \in Attempts |-> None] /\ told = act

-----------------------------------------------------------------------------
Inside == {w \in Attempts : mem[w] # None}
Settled == {w \in Inside : mem[w].state \in {"failed", "succeeded", "applied", "not-applied"}}

\* persist(): the whole journal is saved, or the operation throws.
Saved(next) == mem' = next /\ disk' = next
SaveFails == "save" \in Faults

\* getState() of the first operation of a life: what was pending when the last
\* one ended is unknown.  Memory says so even if saving it fails.
interrupted_none(w) == disk[w]
interrupted(w) ==
  IF disk[w] # None /\ disk[w].state = "pending"
    THEN [disk[w] EXCEPT !.state = "unknown", !.updated = now] ELSE disk[w]
LoadJournal ==
  /\ ~loaded
  /\ loaded' = TRUE
  /\ mem' = [w \in Attempts |-> interrupted(w)]
  /\ disk' = mem' \/ (SaveFails /\ UNCHANGED disk)
  /\ UNCHANGED <<calls, now, lives, jira, act, told>>

\* begin() refuses an action that is in doubt, and an append that succeeded a
\* moment ago.
Blocks_settledOnly(w, a) == mem[w].action = a /\ mem[w].state = "unknown"
Blocks(w, a) ==
  /\ mem[w].action = a
  /\ \/ mem[w].state \in {"pending", "unknown"}
     \/ a \in Appends /\ mem[w].state \in {"succeeded", "applied"}
                      /\ now - mem[w].updated < AppendWindow
Blocked(a) == \E w \in Inside : Blocks(w, a)

\* makeRoom(): settled entries make room, unsettled ones never do.
droppable_any == Inside
droppable == Settled
Room_late(drop) ==
  IF Cardinality(Inside) <= MaxEntries THEN drop = {}
  ELSE drop \subseteq droppable /\ Cardinality(drop) = Cardinality(Inside) + 1 - MaxEntries
Room(drop) ==
  IF Cardinality(Inside) < MaxEntries THEN drop = {}
  ELSE drop \subseteq droppable /\ Cardinality(drop) = Cardinality(Inside) + 1 - MaxEntries

\* durableWrite() up to the request: the entry is saved first.
Begin(w, a, drop) ==
  /\ pc[w] = "new" /\ loaded
  /\ ~Blocked(a) /\ Room(drop)
  /\ Saved([v \in Attempts |->
       IF v = w THEN [action |-> a, state |-> "pending", submitted |-> now, updated |-> now]
       ELSE IF v \in drop THEN None ELSE mem[v]])
  /\ pc' = [pc EXCEPT ![w] = "posting"]
  /\ act' = [act EXCEPT ![w] = a]
  /\ UNCHANGED <<loaded, answer, shown, evidence, now, lives, jira, told>>

\* Nothing is sent when the entry is refused, does not fit or cannot be saved.
BeginRefused(w, a) ==
  /\ pc[w] = "new" /\ loaded
  /\ Blocked(a) \/ (\A drop \in SUBSET Inside : ~Room(drop)) \/ SaveFails
  /\ pc' = [pc EXCEPT ![w] = "done"]
  /\ act' = [act EXCEPT ![w] = a]
  /\ told' = [told EXCEPT ![w] = "refused"]
  /\ UNCHANGED <<journal, answer, shown, evidence, now, lives, jira>>

\* Jira answers, refuses, or the connection breaks before, while or after the
\* request is handled.
Posted(w, result) ==
  /\ pc[w] = "posting"
  /\ pc' = [pc EXCEPT ![w] = "marking"]
  /\ answer' = [answer EXCEPT ![w] = result]
  /\ \/ /\ result \in {"ok", "unclear"}
        /\ applied' = [applied EXCEPT ![w] = now]
     \/ result \in {"rejected", "not-sent", "unclear"} /\ UNCHANGED applied
  /\ UNCHANGED <<journal, shown, evidence, now, lives, undone, act, told>>

\* What the entry becomes and what the user is told.
mark(result) ==
  CASE result = "ok" -> "succeeded" [] result = "unclear" -> "unknown"
    [] result = "rejected" -> "not-applied" [] result = "not-sent" -> "failed"
word(result) ==
  CASE result = "ok" -> "succeeded" [] result = "unclear" -> "unknown"
    [] result \in {"rejected", "not-sent"} -> "failed"

Change(w, state) == [mem EXCEPT ![w].state = state, ![w].updated = now]

\* update() throws when the entry is not there any more, and markReconciled()
\* when it was settled meanwhile.
Missing(w) == mem[w] = None \/ (answer[w] = "rejected" /\ w \in Settled)

\* markSucceeded() and recordFailure(): an entry that cannot be saved stays as
\* it is, and the user is told to check.
Mark(w) ==
  /\ pc[w] = "marking" /\ loaded
  /\ pc' = [pc EXCEPT ![w] = "done"]
  /\ \/ /\ ~Missing(w)
        /\ Saved(Change(w, mark(answer[w])))
        /\ told' = [told EXCEPT ![w] = word(answer[w])]
     \/ /\ Missing(w) \/ SaveFails
        /\ UNCHANGED <<mem, disk>>
        /\ told' = [told EXCEPT ![w] =
             IF answer[w] = "ok" THEN "unknown" ELSE word(answer[w])]
  /\ answer' = [answer EXCEPT ![w] = None]
  /\ shown' = shown \cup {w}
  /\ UNCHANGED <<loaded, evidence, now, lives, jira, act>>

-----------------------------------------------------------------------------
\* What reconcileWrite() takes: what the history lists as unknown, and what is
\* pending when its own call has named it to a window.
Unresolved(w) ==
  /\ loaded /\ w \in Inside /\ pc[w] = "done"
  /\ mem[w].state = "unknown" \/ (mem[w].state = "pending" /\ w \in shown)

\* Does Jira show the request now?  An append is looked for by author and
\* content among those created since shortly before the submission, an issue
\* with a transition has been updated since, and of anything else only the
\* issue as it is now is compared.
Shows(w) ==
  \/ mem[w].action \in Appends
     /\ \E v \in Attempts \ undone : /\ act[v] = mem[w].action /\ applied[v] # None
                                     /\ applied[v] + Tolerance >= mem[w].submitted
  \/ mem[w].action \in Versioned /\ applied[w] # None
  \/ mem[w].action \notin Appends \cup Versioned /\ applied[w] # None /\ w \notin undone

\* Others may have brought about the same, and what Jira answers may be
\* incomplete or in between.
verdicts_eager(w) == Verdicts
verdicts(w) == {"applied", "unresolved"} \cup (IF Shows(w) THEN {} ELSE {"not-applied"})

\* reconcileWrite(): Jira is read, then the entry is marked.
ReadEvidence(w, verdict) ==
  /\ Unresolved(w) /\ evidence[w] = None
  /\ verdict \in verdicts(w)
  /\ evidence' = [evidence EXCEPT ![w] = verdict]
  /\ UNCHANGED <<journal, pc, answer, shown, now, lives, jira, act, told>>

MarkReconciled(w) ==
  /\ evidence[w] # None /\ loaded
  /\ evidence' = [evidence EXCEPT ![w] = None]
  /\ \/ /\ w \in Inside /\ mem[w].state \in {"unknown", "pending"}
        /\ Saved(Change(w, IF evidence[w] = "unresolved" THEN "unknown" ELSE evidence[w]))
        /\ told' = [told EXCEPT ![w] = IF evidence[w] = "unresolved" THEN "unknown" ELSE evidence[w]]
     \/ /\ SaveFails \/ w \notin Inside \/ w \in Settled
        /\ UNCHANGED <<mem, disk, told>>
  /\ UNCHANGED <<loaded, pc, answer, shown, now, lives, jira, act>>

-----------------------------------------------------------------------------
Tick ==
  /\ now < MaxTime
  /\ now' = now + 1
  /\ UNCHANGED <<journal, calls, lives, jira, act, told>>

\* Somebody deletes or edits the comment or worklog, assigns the issue anew,
\* removes the link or an identical file.  Moving an issue on takes no evidence
\* of a transition away: its last update stays.
Elsewhere(w) ==
  /\ applied[w] # None /\ act[w] \notin Versioned
  /\ undone' = undone \cup {w}
  /\ UNCHANGED <<journal, calls, now, lives, applied, act, told>>

\* The process ends.  A request on its way is applied or not.
Restart(landed) ==
  /\ lives < MaxLives
  /\ lives' = lives + 1
  /\ loaded' = FALSE
  /\ mem' = [w \in Attempts |-> None]
  /\ pc' = [w \in Attempts |-> IF pc[w] = "new" THEN "new" ELSE "done"]
  /\ answer' = [w \in Attempts |-> None] /\ evidence' = answer' /\ shown' = {}
  /\ applied' = [w \in Attempts |-> IF w \in landed THEN now ELSE applied[w]]
  /\ told' = [w \in Attempts |-> IF pc[w] \in {"posting", "marking"} THEN "unknown" ELSE told[w]]
  /\ UNCHANGED <<disk, now, undone, act>>

Posting == {w \in Attempts : pc[w] = "posting"}

Next ==
  \/ LoadJournal
  \/ \E w \in Attempts, a \in Actions, drop \in SUBSET Attempts : Begin(w, a, drop)
  \/ \E w \in Attempts, a \in Actions : BeginRefused(w, a)
  \/ \E w \in Attempts, result \in Answers : Posted(w, result)
  \/ \E w \in Attempts : Mark(w)
  \/ \E w \in Attempts, verdict \in Verdicts : ReadEvidence(w, verdict)
  \/ \E w \in Attempts : MarkReconciled(w)
  \/ Tick
  \/ \E w \in Attempts : Elsewhere(w)
  \/ \E landed \in SUBSET Posting : Restart(landed)

Spec == Init /\ [][Next]_vars

-----------------------------------------------------------------------------
(* Properties *)

\* The request was or may have been sent, and neither its outcome nor Jira has
\* been shown to the user.
InDoubt(w) == act[w] # None /\ told[w] \in {None, "unknown"}

\* "It does not let you send it again until it has checked with Jira": no
\* request is sent while another of the same action is in doubt, whatever
\* failed, was dropped to make room or was interrupted by a restart.
NoRepeatInDoubt ==
  \A v, w \in Attempts : v # w /\ act[v] = act[w] /\ InDoubt(v) => pc[w] # "posting"

\* A write the user was told failed or was refused never happens, so that
\* repeating it is safe.  One that was reconciled as not applied may have
\* happened only if others have undone it since, and never if it is a
\* transition.
NotAppliedIsTrue ==
  \A w \in Attempts :
    /\ told[w] \in {"failed", "refused"} => applied[w] = None
    /\ told[w] = "not-applied" => applied[w] = None \/ w \in undone

\* A write in doubt stays in the journal until it is resolved: no restart,
\* failed save or full journal forgets it.
DoubtIsKept ==
  \A w \in Attempts : InDoubt(w) => /\ disk[w] # None /\ disk[w].state \in {"pending", "unknown"}
                                    /\ loaded => w \in Inside

\* What is in doubt can be found again: once its call is over, in every life
\* of the process, reconcileWrite() takes it, either because the history lists
\* it as unknown or because its call has named it to a window of this life.
DoubtIsListed ==
  \A w \in Attempts : InDoubt(w) /\ pc[w] = "done" /\ loaded => Unresolved(w)
=============================================================================
