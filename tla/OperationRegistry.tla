--------------------------- MODULE OperationRegistry ---------------------------
(***************************************************************************)
(* The runtime's durable operation registry                                *)
(* (electron/backend/operation-registry.ts): accept, answer with an id,    *)
(* run inside the runtime, publish one result.  Each operation owns one    *)
(* file, which is also its idempotency record.                             *)
(*                                                                         *)
(* JavaScript runs one continuation at a time, so an action is the code    *)
(* between two awaits.  `pc' says where an operation's own continuation    *)
(* is suspended: "accepting", "updating" and "finishing" wait for a file   *)
(* write, "running" waits for the runner.                                  *)
(*                                                                         *)
(* Abstracted: a request is its idempotency key (a retry with a different  *)
(* input hash throws and changes nothing) and the workspace it concerns;   *)
(* step, artifacts, times, error texts and the profile filter are left     *)
(* out.  The order of a Map is the order of insertion; readdir order is    *)
(* any order.                                                              *)
(*                                                                         *)
(* A definition x_variant just before x is x with a seeded fault; no       *)
(* action uses it.  It stands in for x to show which property the fault    *)
(* breaks.                                                                 *)
(***************************************************************************)
EXTENDS Naturals, FiniteSets

CONSTANTS Ops,          \* operation ids, one per accepted request
          Keys,         \* idempotency keys (profile, origin workspace, key)
          Workspaces,   \* workspaces an operation may create or act on
          None,         \* no operation, no workspace, no file
          DiskFails,    \* which file operations may fail: subset of
                        \* {"accept", "update", "finish", "rm", "read"}
          MaxRestarts   \* bound on the process restarts of a behaviour

ASSUME RestartAssumption == MaxRestarts \in Nat

Terminal == {"succeeded", "failed", "interrupted"}
Status   == {"accepted", "running"} \cup Terminal
Rec      == [status : Status, ws : Workspaces \cup {None}]
\* What the runner does with a workspace: it acts on one there is (Git, pull
\* requests), creates one (reviews, pipelines, development), or creates the one
\* whose id the request reserves (intent.reservedWorkspaceId: a task).
Use      == {"none", "acts", "creates", "reserves"}
Req      == [key : Keys, ws : Workspaces \cup {None}, use : Use]
ASSUME NoneAssumption == None \notin Ops \cup Workspaces \cup Rec \cup Req

Suspended == {"accepting", "running", "updating", "finishing"}

VARIABLES
  req,        \* op -> its request, None if unused
  mem,        \* op -> the record object in memory
  disk,       \* op -> what <operationId>.json holds, None without a file
  records,    \* domain of the `records' Map
  older,      \* its order: <<o, p>> when o was inserted before p in this life
  byKey,      \* key -> operation id, None when the key is free
  removeOnFinish,
  pc,         \* op -> where its continuation is suspended
  outcome,    \* op -> the outcome finish() is persisting
  rms,        \* fs.rm calls in flight, and the sweep that awaits one
  sweep,      \* workspace -> snapshot removeForWorkspace has still to visit
  space,      \* workspace -> "absent", "present", "removed"
  toLoad,     \* files load() has still to read
  unread,     \* ops of files this life's load() could not read
  restarts,
  \* observations
  answered,   \* ops whose accept() resolved with replayed: false
  dropped,    \* ops whose record was dropped
  emitted,    \* op -> the outcomes published for it, over all lives
  unsaved     \* ops whose outcome was published although its write failed

core  == <<req, mem, disk, records, older, byKey, removeOnFinish, pc, outcome>>
spaces == <<sweep, space>>
life  == <<restarts, unread>>
obs   == <<answered, dropped, emitted, unsaved>>
vars  == <<core, rms, spaces, toLoad, life, obs>>

TypeOK ==
  /\ req \in [Ops -> Req \cup {None}]
  /\ mem \in [Ops -> Rec]
  /\ disk \in [Ops -> Rec \cup {None}]
  /\ records \subseteq Ops /\ older \subseteq Ops \X Ops
  /\ byKey \in [Keys -> Ops \cup {None}]
  /\ removeOnFinish \subseteq Ops
  /\ pc \in [Ops -> Suspended \cup {"unused", "settled", "lost"}]
  /\ outcome \in [Ops -> Terminal]
  /\ rms \subseteq [op : Ops, by : Workspaces \cup {None}]
  /\ sweep \in [Workspaces -> SUBSET Ops]
  /\ space \in [Workspaces -> {"absent", "present", "removed"}]
  /\ toLoad \subseteq Ops /\ unread \subseteq Ops
  /\ restarts \in 0..MaxRestarts
  /\ answered \subseteq Ops /\ dropped \subseteq Ops
  /\ emitted \in [Ops -> SUBSET Terminal] /\ unsaved \subseteq Ops

New == [status |-> "accepted", ws |-> None]

Init ==
  /\ req = [o \in Ops |-> None]
  /\ mem = [o \in Ops |-> New]
  /\ disk = [o \in Ops |-> None]
  /\ records = {} /\ older = {} /\ byKey = [k \in Keys |-> None]
  /\ removeOnFinish = {}
  /\ pc = [o \in Ops |-> "unused"]
  /\ outcome = [o \in Ops |-> "failed"]
  /\ rms = {}
  /\ sweep = [w \in Workspaces |-> {}]
  /\ space = [w \in Workspaces |-> "absent"]
  /\ toLoad = {} /\ unread = {} /\ restarts = 0
  /\ answered = {} /\ dropped = {}
  /\ emitted = [o \in Ops |-> {}] /\ unsaved = {}

-----------------------------------------------------------------------------
isTerminal(op) == mem[op].status \in Terminal
Up == toLoad = {}      \* load() is awaited before any client is served

\* The record finish() publishes, and the copy of it that it writes first.
settled_ready(op) == [mem[op] EXCEPT !.status = "ready"]
settled(op) == [mem[op] EXCEPT !.status = outcome[op]]
outcomeFile_live(op) == mem[op]
outcomeFile(op) == settled(op)

\* A file write of `op' ends; failures of this kind of write may be enabled.
persist(op, record, kind) ==
  \/ disk' = [disk EXCEPT ![op] = record]
  \/ kind \in DiskFails /\ UNCHANGED disk

\* index(): the record is found by id and by key.
index(op, key) ==
  /\ records' = records \cup {op}
  /\ older' = older \cup (records \X {op})
  /\ byKey' = [byKey EXCEPT ![key] = op]

\* The synchronous part of dropRecord(); the fs.rm is left in flight.
dropRecord_keepsKey(op, by) ==
  /\ records' = records \ {op}
  /\ rms' = rms \cup {[op |-> op, by |-> by]}
  /\ dropped' = dropped \cup {op}
  /\ UNCHANGED byKey
dropRecord(op, by) ==
  /\ records' = records \ {op}
  /\ byKey' = [byKey EXCEPT ![req[op].key] = None]
  /\ rms' = rms \cup {[op |-> op, by |-> by]}
  /\ dropped' = dropped \cup {op}

\* No request concerns the workspace id `w' yet.
Fresh(w) == space[w] = "absent" /\ \A o \in Ops : req[o] # None => req[o].ws # w

\* accept() of a free key, up to the await of the first write.  (Of a key in use
\* it returns that operation's record, and changes nothing.)  A workspace the
\* request is to create has a new id; one it acts on has been looked up.
Accept(op, k, w, use) ==
  /\ Up /\ pc[op] = "unused" /\ byKey[k] = None
  /\ op = CHOOSE o \in Ops : pc[o] = "unused"     \* ids are interchangeable
  /\ CASE use = "none" -> w = None
       [] use = "acts" -> w # None /\ space[w] # "absent"
       [] OTHER        -> w # None /\ Fresh(w)
  /\ req' = [req EXCEPT ![op] = [key |-> k, ws |-> w, use |-> use]]
  /\ index(op, k)
  /\ mem' = [mem EXCEPT ![op] = New]
  /\ pc' = [pc EXCEPT ![op] = "accepting"]
  /\ UNCHANGED <<disk, removeOnFinish, outcome, rms, spaces, toLoad, life, obs>>

\* The first write landed: the caller is answered and the runner starts.  One that
\* acts on a workspace names it at once.
AcceptPersisted(op) ==
  LET acts == req[op].use = "acts" IN
  /\ pc[op] = "accepting"
  /\ disk' = [disk EXCEPT ![op] = mem[op]]
  /\ mem' = [mem EXCEPT ![op] = [status |-> "running",
                                 ws |-> IF acts THEN req[op].ws ELSE @.ws]]
  /\ pc' = [pc EXCEPT ![op] = IF acts THEN "updating" ELSE "running"]
  /\ answered' = answered \cup {op}
  /\ UNCHANGED <<req, older, records, byKey, removeOnFinish, outcome, rms, spaces,
                 toLoad, life, dropped, emitted, unsaved>>

AcceptFailed_swallowed(op) ==
  /\ pc[op] = "accepting" /\ "accept" \in DiskFails
  /\ mem' = [mem EXCEPT ![op].status = "running"]
  /\ pc' = [pc EXCEPT ![op] = "running"]
  /\ answered' = answered \cup {op}
  /\ UNCHANGED <<req, older, disk, records, byKey, removeOnFinish, outcome, rms, spaces,
                 toLoad, life, dropped, emitted, unsaved>>

\* The first write failed: the record is forgotten and accept() throws.
AcceptFailed(op) ==
  /\ pc[op] = "accepting" /\ "accept" \in DiskFails
  /\ records' = records \ {op}
  /\ byKey' = [byKey EXCEPT ![req[op].key] = None]
  /\ pc' = [pc EXCEPT ![op] = "lost"]
  /\ UNCHANGED <<req, older, mem, disk, removeOnFinish, outcome, rms, spaces, toLoad,
                 life, obs>>

\* The runner committed the workspace it creates (createTaskWorkspace() for a
\* reserved one).
CreateWorkspace(op) ==
  /\ pc[op] = "running" /\ req[op].ws # None /\ space[req[op].ws] = "absent"
  /\ space' = [space EXCEPT ![req[op].ws] = "present"]
  /\ UNCHANGED <<core, rms, sweep, toLoad, life, obs>>

\* handle.update({workspaceId}) of a created workspace: memory now, the file after
\* the await.  A reserved one is named once it was created, and may be gone by then.
Update(op) ==
  LET w == req[op].ws IN
  /\ pc[op] = "running" /\ mem[op].ws = None /\ w # None
  /\ req[op].use = "reserves" => space[w] # "absent"
  /\ mem' = [mem EXCEPT ![op].ws = w]
  /\ pc' = [pc EXCEPT ![op] = "updating"]
  /\ UNCHANGED <<req, disk, records, older, byKey, removeOnFinish, outcome, rms, spaces,
                 toLoad, life, obs>>

UpdateWritten(op) ==
  /\ pc[op] = "updating"
  /\ persist(op, mem[op], "update")
  /\ pc' = [pc EXCEPT ![op] = "running"]
  /\ UNCHANGED <<req, older, mem, records, byKey, removeOnFinish, outcome, rms, spaces,
                 toLoad, life, obs>>

\* The runner returned or threw: finish() starts writing the settled copy.  It
\* succeeds only with its workspace named, and fails without naming a reserved
\* one only where that one is not there.
RunnerDone(op, result) ==
  /\ pc[op] = "running"
  /\ req[op].ws # None /\ mem[op].ws = None =>
       result = "failed" /\ (req[op].use = "reserves" => space[req[op].ws] # "present")
  /\ outcome' = [outcome EXCEPT ![op] = result]
  /\ pc' = [pc EXCEPT ![op] = "finishing"]
  /\ UNCHANGED <<req, older, mem, disk, records, byKey, removeOnFinish, rms, spaces,
                 toLoad, life, obs>>

\* finish() after its write: the outcome is published to the record, the
\* payload and the event together, whether or not the write succeeded.
Finish(op) ==
  /\ pc[op] = "finishing"
  /\ persist(op, outcomeFile(op), "finish")
  /\ mem' = [mem EXCEPT ![op] = settled(op)]
  /\ emitted' = [emitted EXCEPT ![op] = @ \cup {outcome[op]}]
  /\ unsaved' = IF disk'[op] = outcomeFile(op) THEN unsaved ELSE unsaved \cup {op}
  /\ pc' = [pc EXCEPT ![op] = "settled"]
  /\ removeOnFinish' = removeOnFinish \ {op}
  /\ IF op \in removeOnFinish
       THEN dropRecord(op, None)
       ELSE UNCHANGED <<records, byKey, rms, dropped>>
  /\ toLoad' = toLoad \ {op}
  /\ UNCHANGED <<req, older, outcome, spaces, life, answered>>

\* An fs.rm completes; a failure is only logged.
Removed(rm) ==
  /\ rm \in rms
  /\ rms' = rms \ {rm}
  /\ persist(rm.op, None, "rm")
  /\ UNCHANGED <<req, older, mem, records, byKey, removeOnFinish, pc, outcome, spaces,
                 toLoad, life, obs>>

discardable_running(op) == op \in records /\ mem[op].ws = None
discardable(op) == op \in records /\ isTerminal(op) /\ mem[op].ws = None

\* discard(): refuses a running operation and one that owns a workspace.
Discard(op) ==
  /\ Up /\ discardable(op)
  /\ dropRecord(op, None)
  /\ UNCHANGED <<req, older, mem, disk, removeOnFinish, pc, outcome, spaces, toLoad,
                 life, answered, emitted, unsaved>>

-----------------------------------------------------------------------------
flag_none(ops) == UNCHANGED removeOnFinish
flag(ops) == removeOnFinish' = removeOnFinish \cup ops

reserves(op, w) == req[op] # None /\ req[op].use = "reserves" /\ req[op].ws = w
Matches(op, w) == mem[op].ws = w \/ reserves(op, w)

\* The loop of removeForWorkspace() over the records `rest' still to visit, in
\* order and up to its next await: unfinished matches are flagged for finish(),
\* the first terminal match is dropped and its fs.rm awaited.
visit(w, rest) ==
  LET hits == {op \in rest : Matches(op, w)}
      ended == {op \in hits : isTerminal(op)} IN
  \/ /\ ended = {}
     /\ flag(hits)
     /\ sweep' = [sweep EXCEPT ![w] = {}]
     /\ UNCHANGED <<records, byKey, rms, dropped>>
  \/ \E op \in ended :
       /\ \A o \in ended \ {op} : <<op, o>> \in older
       /\ dropRecord(op, w)
       /\ flag({o \in hits : <<o, op>> \in older})
       /\ sweep' = [sweep EXCEPT ![w] = {o \in rest : <<op, o>> \in older}]

\* A workspace was removed: the loop starts on a snapshot of the records.
RemoveForWorkspace(w) ==
  /\ Up /\ space[w] = "present"
  /\ space' = [space EXCEPT ![w] = "removed"]
  /\ visit(w, records)
  /\ UNCHANGED <<req, older, mem, disk, pc, outcome, toLoad, life, answered,
                 emitted, unsaved>>

\* The awaited fs.rm is over: the loop goes on with the rest of its snapshot.
ResumeSweep(w) ==
  /\ sweep[w] # {} /\ ~\E rm \in rms : rm.by = w
  /\ visit(w, sweep[w])
  /\ UNCHANGED <<req, older, mem, disk, pc, outcome, space, toLoad, life, answered,
                 emitted, unsaved>>

-----------------------------------------------------------------------------
\* The process ends: memory and pending removals are gone, and the writes in
\* flight have landed (`landed') or not; the next life starts load().
Restart(landed) ==
  /\ restarts < MaxRestarts
  /\ restarts' = restarts + 1
  /\ disk' = [o \in Ops |-> IF o \notin landed THEN disk[o]
                           ELSE IF pc[o] = "finishing" THEN outcomeFile(o) ELSE mem[o]]
  /\ toLoad' = {o \in Ops : disk'[o] # None}
  /\ unread' = {}
  /\ mem' = [o \in Ops |-> New] /\ outcome' = [o \in Ops |-> "failed"]
  /\ records' = {} /\ older' = {} /\ byKey' = [k \in Keys |-> None]
  /\ removeOnFinish' = {} /\ rms' = {}
  /\ sweep' = [w \in Workspaces |-> {}]
  /\ pc' = [o \in Ops |-> IF pc[o] = "unused" THEN "unused" ELSE "lost"]
  /\ UNCHANGED <<req, space, obs>>

unsettled_never(op) == FALSE
unsettled(op) == disk[op].status \notin Terminal

\* load() reads one file.  What had not settled is handed to reconcile: it
\* succeeded only if the workspace reserved for it is found and the task
\* started, and it then owns that workspace, as an interrupted Git operation
\* does the one it was for; finish() persists and publishes that verdict before
\* the next file is read.
Load(op, result, ws) ==
  LET reserved == req[op].use = "reserves"
      found == reserved /\ space[req[op].ws] = "present" IN
  /\ op \in toLoad /\ ~\E o \in Ops : pc[o] = "finishing"
  /\ index(op, req[op].key)
  /\ dropped' = dropped \ {op}
  /\ IF ~unsettled(op)
       THEN /\ mem' = [mem EXCEPT ![op] = disk[op]]
            /\ pc' = [pc EXCEPT ![op] = "settled"]
            /\ toLoad' = toLoad \ {op}
            /\ UNCHANGED outcome
       ELSE /\ result = "interrupted" \/ (result = "succeeded" /\ found)
            /\ ws \in {disk[op].ws, req[op].ws}
            /\ reserved => ws = IF found THEN req[op].ws ELSE disk[op].ws
            /\ mem' = [mem EXCEPT ![op] = [disk[op] EXCEPT !.ws = ws]]
            /\ pc' = [pc EXCEPT ![op] = "finishing"]
            /\ outcome' = [outcome EXCEPT ![op] = result]
            /\ UNCHANGED toLoad
  /\ UNCHANGED <<req, disk, removeOnFinish, rms, spaces, life, answered,
                 emitted, unsaved>>

\* A file that cannot be read, or is no record, is skipped.  It stays.
LoadSkips(op) ==
  /\ "read" \in DiskFails
  /\ op \in toLoad /\ ~\E o \in Ops : pc[o] = "finishing"
  /\ toLoad' = toLoad \ {op}
  /\ unread' = unread \cup {op}
  /\ UNCHANGED <<core, rms, spaces, restarts, obs>>

\* A directory that cannot be read is taken for an empty one.
LoadGivesUp ==
  /\ "read" \in DiskFails
  /\ toLoad # {} /\ toLoad = {o \in Ops : disk[o] # None} /\ records = {}
  /\ toLoad' = {}
  /\ unread' = toLoad
  /\ UNCHANGED <<core, rms, spaces, restarts, obs>>

-----------------------------------------------------------------------------
Writing == {op \in Ops : pc[op] \in {"accepting", "updating", "finishing"}}

Next ==
  \/ \E op \in Ops, k \in Keys, w \in Workspaces \cup {None}, use \in Use :
       Accept(op, k, w, use)
  \/ \E op \in Ops : AcceptPersisted(op)
  \/ \E op \in Ops : AcceptFailed(op)
  \/ \E op \in Ops : CreateWorkspace(op)
  \/ \E op \in Ops : Update(op)
  \/ \E op \in Ops : UpdateWritten(op)
  \/ \E op \in Ops, result \in {"succeeded", "failed"} : RunnerDone(op, result)
  \/ \E op \in Ops : Finish(op)
  \/ \E rm \in rms : Removed(rm)
  \/ \E op \in Ops : Discard(op)
  \/ \E w \in Workspaces : RemoveForWorkspace(w)
  \/ \E w \in Workspaces : ResumeSweep(w)
  \/ \E landed \in SUBSET Writing : Restart(landed)
  \/ \E op \in Ops, result \in Terminal, ws \in Workspaces \cup {None} : Load(op, result, ws)
  \/ \E op \in Ops : LoadSkips(op)
  \/ LoadGivesUp

\* File operations complete and the sweep goes on; a runner ends, since every
\* call it awaits is bounded by a timeout.  Restart is never required.
Fairness ==
  /\ \A op \in Ops :
       /\ WF_vars(AcceptPersisted(op)) /\ WF_vars(UpdateWritten(op)) /\ WF_vars(Finish(op))
       /\ WF_vars(\E result \in {"succeeded", "failed"} : RunnerDone(op, result))
       /\ WF_vars(req[op] # None /\ req[op].use = "reserves" /\ Update(op))
       /\ WF_vars(\E result \in Terminal, ws \in Workspaces \cup {None} : Load(op, result, ws))
  /\ WF_vars(\E rm \in rms : Removed(rm))
  /\ \A w \in Workspaces : WF_vars(ResumeSweep(w))

Spec == Init /\ [][Next]_vars /\ Fairness

-----------------------------------------------------------------------------
(* Properties *)

\* Every key of byKey names an indexed record with that key: accept() may
\* dereference records.get(existingId) without a check.
IndexSound ==
  \A k \in Keys : byKey[k] # None =>
    /\ byKey[k] \in records
    /\ req[byKey[k]] # None /\ req[byKey[k]].key = k

\* A request whose run was started and answered survives a crash at any
\* moment: its file exists until its record is dropped.
AnsweredIsDurable ==
  \A op \in answered : op \in dropped \/ disk[op] # None

\* While an operation runs, its key finds it: a retry cannot start it twice.
NoSecondRun ==
  \A op \in Ops : pc[op] \in Suspended =>
    op \in records /\ (toLoad = {} => byKey[req[op].key] = op)

\* Over all lives of the process one operation publishes one outcome, unless
\* the write of an outcome failed (finish() publishes it all the same).
OneResult == \A op \in Ops \ unsaved : Cardinality(emitted[op]) <= 1

\* An accepted operation ends with an outcome, whatever writes fail and whenever
\* the process restarts, unless the last start could not read its file.
Settles ==
  \A op \in Ops : (op \in answered) ~> (isTerminal(op) \/ op \in dropped \/ op \in unread)

\* Removing a workspace eventually removes the records of the operation that
\* created it, even one that was still running; the flag finish() needs for
\* that is memory, so only within one life of the process.
ForgottenWithWorkspace ==
  \A op \in Ops, w \in Workspaces :
    (reserves(op, w) /\ space[w] = "removed" /\ restarts = 0)
      ~> (op \notin records \/ restarts > 0)
=============================================================================
