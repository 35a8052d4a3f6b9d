------------------------------- MODULE StateStore -------------------------------
(***************************************************************************)
(* The application state on disk (electron/backend/store.ts): a FIFO of    *)
(* operations, each of which applies a change in memory and writes the     *)
(* whole state to a temporary file that is renamed over the main one; the  *)
(* throttled backup; what a failed write or a dead process leaves behind;  *)
(* the recovery of the next start.                                         *)
(*                                                                         *)
(* The state is the set of changes applied to the default state.  A        *)
(* `mutation' goes through mutate(); an `edit' is made in place on the     *)
(* live object by the agent task runner, which then asks for a debounced   *)
(* save().  A torn temporary file is no candidate of any recovery and is   *)
(* left out.                                                               *)
(***************************************************************************)
EXTENDS Naturals, Sequences, FiniteSets

CONSTANTS
  Mutations,      \* changes made with store.mutate()
  Edits,          \* changes made in place, followed by schedulePersist()
  MaxLives,       \* bound: starts of the process
  MaxDamage,      \* bound: times the main file becomes unreadable
  Faults,         \* subset of {"write", "rename", "backup", "copy", "rm"}
  None, Damaged

ASSUME StoreAssumption ==
  /\ MaxLives \in Nat /\ MaxDamage \in Nat
  /\ Mutations \cap Edits = {}
  /\ {None, Damaged} \cap (Mutations \cup Edits \cup {"save"}) = {} /\ None # Damaged
  /\ {"save", "defaults", "promote"} \cap Mutations = {}

Changes == Mutations \cup Edits

\* A readable state file: the changes it holds and when it was written (a
\* rename keeps the time of the temporary file).
Files == [content : SUBSET Changes, at : Nat]

\* The operation that writes: which one, the await it is suspended on, the
\* serialized snapshot, the state a failed mutate() returns to, the temporary
\* file it wrote, whether the old main is backed up first, and the candidate a
\* recovery promotes.
Ops == Mutations \cup {"save"}
Runs == [op : Ops \cup {"defaults", "promote"}, at : {"copy", "tmp", "backup", "rename", "settle"},
         snapshot : SUBSET Changes, previous : SUBSET Changes,
         tmp : Files \cup {None}, backup : BOOLEAN, from : Files \cup {None}]

ASSUME FileAssumption ==
  /\ {None, Damaged} \cap Files = {}
  /\ None \notin Runs
  /\ \A content \in SUBSET Changes : content # None

VARIABLES
  state,      \* what getState() returns
  queue,      \* operations enqueued and not started
  run,        \* the operation that is writing, or None
  timer,      \* the debounced save of schedulePersist() is armed
  backedUp,   \* a backup was made in this life: the next ones are throttled
  mode,       \* "down", "recover", "sweep", "load", "up"
  main, tmps, backup,
  corrupt,    \* a copy of the unreadable main was kept
  lockLeft,   \* a dead process left its lock on the main file
  clock, lives, damages,
  \* observations
  issued,     \* changes a caller has made
  acked,      \* mutations whose promise resolved
  failed,     \* mutations whose promise rejected
  superseded, \* rejected mutations after which a later operation succeeded
  unsaved     \* edits in memory when a save failed

memory == <<state, queue, run, timer, backedUp>>
files  == <<main, tmps, backup, corrupt>>
world  == <<lockLeft, clock, lives, damages>>
obs    == <<issued, acked, failed, superseded, unsaved>>
vars   == <<memory, mode, files, world, obs>>

TypeOK ==
  /\ state \subseteq Changes
  /\ queue \in Seq(Ops)
  /\ run \in Runs \cup {None}
  /\ timer \in BOOLEAN /\ backedUp \in BOOLEAN /\ lockLeft \in BOOLEAN /\ corrupt \in BOOLEAN
  /\ mode \in {"down", "recover", "sweep", "load", "up"}
  /\ main \in Files \cup {None, Damaged}
  /\ tmps \subseteq Files
  /\ backup \in Files \cup {None, Damaged}
  /\ clock \in Nat /\ lives \in 0..MaxLives /\ damages \in 0..MaxDamage
  /\ issued \subseteq Changes /\ acked \subseteq Mutations /\ failed \subseteq Mutations
  /\ superseded \subseteq failed /\ unsaved \subseteq Edits

Init ==
  /\ state = {} /\ queue = <<>> /\ run = None
  /\ timer = FALSE /\ backedUp = FALSE
  /\ mode = "down"
  /\ main = None /\ tmps = {} /\ backup = None /\ corrupt = FALSE
  /\ lockLeft = FALSE /\ clock = 0 /\ lives = 0 /\ damages = 0
  /\ issued = {} /\ acked = {} /\ failed = {} /\ superseded = {} /\ unsaved = {}

-----------------------------------------------------------------------------
Readable(file) == file \notin {None, Damaged}
NewestOf(fs) == CHOOSE f \in fs : \A g \in fs : g.at <= f.at

(* Callers *)

\* mutate(): the operation joins the queue.
Mutate(m) ==
  /\ mode = "up" /\ m \notin issued
  /\ queue' = Append(queue, m)
  /\ issued' = issued \cup {m}
  /\ UNCHANGED <<state, run, timer, backedUp, mode, files, world, acked, failed,
                 superseded, unsaved>>

\* The task runner edits the live state and asks for a debounced save.
Edit(e) ==
  /\ mode = "up" /\ e \notin issued
  /\ state' = state \cup {e}
  /\ timer' = TRUE
  /\ issued' = issued \cup {e}
  /\ UNCHANGED <<queue, run, backedUp, mode, files, world, acked, failed,
                 superseded, unsaved>>

\* The debounce is over.  It is disarmed before the save is enqueued, so that
\* an edit made during the save arms it again.
TimerFires ==
  /\ mode = "up" /\ timer
  /\ timer' = FALSE
  /\ queue' = Append(queue, "save")
  /\ UNCHANGED <<state, run, backedUp, mode, files, world, obs>>

-----------------------------------------------------------------------------
(* One operation of the queue *)

Writing(op, content, old, backs, candidate) ==
  [op |-> op, at |-> "tmp", snapshot |-> content, previous |-> old,
   tmp |-> None, backup |-> backs, from |-> candidate]

\* enqueue(): an operation starts when the one before it has settled, with an
\* error or not.  mutate() makes the changed clone the state, and persist()
\* serializes it in the same step; save() serializes the state as it stands.
StartOp_before ==
  /\ mode = "up" /\ run = None /\ queue # <<>>
  /\ LET op == Head(queue) IN
     /\ state' = IF op = "save" THEN state ELSE state \cup {op}
     /\ run' = Writing(op, state, state, main # None, None)
  /\ queue' = Tail(queue)
  /\ UNCHANGED <<timer, backedUp, mode, files, world, obs>>
StartOp ==
  /\ mode = "up" /\ run = None /\ queue # <<>>
  /\ LET op == Head(queue)
         next == IF op = "save" THEN state ELSE state \cup {op} IN
     /\ state' = next
     /\ run' = Writing(op, next, state, main # None, None)
  /\ queue' = Tail(queue)
  /\ UNCHANGED <<timer, backedUp, mode, files, world, obs>>

At(point) == run # None /\ run.at = point

\* writeFileDurable() of the temporary file is over.
WriteTmp ==
  /\ At("tmp")
  /\ LET tmp == [content |-> run.snapshot, at |-> clock + 1] IN
     /\ tmps' = tmps \cup {tmp}
     /\ run' = [run EXCEPT !.tmp = tmp, !.at = IF run.backup THEN "backup" ELSE "rename"]
  /\ clock' = clock + 1
  /\ UNCHANGED <<state, queue, timer, backedUp, mode, main, backup, corrupt, lockLeft,
                 lives, damages, obs>>

\* writeBackup(): throttled after the first of this life, never fatal, and it
\* copies the main file as it stands, unreadable or not.
WriteBackup ==
  /\ At("backup")
  /\ \/ backup' = main /\ backedUp' = TRUE
     \/ (backedUp \/ "backup" \in Faults) /\ UNCHANGED <<backup, backedUp>>
  /\ run' = [run EXCEPT !.at = "rename"]
  /\ UNCHANGED <<state, queue, timer, mode, main, tmps, corrupt, world, obs>>

Rename ==
  /\ At("rename")
  /\ main' = run.tmp
  /\ tmps' = tmps \ {run.tmp}
  /\ run' = [run EXCEPT !.at = "settle"]
  /\ UNCHANGED <<state, queue, timer, backedUp, mode, backup, corrupt, world, obs>>

\* An operation of a caller settles: its promise resolves.
Settle_disarms ==
  /\ At("settle") /\ mode = "up"
  /\ run' = None
  /\ acked' = acked \cup ({run.op} \cap Mutations)
  /\ superseded' = superseded \cup (failed \ run.snapshot)
  /\ timer' = FALSE
  /\ UNCHANGED <<state, queue, backedUp, mode, files, world, issued, failed, unsaved>>
Settle_any ==
  /\ At("settle") /\ mode = "up"
  /\ run' = None
  /\ acked' = acked \cup {run.op}
  /\ superseded' = superseded \cup (failed \ run.snapshot)
  /\ UNCHANGED <<state, queue, timer, backedUp, mode, files, world, issued, failed, unsaved>>
Settle ==
  /\ At("settle") /\ mode = "up"
  /\ run' = None
  /\ acked' = acked \cup ({run.op} \cap Mutations)
  /\ superseded' = superseded \cup (failed \ run.snapshot)
  /\ UNCHANGED <<state, queue, timer, backedUp, mode, files, world, issued, failed, unsaved>>

Breaks == (At("tmp") /\ "write" \in Faults) \/ (At("rename") /\ "rename" \in Faults)

\* A write of a caller failed.  The temporary file of a failed rename stays.
\* mutate() puts the state back; a failed save is only logged.
OpFails_cleans ==
  /\ Breaks /\ mode = "up"
  /\ run' = None
  /\ IF run.op = "save"
       THEN unsaved' = unsaved \cup (state \cap Edits) /\ UNCHANGED <<state, failed>>
       ELSE state' = run.previous /\ failed' = failed \cup {run.op} /\ UNCHANGED unsaved
  /\ tmps' = tmps \ {run.tmp}
  /\ UNCHANGED <<queue, timer, backedUp, mode, main, backup, corrupt, world, issued,
                 acked, superseded>>
OpFails ==
  /\ Breaks /\ mode = "up"
  /\ run' = None
  /\ IF run.op = "save"
       THEN unsaved' = unsaved \cup (state \cap Edits) /\ UNCHANGED <<state, failed>>
       ELSE state' = run.previous /\ failed' = failed \cup {run.op} /\ UNCHANGED unsaved
  /\ UNCHANGED <<queue, timer, backedUp, mode, files, world, issued, acked, superseded>>

-----------------------------------------------------------------------------
(* Start of the process *)

\* recoverStateFile() when the lock a dead process left is still fresh.
RecoverySkipped ==
  /\ mode = "down" /\ lives < MaxLives /\ lockLeft /\ main # None
  /\ mode' = "load" /\ lives' = lives + 1
  /\ UNCHANGED <<memory, files, lockLeft, clock, damages, obs>>

\* The temporary files a readable main gives way to.
newerTmps_any == tmps
newerTmps == {t \in tmps : t.at > main.at}

\* What recoverStateFileLocked() promotes, or None.
Candidate ==
  IF Readable(main)
    THEN IF newerTmps # {} THEN NewestOf(newerTmps) ELSE None
    ELSE IF tmps # {} THEN NewestOf(tmps)
    ELSE IF Readable(backup) THEN backup ELSE None

\* The directory is read and the promotion decided.
StartUp ==
  /\ mode = "down" /\ lives < MaxLives
  /\ lives' = lives + 1 /\ lockLeft' = FALSE
  /\ IF Candidate = None
       THEN mode' = "sweep" /\ UNCHANGED run
       ELSE /\ mode' = "recover"
            /\ run' = [Writing("promote", Candidate.content, {}, Readable(main), Candidate)
                       EXCEPT !.at = IF main = Damaged THEN "copy" ELSE "tmp"]
  /\ UNCHANGED <<state, queue, timer, backedUp, files, clock, damages, obs>>

\* The unreadable main is copied aside before it is overwritten.
CopyCorrupt_ignored ==
  /\ At("copy")
  /\ corrupt' \in {TRUE, corrupt}
  /\ run' = [run EXCEPT !.at = "tmp"]
  /\ UNCHANGED <<state, queue, timer, backedUp, mode, main, tmps, backup, world, obs>>
CopyCorrupt ==
  /\ At("copy")
  /\ corrupt' = TRUE
  /\ run' = [run EXCEPT !.at = "tmp"]
  /\ UNCHANGED <<state, queue, timer, backedUp, mode, main, tmps, backup, world, obs>>

\* The promoted candidate is removed, if it was a temporary file.
Promoted ==
  /\ At("settle") /\ mode = "recover"
  /\ run' = None /\ mode' = "sweep"
  /\ \/ tmps' = tmps \ {run.from}
     \/ "rm" \in Faults /\ UNCHANGED tmps
  /\ UNCHANGED <<state, queue, timer, backedUp, main, backup, corrupt, world, obs>>

\* A promotion that throws is given up, and nothing is swept.
afterFailure_sweep == "sweep"
afterFailure == "load"
PromotionFails ==
  /\ mode = "recover" /\ (Breaks \/ (At("copy") /\ "copy" \in Faults))
  /\ run' = None /\ mode' = afterFailure
  /\ UNCHANGED <<state, queue, timer, backedUp, files, world, obs>>

\* Temporary files older than an hour are removed.
Sweep(age) ==
  /\ mode = "sweep"
  /\ \/ tmps' = {t \in tmps : t.at > age}
     \/ "rm" \in Faults /\ UNCHANGED tmps
  /\ mode' = "load"
  /\ UNCHANGED <<memory, main, backup, corrupt, world, obs>>

\* loadState(): a file that is no JSON ends the start and is left untouched,
\* one that is JSON but no state is normalized to the defaults.
Load ==
  /\ mode = "load" /\ run = None
  /\ \/ /\ Readable(main)
        /\ state' = main.content /\ mode' = "up"
        /\ UNCHANGED run
     \/ /\ main = Damaged
        /\ mode' = "down" /\ UNCHANGED <<state, run>>
     \/ /\ main = Damaged
        /\ state' = {} /\ mode' = "up"
        /\ UNCHANGED run
     \/ /\ main = None
        /\ run' = Writing("defaults", {}, {}, FALSE, None)
        /\ UNCHANGED <<state, mode>>
  /\ UNCHANGED <<queue, timer, backedUp, files, world, obs>>

\* The defaults of a new installation are written, or the start fails.
DefaultsWritten ==
  /\ mode = "load" /\ (At("settle") \/ (run # None /\ Breaks))
  /\ run' = None
  /\ mode' = IF At("settle") THEN "up" ELSE "down"
  /\ UNCHANGED <<state, queue, timer, backedUp, files, world, obs>>

-----------------------------------------------------------------------------
Locked == main # None /\ (mode \in {"recover", "sweep"} \/ (mode = "up" /\ run # None))

\* The process ends at any moment; its lock stays if it held one.
Crash ==
  /\ mode # "down"
  /\ mode' = "down"
  /\ state' = {} /\ queue' = <<>> /\ run' = None /\ timer' = FALSE /\ backedUp' = FALSE
  /\ lockLeft' = (lockLeft \/ Locked)
  /\ UNCHANGED <<files, clock, lives, damages, obs>>

\* The main file becomes unreadable, or JSON that does not look like a state,
\* but not while a start rewrites it.  No recovery takes either.
Damage ==
  /\ Readable(main) /\ mode \in {"up", "down"} /\ damages < MaxDamage
  /\ main' = Damaged /\ damages' = damages + 1
  /\ UNCHANGED <<memory, mode, tmps, backup, corrupt, lockLeft, clock, lives, obs>>

Next ==
  \/ \E m \in Mutations : Mutate(m)
  \/ \E e \in Edits : Edit(e)
  \/ TimerFires
  \/ StartOp
  \/ WriteTmp
  \/ WriteBackup
  \/ Rename
  \/ Settle
  \/ OpFails
  \/ RecoverySkipped
  \/ StartUp
  \/ CopyCorrupt
  \/ Promoted
  \/ PromotionFails
  \/ \E age \in 0..clock : Sweep(age)
  \/ Load
  \/ DefaultsWritten
  \/ Crash
  \/ Damage

\* File operations end, the debounce fires and the queue is served.  Nothing is
\* assumed of callers, of a next start, or of which way a file operation ends.
Fairness ==
  /\ WF_vars(TimerFires) /\ WF_vars(StartOp)
  /\ WF_vars(WriteTmp \/ WriteBackup \/ Rename \/ Settle \/ OpFails)

Spec == Init /\ [][Next]_vars /\ Fairness

-----------------------------------------------------------------------------
(* Properties *)

\* What a caller was told is saved is in the main file and in memory, over any
\* number of failed writes, crashes and recoveries: no older leftover is ever
\* promoted over it, and a queued operation never writes a state without it.
AckedSurvive ==
  damages = 0 =>
    /\ acked # {} => Readable(main) /\ acked \subseteq main.content
    /\ mode = "up" => acked \subseteq state

\* A mutation whose caller was told that it failed may come back with its
\* leftover file at the next start (the code says so), but not any more once a
\* later operation succeeded.
WithdrawnStaysOut ==
  damages = 0 =>
    /\ superseded \cap state = {}
    /\ Readable(main) => superseded \cap main.content = {}

\* The content the next start would recover, if nothing else fails.
Best ==
  IF Candidate # None THEN Candidate.content
  ELSE IF Readable(main) THEN main.content ELSE None

\* A start never makes things worse: whatever fails or crashes inside it, and
\* however often, the newest complete state on disk is still what the next
\* start recovers.
RecoveryKeepsNewest ==
  [][mode # "up" /\ damages' = damages /\ Best # None => Best' = Best]_vars

\* Once a backup was made, one damaged main file never leaves the store without
\* a complete state to start from, although the damaged file itself is backed
\* up by the next write.
OneDamageSurvivable ==
  backup # None /\ damages <= 1 => Readable(main) \/ tmps # {} \/ Readable(backup)

\* A recovery replaces an unreadable file only after it kept a copy of it.
OriginalBytesKept ==
  [][main = Damaged /\ main' # Damaged /\ mode = "recover" => corrupt]_vars

\* An in-place edit reaches the file, also one made while a save or a mutation
\* is being written, unless a save failed, the process ended or the
\* file was damaged.
EditReachesDisk ==
  \A e \in Edits :
    e \in state ~> \/ Readable(main) /\ e \in main.content
                   \/ mode # "up" \/ e \in unsaved \/ e \notin state \/ main = Damaged
=============================================================================
