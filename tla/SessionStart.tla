------------------------------ MODULE SessionStart ------------------------------
(***************************************************************************)
(* The sessions behind one terminal tab: electron/backend/                 *)
(* session-manager.ts with ssh/ssh-manager.ts and the replay store as the  *)
(* runtime wires it.  A local shell ("pty") is spawned at once; an SSH     *)
(* connection ("ssh") and a system ssh or WSL client ("system") start      *)
(* later, and while they do the user activates, disconnects, restarts,     *)
(* closes or edits the tab.                                                *)
(*                                                                         *)
(* A start is one attempt to get a session, and gives its name to the      *)
(* session and to the process it leads to.  What JavaScript does in        *)
(* microtasks, before the next event, is a step that goes first (Quiet).   *)
(***************************************************************************)
EXTENDS Naturals, FiniteSets

CONSTANTS
  MaxStarts,   \* bound: starts of the whole history
  Kinds,       \* subset of {"pty", "ssh", "system"}: what the tab may launch
  Restarters,  \* calls of restartSession() that may be suspended at once
  None

Starts == 1..MaxStarts
Reasons == {"disconnected", "removed"}
Suspended == [of : Starts \cup {None}, kind : Kinds]

ASSUME SessionAssumption ==
  /\ MaxStarts \in Nat \ {0}
  /\ Kinds \subseteq {"pty", "ssh", "system"} /\ Kinds # {}
  /\ None \notin Kinds /\ None \notin 0..MaxStarts
  /\ None \notin Reasons /\ None \notin Suspended

Note == 0      \* in the replay: a banner or an error text, not process output

VARIABLES
  panel,     \* what the tab launches, None when the state has no such tab
  sessions,  \* the session map's entry, None or the start it came from
  starting,  \* the entry of startingSessions
  failed,    \* the id is in failedSpawns
  start,     \* each start: its kind, where it is, why it was cancelled,
             \* the start it waits for
  proc,      \* its process: "none", "live", "dying" (told to end), "dead"
  owner,     \* the start sshManager has registered under the id
  replay,    \* what the replay store holds, None when it has no entry
  restarts,  \* suspended restartSession() calls: the process awaited, the kind
  \* observations
  asked,     \* the start that serves the last request, None after a
             \* disconnect or a sweep
  swept,     \* the tab is gone and the session manager has been told
  dropped,   \* processes whose map entry was replaced or deleted without a kill
  logged     \* starts of which nothing is left but a line in the log

manager == <<sessions, starting, failed>>
vars == <<panel, manager, start, proc, owner, replay, restarts, asked, swept, dropped, logged>>

TypeOK ==
  /\ panel \in Kinds \cup {None}
  /\ sessions \in Starts \cup {None} /\ owner \in Starts \cup {None}
  /\ starting \in {a \in Starts : start[a].pc \in {"queued", "connecting"}} \cup {None}
  /\ start \in [Starts -> [kind : Kinds \cup {None}, reason : Reasons \cup {None},
                           pc : {"unused", "queued", "connecting", "settled"},
                           after : Starts \cup {None}]]
  /\ proc \in [Starts -> {"none", "live", "dying", "dead"}]
  /\ replay \in (SUBSET (Starts \cup {Note})) \cup {None}
  /\ restarts \in [Restarters -> Suspended \cup {None}]
  /\ asked \in Starts \cup {None}
  /\ failed \in BOOLEAN /\ swept \in BOOLEAN
  /\ dropped \subseteq Starts /\ logged \subseteq Starts

Init ==
  /\ panel \in Kinds
  /\ sessions = None /\ starting = None /\ failed = FALSE
  /\ start = [a \in Starts |->
       [kind |-> None, pc |-> "unused", reason |-> None, after |-> None]]
  /\ proc = [a \in Starts |-> "none"]
  /\ owner = None /\ replay = None
  /\ restarts = [r \in Restarters |-> None]
  /\ asked = None /\ swept = FALSE /\ dropped = {} /\ logged = {}

-----------------------------------------------------------------------------
Running(a) == a # None /\ proc[a] \in {"live", "dying"}
Kind(a) == start[a].kind

\* clear() keeps the entry and its sequence counter, append() creates one.
Cleared == IF replay = None THEN None ELSE {}
With(x) == (IF replay = None THEN {} ELSE replay) \cup {x}

\* Told to end: killed, or its connection closed.
Doomed_none(S) == proc
Doomed(S) == [a \in Starts |-> IF a \in S /\ proc[a] = "live" THEN "dying" ELSE proc[a]]

\* A restart goes on when its process is gone, a queued start when the one
\* before it has settled.
Due(r) == restarts[r] # None /\ restarts[r].of \in {None} \cup {g \in Starts : proc[g] = "dead"}
NextInLine_success(a) ==
  /\ start[a].pc = "queued" /\ start[start[a].after].pc = "settled"
  /\ proc[start[a].after] # "none"
NextInLine(a) == start[a].pc = "queued" /\ start[start[a].after].pc = "settled"
Quiet == (\A r \in Restarters : ~Due(r)) /\ (\A a \in Starts : ~NextInLine(a))

Unused == {a \in Starts : start[a].pc = "unused"}
IsNext(a) == a \in Unused /\ \A b \in Unused : a <= b
Spare == Cardinality(Unused) > Cardinality({r \in Restarters : restarts[r] # None})

Became(a, kind, pc, after) ==
  start' = [start EXCEPT ![a] = [kind |-> kind, pc |-> pc, reason |-> None, after |-> after]]

\* ensureSession() for a local shell, when the map's entry is `existing`.
SpawnLocal(a) ==
  /\ Became(a, "pty", "settled", None)
  /\ proc' = [proc EXCEPT ![a] = "live"]
  /\ sessions' = a /\ failed' = FALSE /\ replay' = Cleared
  /\ UNCHANGED <<starting, owner, logged>>

SpawnLocalFails(a, existing) ==
  /\ Became(a, "pty", "settled", None)
  /\ sessions' = existing /\ failed' = TRUE /\ replay' = With(Note)
  /\ UNCHANGED <<starting, proc, owner, logged>>

\* beginSessionStart(): ssh announces its new generation and registers with
\* sshManager before its first await.
BeginStart(a, kind, existing) ==
  /\ Became(a, kind, "connecting", None)
  /\ sessions' = existing /\ starting' = a
  /\ owner' = IF kind = "ssh" THEN a ELSE owner
  /\ replay' = IF kind = "ssh" THEN Cleared ELSE replay
  /\ UNCHANGED <<failed, proc, logged>>

\* The tab's saved host was deleted: the start is over before its first await,
\* with a line in the log.
HostGone(a, kind, existing) ==
  /\ Became(a, kind, "settled", None)
  /\ sessions' = existing /\ starting' = None
  /\ logged' = logged \cup {a}
  /\ UNCHANGED <<failed, proc, owner, replay>>

\* trackSessionStart() with another start in the map: a live one is shared, a
\* disconnected one is waited for.
Shared_always == starting # None
Shared == starting # None /\ start[starting].reason # "disconnected"
Behind_never == FALSE
Behind == starting # None /\ start[starting].reason = "disconnected"

JoinStart(existing) ==
  /\ sessions' = existing
  /\ UNCHANGED <<starting, failed, start, proc, owner, replay, logged>>

QueueStart(a, kind, existing) ==
  /\ Became(a, kind, "queued", starting)
  /\ sessions' = existing /\ starting' = a
  /\ UNCHANGED <<failed, proc, owner, replay, logged>>

Launch(a, kind, existing) ==
  \/ kind = "pty" /\ (SpawnLocal(a) \/ SpawnLocalFails(a, existing))
  \/ kind # "pty" /\ Shared /\ JoinStart(existing)
  \/ kind # "pty" /\ ~Shared /\ Behind /\ QueueStart(a, kind, existing)
  \/ kind # "pty" /\ ~Shared /\ ~Behind
       /\ (BeginStart(a, kind, existing) \/ HostGone(a, kind, existing))

\* The start that serves a request.  To share one that the removal of the tab
\* has cancelled brings nothing.
Serving(a, kind) ==
  CASE kind = "pty" \/ ~Shared -> a
    [] kind # "pty" /\ Shared -> IF start[starting].reason = "removed" THEN None ELSE starting

\* Activating the tab.
Ensure(a) ==
  /\ Quiet /\ panel # None /\ IsNext(a) /\ Spare
  /\ ~Running(sessions)
  /\ Launch(a, panel, sessions)
  /\ asked' = Serving(a, panel)
  /\ UNCHANGED <<panel, restarts, swept, dropped>>

-----------------------------------------------------------------------------
\* How a start ends.  `finally` takes it out of the map if it is still there.
Left_kept(a) == starting
Left(a) == IF starting = a THEN None ELSE starting
Settled(a) == start' = [start EXCEPT ![a].pc = "settled"]
Cancelled_never(a) == FALSE
Cancelled(a) == start[a].reason # None

\* The queued reconnect's turn: superseded, cancelled, or a start of its own.
ResumeQueued(a) ==
  /\ NextInLine(a)
  /\ \/ /\ starting # a \/ Cancelled(a) \/ Running(sessions)
        /\ Settled(a) /\ starting' = Left(a)
        /\ UNCHANGED <<sessions, failed, proc, owner, replay, logged>>
     \/ /\ starting = a /\ ~Cancelled(a) /\ ~Running(sessions)
        /\ BeginStart(a, Kind(a), sessions) \/ HostGone(a, Kind(a), sessions)
  /\ UNCHANGED <<panel, restarts, asked, swept, dropped>>

\* "Connecting to ...": sshManager's banner.
Dial(a) ==
  /\ Quiet /\ start[a].pc = "connecting" /\ Kind(a) = "ssh" /\ owner = a
  /\ replay' = With(Note)
  /\ UNCHANGED <<panel, manager, start, proc, owner, restarts, asked, swept, dropped, logged>>

\* The connection is up and sshManager still has it registered: nobody stopped
\* it, so nobody cancelled it.
Connected(a) ==
  /\ Quiet /\ start[a].pc = "connecting" /\ Kind(a) = "ssh" /\ owner = a
  /\ Settled(a) /\ starting' = Left(a)
  /\ sessions' = a /\ failed' = FALSE
  /\ proc' = [proc EXCEPT ![a] = "live"]
  /\ UNCHANGED <<panel, owner, replay, restarts, asked, swept, dropped, logged>>

\* The client's process is spawned and registered, then thrown away again if
\* the start was cancelled meanwhile.
SystemSpawned(a) ==
  /\ Quiet /\ start[a].pc = "connecting" /\ Kind(a) = "system"
  /\ Settled(a) /\ starting' = Left(a)
  /\ \/ /\ ~Cancelled(a)
        /\ proc' = [proc EXCEPT ![a] = "live"]
        /\ sessions' = a /\ failed' = FALSE /\ replay' = Cleared
     \/ /\ Cancelled(a)
        /\ proc' = [proc EXCEPT ![a] = "dying"]
        /\ sessions' = None /\ failed' = (start[a].reason = "disconnected")
        /\ replay' = IF start[a].reason = "removed" THEN None ELSE Cleared
  /\ UNCHANGED <<panel, owner, restarts, asked, swept, dropped, logged>>

\* The start ends without a session: refused, not launched, or stopped, which
\* its own handler shows.  discardCanceledStart() then ends whatever session the
\* map holds.
StartFails(a) ==
  /\ Quiet /\ start[a].pc = "connecting"
  /\ Settled(a) /\ starting' = Left(a)
  /\ LET said == IF Kind(a) = "ssh" /\ owner # a THEN replay ELSE With(Note) IN
     \/ /\ ~Cancelled(a)
        /\ failed' = TRUE /\ replay' = said
        /\ owner' = IF owner = a THEN None ELSE owner
        /\ UNCHANGED <<sessions, proc>>
     \/ /\ Cancelled(a)
        /\ proc' = Doomed({sessions}) /\ sessions' = None
        /\ owner' = IF owner \in {a, sessions} THEN None ELSE owner
        /\ failed' = (start[a].reason = "disconnected")
        /\ replay' = IF start[a].reason = "removed" THEN None ELSE said
  /\ UNCHANGED <<panel, restarts, asked, swept, dropped, logged>>

\* The start of a client rejects before there is anything to spawn: the host's
\* key is missing, cannot be written, or its jump host was deleted.  Only
\* `finally` runs, cancelled or not, and the caller logs the rejection.
StartRejects(a) ==
  /\ Quiet /\ start[a].pc = "connecting" /\ Kind(a) = "system"
  /\ Settled(a) /\ starting' = Left(a)
  /\ logged' = logged \cup {a}
  /\ UNCHANGED <<panel, sessions, failed, proc, owner, replay, restarts, asked, swept, dropped>>

-----------------------------------------------------------------------------
\* Processes.  Output of a local process is dropped when the map has another;
\* an ssh2 connection has no such guard.
Heard_always(g) == TRUE
Heard(g) == Kind(g) = "ssh" \/ sessions \in {None, g}

Output(g) ==
  /\ Quiet /\ Running(g) /\ Heard(g)
  /\ replay' = With(g)
  /\ UNCHANGED <<panel, manager, start, proc, owner, restarts, asked, swept, dropped, logged>>

\* The exit of a process that was told to end clears what it showed; another
\* leaves a line.  sshManager ignores a connection it no longer has.
Exit(g) ==
  /\ Quiet /\ Running(g)
  /\ proc' = [proc EXCEPT ![g] = "dead"]
  /\ owner' = IF owner = g THEN None ELSE owner
  /\ replay' = CASE Kind(g) = "ssh" -> IF owner = g THEN With(Note) ELSE replay
                 [] Kind(g) # "ssh" /\ ~Heard(g) -> replay
                 [] Kind(g) # "ssh" /\ Heard(g) ->
                      IF proc[g] = "dying" THEN Cleared ELSE With(Note)
  /\ UNCHANGED <<panel, manager, start, restarts, asked, swept, dropped, logged>>

-----------------------------------------------------------------------------
\* Tear-down.  sshManager.stop() closes the registered connection and rejects
\* a connect on its way.
Marked_never(reason) == start
Marked(reason) ==
  IF starting = None \/ start[starting].reason = "removed" THEN start
  ELSE [start EXCEPT ![starting].reason = reason]
Stops == \/ starting # None /\ start[starting].reason # "removed"
         \/ sessions # None /\ Kind(sessions) = "ssh"
StopConnection == owner' = IF Stops THEN None ELSE owner
Ended == {sessions} \cup IF Stops THEN {owner} ELSE {}

\* Disconnect of an SSH tab, closeSession(): the replay is cleared first, then removeSession().
Disconnect ==
  /\ Quiet /\ panel \in {"ssh", "system"}
  /\ start' = Marked("disconnected") /\ StopConnection
  /\ proc' = Doomed(Ended) /\ sessions' = None
  /\ replay' = IF sessions # None /\ Kind(sessions) = "ssh" THEN {Note} ELSE Cleared
  /\ asked' = None
  /\ UNCHANGED <<panel, starting, failed, restarts, swept, dropped, logged>>

\* restartSession(): a local process is told to end and waited for; without a
\* session the start on its way is cancelled.
Restart(r) ==
  /\ Quiet /\ panel # None /\ restarts[r] = None /\ Spare
  /\ restarts' = [restarts EXCEPT ![r] =
       [of |-> IF Running(sessions) /\ Kind(sessions) # "ssh" THEN sessions ELSE None,
        kind |-> panel]]
  /\ replay' = Cleared
  /\ \/ sessions # None /\ Kind(sessions) = "ssh"
        /\ proc' = Doomed({owner}) /\ owner' = None /\ UNCHANGED start
     \/ sessions # None /\ Kind(sessions) # "ssh"
        /\ proc' = Doomed({sessions}) /\ UNCHANGED <<owner, start>>
     \/ sessions = None
        /\ start' = Marked("disconnected") /\ StopConnection /\ proc' = Doomed(Ended)
  /\ UNCHANGED <<panel, manager, asked, swept, dropped, logged>>

\* The process is gone, or five seconds have passed.  The map's entry is
\* deleted whatever it is by now, and the tab of the call is launched.
RestartResumes(r, a) ==
  /\ restarts[r] # None /\ IsNext(a)
  /\ Due(r) \/ Quiet
  /\ Launch(a, restarts[r].kind, None)
  /\ restarts' = [restarts EXCEPT ![r] = None]
  /\ dropped' = dropped \cup {g \in Starts : g = sessions /\ proc[g] = "live"}
  /\ asked' = Serving(a, restarts[r].kind)
  /\ swept' = FALSE
  /\ UNCHANGED panel

-----------------------------------------------------------------------------
\* The tab in the state: closed, edited, or back again when another client
\* saves a copy of the workspace that still has it.  Assumed: what a tab
\* launches is not edited while a start or a restart of it is under way.
RemovePanel ==
  /\ Quiet /\ panel # None
  /\ panel' = None /\ swept' = FALSE
  /\ UNCHANGED <<manager, start, proc, owner, replay, restarts, asked, dropped, logged>>

PutPanel(kind) ==
  /\ Quiet /\ panel # kind
  /\ starting # None => Kind(starting) = kind
  /\ \A r \in Restarters : restarts[r] # None => restarts[r].kind = kind
  /\ panel' = kind /\ swept' = FALSE
  /\ UNCHANGED <<manager, start, proc, owner, replay, restarts, asked, dropped, logged>>

\* syncWithState() of a save after the tab is gone.
SyncWithState ==
  /\ Quiet /\ panel = None
  /\ start' = Marked("removed") /\ StopConnection
  /\ proc' = Doomed(Ended) /\ sessions' = None /\ failed' = FALSE
  /\ replay' = IF sessions # None \/ failed THEN None ELSE replay
  /\ swept' = TRUE /\ asked' = None
  /\ UNCHANGED <<panel, starting, restarts, dropped, logged>>

\* removeWorkspaceSessions() and the loss of the workspace's replay.
RemoveWorkspaceSessions ==
  /\ Quiet /\ panel = None /\ ~swept
  /\ start' = Marked("removed") /\ StopConnection
  /\ proc' = Doomed(Ended) /\ sessions' = None /\ failed' = FALSE
  /\ replay' = None
  /\ swept' = TRUE /\ asked' = None
  /\ UNCHANGED <<panel, starting, restarts, dropped, logged>>

Next ==
  \/ \E a \in Starts : Ensure(a)
  \/ \E a \in Starts : ResumeQueued(a)
  \/ \E a \in Starts : Dial(a)
  \/ \E a \in Starts : Connected(a)
  \/ \E a \in Starts : SystemSpawned(a)
  \/ \E a \in Starts : StartFails(a)
  \/ \E a \in Starts : StartRejects(a)
  \/ \E g \in Starts : Output(g)
  \/ \E g \in Starts : Exit(g)
  \/ Disconnect
  \/ \E r \in Restarters : Restart(r)
  \/ \E r \in Restarters, a \in Starts : RestartResumes(r, a)
  \/ RemovePanel
  \/ \E kind \in Kinds : PutPanel(kind)
  \/ SyncWithState
  \/ RemoveWorkspaceSessions

Spec == Init /\ [][Next]_vars

\* A start that was told to stop ends, as its rejection is one of the events
\* the loop gets to, and what JavaScript owes is done.
FairSpec ==
  /\ Spec
  /\ WF_vars(\E a \in Starts : ResumeQueued(a))
  /\ SF_vars(\E a \in Starts : Cancelled(a) /\ (SystemSpawned(a) \/ StartFails(a) \/ StartRejects(a)))
  /\ WF_vars(\E r \in Restarters, a \in Starts : RestartResumes(r, a))

-----------------------------------------------------------------------------
(* Properties *)

\* Nothing is under way and nothing is waiting.
Idle == starting = None /\ \A r \in Restarters : restarts[r] = None

\* "Do not race a second concurrent connect (... that would orphan a duplicate
\* PTY)": two starts of a tab never connect at the same time.
OneConnect == Cardinality({a \in Starts : start[a].pc = "connecting"}) <= 1

\* A process that nobody told to end is the tab's session, however requests
\* and late connects are interleaved; two known losses are set apart: a second
\* overlapping restart and an edit of the tab during a connect (dropped).
NoOrphan == \A g \in Starts : proc[g] = "live" => sessions = g \/ g \in dropped

\* Without the two: no process outlives its entry in the session map.
EveryProcessOwned == \A g \in Starts : proc[g] = "live" => sessions = g

\* A closed tab leaves nothing behind once its sweep is done and the starts
\* are over: no session, and stored text only with the mark that lets the next
\* sweep find it, late output of an ssh2 connection, or what was there when a
\* later start ended with a line in the log only.
NoGhost ==
  panel = None /\ swept /\ Idle /\ (\A g \in Starts : proc[g] # "dying") =>
    /\ ~Running(sessions)
    /\ replay # None /\ ~failed => \A g \in replay \ {Note} :
         Kind(g) = "ssh" \/ g \in dropped \/ \E a \in logged : g < a

\* What is stored for a tab with a running local process was written by that
\* process or by an ssh2 connection, never by an earlier local process.
ReplayIsFresh ==
  Running(sessions) /\ Kind(sessions) # "ssh" /\ replay # None =>
    \A g \in replay \ {Note, sessions} : Kind(g) = "ssh"

\* A disconnect holds, and so does a close: no connect that was on its way
\* brings the session back.
DisconnectHolds == asked = None /\ Idle => ~Running(sessions)

\* An activation is answered: the start that served it was not one that an
\* earlier disconnect had cancelled, and the tab then has a session (running
\* or ended) or the mark of a failed start, whose text it shows.  The one
\* exception is that very start: it may have found no host or been rejected,
\* of which the code leaves a line in the log and nothing in the tab.
ActivationAnswered ==
  asked # None /\ Idle =>
    start[asked].reason = None /\ (sessions # None \/ failed \/ asked \in logged)

\* A reconnect queued behind a cancelled start gets its turn.
ReconnectBegins == \A a \in Starts : start[a].pc = "queued" ~> start[a].pc # "queued"
=============================================================================
