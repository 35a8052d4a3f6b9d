----------------------------- MODULE TerminalStream -----------------------------
(***************************************************************************)
(* One terminal pane seen from a remote client: the replay store           *)
(* (terminal-replay-buffer.ts), the socket's routing and the state frames  *)
(* (remote-server.ts), and in the browser the transport, the               *)
(* subscription owner (useAttentionSync.ts) and the terminal controller.   *)
(* Terminal frames of a socket arrive in order; a state frame may be held  *)
(* back until the one before it has drained, and then replaced.            *)
(*                                                                         *)
(* A chunk of output is <<life, seq>>: the pane's life it belongs to (a    *)
(* removal ends one) and the number the store gave it.                     *)
(***************************************************************************)
EXTENDS Naturals, Sequences, SequencesExt

CONSTANTS
  MaxOutputs,  \* bound: chunks of the whole history
  Kept,        \* chunks that fit into the replay budget
  MaxMoves,    \* bound: what users and the network do
  None

Lives == 0..MaxMoves
Chunk == Lives \X (1..MaxOutputs)
Frames == [rev : Nat, panel : BOOLEAN, type : {"state"}]

ASSUME StreamAssumption ==
  /\ MaxOutputs \in Nat /\ MaxMoves \in Nat /\ Kept \in Nat
  /\ None \notin Nat \cup BOOLEAN \cup Frames \cup [seq : Nat, from : Nat]

VARIABLES
  panel,     \* the application state has the pane
  session,   \* its session: "none", "live", "exited"
  store,     \* its replay: newest number and oldest chunk kept, or None
  rev,       \* coreRevision
  unsaid,    \* a broadcast of the state is due
  \* the socket, at the server
  filtered,  \* the socket has subscribed once; until then it gets every frame
  routed,    \* the pane is in the socket's live set
  sending,   \* a state frame is in flight
  pending,   \* the state frame held back, or None
  catchup,   \* sendCoreCatchUp() is preparing a frame
  toClient, toServer,   \* messages on the way
  link,      \* the socket is open
  \* the client
  view,      \* the payload has the pane
  seen,      \* revision of the payload
  want,      \* the user's choice of tab would show the pane
  memory,    \* the transport's remembered subscription names it; None before the first
  key,       \* lastSyncKey: what the last sync saw rendered, or None
  armed,     \* a removal armed a resync
  due,       \* the debounced sync is pending
  screen, through,   \* chunks in the terminal, throughSeq of the last replay
  \* observations and bounds
  life, misled, moves, outputs

server == <<panel, session, store, rev, unsaid, life>>
coalescer == <<sending, pending, catchup>>
socket == <<filtered, routed, coalescer, toClient, toServer, link>>
terminal == <<screen, through>>
client == <<view, seen, want, memory, key, armed, due, terminal>>
vars == <<server, socket, client, misled, moves, outputs>>

TypeOK ==
  /\ panel \in BOOLEAN /\ session \in {"none", "live", "exited"}
  /\ store \in [seq : 1..MaxOutputs, from : 1..MaxOutputs + 1] \cup {None}
  /\ rev \in Nat /\ unsaid \in BOOLEAN /\ life \in Lives
  /\ filtered \in BOOLEAN /\ routed \in BOOLEAN /\ (routed => filtered /\ link)
  /\ sending \in BOOLEAN /\ pending \in Frames \cup {None} /\ (pending # None => sending)
  /\ catchup \in BOOLEAN /\ link \in BOOLEAN
  /\ view \in BOOLEAN /\ seen \in Nat /\ want \in BOOLEAN
  /\ memory \in BOOLEAN \cup {None} /\ key \in BOOLEAN \cup {None}
  /\ armed \in BOOLEAN /\ due \in BOOLEAN
  /\ screen \in Seq(Chunk) /\ through \in 0..MaxOutputs \cup {None}
  /\ misled \in BOOLEAN

Init ==
  /\ panel = TRUE /\ session = "live" /\ store = None /\ life = 0
  /\ rev = 0 /\ unsaid = FALSE
  /\ filtered = FALSE /\ routed = FALSE
  /\ sending = FALSE /\ pending = None /\ catchup = FALSE
  /\ toClient = <<>> /\ toServer = <<>> /\ link = TRUE
  /\ view = TRUE /\ seen = 0 /\ want = TRUE /\ memory = None
  /\ key = None /\ armed = FALSE /\ due = TRUE
  /\ screen = <<>> /\ through = None
  /\ misled = FALSE /\ moves = 0 /\ outputs = 0

Move == moves < MaxMoves /\ moves' = moves + 1

-----------------------------------------------------------------------------
\* The replay store.  append() numbers a chunk and drops the oldest beyond the
\* budget, clear() keeps the counter, delete() drops it.
Appended ==
  LET n == IF store = None THEN 1 ELSE store.seq + 1
      f == IF store = None THEN 1 ELSE store.from
  IN  [seq |-> n, from |-> IF n + 1 - f > Kept THEN n + 1 - Kept ELSE f]
Cleared_twice == IF store = None THEN None ELSE [store EXCEPT !.from = store.seq + 2]
Cleared_counter == None
Cleared == IF store = None THEN None ELSE [store EXCEPT !.from = store.seq + 1]
Snapshot ==
  [type |-> "replay", through |-> IF store = None THEN 0 ELSE store.seq,
   chunks |-> IF store = None THEN <<>>
              ELSE [i \in 1..(store.seq + 1 - store.from) |-> <<life, store.from + i - 1>>]]

-----------------------------------------------------------------------------
\* Frames to the client.  The coalescer holds back one state frame, the newest.
Sent(f) == IF link THEN Append(toClient, f) ELSE toClient
Routes(f) == IF link /\ (filtered => routed) THEN Sent(f) ELSE toClient

SendStateFrame ==
  LET f == [type |-> "state", rev |-> rev', panel |-> panel]
  IN  IF ~link THEN UNCHANGED <<sending, pending, toClient>>
      ELSE IF sending THEN pending' = f /\ UNCHANGED <<sending, toClient>>
      ELSE sending' = TRUE /\ toClient' = Sent(f) /\ UNCHANGED pending

Drained ==
  /\ sending
  /\ sending' = (pending # None) /\ pending' = None
  /\ toClient' = IF pending # None THEN Sent(pending) ELSE toClient
  /\ UNCHANGED <<server, filtered, routed, catchup, toServer, link, client, misled, moves, outputs>>

\* broadcastState(): for a change of this pane, or for any other.
Broadcast ==
  /\ \/ unsaid /\ UNCHANGED moves
     \/ ~unsaid /\ Move
  /\ rev' = rev + 1 /\ unsaid' = FALSE
  /\ SendStateFrame
  /\ UNCHANGED <<panel, session, store, life, filtered, routed, catchup, toServer, link,
                 client, misled, outputs>>

CatchUp ==
  /\ catchup /\ catchup' = FALSE
  /\ UNCHANGED rev /\ SendStateFrame
  /\ UNCHANGED <<panel, session, store, life, unsaid, filtered, routed, toServer, link,
                 client, misled, moves, outputs>>

-----------------------------------------------------------------------------
\* The session of the pane.
Output ==
  /\ session = "live" /\ outputs < MaxOutputs /\ outputs' = outputs + 1
  /\ store' = Appended
  /\ toClient' = Routes([type |-> "data", chunk |-> <<life, Appended.seq>>])
  /\ UNCHANGED <<panel, session, rev, unsaid, life, filtered, routed, coalescer, toServer, link,
                 client, misled, moves>>

\* The exit notice is folded into the replay; the frame carries no number and
\* the client writes its own notice.
Exit ==
  /\ session = "live" /\ outputs < MaxOutputs /\ outputs' = outputs + 1
  /\ session' = "exited" /\ store' = Appended /\ unsaid' = TRUE
  /\ toClient' = Routes([type |-> "exit", chunk |-> <<life, Appended.seq>>])
  /\ UNCHANGED <<panel, rev, life, filtered, routed, coalescer, toServer, link,
                 client, misled, moves>>

\* A new process: the first, or a restart (whose exit frame the client ignores).
Spawn ==
  /\ panel /\ Move
  /\ session' = "live" /\ store' = Cleared
  /\ UNCHANGED <<panel, rev, unsaid, life, socket, client, misled, outputs>>

\* Another client's save removes the pane, or brings it back under its id.  What
\* is left of the save is SyncWithState, which has work only for a session, and
\* a broadcast.
RemovePanel ==
  /\ panel /\ Move /\ panel' = FALSE /\ unsaid' = (unsaid \/ session = "none")
  /\ UNCHANGED <<session, store, rev, life, socket, client, misled, outputs>>

PutPanel ==
  /\ ~panel /\ Move /\ panel' = TRUE /\ unsaid' = TRUE
  /\ UNCHANGED <<session, store, rev, life, socket, client, misled, outputs>>

\* syncWithState() and terminal:removed; the save broadcasts afterwards.
Told_nobody == toClient
Told == IF routed THEN Sent([type |-> "removed"]) ELSE toClient
SyncWithState ==
  /\ ~panel /\ session # "none"
  /\ session' = "none" /\ store' = None /\ life' = life + 1 /\ unsaid' = TRUE
  /\ routed' = FALSE /\ toClient' = Told
  /\ UNCHANGED <<panel, rev, filtered, coalescer, toServer, link, client, misled, moves, outputs>>

-----------------------------------------------------------------------------
\* terminal:subscribe at the server.  An id without a pane is refused; one that
\* is already routed is replayed only on request.
HandleTerminalSubscribe ==
  /\ toServer # <<>>
  /\ LET m == Head(toServer)
         accepted == m.id /\ panel
         replays == accepted /\ (~routed \/ m.replay)
     IN  /\ filtered' = TRUE /\ routed' = accepted
         /\ toClient' = IF replays THEN Sent(Snapshot) ELSE toClient
         /\ misled' = ((m.id /\ ~panel) \/ (misled /\ accepted /\ ~replays))
  /\ toServer' = Tail(toServer)
  /\ UNCHANGED <<server, coalescer, link, client, moves, outputs>>

-----------------------------------------------------------------------------
\* The client: sync() compares what is rendered with its key, and
\* subscribeTerminals() with what it last sent.
Subscription(id, replay) == [id |-> id, replay |-> replay]
Rendered == want' /\ view'
Sync(k) ==
  LET news == Rendered # k /\ Rendered # memory
  IN  /\ key' = Rendered
      /\ memory' = IF news THEN Rendered ELSE memory
      /\ toServer' = IF news /\ link THEN Append(toServer, Subscription(Rendered, FALSE)) ELSE toServer

Debounced ==
  /\ due /\ due' = FALSE
  /\ UNCHANGED <<want, view>> /\ Sync(key)
  /\ UNCHANGED <<server, filtered, routed, coalescer, toClient, link, seen, armed, terminal,
                 misled, moves, outputs>>

\* Focus, blur or a change of the attention count: the key differs.
Refocus ==
  /\ UNCHANGED <<want, view>> /\ Sync(None)
  /\ UNCHANGED <<server, filtered, routed, coalescer, toClient, link, seen, armed, due, terminal,
                 misled, moves, outputs>>

\* The user shows or hides the pane.
Toggle ==
  /\ Move /\ want' = ~want /\ due' = TRUE
  /\ UNCHANGED <<server, socket, view, seen, memory, key, armed, terminal, misled, outputs>>

\* requestTerminalReplay(): a failed request was taken for a lost connection.
RequestTerminalReplay ==
  /\ Move /\ memory = TRUE /\ link
  /\ toServer' = Append(toServer, Subscription(TRUE, TRUE))
  /\ UNCHANGED <<server, filtered, routed, coalescer, toClient, link, client, misled, outputs>>

-----------------------------------------------------------------------------
\* What a terminal frame does to the terminal c.
Shown(c, f) ==
  CASE f.type = "replay" -> [screen |-> f.chunks, through |-> f.through]
    [] f.type = "data" ->
         IF c.through # None /\ f.chunk[2] <= c.through THEN c
         ELSE [c EXCEPT !.screen = Append(@, f.chunk)]
    [] f.type = "exit" -> [c EXCEPT !.screen = Append(@, f.chunk)]
    [] f.type \in {"state", "removed"} -> c
Term == [screen |-> screen, through |-> through]

Receive ==
  /\ toClient # <<>> /\ toClient' = Tail(toClient)
  /\ UNCHANGED <<server, filtered, routed, coalescer, link, moves, outputs>>

HandleTerminalFrame ==
  /\ Receive
  /\ Head(toClient).type \in {"data", "exit", "replay"}
  /\ LET c == Shown(Term, Head(toClient)) IN screen' = c.screen /\ through' = c.through
  /\ UNCHANGED <<toServer, view, seen, want, memory, key, armed, due, misled>>

HandleTerminalRemoved ==
  /\ Receive
  /\ Head(toClient).type = "removed"
  /\ memory' = (IF memory = TRUE THEN FALSE ELSE memory) /\ armed' = TRUE
  /\ UNCHANGED <<toServer, view, seen, want, key, due, terminal, misled>>

\* A payload no newer than the one shown is dropped.
HandleStaleState ==
  /\ Receive
  /\ Head(toClient).type = "state" /\ Head(toClient).rev <= seen
  /\ UNCHANGED <<toServer, client, misled>>

\* A payload without the pane disposes its view; an armed resync is fired.
HandleStateUpdated ==
  /\ Receive
  /\ Head(toClient).type = "state" /\ Head(toClient).rev > seen
  /\ LET f == Head(toClient)
         replaying == \E i \in DOMAIN toClient : toClient[i].type = "replay"
     IN  /\ view' = f.panel /\ seen' = f.rev /\ due' = TRUE /\ armed' = FALSE
         /\ UNCHANGED want
         /\ IF armed THEN Sync(None) ELSE UNCHANGED <<key, memory, toServer>>
         /\ IF f.panel THEN UNCHANGED <<terminal, misled>>
            ELSE /\ screen' = <<>> /\ through' = None
                 /\ misled' = (misled \/ (routed /\ ~replaying))

-----------------------------------------------------------------------------
\* The socket closes, for any reason; a new one names the remembered
\* subscription and the revision of the client's payload.
Disconnect ==
  /\ link /\ Move /\ link' = FALSE
  /\ filtered' = FALSE /\ routed' = FALSE
  /\ sending' = FALSE /\ pending' = None /\ catchup' = FALSE
  /\ toClient' = <<>> /\ toServer' = <<>> /\ misled' = FALSE
  /\ UNCHANGED <<server, client, outputs>>

Connect ==
  /\ ~link /\ link' = TRUE
  /\ toServer' = (IF memory = None THEN <<>> ELSE <<Subscription(memory, FALSE)>>)
  /\ catchup' = (seen # rev)
  /\ UNCHANGED <<server, filtered, routed, sending, pending, toClient, client, misled, moves, outputs>>

-----------------------------------------------------------------------------
Handle == HandleTerminalFrame \/ HandleTerminalRemoved \/ HandleStaleState \/ HandleStateUpdated
Next ==
  \/ Drained \/ Broadcast \/ CatchUp
  \/ Output \/ Exit \/ Spawn \/ RemovePanel \/ PutPanel \/ SyncWithState
  \/ HandleTerminalSubscribe \/ Handle
  \/ Debounced \/ Refocus \/ Toggle \/ RequestTerminalReplay
  \/ Disconnect \/ Connect

Spec == Init /\ [][Next]_vars

\* Timers fire, messages arrive, a save goes on to its end, and a client that
\* lost its connection tries again.
FairSpec ==
  /\ Spec
  /\ WF_vars(Drained) /\ WF_vars(unsaid /\ Broadcast) /\ WF_vars(CatchUp) /\ WF_vars(SyncWithState)
  /\ WF_vars(HandleTerminalSubscribe) /\ WF_vars(Handle) /\ WF_vars(Debounced) /\ WF_vars(Connect)

-----------------------------------------------------------------------------
(***************************************************************************)
(* Properties.                                                             *)
(***************************************************************************)

\* The chunks are consecutive, of one life, reach to the newest and leave out
\* nothing that the replay store still has.
Whole(s) ==
  /\ \A i \in 2..Len(s) : s[i] = <<s[i-1][1], s[i-1][2] + 1>>
  /\ s # <<>> => store # None /\ Last(s) = <<life, store.seq>>
  /\ Snapshot.chunks # <<>> => s # <<>> /\ Head(s)[2] <= store.from

\* While the server streams the pane, what the client shows and what is on its
\* way to it are all of the pane's output, once and in order: across
\* subscriptions, replays, restarts, reconnects and a pane that comes back under
\* its id.  (misled: see Followed.)
NothingMissing ==
  routed /\ ~misled => Whole(FoldLeft(Shown, Term, toClient).screen)

\* The stream follows the screen: again and again, and for good once nobody moves,
\* the pane is streamed when the user looks at it and not when it is hidden or gone.
\* Excepted are clients that a state frame held back by the coalescer, or a
\* subscription that crossed a removal, has misled: the server refused an id the
\* transport goes on remembering, or the view was disposed after its replay.  A
\* later change of the set, or a new socket, ends it.
Followed == []<>(~link \/ misled \/ routed = (want /\ panel))
================================================================================
