--------------------------- MODULE SessionStart_proof ---------------------------
(***************************************************************************)
(* Safety of the session starts of one terminal tab, for every number of   *)
(* starts and every number of overlapping restarts.                        *)
(*                                                                         *)
(* Nothing of it is inductive alone.  What carries it is the order of the  *)
(* starts: those that are not over form a line (Line), of which the head   *)
(* connects and the end is in the map, all but the end are disconnected,   *)
(* and while a session runs there is no line at all (Vacant).              *)
(***************************************************************************)
EXTENDS SessionStart, FiniteSetTheorems, TLAPS

\* Not over yet: in line behind another start, or connecting.
Open(a) == start[a].pc \in {"queued", "connecting"}

\* Starts are taken in order, and one that was not taken has left no trace.
Untouched ==
  \A a \in Starts : start[a].pc = "unused" =>
    /\ \A b \in Starts : a < b => start[b].pc = "unused"
    /\ start[a].reason = None /\ proc[a] = "none"
    /\ sessions # a /\ owner # a /\ asked # a
    /\ replay # None => a \notin replay

\* What was written was written by a process.
Written == replay # None => \A g \in replay \ {Note} : proc[g] # "none"

\* The starts that are not over form a line.  Its head is the only one that may
\* connect, its end is the one in the map, and one that is not the end was
\* disconnected before the next joined.
Line ==
  /\ \A a \in Starts : Open(a) => starting # None /\ a <= starting
  /\ \A a \in Starts : Open(a) /\ a # starting => start[a].reason = "disconnected"
  /\ \A a \in Starts : start[a].pc = "connecting" => \A b \in Starts : Open(b) => a <= b
  /\ \A a \in Starts : start[a].pc = "queued" =>
       /\ start[a].after \in Starts /\ start[a].after < a
       /\ \A b \in Starts : Open(b) /\ b < a => b <= start[a].after
       /\ start[start[a].after].pc = "settled" => \A b \in Starts : Open(b) => a <= b

\* The tab, the start on its way and every suspended restart agree on what is
\* launched, and only remote sessions have starts on their way.
OneKind ==
  /\ starting # None => Kind(starting) \in Kinds \ {"pty"}
  /\ starting # None /\ panel # None => Kind(starting) = panel
  /\ \A r \in Restarters : restarts[r] # None =>
       /\ starting # None => Kind(starting) = restarts[r].kind
       /\ panel # None => panel = restarts[r].kind
       /\ \A s \in Restarters : restarts[s] # None => restarts[s].kind = restarts[r].kind

\* A cancelled start has lost its connection.
Registered == owner # None => start[owner].reason = None

\* Where a session is, nothing is on its way but a reconnect of a dead one.
Vacant ==
  sessions # None => \A a \in Starts : Open(a) =>
    start[a].pc = "connecting" /\ start[a].reason = None /\ proc[sessions] # "live"

\* What the last request asked for is on its way, is there, has failed or has
\* left a line in the log.
Served ==
  /\ asked = None => sessions = None /\ (starting # None => start[starting].reason # None)
  /\ asked # None =>
       /\ starting \in {None, asked}
       /\ starting # None => start[starting].reason # "removed"
       /\ start[asked].reason # None => \E r \in Restarters : restarts[r] # None
       /\ Idle => sessions # None \/ failed \/ asked \in logged
  /\ swept => panel = None /\ asked = None

\* A local session shows nothing of another local process.
OwnText ==
  sessions # None /\ Kind(sessions) # "ssh" /\ replay # None =>
    \A g \in replay \ {Note, sessions} : Kind(g) = "ssh"

\* What a local process left behind is found by the next sweep: there is an
\* entry in the map, the mark of a failure, or a start on its way; or it was
\* there before a start that left a line in the log only.
LeftText ==
  replay # None =>
    \A g \in replay \ {Note} :
      proc[g] = "dead" /\ Kind(g) # "ssh" =>
        \/ g \in dropped
        \/ sessions # None
        \/ failed
        \/ starting # None /\ start[starting].pc = "connecting"
           /\ start[starting].reason # "disconnected"
        \/ \E b \in logged : g < b

\* The start in the map is the last one taken, and has no process.
Last ==
  starting # None =>
    /\ proc[starting] = "none"
    /\ \A b \in Starts : starting < b => start[b].pc = "unused"

IInv ==
  /\ TypeOK /\ Untouched /\ Written /\ Line /\ OneKind /\ Registered /\ Vacant
  /\ NoOrphan /\ Served /\ OwnText /\ LeftText /\ Last

-----------------------------------------------------------------------------
StartRecords ==
  [kind : Kinds \cup {None}, reason : Reasons \cup {None},
   pc : {"unused", "queued", "connecting", "settled"}, after : Starts \cup {None}]

\* The marker for "nothing" is none of the things it stands in for.
LEMMA NoneIsNothing ==
  /\ None \notin Starts /\ None \notin Kinds /\ None \notin Reasons /\ None \notin Suspended
  /\ Starts \subseteq Nat /\ Note \notin Starts
  /\ Kinds \subseteq {"pty", "ssh", "system"}
  BY SessionAssumption DEF Starts, Note

\* What the parts of a step do to the starts.
LEMMA BecameFacts ==
  ASSUME TypeOK, NEW a \in Starts, NEW kind \in Kinds, NEW pc \in {"queued", "connecting", "settled"},
         NEW after \in Starts \cup {None}, Became(a, kind, pc, after)
  PROVE  /\ start' \in [Starts -> StartRecords]
         /\ start'[a].kind = kind /\ start'[a].pc = pc
         /\ start'[a].reason = None /\ start'[a].after = after
         /\ \A b \in Starts \ {a} : start'[b] = start[b]
  BY DEF Became, TypeOK, StartRecords

LEMMA SettledFacts ==
  ASSUME TypeOK, NEW a \in Starts, Settled(a)
  PROVE  /\ start' \in [Starts -> StartRecords]
         /\ start'[a].pc = "settled"
         /\ \A b \in Starts \ {a} : start'[b].pc = start[b].pc
         /\ \A b \in Starts : /\ start'[b].kind = start[b].kind
                              /\ start'[b].reason = start[b].reason
                              /\ start'[b].after = start[b].after
  BY DEF Settled, TypeOK, StartRecords

LEMMA MarkedFacts ==
  ASSUME TypeOK, NEW reason \in Reasons, start' = Marked(reason)
  PROVE  /\ start' \in [Starts -> StartRecords]
         /\ \A b \in Starts : /\ start'[b].kind = start[b].kind
                              /\ start'[b].pc = start[b].pc
                              /\ start'[b].after = start[b].after
         /\ \A b \in Starts \ {starting} : start'[b].reason = start[b].reason
         /\ starting # None => start'[starting].reason =
              IF start[starting].reason = "removed" THEN "removed" ELSE reason
  BY NoneIsNothing DEF Marked, TypeOK, StartRecords

LEMMA DoomedFacts ==
  ASSUME TypeOK, NEW S, proc' = Doomed(S)
  PROVE  /\ proc' \in [Starts -> {"none", "live", "dying", "dead"}]
         /\ \A g \in Starts : proc'[g] = IF g \in S /\ proc[g] = "live" THEN "dying" ELSE proc[g]
  BY DEF Doomed, TypeOK

\* A start that connects and is the one in the map is the only one on its way.
LEMMA HeadAndEnd ==
  ASSUME IInv, NEW a \in Starts, Open(a), \A b \in Starts : Open(b) => a <= b, starting = a
  PROVE  \A b \in Starts : Open(b) => b = a
  BY NoneIsNothing DEF IInv, Line

LEMMA ConnectingIsHead ==
  ASSUME IInv, NEW a \in Starts, start[a].pc = "connecting"
  PROVE  /\ Open(a) /\ \A b \in Starts : Open(b) => a <= b
         /\ starting # None
         /\ start[a].reason = None => starting = a
         /\ starting = a => \A b \in Starts : Open(b) => b = a
  BY HeadAndEnd, NoneIsNothing DEF IInv, Line, Open, Reasons

LEMMA NextIsHead ==
  ASSUME IInv, NEW a \in Starts, NextInLine(a)
  PROVE  /\ Open(a) /\ \A b \in Starts : Open(b) => a <= b
         /\ starting # None /\ sessions = None
         /\ starting = a => \A b \in Starts : Open(b) => b = a
  BY HeadAndEnd, NoneIsNothing DEF IInv, Line, Open, NextInLine, Vacant

\* The head of the line may leave it.
LEMMA HeadLeaves ==
  ASSUME IInv, NEW a \in Starts, Open(a), \A b \in Starts : Open(b) => a <= b,
         start'[a].pc = "settled",
         \A b \in Starts \ {a} : start'[b].pc = start[b].pc,
         \A b \in Starts : start'[b].reason = start[b].reason /\ start'[b].after = start[b].after,
         starting' = IF starting = a THEN None ELSE starting
  PROVE  Line'
  <1> USE NoneIsNothing DEF IInv
  <1>1. \A b \in Starts : Open(b)' <=> Open(b) /\ b # a
    BY DEF Open
  <1>2. \A b \in Starts : Open(b)' => starting' # None /\ starting' = starting /\ b <= starting'
    <2> SUFFICES ASSUME NEW b \in Starts, Open(b), b # a
                 PROVE  starting # a /\ starting # None /\ b <= starting
      BY <1>1
    <2>1. starting # None /\ b <= starting /\ a <= b
      BY DEF Line
    <2> QED
      BY <2>1
  <1>3. \A b \in Starts : Open(b)' /\ b # starting' => start'[b].reason = "disconnected"
    BY <1>1, <1>2 DEF Line
  <1>4. \A b \in Starts : start'[b].pc = "connecting" => \A c \in Starts : Open(c)' => b <= c
    <2> SUFFICES ASSUME NEW b \in Starts, start'[b].pc = "connecting", NEW c \in Starts, Open(c)'
                 PROVE  b <= c
      OBVIOUS
    <2>1. start[b].pc = "connecting" /\ Open(c)
      BY <1>1
    <2> QED
      BY <2>1 DEF Line
  <1>5. ASSUME NEW q \in Starts, start'[q].pc = "queued"
        PROVE  /\ start'[q].after \in Starts /\ start'[q].after < q
               /\ \A b \in Starts : Open(b)' /\ b < q => b <= start'[q].after
               /\ start'[start'[q].after].pc = "settled" => \A b \in Starts : Open(b)' => q <= b
    <2>1. q # a /\ start[q].pc = "queued" /\ start'[q].after = start[q].after
      BY <1>5
    <2>2. /\ start[q].after \in Starts /\ start[q].after < q
          /\ \A b \in Starts : Open(b) /\ b < q => b <= start[q].after
          /\ start[start[q].after].pc = "settled" => \A b \in Starts : Open(b) => q <= b
      BY <2>1 DEF Line
    <2>3. CASE start[q].after = a
      <3>1. \A b \in Starts : Open(b)' => ~(b < q)
        BY <1>1, <2>2, <2>3
      <3> QED
        BY <1>1, <2>1, <2>2, <3>1
    <2>4. CASE start[q].after # a
      BY <1>1, <2>1, <2>2, <2>4
    <2> QED
      BY <2>3, <2>4
  <1> QED
    BY <1>2, <1>3, <1>4, <1>5 DEF Line

\* What Ensure() and the end of a restart have in common when they launch the
\* tab: the map keeps a dead entry or none, and everyone agrees on the kind.
Launching(a, kind, existing) ==
  /\ IsNext(a) /\ kind \in Kinds
  /\ existing = None \/ (existing = sessions /\ ~Running(sessions))
  /\ starting # None => Kind(starting) = kind
  /\ panel # None => kind = panel
  /\ \A s \in Restarters : restarts[s] # None => restarts[s].kind = kind
  /\ panel' = panel
  /\ restarts' \in [Restarters -> Suspended \cup {None}]
  /\ \A s \in Restarters : restarts'[s] \in {restarts[s], None}
  /\ asked' = Serving(a, kind) /\ swept' = FALSE
  /\ dropped' \in SUBSET Starts /\ dropped \subseteq dropped'
  /\ \A g \in Starts : proc[g] = "live" => g \in dropped'

\* The start taken next is new, and comes after all that were taken.
LEMMA NextStart ==
  ASSUME IInv, NEW a \in Starts, IsNext(a)
  PROVE  /\ start[a].pc = "unused" /\ start[a].reason = None /\ proc[a] = "none"
         /\ sessions # a /\ starting # a /\ owner # a /\ asked # a
         /\ replay # None => a \notin replay
         /\ \A b \in Starts : start[b].pc = "unused" <=> a <= b
         /\ \A b \in Starts : Open(b) => b < a
  <1> USE NoneIsNothing DEF IInv
  <1>1. start[a].pc = "unused" /\ \A b \in Starts : start[b].pc = "unused" => a <= b
    BY DEF IsNext, Unused
  <1>2. \A b \in Starts : a <= b => start[b].pc = "unused"
    <2> SUFFICES ASSUME NEW b \in Starts, a <= b PROVE start[b].pc = "unused"
      OBVIOUS
    <2>1. a = b \/ a < b
      OBVIOUS
    <2> QED
      BY <1>1, <2>1 DEF Untouched
  <1>3. \A b \in Starts : Open(b) => b < a
    <2> SUFFICES ASSUME NEW b \in Starts, Open(b) PROVE b < a
      OBVIOUS
    <2>1. ~(a <= b)
      BY <1>2 DEF Open
    <2> QED
      BY <2>1
  <1>4. starting # a
    BY <1>1 DEF TypeOK
  <1> QED
    BY <1>1, <1>2, <1>3, <1>4 DEF Untouched

\* A local shell is spawned: nothing else was on its way.
LEMMA LaunchSpawns ==
  ASSUME IInv, NEW a \in Starts, NEW kind, NEW existing, Launching(a, kind, existing),
         kind = "pty", SpawnLocal(a)
  PROVE  IInv'
  <1> USE DEF IInv
  <1>a. /\ IsNext(a) /\ kind \in Kinds /\ panel' = panel /\ swept' = FALSE
        /\ existing = None \/ (existing = sessions /\ ~Running(sessions))
        /\ starting # None => start[starting].kind = kind
        /\ panel # None => kind = panel
        /\ \A s \in Restarters : restarts[s] # None => restarts[s].kind = kind
        /\ restarts' \in [Restarters -> Suspended \cup {None}]
        /\ \A s \in Restarters : restarts'[s] \in {restarts[s], None}
        /\ dropped' \in SUBSET Starts /\ dropped \subseteq dropped'
        /\ \A g \in Starts : proc[g] = "live" => g \in dropped'
    BY DEF Launching, Kind
  <1>b. /\ start[a].pc = "unused" /\ start[a].reason = None /\ proc[a] = "none"
        /\ sessions # a /\ starting # a /\ owner # a /\ asked # a
        /\ replay # None => a \notin replay
        /\ \A b \in Starts : start[b].pc = "unused" <=> a <= b
        /\ \A b \in Starts : Open(b) => b < a
    BY <1>a, NextStart
  <1>s. starting = None /\ \A b \in Starts : ~Open(b)
    BY <1>a, NoneIsNothing DEF OneKind, Line, Kind
  <1>r. /\ start' \in [Starts -> StartRecords]
        /\ start'[a].kind = "pty" /\ start'[a].pc = "settled"
        /\ start'[a].reason = None /\ start'[a].after = None
        /\ \A b \in Starts \ {a} : start'[b] = start[b]
    BY <1>a, BecameFacts DEF SpawnLocal
  <1>u. /\ proc' \in [Starts -> {"none", "live", "dying", "dead"}]
        /\ proc'[a] = "live" /\ \A b \in Starts \ {a} : proc'[b] = proc[b]
        /\ sessions' = a /\ failed' = FALSE /\ starting' = None /\ owner' = owner
        /\ replay' = (IF replay = None THEN None ELSE {}) /\ asked' = a /\ logged' = logged
    BY <1>s DEF SpawnLocal, TypeOK, Launching, Serving, Cleared
  <1>1. TypeOK'
    BY NoneIsNothing, <1>a, <1>b, <1>s, <1>r, <1>u DEF TypeOK, StartRecords
  <1>2. Untouched'
    BY NoneIsNothing, <1>a, <1>b, <1>s, <1>r, <1>u DEF Untouched, TypeOK
  <1>3. Written'
    BY NoneIsNothing, <1>a, <1>b, <1>s, <1>r, <1>u DEF Written, TypeOK
  <1>4. Line'
    BY NoneIsNothing, <1>a, <1>b, <1>s, <1>r, <1>u DEF Line, Open, TypeOK
  <1>5. OneKind'
    BY NoneIsNothing, <1>a, <1>b, <1>s, <1>r, <1>u DEF OneKind, Kind, TypeOK
  <1>6. Registered'
    BY NoneIsNothing, <1>a, <1>b, <1>s, <1>r, <1>u DEF Registered, TypeOK
  <1>7. Vacant'
    BY NoneIsNothing, <1>a, <1>b, <1>s, <1>r, <1>u DEF Vacant, Open, TypeOK
  <1>8. NoOrphan'
    BY NoneIsNothing, <1>a, <1>b, <1>s, <1>r, <1>u DEF NoOrphan, TypeOK
  <1>9. Served'
    BY NoneIsNothing, <1>a, <1>b, <1>s, <1>r, <1>u DEF Served, Idle, Reasons, TypeOK
  <1>10. OwnText'
    BY NoneIsNothing, <1>a, <1>b, <1>s, <1>r, <1>u DEF OwnText, Kind, TypeOK
  <1>11. LeftText'
    BY NoneIsNothing, <1>a, <1>b, <1>s, <1>r, <1>u DEF LeftText, Kind, Reasons, TypeOK
  <1>12. Last'
    BY NoneIsNothing, <1>a, <1>b, <1>s, <1>r, <1>u DEF Last, TypeOK
  <1> QED
    BY <1>1, <1>2, <1>3, <1>4, <1>5, <1>6, <1>7, <1>8, <1>9, <1>10, <1>11, <1>12

\* A local shell fails to spawn: the mark of the failure is what is left.
LEMMA LaunchSpawnFails ==
  ASSUME IInv, NEW a \in Starts, NEW kind, NEW existing, Launching(a, kind, existing),
         kind = "pty", SpawnLocalFails(a, existing)
  PROVE  IInv'
  <1> USE DEF IInv
  <1>a. /\ IsNext(a) /\ kind \in Kinds /\ panel' = panel /\ swept' = FALSE
        /\ existing = None \/ (existing = sessions /\ ~Running(sessions))
        /\ starting # None => start[starting].kind = kind
        /\ panel # None => kind = panel
        /\ \A s \in Restarters : restarts[s] # None => restarts[s].kind = kind
        /\ restarts' \in [Restarters -> Suspended \cup {None}]
        /\ \A s \in Restarters : restarts'[s] \in {restarts[s], None}
        /\ dropped' \in SUBSET Starts /\ dropped \subseteq dropped'
        /\ \A g \in Starts : proc[g] = "live" => g \in dropped'
    BY DEF Launching, Kind
  <1>b. /\ start[a].pc = "unused" /\ start[a].reason = None /\ proc[a] = "none"
        /\ sessions # a /\ starting # a /\ owner # a /\ asked # a
        /\ replay # None => a \notin replay
        /\ \A b \in Starts : start[b].pc = "unused" <=> a <= b
        /\ \A b \in Starts : Open(b) => b < a
    BY <1>a, NextStart
  <1>s. starting = None /\ \A b \in Starts : ~Open(b)
    BY <1>a, NoneIsNothing DEF OneKind, Line, Kind
  <1>r. /\ start' \in [Starts -> StartRecords]
        /\ start'[a].kind = "pty" /\ start'[a].pc = "settled"
        /\ start'[a].reason = None /\ start'[a].after = None
        /\ \A b \in Starts \ {a} : start'[b] = start[b]
    BY <1>a, BecameFacts DEF SpawnLocalFails
  <1>u. /\ sessions' = existing /\ failed' = TRUE /\ starting' = None /\ owner' = owner
        /\ proc' = proc /\ replay' = (IF replay = None THEN {} ELSE replay) \cup {Note}
        /\ asked' = a /\ logged' = logged
    BY <1>s DEF SpawnLocalFails, Launching, Serving, With
  <1>1. TypeOK'
    BY NoneIsNothing, <1>a, <1>b, <1>s, <1>r, <1>u DEF TypeOK, StartRecords, Running
  <1>2. Untouched'
    BY NoneIsNothing, <1>a, <1>b, <1>s, <1>r, <1>u DEF Untouched, TypeOK, Running
  <1>3. Written'
    BY NoneIsNothing, <1>a, <1>b, <1>s, <1>r, <1>u DEF Written, TypeOK, Running
  <1>4. Line'
    BY NoneIsNothing, <1>a, <1>b, <1>s, <1>r, <1>u DEF Line, Open, TypeOK, Running
  <1>5. OneKind'
    BY NoneIsNothing, <1>a, <1>b, <1>s, <1>r, <1>u DEF OneKind, Kind, TypeOK, Running
  <1>6. Registered'
    BY NoneIsNothing, <1>a, <1>b, <1>s, <1>r, <1>u DEF Registered, TypeOK, Running
  <1>7. Vacant'
    BY NoneIsNothing, <1>a, <1>b, <1>s, <1>r, <1>u DEF Vacant, Open, TypeOK, Running
  <1>8. NoOrphan'
    BY NoneIsNothing, <1>a, <1>b, <1>s, <1>r, <1>u DEF NoOrphan, TypeOK, Running
  <1>9. Served'
    BY NoneIsNothing, <1>a, <1>b, <1>s, <1>r, <1>u DEF Served, Idle, Reasons, TypeOK, Running
  <1>10. OwnText'
    <2> SUFFICES ASSUME sessions' # None, start'[sessions'].kind # "ssh", replay' # None,
                        NEW g \in replay' \ {Note, sessions'}
                 PROVE  start'[g].kind = "ssh"
      BY DEF OwnText, Kind
    <2>1. sessions' = sessions /\ sessions \in Starts \ {a}
      BY <1>a, <1>b, <1>u DEF TypeOK
    <2>2. replay # None /\ g \in replay \ {Note, sessions}
      BY <1>u, <2>1
    <2>3. g \in Starts \ {a}
      <3>1. g \in Starts \cup {Note}
        BY <2>2, Zenon DEF TypeOK
      <3>2. g # a
        BY <1>b, <2>2
      <3> QED
        BY <2>2, <3>1, <3>2
    <2> QED
      BY <1>r, <2>1, <2>2, <2>3 DEF OwnText, Kind
  <1>11. LeftText'
    BY NoneIsNothing, <1>a, <1>b, <1>s, <1>r, <1>u DEF LeftText, Kind, Reasons, TypeOK, Running
  <1>12. Last'
    BY NoneIsNothing, <1>a, <1>b, <1>s, <1>r, <1>u DEF Last, TypeOK, Running
  <1> QED
    BY <1>1, <1>2, <1>3, <1>4, <1>5, <1>6, <1>7, <1>8, <1>9, <1>10, <1>11, <1>12

\* A live start is shared: if the removal of the tab had cancelled it, there was
\* no session.
LEMMA LaunchJoins ==
  ASSUME IInv, NEW a \in Starts, NEW kind, NEW existing, Launching(a, kind, existing),
         kind # "pty", Shared, JoinStart(existing)
  PROVE  IInv'
  <1> USE DEF IInv
  <1>a. /\ IsNext(a) /\ kind \in Kinds /\ panel' = panel /\ swept' = FALSE
        /\ existing = None \/ (existing = sessions /\ ~Running(sessions))
        /\ starting # None => start[starting].kind = kind
        /\ panel # None => kind = panel
        /\ \A s \in Restarters : restarts[s] # None => restarts[s].kind = kind
        /\ restarts' \in [Restarters -> Suspended \cup {None}]
        /\ \A s \in Restarters : restarts'[s] \in {restarts[s], None}
        /\ dropped' \in SUBSET Starts /\ dropped \subseteq dropped'
        /\ \A g \in Starts : proc[g] = "live" => g \in dropped'
    BY DEF Launching, Kind
  <1>b. /\ start[a].pc = "unused" /\ start[a].reason = None /\ proc[a] = "none"
        /\ sessions # a /\ starting # a /\ owner # a /\ asked # a
        /\ replay # None => a \notin replay
        /\ \A b \in Starts : start[b].pc = "unused" <=> a <= b
        /\ \A b \in Starts : Open(b) => b < a
    BY <1>a, NextStart
  <1>s. starting \in Starts /\ Open(starting) /\ start[starting].reason # "disconnected"
    BY DEF Shared, TypeOK, Open
  <1>u. /\ sessions' = existing /\ UNCHANGED <<starting, failed, start, proc, owner, replay, logged>>
        /\ asked' = IF start[starting].reason = "removed" THEN None ELSE starting
    BY DEF JoinStart, Launching, Serving
  <1>1. TypeOK'
    BY NoneIsNothing, <1>a, <1>b, <1>s, <1>u DEF TypeOK, StartRecords, Running
  <1>2. Untouched'
    BY NoneIsNothing, <1>a, <1>b, <1>s, <1>u DEF Untouched, TypeOK, Running
  <1>3. Written'
    BY NoneIsNothing, <1>a, <1>b, <1>s, <1>u DEF Written, TypeOK, Running
  <1>4. Line'
    BY NoneIsNothing, <1>a, <1>b, <1>s, <1>u DEF Line, Open, TypeOK, Running
  <1>5. OneKind'
    BY NoneIsNothing, <1>a, <1>b, <1>s, <1>u DEF OneKind, Kind, TypeOK, Running
  <1>6. Registered'
    BY NoneIsNothing, <1>a, <1>b, <1>s, <1>u DEF Registered, TypeOK, Running
  <1>7. Vacant'
    BY NoneIsNothing, <1>a, <1>b, <1>s, <1>u DEF Vacant, Open, TypeOK, Running
  <1>8. NoOrphan'
    BY NoneIsNothing, <1>a, <1>b, <1>s, <1>u DEF NoOrphan, TypeOK, Running
  <1>9. Served'
    BY NoneIsNothing, <1>a, <1>b, <1>s, <1>u DEF Served, Idle, Reasons, TypeOK, Running
  <1>10. OwnText'
    BY NoneIsNothing, <1>a, <1>b, <1>s, <1>u DEF OwnText, Kind, TypeOK, Running
  <1>11. LeftText'
    <2> SUFFICES ASSUME replay # None, NEW g \in replay \ {Note}, proc[g] = "dead", Kind(g) # "ssh"
                 PROVE  \/ g \in dropped' \/ sessions' # None \/ failed
                        \/ start[starting].pc = "connecting" \/ \E b \in logged : g < b
      BY <1>s, <1>u, NoneIsNothing DEF LeftText, Kind
    <2>1. sessions # None => start[starting].pc = "connecting"
      BY <1>s DEF Vacant
    <2> QED
      BY <1>a, <2>1 DEF LeftText
  <1>12. Last'
    BY NoneIsNothing, <1>a, <1>b, <1>s, <1>u DEF Last, TypeOK, Running
  <1> QED
    BY <1>1, <1>2, <1>3, <1>4, <1>5, <1>6, <1>7, <1>8, <1>9, <1>10, <1>11, <1>12

\* A disconnected start is waited for: there is no session.
LEMMA LaunchQueues ==
  ASSUME IInv, NEW a \in Starts, NEW kind, NEW existing, Launching(a, kind, existing),
         kind # "pty", ~Shared, Behind, QueueStart(a, kind, existing)
  PROVE  IInv'
  <1> USE DEF IInv
  <1>a. /\ IsNext(a) /\ kind \in Kinds /\ panel' = panel /\ swept' = FALSE
        /\ existing = None \/ (existing = sessions /\ ~Running(sessions))
        /\ starting # None => start[starting].kind = kind
        /\ panel # None => kind = panel
        /\ \A s \in Restarters : restarts[s] # None => restarts[s].kind = kind
        /\ restarts' \in [Restarters -> Suspended \cup {None}]
        /\ \A s \in Restarters : restarts'[s] \in {restarts[s], None}
        /\ dropped' \in SUBSET Starts /\ dropped \subseteq dropped'
        /\ \A g \in Starts : proc[g] = "live" => g \in dropped'
    BY DEF Launching, Kind
  <1>b. /\ start[a].pc = "unused" /\ start[a].reason = None /\ proc[a] = "none"
        /\ sessions # a /\ starting # a /\ owner # a /\ asked # a
        /\ replay # None => a \notin replay
        /\ \A b \in Starts : start[b].pc = "unused" <=> a <= b
        /\ \A b \in Starts : Open(b) => b < a
    BY <1>a, NextStart
  <1>s. /\ starting \in Starts /\ Open(starting) /\ start[starting].reason = "disconnected"
        /\ sessions = None
    BY NoneIsNothing DEF Behind, TypeOK, Open, Vacant, Reasons
  <1>r. /\ start' \in [Starts -> StartRecords]
        /\ start'[a].kind = kind /\ start'[a].pc = "queued"
        /\ start'[a].reason = None /\ start'[a].after = starting
        /\ \A b \in Starts \ {a} : start'[b] = start[b]
    BY <1>a, <1>s, BecameFacts DEF QueueStart
  <1>u. /\ sessions' = None /\ starting' = a /\ UNCHANGED <<failed, proc, owner, replay, logged>>
        /\ asked' = a
    BY <1>a, <1>s DEF QueueStart, Launching, Serving
  <1>1. TypeOK'
    BY NoneIsNothing, <1>a, <1>b, <1>s, <1>r, <1>u DEF TypeOK, StartRecords, Running
  <1>2. Untouched'
    BY NoneIsNothing, <1>a, <1>b, <1>s, <1>r, <1>u DEF Untouched, TypeOK, Running
  <1>3. Written'
    BY NoneIsNothing, <1>a, <1>b, <1>s, <1>r, <1>u DEF Written, TypeOK, Running
  <1>4. Line'
    <2>1. \A b \in Starts : Open(b)' <=> b = a \/ Open(b)
      BY <1>r DEF Open
    <2>2. \A b \in Starts : Open(b) => b # a /\ b <= starting /\ start'[b] = start[b]
      BY <1>b, <1>r, NoneIsNothing DEF Line
    <2>3. \A b \in Starts : Open(b)' => starting' # None /\ b <= starting'
      BY <1>b, <1>u, <2>1, NoneIsNothing
    <2>4. \A b \in Starts : Open(b)' /\ b # starting' => start'[b].reason = "disconnected"
      BY <1>s, <1>u, <2>1, <2>2 DEF Line
    <2>5. \A b \in Starts : start'[b].pc = "connecting" => \A c \in Starts : Open(c)' => b <= c
      <3> SUFFICES ASSUME NEW b \in Starts, start'[b].pc = "connecting", NEW c \in Starts, Open(c)'
                   PROVE  b <= c
        OBVIOUS
      <3>1. b # a /\ start[b].pc = "connecting" /\ b < a
        BY <1>b, <1>r DEF Open
      <3> QED
        BY <2>1, <3>1, NoneIsNothing DEF Line
    <2>6. ASSUME NEW q \in Starts, start'[q].pc = "queued"
          PROVE  /\ start'[q].after \in Starts /\ start'[q].after < q
                 /\ \A b \in Starts : Open(b)' /\ b < q => b <= start'[q].after
                 /\ start'[start'[q].after].pc = "settled" => \A b \in Starts : Open(b)' => q <= b
      <3>1. CASE q = a
        <4>1. starting < a /\ starting # a /\ start'[starting].pc # "settled"
          BY <1>b, <1>r, <1>s DEF Open
        <4>2. \A b \in Starts : Open(b)' /\ b < a => b <= starting
          BY <2>1, <2>2, NoneIsNothing
        <4> QED
          BY <1>r, <1>s, <3>1, <4>1, <4>2
      <3>2. CASE q # a
        <4>1. start[q].pc = "queued" /\ start'[q] = start[q] /\ q < a
          BY <1>b, <1>r, <2>6, <3>2 DEF Open
        <4>2. /\ start[q].after \in Starts /\ start[q].after < q
              /\ \A b \in Starts : Open(b) /\ b < q => b <= start[q].after
              /\ start[start[q].after].pc = "settled" => \A b \in Starts : Open(b) => q <= b
          BY <4>1 DEF Line
        <4>3. start[q].after # a /\ q <= a /\ ~(a < q)
          BY <4>1, <4>2, NoneIsNothing
        <4>4. start'[start[q].after] = start[start[q].after]
          BY <1>r, <4>2, <4>3
        <4> QED
          BY <2>1, <4>1, <4>2, <4>3, <4>4
      <3> QED
        BY <3>1, <3>2
    <2> QED
      BY <2>3, <2>4, <2>5, <2>6 DEF Line
  <1>5. OneKind'
    BY NoneIsNothing, <1>a, <1>b, <1>s, <1>r, <1>u DEF OneKind, Kind, TypeOK, Running
  <1>6. Registered'
    BY NoneIsNothing, <1>a, <1>b, <1>s, <1>r, <1>u DEF Registered, TypeOK, Running
  <1>7. Vacant'
    BY NoneIsNothing, <1>a, <1>b, <1>s, <1>r, <1>u DEF Vacant, Open, TypeOK, Running
  <1>8. NoOrphan'
    BY NoneIsNothing, <1>a, <1>b, <1>s, <1>r, <1>u DEF NoOrphan, TypeOK, Running
  <1>9. Served'
    BY NoneIsNothing, <1>a, <1>b, <1>s, <1>r, <1>u DEF Served, Idle, Reasons, TypeOK, Running
  <1>10. OwnText'
    BY NoneIsNothing, <1>a, <1>b, <1>s, <1>r, <1>u DEF OwnText, Kind, TypeOK, Running
  <1>11. LeftText'
    <2> SUFFICES ASSUME replay # None, NEW g \in replay \ {Note}, proc[g] = "dead", start'[g].kind # "ssh"
                 PROVE  g \in dropped' \/ failed \/ \E b \in logged : g < b
      BY <1>u DEF LeftText, Kind
    <2>1. g \in Starts \ {a}
      <3>1. g \in Starts \cup {Note}
        BY Zenon DEF TypeOK
      <3>2. g # a
        BY <1>b
      <3> QED
        BY <3>1, <3>2
    <2>2. start'[g] = start[g]
      BY <1>r, <2>1
    <2> QED
      BY <1>a, <1>s, <2>2 DEF LeftText, Kind
  <1>12. Last'
    BY NoneIsNothing, <1>a, <1>b, <1>s, <1>r, <1>u DEF Last, TypeOK, Running
  <1> QED
    BY <1>1, <1>2, <1>3, <1>4, <1>5, <1>6, <1>7, <1>8, <1>9, <1>10, <1>11, <1>12

\* Nothing is on its way, and a start of its own begins.
LEMMA LaunchBegins ==
  ASSUME IInv, NEW a \in Starts, NEW kind, NEW existing, Launching(a, kind, existing),
         kind # "pty", ~Shared, ~Behind, BeginStart(a, kind, existing)
  PROVE  IInv'
  <1> USE DEF IInv
  <1>a. /\ IsNext(a) /\ kind \in Kinds /\ panel' = panel /\ swept' = FALSE
        /\ existing = None \/ (existing = sessions /\ ~Running(sessions))
        /\ starting # None => start[starting].kind = kind
        /\ panel # None => kind = panel
        /\ \A s \in Restarters : restarts[s] # None => restarts[s].kind = kind
        /\ restarts' \in [Restarters -> Suspended \cup {None}]
        /\ \A s \in Restarters : restarts'[s] \in {restarts[s], None}
        /\ dropped' \in SUBSET Starts /\ dropped \subseteq dropped'
        /\ \A g \in Starts : proc[g] = "live" => g \in dropped'
    BY DEF Launching, Kind
  <1>b. /\ start[a].pc = "unused" /\ start[a].reason = None /\ proc[a] = "none"
        /\ sessions # a /\ starting # a /\ owner # a /\ asked # a
        /\ replay # None => a \notin replay
        /\ \A b \in Starts : start[b].pc = "unused" <=> a <= b
        /\ \A b \in Starts : Open(b) => b < a
    BY <1>a, NextStart
  <1>s. starting = None /\ \A b \in Starts : ~Open(b)
    BY NoneIsNothing DEF Shared, Behind, Line
  <1>r. /\ start' \in [Starts -> StartRecords]
        /\ start'[a].kind = kind /\ start'[a].pc = "connecting"
        /\ start'[a].reason = None /\ start'[a].after = None
        /\ \A b \in Starts \ {a} : start'[b] = start[b]
    BY <1>a, BecameFacts DEF BeginStart
  <1>u. /\ sessions' = existing /\ starting' = a /\ UNCHANGED <<failed, proc, logged>>
        /\ owner' \in {a, owner}
        /\ replay' = replay \/ replay' = (IF replay = None THEN None ELSE {})
        /\ asked' = a
    BY <1>a, <1>s DEF BeginStart, Launching, Serving, Cleared
  <1>1. TypeOK'
    BY NoneIsNothing, <1>a, <1>b, <1>s, <1>r, <1>u DEF TypeOK, StartRecords, Running
  <1>2. Untouched'
    BY NoneIsNothing, <1>a, <1>b, <1>s, <1>r, <1>u DEF Untouched, TypeOK, Running
  <1>3. Written'
    BY NoneIsNothing, <1>a, <1>b, <1>s, <1>r, <1>u DEF Written, TypeOK, Running
  <1>4. Line'
    BY NoneIsNothing, <1>a, <1>b, <1>s, <1>r, <1>u DEF Line, Open, TypeOK, Running
  <1>5. OneKind'
    BY NoneIsNothing, <1>a, <1>b, <1>s, <1>r, <1>u DEF OneKind, Kind, TypeOK, Running
  <1>6. Registered'
    BY NoneIsNothing, <1>a, <1>b, <1>s, <1>r, <1>u DEF Registered, TypeOK, Running
  <1>7. Vacant'
    BY NoneIsNothing, <1>a, <1>b, <1>s, <1>r, <1>u DEF Vacant, Open, TypeOK, Running
  <1>8. NoOrphan'
    BY NoneIsNothing, <1>a, <1>b, <1>s, <1>r, <1>u DEF NoOrphan, TypeOK, Running
  <1>9. Served'
    BY NoneIsNothing, <1>a, <1>b, <1>s, <1>r, <1>u DEF Served, Idle, Reasons, TypeOK, Running
  <1>10. OwnText'
    <2> SUFFICES ASSUME sessions' # None, start'[sessions'].kind # "ssh", replay' # None,
                        NEW g \in replay' \ {Note, sessions'}
                 PROVE  start'[g].kind = "ssh"
      BY DEF OwnText, Kind
    <2>1. sessions' = sessions /\ sessions \in Starts \ {a}
      BY <1>a, <1>b, <1>u DEF TypeOK
    <2>2. replay # None /\ g \in replay \ {Note, sessions}
      BY <1>u, <2>1
    <2>3. g \in Starts \ {a}
      <3>1. g \in Starts \cup {Note}
        BY <2>2, Zenon DEF TypeOK
      <3>2. g # a
        BY <1>b, <2>2
      <3> QED
        BY <2>2, <3>1, <3>2
    <2> QED
      BY <1>r, <2>1, <2>2, <2>3 DEF OwnText, Kind
  <1>11. LeftText'
    BY NoneIsNothing, <1>a, <1>b, <1>s, <1>r, <1>u DEF LeftText, Kind, Reasons, TypeOK, Running
  <1>12. Last'
    BY NoneIsNothing, <1>a, <1>b, <1>s, <1>r, <1>u DEF Last, TypeOK, Running
  <1> QED
    BY <1>1, <1>2, <1>3, <1>4, <1>5, <1>6, <1>7, <1>8, <1>9, <1>10, <1>11, <1>12

\* The saved host is gone: the start is over, and the log tells.
LEMMA LaunchHostGone ==
  ASSUME IInv, NEW a \in Starts, NEW kind, NEW existing, Launching(a, kind, existing),
         kind # "pty", ~Shared, ~Behind, HostGone(a, kind, existing)
  PROVE  IInv'
  <1> USE DEF IInv
  <1>a. /\ IsNext(a) /\ kind \in Kinds /\ panel' = panel /\ swept' = FALSE
        /\ existing = None \/ (existing = sessions /\ ~Running(sessions))
        /\ starting # None => start[starting].kind = kind
        /\ panel # None => kind = panel
        /\ \A s \in Restarters : restarts[s] # None => restarts[s].kind = kind
        /\ restarts' \in [Restarters -> Suspended \cup {None}]
        /\ \A s \in Restarters : restarts'[s] \in {restarts[s], None}
        /\ dropped' \in SUBSET Starts /\ dropped \subseteq dropped'
        /\ \A g \in Starts : proc[g] = "live" => g \in dropped'
    BY DEF Launching, Kind
  <1>b. /\ start[a].pc = "unused" /\ start[a].reason = None /\ proc[a] = "none"
        /\ sessions # a /\ starting # a /\ owner # a /\ asked # a
        /\ replay # None => a \notin replay
        /\ \A b \in Starts : start[b].pc = "unused" <=> a <= b
        /\ \A b \in Starts : Open(b) => b < a
    BY <1>a, NextStart
  <1>s. starting = None /\ \A b \in Starts : ~Open(b)
    BY NoneIsNothing DEF Shared, Behind, Line
  <1>r. /\ start' \in [Starts -> StartRecords]
        /\ start'[a].kind = kind /\ start'[a].pc = "settled"
        /\ start'[a].reason = None /\ start'[a].after = None
        /\ \A b \in Starts \ {a} : start'[b] = start[b]
    BY <1>a, BecameFacts DEF HostGone
  <1>u. /\ sessions' = existing /\ starting' = None /\ UNCHANGED <<failed, proc, owner, replay>>
        /\ logged' = logged \cup {a} /\ asked' = a
    BY <1>a, <1>s DEF HostGone, Launching, Serving
  <1>1. TypeOK'
    BY NoneIsNothing, <1>a, <1>b, <1>s, <1>r, <1>u DEF TypeOK, StartRecords, Running
  <1>2. Untouched'
    BY NoneIsNothing, <1>a, <1>b, <1>s, <1>r, <1>u DEF Untouched, TypeOK, Running
  <1>3. Written'
    BY NoneIsNothing, <1>a, <1>b, <1>s, <1>r, <1>u DEF Written, TypeOK, Running
  <1>4. Line'
    BY NoneIsNothing, <1>a, <1>b, <1>s, <1>r, <1>u DEF Line, Open, TypeOK, Running
  <1>5. OneKind'
    BY NoneIsNothing, <1>a, <1>b, <1>s, <1>r, <1>u DEF OneKind, Kind, TypeOK, Running
  <1>6. Registered'
    BY NoneIsNothing, <1>a, <1>b, <1>s, <1>r, <1>u DEF Registered, TypeOK, Running
  <1>7. Vacant'
    BY NoneIsNothing, <1>a, <1>b, <1>s, <1>r, <1>u DEF Vacant, Open, TypeOK, Running
  <1>8. NoOrphan'
    BY NoneIsNothing, <1>a, <1>b, <1>s, <1>r, <1>u DEF NoOrphan, TypeOK, Running
  <1>9. Served'
    BY NoneIsNothing, <1>a, <1>b, <1>s, <1>r, <1>u DEF Served, Idle, Reasons, TypeOK, Running
  <1>10. OwnText'
    <2> SUFFICES ASSUME sessions' # None, start'[sessions'].kind # "ssh", replay' # None,
                        NEW g \in replay' \ {Note, sessions'}
                 PROVE  start'[g].kind = "ssh"
      BY DEF OwnText, Kind
    <2>1. sessions' = sessions /\ sessions \in Starts \ {a}
      BY <1>a, <1>b, <1>u DEF TypeOK
    <2>2. replay # None /\ g \in replay \ {Note, sessions}
      BY <1>u, <2>1
    <2>3. g \in Starts \ {a}
      <3>1. g \in Starts \cup {Note}
        BY <2>2, Zenon DEF TypeOK
      <3>2. g # a
        BY <1>b, <2>2
      <3> QED
        BY <2>2, <3>1, <3>2
    <2> QED
      BY <1>r, <2>1, <2>2, <2>3 DEF OwnText, Kind
  <1>11. LeftText'
    <2>1. ASSUME replay # None, NEW g \in replay \ {Note}, proc[g] = "dead" PROVE g < a
      <3>1. g \in Starts
        BY <2>1, Zenon DEF TypeOK
      <3>2. start[g].pc # "unused"
        BY <2>1, <3>1 DEF Untouched
      <3> QED
        BY <1>b, <3>1, <3>2, NoneIsNothing
    <2> QED
      BY <1>u, <2>1 DEF LeftText
  <1>12. Last'
    BY NoneIsNothing, <1>a, <1>b, <1>s, <1>r, <1>u DEF Last, TypeOK, Running
  <1> QED
    BY <1>1, <1>2, <1>3, <1>4, <1>5, <1>6, <1>7, <1>8, <1>9, <1>10, <1>11, <1>12

\* Whatever a launch comes to.
LEMMA LaunchStep ==
  ASSUME IInv, NEW a \in Starts, NEW kind, NEW existing, Launching(a, kind, existing),
         Launch(a, kind, existing)
  PROVE  IInv'
  BY LaunchSpawns, LaunchSpawnFails, LaunchJoins, LaunchQueues, LaunchBegins, LaunchHostGone
  DEF Launch

\* The two that launch: an activation with no running session, and the end of a
\* restart, which drops the entry of the map.
LEMMA EnsureStep ==
  ASSUME IInv, NEW a \in Starts, Ensure(a)
  PROVE  IInv'
  <1> USE DEF IInv
  <1>1. panel \in Kinds /\ ~Running(sessions) /\ swept = FALSE
    BY DEF Ensure, TypeOK, Served
  <1>2. \A g \in Starts : proc[g] = "live" => g \in dropped
    BY <1>1, NoneIsNothing DEF NoOrphan, Running
  <1>3. Launching(a, panel, sessions)
    BY <1>1, <1>2 DEF Launching, Ensure, OneKind, Kind, TypeOK
  <1> QED
    BY <1>3, LaunchStep DEF Ensure

LEMMA RestartResumesStep ==
  ASSUME IInv, NEW r \in Restarters, NEW a \in Starts, RestartResumes(r, a)
  PROVE  IInv'
  <1> USE DEF IInv
  <1>1. restarts[r] \in Suspended /\ restarts[r] # None
    BY DEF RestartResumes, TypeOK
  <1>2. restarts[r].kind \in Kinds
    BY <1>1 DEF Suspended
  <1>3. /\ restarts' \in [Restarters -> Suspended \cup {None}]
        /\ \A s \in Restarters : restarts'[s] \in {restarts[s], None}
    BY DEF RestartResumes, TypeOK
  <1>4. \A g \in Starts : proc[g] = "live" => g \in dropped'
    BY DEF RestartResumes, NoOrphan
  <1>5. /\ starting # None => Kind(starting) = restarts[r].kind
        /\ panel # None => restarts[r].kind = panel
        /\ \A s \in Restarters : restarts[s] # None => restarts[s].kind = restarts[r].kind
    BY <1>1 DEF OneKind
  <1>6. dropped' \in SUBSET Starts /\ dropped \subseteq dropped'
    BY DEF RestartResumes, TypeOK
  <1>7. /\ IsNext(a) /\ panel' = panel /\ swept' = FALSE
        /\ asked' = Serving(a, restarts[r].kind)
    BY DEF RestartResumes
  <1>8. Launching(a, restarts[r].kind, None)
    BY <1>2, <1>3, <1>4, <1>5, <1>6, <1>7 DEF Launching
  <1> QED
    BY <1>8, LaunchStep DEF RestartResumes

\* A queued start that was superseded or cancelled goes.
LEMMA QueuedGivesUp ==
  ASSUME IInv, NEW a \in Starts, ResumeQueued(a), Settled(a), starting' = Left(a),
         starting # a \/ Cancelled(a) \/ Running(sessions),
         UNCHANGED <<sessions, failed, proc, owner, replay, logged>>
  PROVE  IInv'
  <1> USE DEF IInv
  <1>h. /\ Open(a) /\ \A b \in Starts : Open(b) => a <= b
        /\ starting \in Starts /\ sessions = None
        /\ starting = a => \A b \in Starts : Open(b) => b = a
        /\ start[a].pc = "queued"
        /\ starting # a \/ start[a].reason # None
    BY NextIsHead DEF ResumeQueued, NextInLine, TypeOK, Cancelled, Running
  <1>r. /\ start' \in [Starts -> StartRecords] /\ start'[a].pc = "settled"
        /\ \A b \in Starts \ {a} : start'[b].pc = start[b].pc
        /\ \A b \in Starts : /\ start'[b].kind = start[b].kind
                             /\ start'[b].reason = start[b].reason
                             /\ start'[b].after = start[b].after
    BY SettledFacts DEF ResumeQueued
  <1>u. /\ starting' = IF starting = a THEN None ELSE starting
        /\ UNCHANGED <<sessions, failed, proc, owner, replay, panel, restarts, asked, swept, dropped, logged>>
    BY DEF Left, ResumeQueued
  <1>1. TypeOK'
    BY NoneIsNothing, <1>h, <1>r, <1>u DEF TypeOK, StartRecords
  <1>2. Untouched'
    BY NoneIsNothing, <1>h, <1>r, <1>u DEF Untouched, TypeOK
  <1>3. Written'
    BY NoneIsNothing, <1>h, <1>r, <1>u DEF Written, TypeOK
  <1>4. Line'
    BY <1>h, <1>r, <1>u, HeadLeaves
  <1>5. OneKind'
    BY NoneIsNothing, <1>h, <1>r, <1>u DEF OneKind, Kind, TypeOK
  <1>6. Registered'
    <2>1. owner' = owner /\ (owner # None => owner \in Starts)
      BY <1>u DEF TypeOK
    <2> QED
      BY <1>r, <2>1 DEF Registered
  <1>7. Vacant'
    BY NoneIsNothing, <1>h, <1>r, <1>u DEF Vacant, Open, TypeOK
  <1>8. NoOrphan'
    BY NoneIsNothing, <1>h, <1>r, <1>u DEF NoOrphan, TypeOK
  <1>9. Served'
    BY NoneIsNothing, <1>h, <1>r, <1>u DEF Served, Idle, Reasons, TypeOK
  <1>10. OwnText'
    BY NoneIsNothing, <1>h, <1>r, <1>u DEF OwnText, Kind, TypeOK
  <1>11. LeftText'
    <2> SUFFICES ASSUME replay # None, NEW g \in replay \ {Note}, proc[g] = "dead", Kind(g)' # "ssh"
                 PROVE  \/ g \in dropped \/ sessions # None \/ failed
                        \/ /\ starting' # None /\ start'[starting'].pc = "connecting"
                           /\ start'[starting'].reason # "disconnected"
                        \/ \E b \in logged : g < b
      BY <1>u DEF LeftText
    <2>1. g \in Starts
      BY Zenon DEF TypeOK
    <2>2. Kind(g) # "ssh"
      BY <1>r, <2>1 DEF Kind
    <2>3. CASE starting = a
      BY <1>h, <2>2, <2>3 DEF LeftText
    <2>4. CASE starting # a
      <3>1. starting' = starting /\ start'[starting].pc = start[starting].pc
            /\ start'[starting].reason = start[starting].reason
        BY <1>h, <1>r, <1>u, <2>4
      <3> QED
        BY <1>h, <2>2, <3>1 DEF LeftText
    <2> QED
      BY <2>3, <2>4
  <1>12. Last'
    BY NoneIsNothing, <1>h, <1>r, <1>u DEF Last, TypeOK
  <1> QED
    BY <1>1, <1>2, <1>3, <1>4, <1>5, <1>6, <1>7, <1>8, <1>9, <1>10, <1>11, <1>12

\* A queued start begins: nothing else is on its way, and no session runs.
LEMMA QueuedBegins ==
  ASSUME IInv, NEW a \in Starts, ResumeQueued(a), starting = a, ~Cancelled(a),
         BeginStart(a, Kind(a), sessions)
  PROVE  IInv'
  <1> USE DEF IInv
  <1>h. /\ sessions = None /\ \A b \in Starts : Open(b) <=> b = a
        /\ start[a].reason = None /\ start[a].pc = "queued"
        /\ start[a].kind \in Kinds
    BY NextIsHead, NoneIsNothing DEF ResumeQueued, NextInLine, Cancelled, OneKind, Kind
  <1>r. /\ start' \in [Starts -> StartRecords]
        /\ start'[a].kind = start[a].kind /\ start'[a].pc = "connecting"
        /\ start'[a].reason = None /\ start'[a].after = None
        /\ \A b \in Starts \ {a} : start'[b] = start[b]
    BY <1>h, BecameFacts DEF BeginStart, Kind
  <1>u. /\ sessions' = None /\ starting' = a /\ owner' \in {a, owner}
        /\ replay' = replay \/ replay' = (IF replay = None THEN None ELSE {})
        /\ UNCHANGED <<failed, proc, panel, restarts, asked, swept, dropped, logged>>
    BY <1>h DEF BeginStart, ResumeQueued, Cleared
  <1>1. TypeOK'
    BY NoneIsNothing, <1>h, <1>r, <1>u DEF TypeOK, StartRecords
  <1>2. Untouched'
    BY NoneIsNothing, <1>h, <1>r, <1>u DEF Untouched, TypeOK
  <1>3. Written'
    BY NoneIsNothing, <1>h, <1>r, <1>u DEF Written, TypeOK
  <1>4. Line'
    BY NoneIsNothing, <1>h, <1>r, <1>u DEF Line, Open, TypeOK
  <1>5. OneKind'
    BY NoneIsNothing, <1>h, <1>r, <1>u DEF OneKind, Kind, TypeOK
  <1>6. Registered'
    BY NoneIsNothing, <1>h, <1>r, <1>u DEF Registered, TypeOK
  <1>7. Vacant'
    BY NoneIsNothing, <1>h, <1>r, <1>u DEF Vacant, Open, TypeOK
  <1>8. NoOrphan'
    BY NoneIsNothing, <1>h, <1>r, <1>u DEF NoOrphan, TypeOK
  <1>9. Served'
    BY NoneIsNothing, <1>h, <1>r, <1>u DEF Served, Idle, Reasons, TypeOK
  <1>10. OwnText'
    BY NoneIsNothing, <1>h, <1>r, <1>u DEF OwnText, Kind, TypeOK
  <1>11. LeftText'
    BY NoneIsNothing, <1>h, <1>r, <1>u DEF LeftText, Kind, Reasons, TypeOK
  <1>12. Last'
    BY NoneIsNothing, <1>h, <1>r, <1>u DEF Last, TypeOK
  <1> QED
    BY <1>1, <1>2, <1>3, <1>4, <1>5, <1>6, <1>7, <1>8, <1>9, <1>10, <1>11, <1>12

\* Its host is gone: the queued start is over, and the log tells.
LEMMA QueuedHostGone ==
  ASSUME IInv, NEW a \in Starts, ResumeQueued(a), starting = a, ~Cancelled(a),
         HostGone(a, Kind(a), sessions)
  PROVE  IInv'
  <1> USE DEF IInv
  <1>h. /\ sessions = None /\ \A b \in Starts : Open(b) <=> b = a
        /\ start[a].reason = None /\ start[a].pc = "queued"
        /\ start[a].kind \in Kinds
    BY NextIsHead, NoneIsNothing DEF ResumeQueued, NextInLine, Cancelled, OneKind, Kind
  <1>r. /\ start' \in [Starts -> StartRecords]
        /\ start'[a].kind = start[a].kind /\ start'[a].pc = "settled"
        /\ start'[a].reason = None /\ start'[a].after = None
        /\ \A b \in Starts \ {a} : start'[b] = start[b]
    BY <1>h, BecameFacts DEF HostGone, Kind
  <1>u. /\ sessions' = None /\ starting' = None /\ logged' = logged \cup {a}
        /\ UNCHANGED <<failed, proc, owner, replay, panel, restarts, asked, swept, dropped>>
    BY <1>h DEF HostGone, ResumeQueued
  <1>1. TypeOK'
    BY NoneIsNothing, <1>h, <1>r, <1>u DEF TypeOK, StartRecords
  <1>2. Untouched'
    BY NoneIsNothing, <1>h, <1>r, <1>u DEF Untouched, TypeOK
  <1>3. Written'
    BY NoneIsNothing, <1>h, <1>r, <1>u DEF Written, TypeOK
  <1>4. Line'
    BY NoneIsNothing, <1>h, <1>r, <1>u DEF Line, Open, TypeOK
  <1>5. OneKind'
    BY NoneIsNothing, <1>h, <1>r, <1>u DEF OneKind, Kind, TypeOK
  <1>6. Registered'
    BY NoneIsNothing, <1>h, <1>r, <1>u DEF Registered, TypeOK
  <1>7. Vacant'
    BY NoneIsNothing, <1>h, <1>r, <1>u DEF Vacant, Open, TypeOK
  <1>8. NoOrphan'
    BY NoneIsNothing, <1>h, <1>r, <1>u DEF NoOrphan, TypeOK
  <1>9. Served'
    BY NoneIsNothing, <1>h, <1>r, <1>u DEF Served, Idle, Reasons, TypeOK
  <1>10. OwnText'
    BY NoneIsNothing, <1>h, <1>r, <1>u DEF OwnText, Kind, TypeOK
  <1>11. LeftText'
    <2>1. ASSUME replay # None, NEW g \in replay \ {Note}, proc[g] = "dead", starting = a PROVE g < a
      <3>1. g \in Starts
        BY <2>1, Zenon DEF TypeOK
      <3>2. start[g].pc # "unused" /\ g # a
        BY <2>1, <3>1, NoneIsNothing DEF Untouched, Last
      <3>3. ~(a < g)
        BY <2>1, <3>1, <3>2, NoneIsNothing DEF Last
      <3> QED
        BY <3>1, <3>2, <3>3, NoneIsNothing
    <2> QED
      BY <1>u, <2>1 DEF LeftText
  <1>12. Last'
    BY NoneIsNothing, <1>h, <1>r, <1>u DEF Last, TypeOK
  <1> QED
    BY <1>1, <1>2, <1>3, <1>4, <1>5, <1>6, <1>7, <1>8, <1>9, <1>10, <1>11, <1>12

LEMMA ResumeQueuedStep ==
  ASSUME IInv, NEW a \in Starts, ResumeQueued(a)
  PROVE  IInv'
  BY QueuedGivesUp, QueuedBegins, QueuedHostGone DEF ResumeQueued

\* Texts, output and ends of processes.
LEMMA DialStep ==
  ASSUME IInv, NEW a \in Starts, Dial(a)
  PROVE  IInv'
  <1> USE DEF IInv
  <1>u. /\ replay' = (IF replay = None THEN {} ELSE replay) \cup {Note}
        /\ UNCHANGED <<panel, sessions, starting, failed, start, proc, owner, restarts, asked, swept,
                       dropped, logged>>
    BY DEF Dial, With, manager
  <1>1. TypeOK'
    BY NoneIsNothing, <1>u DEF TypeOK, StartRecords
  <1>2. Untouched'
    BY NoneIsNothing, <1>u DEF Untouched, TypeOK
  <1>3. Written'
    BY NoneIsNothing, <1>u DEF Written, TypeOK
  <1>4. Line'
    BY NoneIsNothing, <1>u DEF Line, Open, TypeOK
  <1>5. OneKind'
    BY NoneIsNothing, <1>u DEF OneKind, Kind, TypeOK
  <1>6. Registered'
    BY NoneIsNothing, <1>u DEF Registered, TypeOK
  <1>7. Vacant'
    BY NoneIsNothing, <1>u DEF Vacant, Open, TypeOK
  <1>8. NoOrphan'
    BY NoneIsNothing, <1>u DEF NoOrphan, TypeOK
  <1>9. Served'
    BY NoneIsNothing, <1>u DEF Served, Idle, Reasons, TypeOK
  <1>10. OwnText'
    BY NoneIsNothing, <1>u DEF OwnText, Kind, TypeOK
  <1>11. LeftText'
    BY NoneIsNothing, <1>u DEF LeftText, Kind, Reasons, TypeOK
  <1>12. Last'
    BY NoneIsNothing, <1>u DEF Last, TypeOK
  <1> QED
    BY <1>1, <1>2, <1>3, <1>4, <1>5, <1>6, <1>7, <1>8, <1>9, <1>10, <1>11, <1>12

\* The connection is up: its start is the only one on its way.
LEMMA ConnectedStep ==
  ASSUME IInv, NEW a \in Starts, Connected(a)
  PROVE  IInv'
  <1> USE DEF IInv
  <1>h. /\ Open(a) /\ \A b \in Starts : Open(b) => a <= b
        /\ starting \in Starts
        /\ start[a].reason = None => starting = a
        /\ starting = a => \A b \in Starts : Open(b) => b = a
    BY ConnectingIsHead DEF Connected, TypeOK
  <1>o. /\ owner = a /\ start[a].reason = None /\ starting = a
        /\ start[a].kind = "ssh" /\ start[a].pc = "connecting"
    BY <1>h, NoneIsNothing DEF Connected, Registered, Kind
  <1>r. /\ start' \in [Starts -> StartRecords] /\ start'[a].pc = "settled"
        /\ \A b \in Starts \ {a} : start'[b].pc = start[b].pc
        /\ \A b \in Starts : /\ start'[b].kind = start[b].kind
                             /\ start'[b].reason = start[b].reason
                             /\ start'[b].after = start[b].after
    BY SettledFacts DEF Connected
  <1>u. /\ starting' = None /\ sessions' = a /\ failed' = FALSE
        /\ proc' \in [Starts -> {"none", "live", "dying", "dead"}]
        /\ proc'[a] = "live" /\ \A b \in Starts \ {a} : proc'[b] = proc[b]
        /\ UNCHANGED <<panel, owner, replay, restarts, asked, swept, dropped, logged>>
    BY <1>o DEF Connected, Left, TypeOK
  <1>1. TypeOK'
    BY NoneIsNothing, <1>h, <1>o, <1>r, <1>u DEF TypeOK, StartRecords
  <1>2. Untouched'
    BY NoneIsNothing, <1>h, <1>o, <1>r, <1>u DEF Untouched, TypeOK
  <1>3. Written'
    BY NoneIsNothing, <1>h, <1>o, <1>r, <1>u DEF Written, TypeOK
  <1>4. Line'
    BY <1>h, <1>r, <1>u, <1>o, HeadLeaves
  <1>5. OneKind'
    BY NoneIsNothing, <1>h, <1>o, <1>r, <1>u DEF OneKind, Kind, TypeOK
  <1>6. Registered'
    BY NoneIsNothing, <1>h, <1>o, <1>r, <1>u DEF Registered, TypeOK
  <1>7. Vacant'
    BY NoneIsNothing, <1>h, <1>o, <1>r, <1>u DEF Vacant, Open, TypeOK
  <1>8. NoOrphan'
    <2>1. \A g \in Starts : proc[g] = "live" => g \in dropped
      BY <1>h, NoneIsNothing DEF NoOrphan, Vacant
    <2> QED
      BY <1>u, <2>1 DEF NoOrphan
  <1>9. Served'
    BY NoneIsNothing, <1>h, <1>o, <1>r, <1>u DEF Served, Idle, Reasons, TypeOK
  <1>10. OwnText'
    BY NoneIsNothing, <1>h, <1>o, <1>r, <1>u DEF OwnText, Kind, TypeOK
  <1>11. LeftText'
    BY NoneIsNothing, <1>h, <1>o, <1>r, <1>u DEF LeftText, Kind, Reasons, TypeOK
  <1>12. Last'
    BY NoneIsNothing, <1>h, <1>o, <1>r, <1>u DEF Last, TypeOK
  <1> QED
    BY <1>1, <1>2, <1>3, <1>4, <1>5, <1>6, <1>7, <1>8, <1>9, <1>10, <1>11, <1>12

\* The client of a start nobody cancelled becomes the session.
LEMMA SystemStarts ==
  ASSUME IInv, NEW a \in Starts, SystemSpawned(a), ~Cancelled(a),
         proc' = [proc EXCEPT ![a] = "live"],
         sessions' = a, failed' = FALSE, replay' = Cleared
  PROVE  IInv'
  <1> USE DEF IInv
  <1>h. /\ Open(a) /\ \A b \in Starts : Open(b) => a <= b
        /\ starting \in Starts
        /\ start[a].reason = None => starting = a
        /\ starting = a => \A b \in Starts : Open(b) => b = a
    BY ConnectingIsHead DEF SystemSpawned, TypeOK
  <1>o. starting = a /\ start[a].reason = None /\ start[a].pc = "connecting"
    BY <1>h DEF SystemSpawned, Cancelled
  <1>r. /\ start' \in [Starts -> StartRecords] /\ start'[a].pc = "settled"
        /\ \A b \in Starts \ {a} : start'[b].pc = start[b].pc
        /\ \A b \in Starts : /\ start'[b].kind = start[b].kind
                             /\ start'[b].reason = start[b].reason
                             /\ start'[b].after = start[b].after
    BY SettledFacts DEF SystemSpawned
  <1>u. /\ starting' = None /\ sessions' = a /\ failed' = FALSE
        /\ proc' \in [Starts -> {"none", "live", "dying", "dead"}]
        /\ proc'[a] = "live" /\ \A b \in Starts \ {a} : proc'[b] = proc[b]
        /\ replay' \in {None, {}}
        /\ UNCHANGED <<panel, owner, restarts, asked, swept, dropped, logged>>
    BY <1>o DEF SystemSpawned, Left, TypeOK, Cleared
  <1>1. TypeOK'
    <2>1. replay' \in (SUBSET (Starts \cup {Note})) \cup {None}
      BY <1>u
    <2>2. UNCHANGED <<panel, owner, restarts, asked, swept, dropped, logged>> /\ starting' = None
      BY <1>u
    <2>3. start' \in [Starts -> StartRecords] /\ failed' \in BOOLEAN /\ sessions' \in Starts
          /\ proc' \in [Starts -> {"none", "live", "dying", "dead"}]
      BY <1>r, <1>u
    <2> QED
      BY <2>1, <2>2, <2>3 DEF TypeOK, StartRecords
  <1>2. Untouched'
    <2>1. UNCHANGED <<owner, asked>> /\ (replay' = None \/ replay' = {})
      BY <1>u
    <2>2. \A b \in Starts : start'[b].pc = "unused" => start[b].pc = "unused" /\ b # a
      BY <1>r
    <2> QED
      BY <1>o, <1>r, <1>u, <2>1, <2>2 DEF Untouched
  <1>3. Written'
    BY NoneIsNothing, <1>h, <1>o, <1>r, <1>u DEF Written, TypeOK
  <1>4. Line'
    BY <1>h, <1>r, <1>u, <1>o, HeadLeaves
  <1>5. OneKind'
    BY NoneIsNothing, <1>h, <1>o, <1>r, <1>u DEF OneKind, Kind, TypeOK
  <1>6. Registered'
    BY NoneIsNothing, <1>h, <1>o, <1>r, <1>u DEF Registered, TypeOK
  <1>7. Vacant'
    BY NoneIsNothing, <1>h, <1>o, <1>r, <1>u DEF Vacant, Open, TypeOK
  <1>8. NoOrphan'
    <2>1. \A g \in Starts : proc[g] = "live" => g \in dropped
      BY <1>h, NoneIsNothing DEF NoOrphan, Vacant
    <2> QED
      BY <1>u, <2>1 DEF NoOrphan
  <1>9. Served'
    BY NoneIsNothing, <1>h, <1>o, <1>r, <1>u DEF Served, Idle, Reasons, TypeOK
  <1>10. OwnText'
    BY NoneIsNothing, <1>h, <1>o, <1>r, <1>u DEF OwnText, Kind, TypeOK
  <1>11. LeftText'
    BY NoneIsNothing, <1>h, <1>o, <1>r, <1>u DEF LeftText, Kind, Reasons, TypeOK
  <1>12. Last'
    BY NoneIsNothing, <1>h, <1>o, <1>r, <1>u DEF Last, TypeOK
  <1> QED
    BY <1>1, <1>2, <1>3, <1>4, <1>5, <1>6, <1>7, <1>8, <1>9, <1>10, <1>11, <1>12

\* The client of a cancelled start is thrown away: the tab had no session.
LEMMA SystemDiscarded ==
  ASSUME IInv, NEW a \in Starts, SystemSpawned(a), Cancelled(a),
         proc' = [proc EXCEPT ![a] = "dying"], sessions' = None,
         failed' = (start[a].reason = "disconnected"),
         replay' = IF start[a].reason = "removed" THEN None ELSE Cleared
  PROVE  IInv'
  <1> USE DEF IInv
  <1>h. /\ Open(a) /\ \A b \in Starts : Open(b) => a <= b
        /\ starting \in Starts
        /\ start[a].reason = None => starting = a
        /\ starting = a => \A b \in Starts : Open(b) => b = a
    BY ConnectingIsHead DEF SystemSpawned, TypeOK
  <1>o. sessions = None /\ start[a].reason # None /\ start[a].pc = "connecting"
    BY <1>h DEF SystemSpawned, Cancelled, Vacant
  <1>r. /\ start' \in [Starts -> StartRecords] /\ start'[a].pc = "settled"
        /\ \A b \in Starts \ {a} : start'[b].pc = start[b].pc
        /\ \A b \in Starts : /\ start'[b].kind = start[b].kind
                             /\ start'[b].reason = start[b].reason
                             /\ start'[b].after = start[b].after
    BY SettledFacts DEF SystemSpawned
  <1>u. /\ starting' = IF starting = a THEN None ELSE starting
        /\ sessions' = None /\ failed' \in BOOLEAN
        /\ proc' \in [Starts -> {"none", "live", "dying", "dead"}]
        /\ proc'[a] = "dying" /\ \A b \in Starts \ {a} : proc'[b] = proc[b]
        /\ replay' \in {None, {}}
        /\ UNCHANGED <<panel, owner, restarts, asked, swept, dropped, logged>>
    BY <1>o DEF SystemSpawned, Left, TypeOK, Cleared
  <1>1. TypeOK'
    BY NoneIsNothing, <1>h, <1>o, <1>r, <1>u DEF TypeOK, StartRecords
  <1>2. Untouched'
    BY NoneIsNothing, <1>h, <1>o, <1>r, <1>u DEF Untouched, TypeOK
  <1>3. Written'
    BY NoneIsNothing, <1>h, <1>o, <1>r, <1>u DEF Written, TypeOK
  <1>4. Line'
    BY <1>h, <1>r, <1>u, HeadLeaves
  <1>5. OneKind'
    BY NoneIsNothing, <1>h, <1>o, <1>r, <1>u DEF OneKind, Kind, TypeOK
  <1>6. Registered'
    BY NoneIsNothing, <1>h, <1>o, <1>r, <1>u DEF Registered, TypeOK
  <1>7. Vacant'
    BY NoneIsNothing, <1>h, <1>o, <1>r, <1>u DEF Vacant, Open, TypeOK
  <1>8. NoOrphan'
    BY NoneIsNothing, <1>h, <1>o, <1>r, <1>u DEF NoOrphan, TypeOK
  <1>9. Served'
    BY NoneIsNothing, <1>h, <1>o, <1>r, <1>u DEF Served, Idle, Reasons, TypeOK
  <1>10. OwnText'
    BY NoneIsNothing, <1>h, <1>o, <1>r, <1>u DEF OwnText, Kind, TypeOK
  <1>11. LeftText'
    BY NoneIsNothing, <1>h, <1>o, <1>r, <1>u DEF LeftText, Kind, Reasons, TypeOK
  <1>12. Last'
    BY NoneIsNothing, <1>h, <1>o, <1>r, <1>u DEF Last, TypeOK
  <1> QED
    BY <1>1, <1>2, <1>3, <1>4, <1>5, <1>6, <1>7, <1>8, <1>9, <1>10, <1>11, <1>12

LEMMA SystemSpawnedStep ==
  ASSUME IInv, NEW a \in Starts, SystemSpawned(a)
  PROVE  IInv'
  BY SystemStarts, SystemDiscarded DEF SystemSpawned

\* A start nobody cancelled throws: it was the only one on its way.
LEMMA StartFailsAlone ==
  ASSUME IInv, NEW a \in Starts, StartFails(a), ~Cancelled(a), failed' = TRUE,
         replay' = IF Kind(a) = "ssh" /\ owner # a THEN replay ELSE With(Note),
         owner' = (IF owner = a THEN None ELSE owner), UNCHANGED <<sessions, proc>>
  PROVE  IInv'
  <1> USE DEF IInv
  <1>h. /\ Open(a) /\ \A b \in Starts : Open(b) => a <= b
        /\ starting \in Starts
        /\ start[a].reason = None => starting = a
        /\ starting = a => \A b \in Starts : Open(b) => b = a
    BY ConnectingIsHead DEF StartFails, TypeOK
  <1>o. starting = a /\ start[a].reason = None /\ start[a].pc = "connecting"
    BY <1>h DEF StartFails, Cancelled
  <1>r. /\ start' \in [Starts -> StartRecords] /\ start'[a].pc = "settled"
        /\ \A b \in Starts \ {a} : start'[b].pc = start[b].pc
        /\ \A b \in Starts : /\ start'[b].kind = start[b].kind
                             /\ start'[b].reason = start[b].reason
                             /\ start'[b].after = start[b].after
    BY SettledFacts DEF StartFails
  <1>u. /\ starting' = None /\ failed' = TRUE /\ owner' \in {None, owner}
        /\ replay' \in {replay, (IF replay = None THEN {} ELSE replay) \cup {Note}}
        /\ UNCHANGED <<sessions, proc, panel, restarts, asked, swept, dropped, logged>>
    BY <1>o DEF StartFails, Left, With
  <1>1. TypeOK'
    BY NoneIsNothing, <1>h, <1>o, <1>r, <1>u DEF TypeOK, StartRecords
  <1>2. Untouched'
    BY NoneIsNothing, <1>h, <1>o, <1>r, <1>u DEF Untouched, TypeOK
  <1>3. Written'
    BY NoneIsNothing, <1>h, <1>o, <1>r, <1>u DEF Written, TypeOK
  <1>4. Line'
    BY <1>h, <1>r, <1>u, <1>o, HeadLeaves
  <1>5. OneKind'
    BY NoneIsNothing, <1>h, <1>o, <1>r, <1>u DEF OneKind, Kind, TypeOK
  <1>6. Registered'
    BY NoneIsNothing, <1>h, <1>o, <1>r, <1>u DEF Registered, TypeOK
  <1>7. Vacant'
    BY NoneIsNothing, <1>h, <1>o, <1>r, <1>u DEF Vacant, Open, TypeOK
  <1>8. NoOrphan'
    BY NoneIsNothing, <1>h, <1>o, <1>r, <1>u DEF NoOrphan, TypeOK
  <1>9. Served'
    BY NoneIsNothing, <1>h, <1>o, <1>r, <1>u DEF Served, Idle, Reasons, TypeOK
  <1>10. OwnText'
    BY NoneIsNothing, <1>h, <1>o, <1>r, <1>u DEF OwnText, Kind, TypeOK
  <1>11. LeftText'
    BY NoneIsNothing, <1>h, <1>o, <1>r, <1>u DEF LeftText, Kind, Reasons, TypeOK
  <1>12. Last'
    BY NoneIsNothing, <1>h, <1>o, <1>r, <1>u DEF Last, TypeOK
  <1> QED
    BY <1>1, <1>2, <1>3, <1>4, <1>5, <1>6, <1>7, <1>8, <1>9, <1>10, <1>11, <1>12

\* A cancelled start throws, and its discard ends nothing: the map holds no
\* session.
LEMMA StartFailsCancelled ==
  ASSUME IInv, NEW a \in Starts, StartFails(a), Cancelled(a),
         proc' = Doomed({sessions}), sessions' = None,
         owner' = (IF owner \in {a, sessions} THEN None ELSE owner),
         failed' = (start[a].reason = "disconnected"),
         replay' = IF start[a].reason = "removed" THEN None
                   ELSE IF Kind(a) = "ssh" /\ owner # a THEN replay ELSE With(Note)
  PROVE  IInv'
  <1> USE DEF IInv
  <1>h. /\ Open(a) /\ \A b \in Starts : Open(b) => a <= b
        /\ starting \in Starts
        /\ start[a].reason = None => starting = a
        /\ starting = a => \A b \in Starts : Open(b) => b = a
    BY ConnectingIsHead DEF StartFails, TypeOK
  <1>o. /\ sessions = None /\ start[a].reason # None /\ start[a].pc = "connecting"
        /\ start[a].reason \in {"disconnected", "removed"}
    BY <1>h DEF StartFails, Cancelled, Vacant, TypeOK, Reasons
  <1>r. /\ start' \in [Starts -> StartRecords] /\ start'[a].pc = "settled"
        /\ \A b \in Starts \ {a} : start'[b].pc = start[b].pc
        /\ \A b \in Starts : /\ start'[b].kind = start[b].kind
                             /\ start'[b].reason = start[b].reason
                             /\ start'[b].after = start[b].after
    BY SettledFacts DEF StartFails
  <1>d. proc' = proc
    BY <1>o, NoneIsNothing DEF TypeOK, Doomed
  <1>u. /\ starting' = IF starting = a THEN None ELSE starting
        /\ sessions' = None /\ owner' \in {None, owner}
        /\ failed' \in BOOLEAN /\ (replay' # None => failed')
        /\ replay' \in {None, replay, (IF replay = None THEN {} ELSE replay) \cup {Note}}
        /\ UNCHANGED <<panel, restarts, asked, swept, dropped, logged>>
    BY <1>o DEF StartFails, Left, With
  <1>1. TypeOK'
    BY NoneIsNothing, <1>h, <1>o, <1>r, <1>d, <1>u DEF TypeOK, StartRecords
  <1>2. Untouched'
    BY NoneIsNothing, <1>h, <1>o, <1>r, <1>d, <1>u DEF Untouched, TypeOK
  <1>3. Written'
    BY NoneIsNothing, <1>h, <1>o, <1>r, <1>d, <1>u DEF Written, TypeOK
  <1>4. Line'
    BY <1>h, <1>r, <1>u, <1>o, HeadLeaves
  <1>5. OneKind'
    BY NoneIsNothing, <1>h, <1>o, <1>r, <1>d, <1>u DEF OneKind, Kind, TypeOK
  <1>6. Registered'
    BY NoneIsNothing, <1>h, <1>o, <1>r, <1>d, <1>u DEF Registered, TypeOK
  <1>7. Vacant'
    BY NoneIsNothing, <1>h, <1>o, <1>r, <1>d, <1>u DEF Vacant, Open, TypeOK
  <1>8. NoOrphan'
    BY NoneIsNothing, <1>h, <1>o, <1>r, <1>d, <1>u DEF NoOrphan, TypeOK
  <1>9. Served'
    BY NoneIsNothing, <1>h, <1>o, <1>r, <1>d, <1>u DEF Served, Idle, Reasons, TypeOK
  <1>10. OwnText'
    BY NoneIsNothing, <1>h, <1>o, <1>r, <1>d, <1>u DEF OwnText, Kind, TypeOK
  <1>11. LeftText'
    BY NoneIsNothing, <1>h, <1>o, <1>r, <1>d, <1>u DEF LeftText, Kind, Reasons, TypeOK
  <1>12. Last'
    BY NoneIsNothing, <1>h, <1>o, <1>r, <1>d, <1>u DEF Last, TypeOK
  <1> QED
    BY <1>1, <1>2, <1>3, <1>4, <1>5, <1>6, <1>7, <1>8, <1>9, <1>10, <1>11, <1>12

LEMMA StartFailsStep ==
  ASSUME IInv, NEW a \in Starts, StartFails(a)
  PROVE  IInv'
  BY StartFailsAlone, StartFailsCancelled DEF StartFails

\* A start that rejects leaves all as it is, whoever it was.
LEMMA StartRejectsStep ==
  ASSUME IInv, NEW a \in Starts, StartRejects(a)
  PROVE  IInv'
  <1> USE DEF IInv
  <1>h. /\ Open(a) /\ \A b \in Starts : Open(b) => a <= b
        /\ starting \in Starts
        /\ start[a].reason = None => starting = a
        /\ starting = a => \A b \in Starts : Open(b) => b = a
    BY ConnectingIsHead DEF StartRejects, TypeOK
  <1>o. start[a].pc = "connecting"
    BY DEF StartRejects
  <1>r. /\ start' \in [Starts -> StartRecords] /\ start'[a].pc = "settled"
        /\ \A b \in Starts \ {a} : start'[b].pc = start[b].pc
        /\ \A b \in Starts : /\ start'[b].kind = start[b].kind
                             /\ start'[b].reason = start[b].reason
                             /\ start'[b].after = start[b].after
    BY SettledFacts DEF StartRejects
  <1>u. /\ starting' = (IF starting = a THEN None ELSE starting) /\ logged' = logged \cup {a}
        /\ UNCHANGED <<panel, sessions, failed, proc, owner, replay, restarts, asked, swept, dropped>>
    BY DEF StartRejects, Left
  <1>1. TypeOK'
    BY NoneIsNothing, <1>h, <1>o, <1>r, <1>u DEF TypeOK, StartRecords
  <1>2. Untouched'
    BY NoneIsNothing, <1>h, <1>o, <1>r, <1>u DEF Untouched, TypeOK
  <1>3. Written'
    BY NoneIsNothing, <1>h, <1>o, <1>r, <1>u DEF Written, TypeOK
  <1>4. Line'
    BY <1>h, <1>r, <1>u, <1>o, HeadLeaves
  <1>5. OneKind'
    BY NoneIsNothing, <1>h, <1>o, <1>r, <1>u DEF OneKind, Kind, TypeOK
  <1>6. Registered'
    BY NoneIsNothing, <1>h, <1>o, <1>r, <1>u DEF Registered, TypeOK
  <1>7. Vacant'
    BY NoneIsNothing, <1>h, <1>o, <1>r, <1>u DEF Vacant, Open, TypeOK
  <1>8. NoOrphan'
    BY NoneIsNothing, <1>h, <1>o, <1>r, <1>u DEF NoOrphan, TypeOK
  <1>9. Served'
    BY NoneIsNothing, <1>h, <1>o, <1>r, <1>u DEF Served, Idle, Reasons, TypeOK
  <1>10. OwnText'
    BY NoneIsNothing, <1>h, <1>o, <1>r, <1>u DEF OwnText, Kind, TypeOK
  <1>11. LeftText'
    <2>1. ASSUME replay # None, NEW g \in replay \ {Note}, proc[g] = "dead", starting = a PROVE g < a
      <3>1. g \in Starts
        BY <2>1, Zenon DEF TypeOK
      <3>2. start[g].pc # "unused" /\ g # a
        BY <2>1, <3>1, NoneIsNothing DEF Untouched, Last
      <3>3. ~(a < g)
        BY <2>1, <3>1, <3>2, NoneIsNothing DEF Last
      <3> QED
        BY <3>1, <3>2, <3>3, NoneIsNothing
    <2> QED
      <3> SUFFICES ASSUME replay # None, NEW g \in replay \ {Note}, proc[g] = "dead", Kind(g)' # "ssh"
                   PROVE  \/ g \in dropped \/ sessions # None \/ failed
                          \/ /\ starting' # None /\ start'[starting'].pc = "connecting"
                             /\ start'[starting'].reason # "disconnected"
                          \/ \E b \in logged' : g < b
        BY <1>u DEF LeftText
      <3>1. CASE starting = a
        BY <1>u, <2>1, <3>1
      <3>2. CASE starting # a
        <4>1. starting' = starting /\ start'[starting].pc = start[starting].pc
              /\ start'[starting].reason = start[starting].reason
          BY <1>h, <1>r, <1>u, <3>2
        <4>2. g \in Starts
          BY Zenon DEF TypeOK
        <4>3. Kind(g) # "ssh"
          BY <1>r, <4>2 DEF Kind
        <4>4. \A b \in logged : b \in logged'
          BY <1>u
        <4> QED
          BY <1>h, <4>1, <4>3, <4>4 DEF LeftText
      <3> QED
        BY <3>1, <3>2
  <1>12. Last'
    BY NoneIsNothing, <1>h, <1>o, <1>r, <1>u DEF Last, TypeOK
  <1> QED
    BY <1>1, <1>2, <1>3, <1>4, <1>5, <1>6, <1>7, <1>8, <1>9, <1>10, <1>11, <1>12

LEMMA OutputStep ==
  ASSUME IInv, NEW g \in Starts, Output(g)
  PROVE  IInv'
  <1> USE DEF IInv
  <1>u. /\ replay' = (IF replay = None THEN {} ELSE replay) \cup {g}
        /\ proc[g] \in {"live", "dying"} /\ (start[g].kind = "ssh" \/ sessions \in {None, g})
        /\ UNCHANGED <<panel, sessions, starting, failed, start, proc, owner, restarts, asked, swept,
                       dropped, logged>>
    BY DEF Output, With, manager, Running, Heard, Kind
  <1>1. TypeOK'
    BY NoneIsNothing, <1>u DEF TypeOK, StartRecords
  <1>2. Untouched'
    BY NoneIsNothing, <1>u DEF Untouched, TypeOK
  <1>3. Written'
    BY NoneIsNothing, <1>u DEF Written, TypeOK
  <1>4. Line'
    BY NoneIsNothing, <1>u DEF Line, Open, TypeOK
  <1>5. OneKind'
    BY NoneIsNothing, <1>u DEF OneKind, Kind, TypeOK
  <1>6. Registered'
    BY NoneIsNothing, <1>u DEF Registered, TypeOK
  <1>7. Vacant'
    BY NoneIsNothing, <1>u DEF Vacant, Open, TypeOK
  <1>8. NoOrphan'
    BY NoneIsNothing, <1>u DEF NoOrphan, TypeOK
  <1>9. Served'
    BY NoneIsNothing, <1>u DEF Served, Idle, Reasons, TypeOK
  <1>10. OwnText'
    BY NoneIsNothing, <1>u DEF OwnText, Kind, TypeOK
  <1>11. LeftText'
    BY NoneIsNothing, <1>u DEF LeftText, Kind, Reasons, TypeOK
  <1>12. Last'
    BY NoneIsNothing, <1>u DEF Last, TypeOK
  <1> QED
    BY <1>1, <1>2, <1>3, <1>4, <1>5, <1>6, <1>7, <1>8, <1>9, <1>10, <1>11, <1>12

LEMMA ExitStep ==
  ASSUME IInv, NEW g \in Starts, Exit(g)
  PROVE  IInv'
  <1> USE DEF IInv
  <1>u. /\ proc[g] \in {"live", "dying"} /\ owner' \in {None, owner}
        /\ proc' \in [Starts -> {"none", "live", "dying", "dead"}]
        /\ proc'[g] = "dead" /\ \A b \in Starts \ {g} : proc'[b] = proc[b]
        /\ UNCHANGED <<panel, sessions, starting, failed, start, restarts, asked, swept, dropped, logged>>
    BY DEF Exit, manager, Running, TypeOK
  <1>v. /\ replay' \in {replay, IF replay = None THEN None ELSE {},
                        (IF replay = None THEN {} ELSE replay) \cup {Note}}
        /\ \/ start[g].kind = "ssh" \/ sessions \notin {None, g} \/ proc[g] = "live"
           \/ replay' = IF replay = None THEN None ELSE {}
    BY <1>u DEF Exit, Heard, Kind, With, Cleared
  <1>1. TypeOK'
    BY NoneIsNothing, <1>u, <1>v DEF TypeOK, StartRecords
  <1>2. Untouched'
    BY NoneIsNothing, <1>u, <1>v DEF Untouched, TypeOK
  <1>3. Written'
    BY NoneIsNothing, <1>u, <1>v DEF Written, TypeOK
  <1>4. Line'
    BY NoneIsNothing, <1>u, <1>v DEF Line, Open, TypeOK
  <1>5. OneKind'
    BY NoneIsNothing, <1>u, <1>v DEF OneKind, Kind, TypeOK
  <1>6. Registered'
    BY NoneIsNothing, <1>u, <1>v DEF Registered, TypeOK
  <1>7. Vacant'
    BY NoneIsNothing, <1>u, <1>v DEF Vacant, Open, TypeOK
  <1>8. NoOrphan'
    BY NoneIsNothing, <1>u, <1>v DEF NoOrphan, TypeOK
  <1>9. Served'
    BY NoneIsNothing, <1>u, <1>v DEF Served, Idle, Reasons, TypeOK
  <1>10. OwnText'
    BY NoneIsNothing, <1>u, <1>v DEF OwnText, Kind, TypeOK
  <1>11. LeftText'
    <2> SUFFICES ASSUME replay' # None, NEW x \in replay' \ {Note}, proc'[x] = "dead",
                        start[x].kind # "ssh"
                 PROVE  \/ x \in dropped \/ sessions # None \/ failed
                        \/ /\ starting # None /\ start[starting].pc = "connecting"
                           /\ start[starting].reason # "disconnected"
                        \/ \E b \in logged : x < b
      BY <1>u DEF LeftText, Kind
    <2>1. replay # None /\ x \in replay \ {Note}
      BY <1>v
    <2>2. x \in Starts
      BY <2>1 DEF TypeOK
    <2>3. CASE x = g
      <3>1. proc[g] = "live" \/ sessions \notin {None, g}
        BY <1>v, <2>3
      <3>2. g \in dropped \/ sessions # None
        BY <3>1, NoneIsNothing DEF NoOrphan
      <3> QED
        BY <2>3, <3>2
    <2>4. CASE x # g
      BY <1>u, <2>1, <2>2, <2>4 DEF LeftText, Kind
    <2> QED
      BY <2>3, <2>4
  <1>12. Last'
    BY NoneIsNothing, <1>u, <1>v DEF Last, TypeOK
  <1> QED
    BY <1>1, <1>2, <1>3, <1>4, <1>5, <1>6, <1>7, <1>8, <1>9, <1>10, <1>11, <1>12

\* Stopping the connection: every start but the one in the map is left alone,
\* the map's session is told to end, and who stays registered was not cancelled.
LEMMA StopFacts ==
  ASSUME TypeOK, NEW reason \in Reasons, start' = Marked(reason), StopConnection,
         proc' = Doomed(Ended)
  PROVE  /\ start' \in [Starts -> StartRecords]
         /\ \A b \in Starts : /\ start'[b].kind = start[b].kind
                              /\ start'[b].pc = start[b].pc
                              /\ start'[b].after = start[b].after
         /\ \A b \in Starts \ {starting} : start'[b].reason = start[b].reason
         /\ starting # None => start'[starting].reason =
              IF start[starting].reason = "removed" THEN "removed" ELSE reason
         /\ proc' \in [Starts -> {"none", "live", "dying", "dead"}]
         /\ \A g \in Starts : proc'[g] = proc[g] \/ (proc[g] = "live" /\ proc'[g] = "dying")
         /\ sessions # None => proc'[sessions] # "live"
         /\ owner' \in {None, owner} /\ (owner' # None => start' = start)
  <1>1. /\ \A g \in Starts : proc'[g] = proc[g] \/ (proc[g] = "live" /\ proc'[g] = "dying")
        /\ sessions # None => proc'[sessions] # "live"
    <2>1. \A g \in Starts : proc'[g] = IF g \in Ended /\ proc[g] = "live" THEN "dying" ELSE proc[g]
      BY DoomedFacts
    <2>2. sessions \in Ended /\ (sessions # None => sessions \in Starts)
      BY DEF Ended, TypeOK
    <2> QED
      BY <2>1, <2>2
  <1>2. owner' \in {None, owner} /\ (owner' # None => start' = start)
    BY DEF StopConnection, Stops, Marked
  <1> QED
    BY MarkedFacts, DoomedFacts, <1>1, <1>2

\* The line keeps its order whoever in it is cancelled.
LEMMA LineOfSame ==
  ASSUME IInv, starting' = starting,
         \A b \in Starts : start'[b].pc = start[b].pc /\ start'[b].after = start[b].after,
         \A b \in Starts \ {starting} : start'[b].reason = start[b].reason
  PROVE  Line'
  <1> USE NoneIsNothing DEF IInv
  <1>1. \A b \in Starts : Open(b)' <=> Open(b)
    BY DEF Open
  <1>2. ASSUME NEW q \in Starts, start'[q].pc = "queued"
        PROVE  /\ start'[q].after \in Starts /\ start'[q].after < q
               /\ \A b \in Starts : Open(b)' /\ b < q => b <= start'[q].after
               /\ start'[start'[q].after].pc = "settled" => \A b \in Starts : Open(b)' => q <= b
    <2>1. start[q].pc = "queued" /\ start'[q].after = start[q].after
      BY <1>2
    <2>2. start[q].after \in Starts
      BY <2>1 DEF Line
    <2> QED
      BY <1>1, <2>1, <2>2 DEF Line
  <1> QED
    BY <1>1, <1>2 DEF Line

\* A disconnect and the two sweeps leave no session, and cancel what is on its way.
LEMMA DisconnectStep ==
  ASSUME IInv, Disconnect
  PROVE  IInv'
  <1> USE DEF IInv
  <1>m. /\ start' \in [Starts -> StartRecords]
        /\ \A b \in Starts : /\ start'[b].kind = start[b].kind
                             /\ start'[b].pc = start[b].pc
                             /\ start'[b].after = start[b].after
        /\ \A b \in Starts \ {starting} : start'[b].reason = start[b].reason
        /\ starting # None => start'[starting].reason =
             IF start[starting].reason = "removed" THEN "removed" ELSE "disconnected"
        /\ proc' \in [Starts -> {"none", "live", "dying", "dead"}]
        /\ \A g \in Starts : proc'[g] = proc[g] \/ (proc[g] = "live" /\ proc'[g] = "dying")
        /\ sessions # None => proc'[sessions] # "live"
        /\ owner' \in {None, owner} /\ (owner' # None => start' = start)
    BY StopFacts DEF Disconnect, Reasons
  <1>u. /\ sessions' = None /\ replay' \in {None, {}, {Note}} /\ asked' = None
        /\ UNCHANGED <<panel, starting, failed, restarts, swept, dropped, logged>>
    BY DEF Disconnect, Cleared
  <1>1. TypeOK'
    BY NoneIsNothing, <1>m, <1>u DEF TypeOK, StartRecords
  <1>2. Untouched'
    BY NoneIsNothing, <1>m, <1>u DEF Untouched, TypeOK
  <1>3. Written'
    BY NoneIsNothing, <1>m, <1>u DEF Written, TypeOK
  <1>4. Line'
    <2>1. starting' = starting
      BY <1>u
    <2>2. \A b \in Starts : start'[b].pc = start[b].pc /\ start'[b].after = start[b].after
      BY <1>m
    <2>3. \A b \in Starts \ {starting} : start'[b].reason = start[b].reason
      BY <1>m
    <2> QED
      BY <2>1, <2>2, <2>3, LineOfSame
  <1>5. OneKind'
    BY NoneIsNothing, <1>m, <1>u DEF OneKind, Kind, TypeOK
  <1>6. Registered'
    BY NoneIsNothing, <1>m, <1>u DEF Registered, TypeOK
  <1>7. Vacant'
    BY NoneIsNothing, <1>m, <1>u DEF Vacant, Open, TypeOK
  <1>8. NoOrphan'
    BY NoneIsNothing, <1>m, <1>u DEF NoOrphan, TypeOK
  <1>9. Served'
    BY NoneIsNothing, <1>m, <1>u DEF Served, Idle, Reasons, TypeOK
  <1>10. OwnText'
    BY NoneIsNothing, <1>m, <1>u DEF OwnText, Kind, TypeOK
  <1>11. LeftText'
    BY NoneIsNothing, <1>m, <1>u DEF LeftText, Kind, Reasons, TypeOK
  <1>12. Last'
    BY NoneIsNothing, <1>m, <1>u DEF Last, TypeOK
  <1> QED
    BY <1>1, <1>2, <1>3, <1>4, <1>5, <1>6, <1>7, <1>8, <1>9, <1>10, <1>11, <1>12

LEMMA SyncWithStateStep ==
  ASSUME IInv, SyncWithState
  PROVE  IInv'
  <1> USE DEF IInv
  <1>m. /\ start' \in [Starts -> StartRecords]
        /\ \A b \in Starts : /\ start'[b].kind = start[b].kind
                             /\ start'[b].pc = start[b].pc
                             /\ start'[b].after = start[b].after
        /\ \A b \in Starts \ {starting} : start'[b].reason = start[b].reason
        /\ starting # None => start'[starting].reason = "removed"
        /\ proc' \in [Starts -> {"none", "live", "dying", "dead"}]
        /\ \A g \in Starts : proc'[g] = proc[g] \/ (proc[g] = "live" /\ proc'[g] = "dying")
        /\ sessions # None => proc'[sessions] # "live"
        /\ owner' \in {None, owner} /\ (owner' # None => start' = start)
    BY StopFacts DEF SyncWithState, Reasons
  <1>u. /\ sessions' = None /\ failed' = FALSE /\ swept' = TRUE /\ asked' = None /\ panel = None
        /\ replay' = IF sessions # None \/ failed THEN None ELSE replay
        /\ UNCHANGED <<panel, starting, restarts, dropped, logged>>
    BY DEF SyncWithState
  <1>1. TypeOK'
    BY NoneIsNothing, <1>m, <1>u DEF TypeOK, StartRecords
  <1>2. Untouched'
    BY NoneIsNothing, <1>m, <1>u DEF Untouched, TypeOK
  <1>3. Written'
    <2>1. replay' \in {None, replay}
      BY <1>u
    <2> QED
      BY <1>m, <2>1, NoneIsNothing DEF Written, TypeOK
  <1>4. Line'
    <2>1. starting' = starting
      BY <1>u
    <2>2. \A b \in Starts : start'[b].pc = start[b].pc /\ start'[b].after = start[b].after
      BY <1>m
    <2>3. \A b \in Starts \ {starting} : start'[b].reason = start[b].reason
      BY <1>m
    <2> QED
      BY <2>1, <2>2, <2>3, LineOfSame
  <1>5. OneKind'
    BY NoneIsNothing, <1>m, <1>u DEF OneKind, Kind, TypeOK
  <1>6. Registered'
    BY NoneIsNothing, <1>m, <1>u DEF Registered, TypeOK
  <1>7. Vacant'
    BY NoneIsNothing, <1>m, <1>u DEF Vacant, Open, TypeOK
  <1>8. NoOrphan'
    BY NoneIsNothing, <1>m, <1>u DEF NoOrphan, TypeOK
  <1>9. Served'
    BY NoneIsNothing, <1>m, <1>u DEF Served, Idle, Reasons, TypeOK
  <1>10. OwnText'
    BY NoneIsNothing, <1>m, <1>u DEF OwnText, Kind, TypeOK
  <1>11. LeftText'
    BY NoneIsNothing, <1>m, <1>u DEF LeftText, Kind, Reasons, TypeOK
  <1>12. Last'
    BY NoneIsNothing, <1>m, <1>u DEF Last, TypeOK
  <1> QED
    BY <1>1, <1>2, <1>3, <1>4, <1>5, <1>6, <1>7, <1>8, <1>9, <1>10, <1>11, <1>12

LEMMA RemoveWorkspaceSessionsStep ==
  ASSUME IInv, RemoveWorkspaceSessions
  PROVE  IInv'
  <1> USE DEF IInv
  <1>m. /\ start' \in [Starts -> StartRecords]
        /\ \A b \in Starts : /\ start'[b].kind = start[b].kind
                             /\ start'[b].pc = start[b].pc
                             /\ start'[b].after = start[b].after
        /\ \A b \in Starts \ {starting} : start'[b].reason = start[b].reason
        /\ starting # None => start'[starting].reason = "removed"
        /\ proc' \in [Starts -> {"none", "live", "dying", "dead"}]
        /\ \A g \in Starts : proc'[g] = proc[g] \/ (proc[g] = "live" /\ proc'[g] = "dying")
        /\ sessions # None => proc'[sessions] # "live"
        /\ owner' \in {None, owner} /\ (owner' # None => start' = start)
    BY StopFacts DEF RemoveWorkspaceSessions, Reasons
  <1>u. /\ sessions' = None /\ failed' = FALSE /\ swept' = TRUE /\ asked' = None /\ panel = None
        /\ replay' = None
        /\ UNCHANGED <<panel, starting, restarts, dropped, logged>>
    BY DEF RemoveWorkspaceSessions
  <1>1. TypeOK'
    BY NoneIsNothing, <1>m, <1>u DEF TypeOK, StartRecords
  <1>2. Untouched'
    BY NoneIsNothing, <1>m, <1>u DEF Untouched, TypeOK
  <1>3. Written'
    BY NoneIsNothing, <1>m, <1>u DEF Written, TypeOK
  <1>4. Line'
    <2>1. starting' = starting
      BY <1>u
    <2>2. \A b \in Starts : start'[b].pc = start[b].pc /\ start'[b].after = start[b].after
      BY <1>m
    <2>3. \A b \in Starts \ {starting} : start'[b].reason = start[b].reason
      BY <1>m
    <2> QED
      BY <2>1, <2>2, <2>3, LineOfSame
  <1>5. OneKind'
    BY NoneIsNothing, <1>m, <1>u DEF OneKind, Kind, TypeOK
  <1>6. Registered'
    BY NoneIsNothing, <1>m, <1>u DEF Registered, TypeOK
  <1>7. Vacant'
    BY NoneIsNothing, <1>m, <1>u DEF Vacant, Open, TypeOK
  <1>8. NoOrphan'
    BY NoneIsNothing, <1>m, <1>u DEF NoOrphan, TypeOK
  <1>9. Served'
    BY NoneIsNothing, <1>m, <1>u DEF Served, Idle, Reasons, TypeOK
  <1>10. OwnText'
    BY NoneIsNothing, <1>m, <1>u DEF OwnText, Kind, TypeOK
  <1>11. LeftText'
    BY NoneIsNothing, <1>m, <1>u DEF LeftText, Kind, Reasons, TypeOK
  <1>12. Last'
    BY NoneIsNothing, <1>m, <1>u DEF Last, TypeOK
  <1> QED
    BY <1>1, <1>2, <1>3, <1>4, <1>5, <1>6, <1>7, <1>8, <1>9, <1>10, <1>11, <1>12

\* A restart closes the connection of an ssh session.
LEMMA RestartsConnection ==
  ASSUME IInv, NEW r \in Restarters, Restart(r),
         sessions # None, Kind(sessions) = "ssh", owner' = None, proc' = Doomed({owner}), UNCHANGED start
  PROVE  IInv'
  <1> USE DEF IInv
  <1>p. /\ proc' \in [Starts -> {"none", "live", "dying", "dead"}]
        /\ \A g \in Starts : proc'[g] = proc[g] \/ (proc[g] = "live" /\ proc'[g] = "dying")
    BY DoomedFacts
  <1>q. /\ restarts[r] = None /\ restarts' \in [Restarters -> Suspended \cup {None}]
        /\ panel # None /\ restarts'[r] # None /\ restarts'[r].kind = panel
        /\ \A s \in Restarters \ {r} : restarts'[s] = restarts[s]
    <2> DEFINE call == [of |-> IF Running(sessions) /\ Kind(sessions) # "ssh" THEN sessions ELSE None,
                        kind |-> panel]
    <2>1. restarts' = [restarts EXCEPT ![r] = call] /\ panel # None /\ restarts[r] = None
      BY DEF Restart
    <2>2. call \in Suspended /\ call.kind = panel
      BY <2>1 DEF Suspended, TypeOK
    <2> HIDE DEF call
    <2> QED
      BY <2>1, <2>2, NoneIsNothing DEF TypeOK
  <1>u. /\ replay' \in {None, {}}
        /\ UNCHANGED <<panel, sessions, starting, failed, asked, swept, dropped, logged>>
    BY DEF Restart, Cleared, manager
  <1>1. TypeOK'
    BY NoneIsNothing, <1>p, <1>q, <1>u DEF TypeOK, StartRecords
  <1>2. Untouched'
    BY NoneIsNothing, <1>p, <1>q, <1>u DEF Untouched, TypeOK
  <1>3. Written'
    BY NoneIsNothing, <1>p, <1>q, <1>u DEF Written, TypeOK
  <1>4. Line'
    BY NoneIsNothing, <1>p, <1>q, <1>u DEF Line, Open, TypeOK
  <1>5. OneKind'
    BY NoneIsNothing, <1>p, <1>q, <1>u DEF OneKind, Kind, TypeOK
  <1>6. Registered'
    BY NoneIsNothing, <1>p, <1>q, <1>u DEF Registered, TypeOK
  <1>7. Vacant'
    BY NoneIsNothing, <1>p, <1>q, <1>u DEF Vacant, Open, TypeOK
  <1>8. NoOrphan'
    BY NoneIsNothing, <1>p, <1>q, <1>u DEF NoOrphan, TypeOK
  <1>9. Served'
    BY NoneIsNothing, <1>p, <1>q, <1>u DEF Served, Idle, Reasons, TypeOK
  <1>10. OwnText'
    BY NoneIsNothing, <1>p, <1>q, <1>u DEF OwnText, Kind, TypeOK
  <1>11. LeftText'
    BY NoneIsNothing, <1>p, <1>q, <1>u DEF LeftText, Kind, Reasons, TypeOK
  <1>12. Last'
    BY NoneIsNothing, <1>p, <1>q, <1>u DEF Last, TypeOK
  <1> QED
    BY <1>1, <1>2, <1>3, <1>4, <1>5, <1>6, <1>7, <1>8, <1>9, <1>10, <1>11, <1>12

\* A restart tells a local process to end, and waits for it.
LEMMA RestartsProcess ==
  ASSUME IInv, NEW r \in Restarters, Restart(r),
         sessions # None, Kind(sessions) # "ssh", owner' = owner, proc' = Doomed({sessions}), UNCHANGED start
  PROVE  IInv'
  <1> USE DEF IInv
  <1>p. /\ proc' \in [Starts -> {"none", "live", "dying", "dead"}]
        /\ \A g \in Starts : proc'[g] = proc[g] \/ (proc[g] = "live" /\ proc'[g] = "dying")
    BY DoomedFacts
  <1>q. /\ restarts[r] = None /\ restarts' \in [Restarters -> Suspended \cup {None}]
        /\ panel # None /\ restarts'[r] # None /\ restarts'[r].kind = panel
        /\ \A s \in Restarters \ {r} : restarts'[s] = restarts[s]
    <2> DEFINE call == [of |-> IF Running(sessions) /\ Kind(sessions) # "ssh" THEN sessions ELSE None,
                        kind |-> panel]
    <2>1. restarts' = [restarts EXCEPT ![r] = call] /\ panel # None /\ restarts[r] = None
      BY DEF Restart
    <2>2. call \in Suspended /\ call.kind = panel
      BY <2>1 DEF Suspended, TypeOK
    <2> HIDE DEF call
    <2> QED
      BY <2>1, <2>2, NoneIsNothing DEF TypeOK
  <1>u. /\ replay' \in {None, {}}
        /\ UNCHANGED <<panel, sessions, starting, failed, asked, swept, dropped, logged>>
    BY DEF Restart, Cleared, manager
  <1>1. TypeOK'
    BY NoneIsNothing, <1>p, <1>q, <1>u DEF TypeOK, StartRecords
  <1>2. Untouched'
    BY NoneIsNothing, <1>p, <1>q, <1>u DEF Untouched, TypeOK
  <1>3. Written'
    BY NoneIsNothing, <1>p, <1>q, <1>u DEF Written, TypeOK
  <1>4. Line'
    BY NoneIsNothing, <1>p, <1>q, <1>u DEF Line, Open, TypeOK
  <1>5. OneKind'
    BY NoneIsNothing, <1>p, <1>q, <1>u DEF OneKind, Kind, TypeOK
  <1>6. Registered'
    BY NoneIsNothing, <1>p, <1>q, <1>u DEF Registered, TypeOK
  <1>7. Vacant'
    BY NoneIsNothing, <1>p, <1>q, <1>u DEF Vacant, Open, TypeOK
  <1>8. NoOrphan'
    BY NoneIsNothing, <1>p, <1>q, <1>u DEF NoOrphan, TypeOK
  <1>9. Served'
    BY NoneIsNothing, <1>p, <1>q, <1>u DEF Served, Idle, Reasons, TypeOK
  <1>10. OwnText'
    BY NoneIsNothing, <1>p, <1>q, <1>u DEF OwnText, Kind, TypeOK
  <1>11. LeftText'
    BY NoneIsNothing, <1>p, <1>q, <1>u DEF LeftText, Kind, Reasons, TypeOK
  <1>12. Last'
    BY NoneIsNothing, <1>p, <1>q, <1>u DEF Last, TypeOK
  <1> QED
    BY <1>1, <1>2, <1>3, <1>4, <1>5, <1>6, <1>7, <1>8, <1>9, <1>10, <1>11, <1>12

\* A restart without a session cancels the start on its way.
LEMMA RestartsStart ==
  ASSUME IInv, NEW r \in Restarters, Restart(r), sessions = None,
         start' = Marked("disconnected"), StopConnection, proc' = Doomed(Ended)
  PROVE  IInv'
  <1> USE DEF IInv
  <1>m. /\ start' \in [Starts -> StartRecords]
        /\ \A b \in Starts : /\ start'[b].kind = start[b].kind
                             /\ start'[b].pc = start[b].pc
                             /\ start'[b].after = start[b].after
        /\ \A b \in Starts \ {starting} : start'[b].reason = start[b].reason
        /\ starting # None => start'[starting].reason =
             IF start[starting].reason = "removed" THEN "removed" ELSE "disconnected"
        /\ proc' \in [Starts -> {"none", "live", "dying", "dead"}]
        /\ \A g \in Starts : proc'[g] = proc[g] \/ (proc[g] = "live" /\ proc'[g] = "dying")
        /\ sessions # None => proc'[sessions] # "live"
        /\ owner' \in {None, owner} /\ (owner' # None => start' = start)
    BY StopFacts DEF Restart, Reasons
  <1>q. /\ restarts[r] = None /\ restarts' \in [Restarters -> Suspended \cup {None}]
        /\ panel # None /\ restarts'[r] # None /\ restarts'[r].kind = panel
        /\ \A s \in Restarters \ {r} : restarts'[s] = restarts[s]
    <2> DEFINE call == [of |-> IF Running(sessions) /\ Kind(sessions) # "ssh" THEN sessions ELSE None,
                        kind |-> panel]
    <2>1. restarts' = [restarts EXCEPT ![r] = call] /\ panel # None /\ restarts[r] = None
      BY DEF Restart
    <2>2. call \in Suspended /\ call.kind = panel
      BY <2>1 DEF Suspended, TypeOK
    <2> HIDE DEF call
    <2> QED
      BY <2>1, <2>2, NoneIsNothing DEF TypeOK
  <1>u. /\ replay' \in {None, {}}
        /\ UNCHANGED <<panel, sessions, starting, failed, asked, swept, dropped, logged>>
    BY DEF Restart, Cleared, manager
  <1>1. TypeOK'
    BY NoneIsNothing, <1>m, <1>q, <1>u DEF TypeOK, StartRecords
  <1>2. Untouched'
    BY NoneIsNothing, <1>m, <1>q, <1>u DEF Untouched, TypeOK
  <1>3. Written'
    BY NoneIsNothing, <1>m, <1>q, <1>u DEF Written, TypeOK
  <1>4. Line'
    <2>1. starting' = starting
      BY <1>u
    <2>2. \A b \in Starts : start'[b].pc = start[b].pc /\ start'[b].after = start[b].after
      BY <1>m
    <2>3. \A b \in Starts \ {starting} : start'[b].reason = start[b].reason
      BY <1>m
    <2> QED
      BY <2>1, <2>2, <2>3, LineOfSame
  <1>5. OneKind'
    BY NoneIsNothing, <1>m, <1>q, <1>u DEF OneKind, Kind, TypeOK
  <1>6. Registered'
    BY NoneIsNothing, <1>m, <1>q, <1>u DEF Registered, TypeOK
  <1>7. Vacant'
    BY NoneIsNothing, <1>m, <1>q, <1>u DEF Vacant, Open, TypeOK
  <1>8. NoOrphan'
    BY NoneIsNothing, <1>m, <1>q, <1>u DEF NoOrphan, TypeOK
  <1>9. Served'
    BY NoneIsNothing, <1>m, <1>q, <1>u DEF Served, Idle, Reasons, TypeOK
  <1>10. OwnText'
    BY NoneIsNothing, <1>m, <1>q, <1>u DEF OwnText, Kind, TypeOK
  <1>11. LeftText'
    BY NoneIsNothing, <1>m, <1>q, <1>u DEF LeftText, Kind, Reasons, TypeOK
  <1>12. Last'
    <2>1. starting' = starting /\ (starting # None => starting \in Starts)
      BY <1>u DEF TypeOK
    <2>2. ASSUME starting # None
          PROVE  /\ proc'[starting] = "none"
                 /\ \A b \in Starts : starting < b => start'[b].pc = "unused"
      BY <1>m, <2>1, <2>2 DEF Last
    <2> QED
      BY <2>1, <2>2 DEF Last
  <1> QED
    BY <1>1, <1>2, <1>3, <1>4, <1>5, <1>6, <1>7, <1>8, <1>9, <1>10, <1>11, <1>12

LEMMA RestartStep ==
  ASSUME IInv, NEW r \in Restarters, Restart(r)
  PROVE  IInv'
  BY RestartsConnection, RestartsProcess, RestartsStart DEF Restart

\* The tab leaves the state, or comes back to it.
LEMMA RemovePanelStep ==
  ASSUME IInv, RemovePanel
  PROVE  IInv'
  <1> USE DEF IInv
  <1>u. /\ panel' = None /\ swept' = FALSE
        /\ UNCHANGED <<sessions, starting, failed, start, proc, owner, replay, restarts, asked, dropped, logged>>
    BY DEF RemovePanel, manager
  <1>1. TypeOK'
    BY NoneIsNothing, <1>u DEF TypeOK, StartRecords
  <1>2. Untouched'
    BY NoneIsNothing, <1>u DEF Untouched, TypeOK
  <1>3. Written'
    BY NoneIsNothing, <1>u DEF Written, TypeOK
  <1>4. Line'
    BY NoneIsNothing, <1>u DEF Line, Open, TypeOK
  <1>5. OneKind'
    BY NoneIsNothing, <1>u DEF OneKind, Kind, TypeOK
  <1>6. Registered'
    BY NoneIsNothing, <1>u DEF Registered, TypeOK
  <1>7. Vacant'
    BY NoneIsNothing, <1>u DEF Vacant, Open, TypeOK
  <1>8. NoOrphan'
    BY NoneIsNothing, <1>u DEF NoOrphan, TypeOK
  <1>9. Served'
    BY NoneIsNothing, <1>u DEF Served, Idle, Reasons, TypeOK
  <1>10. OwnText'
    BY NoneIsNothing, <1>u DEF OwnText, Kind, TypeOK
  <1>11. LeftText'
    BY NoneIsNothing, <1>u DEF LeftText, Kind, Reasons, TypeOK
  <1>12. Last'
    BY NoneIsNothing, <1>u DEF Last, TypeOK
  <1> QED
    BY <1>1, <1>2, <1>3, <1>4, <1>5, <1>6, <1>7, <1>8, <1>9, <1>10, <1>11, <1>12

LEMMA PutPanelStep ==
  ASSUME IInv, NEW kind \in Kinds, PutPanel(kind)
  PROVE  IInv'
  <1> USE DEF IInv
  <1>u. /\ panel' = kind /\ swept' = FALSE
        /\ starting # None => start[starting].kind = kind
        /\ \A r \in Restarters : restarts[r] # None => restarts[r].kind = kind
        /\ UNCHANGED <<sessions, starting, failed, start, proc, owner, replay, restarts, asked, dropped, logged>>
    BY DEF PutPanel, manager, Kind
  <1>1. TypeOK'
    BY NoneIsNothing, <1>u DEF TypeOK, StartRecords
  <1>2. Untouched'
    BY NoneIsNothing, <1>u DEF Untouched, TypeOK
  <1>3. Written'
    BY NoneIsNothing, <1>u DEF Written, TypeOK
  <1>4. Line'
    BY NoneIsNothing, <1>u DEF Line, Open, TypeOK
  <1>5. OneKind'
    BY NoneIsNothing, <1>u DEF OneKind, Kind, TypeOK
  <1>6. Registered'
    BY NoneIsNothing, <1>u DEF Registered, TypeOK
  <1>7. Vacant'
    BY NoneIsNothing, <1>u DEF Vacant, Open, TypeOK
  <1>8. NoOrphan'
    BY NoneIsNothing, <1>u DEF NoOrphan, TypeOK
  <1>9. Served'
    BY NoneIsNothing, <1>u DEF Served, Idle, Reasons, TypeOK
  <1>10. OwnText'
    BY NoneIsNothing, <1>u DEF OwnText, Kind, TypeOK
  <1>11. LeftText'
    BY NoneIsNothing, <1>u DEF LeftText, Kind, Reasons, TypeOK
  <1>12. Last'
    BY NoneIsNothing, <1>u DEF Last, TypeOK
  <1> QED
    BY <1>1, <1>2, <1>3, <1>4, <1>5, <1>6, <1>7, <1>8, <1>9, <1>10, <1>11, <1>12

-----------------------------------------------------------------------------
LEMMA InitIInv == Init => IInv
  <1> SUFFICES ASSUME Init PROVE IInv
    OBVIOUS
  <1> USE NoneIsNothing DEF Init
  <1>1. TypeOK
    BY DEF TypeOK
  <1>2. Untouched /\ Written /\ OneKind /\ Registered /\ Vacant
    BY DEF Untouched, Written, OneKind, Registered, Vacant
  <1>3. Line
    BY DEF Line, Open
  <1>4. NoOrphan /\ Served /\ OwnText /\ LeftText /\ Last
    BY DEF NoOrphan, Served, OwnText, LeftText, Last
  <1> QED
    BY <1>1, <1>2, <1>3, <1>4 DEF IInv

LEMMA StutterIInv ==
  ASSUME IInv, UNCHANGED vars
  PROVE  IInv'
  BY DEF IInv, vars, manager, TypeOK, Untouched, Written, Line, Open, OneKind, Kind, Registered,
         Vacant, NoOrphan, Served, Idle, OwnText, LeftText, Last

LEMMA NextIInv ==
  ASSUME IInv, [Next]_vars
  PROVE  IInv'
  <1>1. CASE \E a \in Starts : Ensure(a)
    BY <1>1, EnsureStep
  <1>2. CASE \E a \in Starts : ResumeQueued(a)
    BY <1>2, ResumeQueuedStep
  <1>3. CASE \E a \in Starts : Dial(a)
    BY <1>3, DialStep
  <1>4. CASE \E a \in Starts : Connected(a)
    BY <1>4, ConnectedStep
  <1>5. CASE \E a \in Starts : SystemSpawned(a)
    BY <1>5, SystemSpawnedStep
  <1>6. CASE \E a \in Starts : StartFails(a)
    BY <1>6, StartFailsStep
  <1>17. CASE \E a \in Starts : StartRejects(a)
    BY <1>17, StartRejectsStep
  <1>7. CASE \E g \in Starts : Output(g)
    BY <1>7, OutputStep
  <1>8. CASE \E g \in Starts : Exit(g)
    BY <1>8, ExitStep
  <1>9. CASE Disconnect
    BY <1>9, DisconnectStep
  <1>10. CASE \E r \in Restarters : Restart(r)
    BY <1>10, RestartStep
  <1>11. CASE \E r \in Restarters, a \in Starts : RestartResumes(r, a)
    BY <1>11, RestartResumesStep
  <1>12. CASE RemovePanel
    BY <1>12, RemovePanelStep
  <1>13. CASE \E kind \in Kinds : PutPanel(kind)
    BY <1>13, PutPanelStep
  <1>14. CASE SyncWithState
    BY <1>14, SyncWithStateStep
  <1>15. CASE RemoveWorkspaceSessions
    BY <1>15, RemoveWorkspaceSessionsStep
  <1>16. CASE UNCHANGED vars
    BY <1>16, StutterIInv
  <1> QED
    BY <1>1, <1>2, <1>3, <1>4, <1>5, <1>6, <1>7, <1>8, <1>9, <1>10, <1>11, <1>12, <1>13, <1>14,
       <1>15, <1>16, <1>17 DEF Next

LEMMA Inductive == Spec => []IInv
  BY InitIInv, NextIInv, PTL DEF Spec

-----------------------------------------------------------------------------
\* Every variable keeps its type: among the rest, what startingSessions holds is
\* always a start that is not over (the `finally` of trackSessionStart()).
THEOREM TypeCorrect == Spec => []TypeOK
  <1>1. IInv => TypeOK
    BY DEF IInv
  <1> QED
    BY <1>1, Inductive, PTL

\* Two starts of a tab never connect at once, however activations, restarts and
\* disconnects are interleaved: trackSessionStart() shares a live start and
\* queues behind a disconnected one.
THEOREM OneConnectAtATime == Spec => []OneConnect
  <1>1. IInv => OneConnect
    <2> SUFFICES ASSUME IInv PROVE OneConnect
      OBVIOUS
    <2> DEFINE C == {a \in Starts : start[a].pc = "connecting"}
    <2>1. \A a, b \in C : a = b
      BY NoneIsNothing DEF IInv, Line, Open
    <2>2. CASE C = {}
      <3>1. Cardinality(C) = 0
        BY <2>2, FS_EmptySet
      <3> QED
        BY <3>1 DEF OneConnect
    <2>3. CASE C # {}
      <3>1. PICK a : a \in C
        BY <2>3
      <3>2. C = {a}
        BY <2>1, <3>1
      <3>3. Cardinality(C) = 1
        BY <3>2, FS_Singleton
      <3> QED
        BY <3>3 DEF OneConnect
    <2> QED
      BY <2>2, <2>3
  <1> QED
    BY <1>1, Inductive, PTL

\* A process that nobody told to end is in the session map, or was dropped from
\* it by a second restart or by an edit of the tab: a late connect whose start
\* was cancelled is told to end in the step that registers it.
THEOREM NoProcessIsOrphaned == Spec => []NoOrphan
  <1>1. IInv => NoOrphan
    BY DEF IInv
  <1> QED
    BY <1>1, Inductive, PTL

\* When the tab is gone, its sweep is done and the starts are over, no session
\* runs and no text of a local process is left that the next sweep would miss,
\* but for what was there when a later start ended with a line in the log only.
THEOREM ClosedTabsLeaveNothing == Spec => []NoGhost
  <1>1. IInv => NoGhost
    <2> SUFFICES ASSUME IInv, panel = None, swept, Idle, \A g \in Starts : proc[g] # "dying"
                 PROVE  /\ ~Running(sessions)
                        /\ replay # None /\ ~failed =>
                             \A g \in replay \ {Note} :
                               Kind(g) = "ssh" \/ g \in dropped \/ \E a \in logged : g < a
      BY DEF NoGhost
    <2> USE DEF IInv
    <2>1. sessions = None /\ starting = None
      BY DEF Served, Idle
    <2>2. ASSUME replay # None, ~failed, NEW g \in replay \ {Note}, Kind(g) # "ssh"
          PROVE  g \in dropped \/ \E a \in logged : g < a
      <3>1. g \in Starts /\ proc[g] \in {"live", "dead"}
        BY <2>2 DEF TypeOK, Written
      <3>2. CASE proc[g] = "live"
        BY <2>1, <3>1, <3>2, NoneIsNothing DEF NoOrphan
      <3>3. CASE proc[g] = "dead"
        BY <2>1, <2>2, <3>3 DEF LeftText
      <3> QED
        BY <3>1, <3>2, <3>3
    <2> QED
      BY <2>1, <2>2 DEF Running
  <1> QED
    BY <1>1, Inductive, PTL

\* A tab with a local session never shows the output of an earlier local process
\* of it: a spawn clears the replay, and output is dropped when the map has
\* another session.
THEOREM ReplaysAreFresh == Spec => []ReplayIsFresh
  <1>1. IInv => ReplayIsFresh
    BY DEF IInv, ReplayIsFresh, OwnText, Running
  <1> QED
    BY <1>1, Inductive, PTL

\* After a disconnect or a close with nothing on its way, no session runs: a
\* connect that was on its way was cancelled and discarded.
THEOREM DisconnectsHold == Spec => []DisconnectHolds
  <1>1. IInv => DisconnectHolds
    BY DEF IInv, DisconnectHolds, Served, Running
  <1> QED
    BY <1>1, Inductive, PTL

\* When everything is over, the tab has what its last activation asked for: a
\* session or a failure to show, from a start no earlier disconnect cancelled;
\* or that very start found no host or was rejected, and left a line in the log.
THEOREM ActivationsAreAnswered == Spec => []ActivationAnswered
  <1>1. IInv => ActivationAnswered
    BY DEF IInv, ActivationAnswered, Served, Idle
  <1> QED
    BY <1>1, Inductive, PTL

=================================================================================
