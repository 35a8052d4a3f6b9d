------------------------ MODULE OperationRegistry_proof ------------------------
(***************************************************************************)
(* Safety of the operation registry for every number of operations, keys   *)
(* and workspaces, any failing file operations and any number of restarts. *)
(*                                                                         *)
(* IndexSound alone is not inductive: accept() must know that an unused    *)
(* operation is indexed nowhere, and every drop that its operation has a   *)
(* request.  AnsweredIsDurable needs that only dropped operations have an  *)
(* fs.rm in flight, and that none is in flight while load() reads files.   *)
(* OneResult rests on the runner being the only one to emit (EmittedOnce). *)
(*                                                                         *)
(* NoSecondRun needs more.  The map must be in the order of insertion, and *)
(* that order must put the creator of a workspace before whatever acts on  *)
(* it: then the sweep flags a creator that still runs before it awaits     *)
(* anything, and what it drops after an await is still in the map (Swept). *)
(* It does not hold in general: dropRecord() frees a key whatever record   *)
(* holds it, so two records of one key in the map are enough.  The last    *)
(* theorem shows that this is the only way to a second run of a key.       *)
(***************************************************************************)
EXTENDS OperationRegistry, FiniteSetTheorems, TLAPS

\* What is indexed, swept or on disk is an operation that was accepted.
Known ==
  /\ \A op \in Ops : pc[op] = "unused" <=> req[op] = None
  /\ \A op \in records : req[op] # None
  /\ \A op \in Ops : disk[op] # None => req[op] # None
  /\ \A w \in Workspaces : \A op \in sweep[w] : req[op] # None

RmsDropped == \A rm \in rms : rm.op \in dropped

\* Nothing is being removed while load() reads the files.
LoadIsQuiet ==
  /\ toLoad \subseteq {op \in Ops : disk[op] # None}
  /\ toLoad # {} => /\ rms = {} /\ removeOnFinish = {}
                    /\ \A w \in Workspaces : sweep[w] = {}

IInv == TypeOK /\ IndexSound /\ Known /\ RmsDropped /\ LoadIsQuiet /\ AnsweredIsDurable

-----------------------------------------------------------------------------
LEMMA NewType == New \in Rec
  BY DEF New, Rec, Status

LEMMA InitIInv == Init => IInv
  <1> SUFFICES ASSUME Init PROVE IInv
    OBVIOUS
  <1>1. TypeOK
    BY NoneAssumption, RestartAssumption, NewType DEF Init, TypeOK, Terminal
  <1> QED
    BY <1>1 DEF Init, IInv, IndexSound, Known, RmsDropped, LoadIsQuiet, AnsweredIsDurable

\* A drop keeps the types of what it writes.
LEMMA DropTypes ==
  ASSUME TypeOK, NEW op \in Ops, NEW by \in Workspaces \cup {None},
         dropRecord(op, by)
  PROVE  /\ records' \subseteq Ops
         /\ byKey' \in [Keys -> Ops \cup {None}]
         /\ rms' \subseteq [op : Ops, by : Workspaces \cup {None}]
         /\ dropped' \subseteq Ops
  <1>1. [op |-> op, by |-> by] \in [op : Ops, by : Workspaces \cup {None}]
    OBVIOUS
  <1>2. byKey' \in [Keys -> Ops \cup {None}]
    BY DEF TypeOK, dropRecord
  <1> QED
    BY <1>1, <1>2 DEF TypeOK, dropRecord

\* So does a segment of removeForWorkspace()'s loop.
LEMMA VisitTypes ==
  ASSUME TypeOK, NEW w \in Workspaces, NEW rest \in SUBSET Ops, visit(w, rest)
  PROVE  /\ records' \subseteq Ops
         /\ byKey' \in [Keys -> Ops \cup {None}]
         /\ rms' \subseteq [op : Ops, by : Workspaces \cup {None}]
         /\ dropped' \subseteq Ops
         /\ removeOnFinish' \subseteq Ops
         /\ sweep' \in [Workspaces -> SUBSET Ops]
  <1> DEFINE hits  == {op \in rest : Matches(op, w)}
             ended == {op \in hits : isTerminal(op)}
  <1>1. CASE ended = {} /\ UNCHANGED <<records, byKey, rms, dropped>>
             /\ removeOnFinish' = removeOnFinish \cup hits
             /\ sweep' = [sweep EXCEPT ![w] = {}]
    BY <1>1 DEF TypeOK
  <1>2. ASSUME NEW op \in ended, NEW marked \in SUBSET hits, NEW left \in SUBSET rest,
               dropRecord(op, w),
               removeOnFinish' = removeOnFinish \cup marked,
               sweep' = [sweep EXCEPT ![w] = left]
        PROVE  /\ records' \subseteq Ops
               /\ byKey' \in [Keys -> Ops \cup {None}]
               /\ rms' \subseteq [op : Ops, by : Workspaces \cup {None}]
               /\ dropped' \subseteq Ops
               /\ removeOnFinish' \subseteq Ops
               /\ sweep' \in [Workspaces -> SUBSET Ops]
    <2>1. op \in Ops /\ marked \subseteq Ops /\ left \subseteq Ops
      OBVIOUS
    <2>2. removeOnFinish' \subseteq Ops /\ sweep' \in [Workspaces -> SUBSET Ops]
      BY <1>2, <2>1 DEF TypeOK
    <2> QED
      BY <1>2, <2>1, <2>2, DropTypes
  <1>3. ASSUME NEW op \in ended
        PROVE  /\ {o \in hits : <<o, op>> \in older} \in SUBSET hits
               /\ {o \in rest : <<op, o>> \in older} \in SUBSET rest
    OBVIOUS
  <1> QED
    BY <1>1, <1>2, <1>3 DEF visit, flag

\* The loop indexes nothing, and what it has still to visit was in its snapshot.
LEMMA VisitShrinks ==
  ASSUME TypeOK, NEW w \in Workspaces, NEW rest \in SUBSET Ops, visit(w, rest)
  PROVE  /\ records' \subseteq records
         /\ \A v \in Workspaces : sweep'[v] \subseteq sweep[v] \cup rest
  <1>1. \E left \in SUBSET rest : sweep' = [sweep EXCEPT ![w] = left]
    BY DEF visit
  <1> QED
    BY <1>1 DEF visit, dropRecord, TypeOK

\* The settled copy finish() writes is a record.
LEMMA SettledType == ASSUME TypeOK, NEW op \in Ops PROVE settled(op) \in Rec
  <1>1. mem[op] \in Rec /\ outcome[op] \in Status
    BY DEF TypeOK, Status
  <1> QED
    BY <1>1 DEF settled, Rec

LEMMA StepIInv == IInv /\ [Next]_vars => IInv'
  <1> SUFFICES ASSUME IInv, [Next]_vars PROVE IInv'
    OBVIOUS
  <1> USE DEF IInv
  <1>1. ASSUME NEW op \in Ops, NEW k \in Keys, NEW w \in Workspaces \cup {None}, NEW use \in Use,
                  Accept(op, k, w, use) PROVE IInv'
    <2>1. /\ UNCHANGED <<disk, removeOnFinish, outcome, rms, sweep, space, toLoad,
                        restarts, unread, answered, dropped, emitted, unsaved>>
          /\ records' = records \cup {op} /\ byKey' = [byKey EXCEPT ![k] = op]
          /\ older' = older \cup (records \X {op})
          /\ req' = [req EXCEPT ![op] = [key |-> k, ws |-> w, use |-> use]]
          /\ mem' = [mem EXCEPT ![op] = New] /\ pc' = [pc EXCEPT ![op] = "accepting"]
          /\ pc[op] = "unused"
      BY <1>1 DEF Accept, index, spaces, life, obs
    <2>2. [key |-> k, ws |-> w, use |-> use] \in Req
      BY DEF Req
    <2>3. TypeOK'
      BY <2>1, <2>2, NewType DEF TypeOK, Suspended
    <2>4. IndexSound'
      <3>1. op \notin records /\ \A j \in Keys : byKey[j] # op
        BY <2>1, NoneAssumption DEF Known, IndexSound
      <3>2. req'[op].key = k /\ req'[op] # None /\ \A o \in Ops \ {op} : req'[o] = req[o]
        BY <2>1, <2>2, NoneAssumption DEF TypeOK
      <3>3. byKey'[k] = op /\ \A j \in Keys \ {k} : byKey'[j] = byKey[j]
        BY <2>1 DEF TypeOK
      <3> QED
        BY <2>1, <3>1, <3>2, <3>3 DEF IndexSound, TypeOK
    <2>5. Known'
      BY <2>1, <2>2, NoneAssumption DEF TypeOK, Known
    <2>6. RmsDropped' /\ LoadIsQuiet' /\ AnsweredIsDurable'
      BY <2>1 DEF RmsDropped, LoadIsQuiet, AnsweredIsDurable
    <2> QED
      BY <2>3, <2>4, <2>5, <2>6
  <1>2. ASSUME NEW op \in Ops, AcceptPersisted(op) PROVE IInv'
    <2> USE <1>2 DEF AcceptPersisted, isTerminal, core, spaces, life, obs, Up
    <2>1. TypeOK'
      <3>1. req[op].ws \in Workspaces \cup {None} \/ req[op] = None
        BY DEF TypeOK, Req
      <3>2. req[op] # None
        BY DEF Known
      <3>3. mem' \in [Ops -> Rec] /\ disk' \in [Ops -> Rec \cup {None}]
        BY <3>1, <3>2 DEF TypeOK, Rec, Status
      <3>4. pc' \in [Ops -> Suspended \cup {"unused", "settled", "lost"}]
        BY DEF TypeOK, Suspended
      <3> QED
        BY <3>3, <3>4 DEF TypeOK
    <2>2. IndexSound'
      BY NoneAssumption DEF TypeOK, IndexSound, Known, Req, LoadIsQuiet
    <2>3. Known'
      BY NoneAssumption DEF TypeOK, Known, Req, Rec, Suspended, LoadIsQuiet
    <2>4. RmsDropped'
      BY DEF TypeOK, RmsDropped, LoadIsQuiet
    <2>5. LoadIsQuiet'
      BY NoneAssumption DEF TypeOK, LoadIsQuiet, Rec, Status, Terminal
    <2>6. AnsweredIsDurable'
      BY NoneAssumption DEF TypeOK, AnsweredIsDurable, RmsDropped, LoadIsQuiet, Rec, Status, Terminal, Suspended
    <2> QED
      BY <2>1, <2>2, <2>3, <2>4, <2>5, <2>6
  <1>3. ASSUME NEW op \in Ops, AcceptFailed(op) PROVE IInv'
    <2> USE <1>3 DEF AcceptFailed, core, spaces, life, obs, Up
    <2>1. TypeOK'
      BY NoneAssumption, RestartAssumption DEF TypeOK, Rec, Req, Status, Terminal, Suspended
    <2>2. IndexSound'
      BY NoneAssumption DEF TypeOK, IndexSound, Known, Req, LoadIsQuiet
    <2>3. Known'
      BY NoneAssumption DEF TypeOK, Known, Req, Rec, Suspended, LoadIsQuiet
    <2>4. RmsDropped'
      BY DEF TypeOK, RmsDropped, LoadIsQuiet
    <2>5. LoadIsQuiet'
      BY NoneAssumption DEF TypeOK, LoadIsQuiet, Rec, Status, Terminal
    <2>6. AnsweredIsDurable'
      BY NoneAssumption DEF TypeOK, AnsweredIsDurable, RmsDropped, LoadIsQuiet, Rec, Status, Terminal, Suspended
    <2> QED
      BY <2>1, <2>2, <2>3, <2>4, <2>5, <2>6
  <1>4. CASE LoadGivesUp \/ \E op \in Ops : LoadSkips(op)
    <2>1. /\ UNCHANGED <<core, rms, spaces, restarts, obs>>
          /\ toLoad' \subseteq toLoad /\ unread' \subseteq Ops
      BY <1>4 DEF LoadGivesUp, LoadSkips, TypeOK
    <2> QED
      BY <2>1 DEF core, spaces, obs, TypeOK, IndexSound, Known, RmsDropped, LoadIsQuiet,
                  AnsweredIsDurable
  <1>5. ASSUME NEW op \in Ops, CreateWorkspace(op) PROVE IInv'
    <2> USE <1>5 DEF CreateWorkspace, core, spaces, life, obs, Up
    <2>1. TypeOK'
      BY NoneAssumption, RestartAssumption DEF TypeOK, Rec, Req, Status, Terminal, Suspended
    <2>2. IndexSound'
      BY NoneAssumption DEF TypeOK, IndexSound, Known, Req, LoadIsQuiet
    <2>3. Known'
      BY NoneAssumption DEF TypeOK, Known, Req, Rec, Suspended, LoadIsQuiet
    <2>4. RmsDropped'
      BY DEF TypeOK, RmsDropped, LoadIsQuiet
    <2>5. LoadIsQuiet'
      BY NoneAssumption DEF TypeOK, LoadIsQuiet, Rec, Status, Terminal
    <2>6. AnsweredIsDurable'
      BY NoneAssumption DEF TypeOK, AnsweredIsDurable, RmsDropped, LoadIsQuiet, Rec, Status, Terminal, Suspended
    <2> QED
      BY <2>1, <2>2, <2>3, <2>4, <2>5, <2>6
  <1>6. ASSUME NEW op \in Ops, Update(op) PROVE IInv'
    <2> USE <1>6 DEF Update, core, spaces, life, obs, Up
    <2>1. TypeOK'
      <3>1. req[op] \in Req
        BY DEF Known, TypeOK
      <3>2. mem' \in [Ops -> Rec] /\ pc' \in [Ops -> Suspended \cup {"unused", "settled", "lost"}]
        BY <3>1 DEF TypeOK, Rec, Req, Suspended
      <3> QED
        BY <3>2 DEF TypeOK
    <2>2. IndexSound'
      BY NoneAssumption DEF TypeOK, IndexSound, Known, Req, LoadIsQuiet
    <2>3. Known'
      BY NoneAssumption DEF TypeOK, Known, Req, Rec, Suspended, LoadIsQuiet
    <2>4. RmsDropped'
      BY DEF TypeOK, RmsDropped, LoadIsQuiet
    <2>5. LoadIsQuiet'
      BY NoneAssumption DEF TypeOK, LoadIsQuiet, Rec, Status, Terminal
    <2>6. AnsweredIsDurable'
      BY NoneAssumption DEF TypeOK, AnsweredIsDurable, RmsDropped, LoadIsQuiet, Rec, Status, Terminal, Suspended
    <2> QED
      BY <2>1, <2>2, <2>3, <2>4, <2>5, <2>6
  <1>7. ASSUME NEW op \in Ops, UpdateWritten(op) PROVE IInv'
    <2> USE <1>7 DEF UpdateWritten, persist, core, spaces, life, obs, Up
    <2>1. TypeOK'
      BY NoneAssumption, RestartAssumption DEF TypeOK, Rec, Req, Status, Terminal, Suspended
    <2>2. IndexSound'
      BY NoneAssumption DEF TypeOK, IndexSound, Known, Req, LoadIsQuiet
    <2>3. Known'
      BY NoneAssumption DEF TypeOK, Known, Req, Rec, Suspended, LoadIsQuiet
    <2>4. RmsDropped'
      BY DEF TypeOK, RmsDropped, LoadIsQuiet
    <2>5. LoadIsQuiet'
      BY NoneAssumption DEF TypeOK, LoadIsQuiet, Rec, Status, Terminal
    <2>6. AnsweredIsDurable'
      BY NoneAssumption DEF TypeOK, AnsweredIsDurable, RmsDropped, LoadIsQuiet, Rec, Status, Terminal, Suspended
    <2> QED
      BY <2>1, <2>2, <2>3, <2>4, <2>5, <2>6
  <1>8. ASSUME NEW op \in Ops, NEW result \in {"succeeded", "failed"}, RunnerDone(op, result) PROVE IInv'
    <2> USE <1>8 DEF RunnerDone, core, spaces, life, obs, Up
    <2>1. TypeOK'
      BY NoneAssumption, RestartAssumption DEF TypeOK, Rec, Req, Status, Terminal, Suspended
    <2>2. IndexSound'
      BY NoneAssumption DEF TypeOK, IndexSound, Known, Req, LoadIsQuiet
    <2>3. Known'
      BY NoneAssumption DEF TypeOK, Known, Req, Rec, Suspended, LoadIsQuiet
    <2>4. RmsDropped'
      BY DEF TypeOK, RmsDropped, LoadIsQuiet
    <2>5. LoadIsQuiet'
      BY NoneAssumption DEF TypeOK, LoadIsQuiet, Rec, Status, Terminal
    <2>6. AnsweredIsDurable'
      BY NoneAssumption DEF TypeOK, AnsweredIsDurable, RmsDropped, LoadIsQuiet, Rec, Status, Terminal, Suspended
    <2> QED
      BY <2>1, <2>2, <2>3, <2>4, <2>5, <2>6
  <1>9. ASSUME NEW op \in Ops, Finish(op) PROVE IInv'
    <2>1. TypeOK'
      <3>0. /\ disk' \in [Ops -> Rec \cup {None}] /\ mem' \in [Ops -> Rec]
            /\ emitted' \in [Ops -> SUBSET Terminal] /\ toLoad' \subseteq Ops
            /\ pc' \in [Ops -> Suspended \cup {"unused", "settled", "lost"}]
            /\ removeOnFinish' \subseteq Ops
        BY <1>9, SettledType DEF TypeOK, Finish, persist, outcomeFile
      <3>1. CASE op \in removeOnFinish
        <4>1. dropRecord(op, None)
          BY <1>9, <3>1 DEF Finish
        <4> QED
          BY <1>9, <3>0, <4>1, DropTypes DEF TypeOK, Finish, spaces, life
      <3>2. CASE op \notin removeOnFinish
        BY <1>9, <3>0, <3>2 DEF TypeOK, Finish, spaces, life
      <3> QED
        BY <3>1, <3>2
    <2> USE <1>9 DEF Finish, persist, outcomeFile, settled, dropRecord, core, spaces, life, obs, Up
    <2>2. IndexSound'
      BY NoneAssumption DEF TypeOK, IndexSound, Known, Req, LoadIsQuiet
    <2>3. Known'
      BY NoneAssumption DEF TypeOK, Known, Req, Rec, Suspended, LoadIsQuiet
    <2>4. RmsDropped'
      BY DEF TypeOK, RmsDropped, LoadIsQuiet
    <2>5. LoadIsQuiet'
      BY NoneAssumption DEF TypeOK, LoadIsQuiet, Rec, Status, Terminal
    <2>6. AnsweredIsDurable'
      BY SMTT(60), NoneAssumption DEF TypeOK, AnsweredIsDurable, RmsDropped, LoadIsQuiet, Rec, Status, Terminal, Suspended
    <2> QED
      BY <2>1, <2>2, <2>3, <2>4, <2>5, <2>6
  <1>10. ASSUME NEW rm \in rms, Removed(rm) PROVE IInv'
    <2> USE <1>10 DEF Removed, persist, core, spaces, life, obs, Up
    <2>1. TypeOK'
      BY NoneAssumption, RestartAssumption DEF TypeOK, Rec, Req, Status, Terminal, Suspended
    <2>2. IndexSound'
      BY NoneAssumption DEF TypeOK, IndexSound, Known, Req, LoadIsQuiet
    <2>3. Known'
      BY NoneAssumption DEF TypeOK, Known, Req, Rec, Suspended, LoadIsQuiet
    <2>4. RmsDropped'
      BY DEF TypeOK, RmsDropped, LoadIsQuiet
    <2>5. LoadIsQuiet'
      BY NoneAssumption DEF TypeOK, LoadIsQuiet, Rec, Status, Terminal
    <2>6. AnsweredIsDurable'
      BY NoneAssumption DEF TypeOK, AnsweredIsDurable, RmsDropped, LoadIsQuiet, Rec, Status, Terminal, Suspended
    <2> QED
      BY <2>1, <2>2, <2>3, <2>4, <2>5, <2>6
  <1>11. ASSUME NEW op \in Ops, Discard(op) PROVE IInv'
    <2>1. TypeOK'
      BY <1>11, DropTypes, NoneAssumption DEF TypeOK, Discard, discardable, spaces, life
    <2> USE <1>11 DEF Discard, discardable, dropRecord, isTerminal, core, spaces, life, obs, Up
    <2>2. IndexSound'
      BY NoneAssumption DEF TypeOK, IndexSound, Known, Req, LoadIsQuiet
    <2>3. Known'
      BY NoneAssumption DEF TypeOK, Known, Req, Rec, Suspended, LoadIsQuiet
    <2>4. RmsDropped'
      BY DEF TypeOK, RmsDropped, LoadIsQuiet
    <2>5. LoadIsQuiet'
      BY NoneAssumption DEF TypeOK, LoadIsQuiet, Rec, Status, Terminal
    <2>6. AnsweredIsDurable'
      BY NoneAssumption DEF TypeOK, AnsweredIsDurable, RmsDropped, LoadIsQuiet, Rec, Status, Terminal, Suspended
    <2> QED
      BY <2>1, <2>2, <2>3, <2>4, <2>5, <2>6
  <1>12. ASSUME NEW w \in Workspaces, RemoveForWorkspace(w) PROVE IInv'
    <2>1. TypeOK'
      <3>1. records \in SUBSET Ops /\ visit(w, records)
        BY <1>12 DEF TypeOK, RemoveForWorkspace
      <3> QED
        BY <1>12, <3>1, VisitTypes DEF TypeOK, RemoveForWorkspace, life
    <2> USE <1>12 DEF RemoveForWorkspace, visit, flag, dropRecord, isTerminal, Matches, core, spaces, life, obs, Up
    <2>2. IndexSound'
      BY NoneAssumption DEF TypeOK, IndexSound, Known, Req, LoadIsQuiet
    <2>3. Known'
      <3>1. /\ UNCHANGED <<req, pc, disk>> /\ records' \subseteq records
            /\ \A v \in Workspaces : sweep'[v] \subseteq sweep[v] \cup records
        <4>1. records \in SUBSET Ops /\ visit(w, records) /\ UNCHANGED <<req, pc, disk>>
          BY <1>12 DEF TypeOK, RemoveForWorkspace
        <4> QED
          BY <4>1, VisitShrinks
      <3> QED
        BY <3>1 DEF Known, TypeOK
    <2>4. RmsDropped'
      BY DEF TypeOK, RmsDropped, LoadIsQuiet
    <2>5. LoadIsQuiet'
      BY NoneAssumption DEF TypeOK, LoadIsQuiet, Rec, Status, Terminal
    <2>6. AnsweredIsDurable'
      BY NoneAssumption DEF TypeOK, AnsweredIsDurable, RmsDropped, LoadIsQuiet, Rec, Status, Terminal, Suspended
    <2> QED
      BY <2>1, <2>2, <2>3, <2>4, <2>5, <2>6
  <1>13. ASSUME NEW w \in Workspaces, ResumeSweep(w) PROVE IInv'
    <2>1. TypeOK'
      <3>1. sweep[w] \in SUBSET Ops /\ visit(w, sweep[w])
        BY <1>13 DEF TypeOK, ResumeSweep
      <3> QED
        BY <1>13, <3>1, VisitTypes DEF TypeOK, ResumeSweep, life
    <2> USE <1>13 DEF ResumeSweep, visit, flag, dropRecord, isTerminal, Matches, core, spaces, life, obs, Up
    <2>2. IndexSound'
      BY NoneAssumption DEF TypeOK, IndexSound, Known, Req, LoadIsQuiet
    <2>3. Known'
      <3>1. /\ UNCHANGED <<req, pc, disk>>
            /\ records' \subseteq records
            /\ \A v \in Workspaces : sweep'[v] \subseteq sweep[v]
        BY DEF TypeOK
      <3> QED
        BY <3>1 DEF Known, TypeOK
    <2>4. RmsDropped'
      BY DEF TypeOK, RmsDropped, LoadIsQuiet
    <2>5. LoadIsQuiet'
      BY NoneAssumption DEF TypeOK, LoadIsQuiet, Rec, Status, Terminal
    <2>6. AnsweredIsDurable'
      BY NoneAssumption DEF TypeOK, AnsweredIsDurable, RmsDropped, LoadIsQuiet, Rec, Status, Terminal, Suspended
    <2> QED
      BY <2>1, <2>2, <2>3, <2>4, <2>5, <2>6
  <1>14. ASSUME NEW landed \in SUBSET Writing, Restart(landed) PROVE IInv'
    <2>1. TypeOK'
      <3>1. disk' \in [Ops -> Rec \cup {None}]
        <4>1. \A o \in Ops : mem[o] \in Rec /\ settled(o) \in Rec
          BY SettledType DEF TypeOK
        <4> QED
          BY <1>14, <4>1 DEF TypeOK, Restart, outcomeFile
      <3>2. restarts' \in 0..MaxRestarts
        BY <1>14, RestartAssumption DEF TypeOK, Restart
      <3>3. pc' \in [Ops -> Suspended \cup {"unused", "settled", "lost"}]
        BY <1>14 DEF TypeOK, Restart
      <3>4. /\ UNCHANGED <<req, space, answered, dropped, emitted, unsaved>>
            /\ mem' \in [Ops -> Rec] /\ outcome' \in [Ops -> Terminal]
        BY <1>14, NewType DEF Restart, obs, Terminal
      <3>5. /\ toLoad' \subseteq Ops /\ records' \subseteq Ops
            /\ older' = {} /\ unread' = {} /\ removeOnFinish' \subseteq Ops /\ rms' = {}
            /\ sweep' \in [Workspaces -> SUBSET Ops]
            /\ byKey' \in [Keys -> Ops \cup {None}]
        BY <1>14 DEF TypeOK, Restart
      <3> QED
        BY <3>1, <3>2, <3>3, <3>4, <3>5 DEF TypeOK
    <2> USE <1>14 DEF Restart, outcomeFile, settled, Writing, core, spaces, life, obs, Up
    <2>2. IndexSound'
      BY NoneAssumption DEF TypeOK, IndexSound, Known, Req, LoadIsQuiet
    <2>3. Known'
      BY NoneAssumption DEF TypeOK, Known, Req, Rec, Suspended, LoadIsQuiet
    <2>4. RmsDropped'
      BY DEF TypeOK, RmsDropped, LoadIsQuiet
    <2>5. LoadIsQuiet'
      BY NoneAssumption DEF TypeOK, LoadIsQuiet, Rec, Status, Terminal
    <2>6. AnsweredIsDurable'
      <3>1. \A o \in Ops : mem[o] # None /\ settled(o) # None
        BY SettledType, NoneAssumption DEF TypeOK
      <3>2. \A o \in Ops : disk[o] # None => disk'[o] # None
        BY <1>14, <3>1 DEF Restart, outcomeFile
      <3> QED
        BY <3>2 DEF TypeOK, AnsweredIsDurable
    <2> QED
      BY <2>1, <2>2, <2>3, <2>4, <2>5, <2>6
  <1>15. ASSUME NEW op \in Ops, NEW result \in Terminal, NEW ws \in Workspaces \cup {None},
                   Load(op, result, ws) PROVE IInv'
    <2>1. TypeOK'
      <3>1. disk[op] \in Rec /\ op \in toLoad
        BY <1>15 DEF Load, TypeOK, LoadIsQuiet
      <3>2. mem' \in [Ops -> Rec]
        BY <1>15, <3>1 DEF Load, unsettled, TypeOK, Rec
      <3>3. byKey' \in [Keys -> Ops \cup {None}]
        BY <1>15 DEF Load, unsettled, index, TypeOK
      <3>4. /\ outcome' \in [Ops -> Terminal] /\ toLoad' \subseteq Ops
            /\ pc' \in [Ops -> Suspended \cup {"unused", "settled", "lost"}]
        BY <1>15, <3>1 DEF Load, unsettled, TypeOK, Suspended
      <3>5. records' \subseteq Ops /\ older' \subseteq Ops \X Ops
        BY <1>15 DEF Load, index, TypeOK
      <3> QED
        BY <1>15, <3>2, <3>3, <3>4, <3>5 DEF Load, unsettled, index, spaces, life, TypeOK
    <2> USE <1>15 DEF Load, unsettled, index, core, spaces, life, obs, Up
    <2>2. IndexSound'
      BY NoneAssumption DEF TypeOK, IndexSound, Known, Req, LoadIsQuiet
    <2>3. Known'
      BY NoneAssumption DEF TypeOK, Known, Req, Rec, Suspended, LoadIsQuiet
    <2>4. RmsDropped'
      BY DEF TypeOK, RmsDropped, LoadIsQuiet
    <2>5. LoadIsQuiet'
      BY NoneAssumption DEF TypeOK, LoadIsQuiet, Rec, Status, Terminal
    <2>6. AnsweredIsDurable'
      BY NoneAssumption DEF TypeOK, AnsweredIsDurable, RmsDropped, LoadIsQuiet, Rec, Status, Terminal, Suspended
    <2> QED
      BY <2>1, <2>2, <2>3, <2>4, <2>5, <2>6
  <1>16. CASE UNCHANGED vars
    BY <1>16 DEF vars, core, spaces, life, obs, TypeOK, IndexSound, Known, RmsDropped, LoadIsQuiet, AnsweredIsDurable
  <1> QED
    BY <1>1, <1>2, <1>3, <1>4, <1>5, <1>6, <1>7, <1>8, <1>9, <1>10, <1>11, <1>12, <1>13, <1>14, <1>15, <1>16 DEF Next

\* Whatever fails or restarts, the registry's variables keep their types,
\* every key in use names an indexed record with that key, and an answered
\* operation keeps its file until its record is dropped.
THEOREM RegistryInvariant == Spec => []IInv
  <1> QED
    BY InitIInv, StepIInv, PTL DEF Spec

\* accept() can dereference the record of an existing key (IndexSound).
THEOREM IndexIsSound == Spec => []IndexSound
  <1>1. IInv => IndexSound
    BY DEF IInv
  <1> QED
    BY <1>1, RegistryInvariant, PTL

\* An answered operation survives any crash: its file is there until its
\* record is dropped (AnsweredIsDurable).
THEOREM AnswersAreDurable == Spec => []AnsweredIsDurable
  <1>1. IInv => AnsweredIsDurable
    BY DEF IInv
  <1> QED
    BY <1>1, RegistryInvariant, PTL
-----------------------------------------------------------------------------
\* An outcome that was published and saved is the one the file holds, and its
\* operation is over: load() will not hand it to reconcile again.
EmittedOnce ==
  \A op \in Ops \ unsaved : emitted[op] # {} =>
    /\ pc[op] \in {"settled", "lost"}
    /\ \E s \in Terminal : emitted[op] = {s} /\ (disk[op] # None => disk[op].status = s)

\* Only finish() publishes: a step that publishes nothing must leave the file
\* and the end of every published operation alone.
LEMMA NothingPublished ==
  ASSUME EmittedOnce, UNCHANGED <<emitted, unsaved>>,
         \A op \in Ops \ unsaved : emitted[op] # {} =>
           pc'[op] \in {"settled", "lost"} /\ disk'[op] \in {disk[op], None}
  PROVE  EmittedOnce'
  BY DEF EmittedOnce

LEMMA StepEmittedOnce == IInv /\ EmittedOnce /\ [Next]_vars => EmittedOnce'
  <1> SUFFICES ASSUME IInv, EmittedOnce, [Next]_vars PROVE EmittedOnce'
    OBVIOUS
  <1> USE DEF IInv
  <1>1. ASSUME NEW op \in Ops, NEW k \in Keys, NEW w \in Workspaces \cup {None}, NEW use \in Use,
                  Accept(op, k, w, use) PROVE EmittedOnce'
    BY <1>1, NothingPublished DEF Accept, obs, EmittedOnce, TypeOK, Suspended
  <1>2. ASSUME NEW op \in Ops, AcceptPersisted(op) PROVE EmittedOnce'
    BY <1>2, NothingPublished DEF AcceptPersisted, EmittedOnce, TypeOK, Suspended
  <1>3. ASSUME NEW op \in Ops, AcceptFailed(op) PROVE EmittedOnce'
    BY <1>3, NothingPublished DEF AcceptFailed, obs, EmittedOnce, TypeOK, Suspended
  <1>4. CASE LoadGivesUp \/ \E op \in Ops : LoadSkips(op)
    BY <1>4 DEF LoadGivesUp, LoadSkips, core, obs, EmittedOnce
  <1>5. ASSUME NEW op \in Ops, CreateWorkspace(op) PROVE EmittedOnce'
    BY <1>5, NothingPublished DEF CreateWorkspace, core, obs, EmittedOnce, TypeOK, Suspended
  <1>6. ASSUME NEW op \in Ops, Update(op) PROVE EmittedOnce'
    BY <1>6, NothingPublished DEF Update, obs, EmittedOnce, TypeOK, Suspended
  <1>7. ASSUME NEW op \in Ops, UpdateWritten(op) PROVE EmittedOnce'
    BY <1>7, NothingPublished DEF UpdateWritten, persist, obs, EmittedOnce, TypeOK, Suspended
  <1>8. ASSUME NEW op \in Ops, NEW result \in {"succeeded", "failed"}, RunnerDone(op, result) PROVE EmittedOnce'
    BY <1>8, NothingPublished DEF RunnerDone, obs, EmittedOnce, TypeOK, Suspended
  <1>9. ASSUME NEW op \in Ops, Finish(op) PROVE EmittedOnce'
    <2>1. /\ emitted'[op] = emitted[op] \cup {outcome[op]} /\ outcome[op] \in Terminal
          /\ pc'[op] = "settled" /\ pc[op] = "finishing"
          /\ \A o \in Ops \ {op} : emitted'[o] = emitted[o] /\ pc'[o] = pc[o] /\ disk'[o] = disk[o]
          /\ unsaved \subseteq unsaved'
      BY <1>9 DEF Finish, persist, TypeOK
    <2>2. op \notin unsaved' => disk'[op] = settled(op) /\ op \notin unsaved
      BY <1>9 DEF Finish, outcomeFile
    <2>3. settled(op).status = outcome[op]
      BY DEF settled, TypeOK, Rec
    <2>4. op \notin unsaved => emitted[op] = {}
      BY <2>1 DEF EmittedOnce
    <2> QED
      BY <2>1, <2>2, <2>3, <2>4 DEF EmittedOnce
  <1>10. ASSUME NEW rm \in rms, Removed(rm) PROVE EmittedOnce'
    BY <1>10, NothingPublished DEF Removed, persist, obs, EmittedOnce, TypeOK, Suspended
  <1>11. ASSUME NEW op \in Ops, Discard(op) PROVE EmittedOnce'
    BY <1>11, NothingPublished DEF Discard, EmittedOnce, TypeOK, Suspended
  <1>12. ASSUME NEW w \in Workspaces, RemoveForWorkspace(w) PROVE EmittedOnce'
    BY <1>12, NothingPublished DEF RemoveForWorkspace, EmittedOnce, TypeOK, Suspended
  <1>13. ASSUME NEW w \in Workspaces, ResumeSweep(w) PROVE EmittedOnce'
    BY <1>13, NothingPublished DEF ResumeSweep, EmittedOnce, TypeOK, Suspended
  <1>14. ASSUME NEW landed \in SUBSET Writing, Restart(landed) PROVE EmittedOnce'
    BY <1>14, NothingPublished DEF Restart, Writing, obs, EmittedOnce, TypeOK, Suspended
  <1>15. ASSUME NEW op \in Ops, NEW result \in Terminal, NEW ws \in Workspaces \cup {None},
                   Load(op, result, ws) PROVE EmittedOnce'
    <2>1. op \notin unsaved /\ emitted[op] # {} => ~unsettled(op)
      BY <1>15 DEF Load, LoadIsQuiet, EmittedOnce, unsettled
    <2> QED
      BY <1>15, <2>1, NothingPublished DEF Load, EmittedOnce, TypeOK
  <1>16. CASE UNCHANGED vars
    BY <1>16 DEF vars, core, obs, EmittedOnce
  <1> QED
    BY <1>1, <1>2, <1>3, <1>4, <1>5, <1>6, <1>7, <1>8, <1>9, <1>10, <1>11, <1>12, <1>13, <1>14, <1>15, <1>16 DEF Next

\* The registry's variables keep their types.
THEOREM TypeCorrect == Spec => []TypeOK
  <1>1. IInv => TypeOK
    BY DEF IInv
  <1> QED
    BY <1>1, RegistryInvariant, PTL

\* Over all lives of the process an operation publishes one outcome, unless the
\* write of an outcome failed: finish() writes before it publishes, so load()
\* finds what was published settled (OneResult).
THEOREM OneResultForEver == Spec => []OneResult
  <1>1. Init => EmittedOnce
    BY DEF Init, EmittedOnce
  <1>2. EmittedOnce /\ TypeOK => OneResult
    <2> SUFFICES ASSUME EmittedOnce, TypeOK, NEW op \in Ops \ unsaved
                 PROVE  Cardinality(emitted[op]) <= 1
      BY DEF OneResult
    <2>1. CASE emitted[op] = {}
      BY <2>1, FS_EmptySet
    <2>2. CASE emitted[op] # {}
      <3>1. PICK s \in Terminal : emitted[op] = {s}
        BY <2>2 DEF EmittedOnce
      <3>2. Cardinality({s}) = 1
        BY FS_Singleton
      <3> QED
        BY <3>1, <3>2
    <2> QED
      BY <2>1, <2>2
  <1> QED
    BY <1>1, <1>2, StepEmittedOnce, RegistryInvariant, TypeCorrect, PTL DEF Spec

-----------------------------------------------------------------------------
\* The condition of the last theorem: no two records of the map share a key.
KeysUnique == \A o, p \in records : req[o].key = req[p].key => o = p

\* A record names no workspace but its request's; besides the one request that
\* reserves a workspace id only requests that act on that workspace name it.
Naming ==
  /\ \A o \in Ops : mem[o].ws # None => req[o] # None /\ mem[o].ws = req[o].ws
  /\ \A o \in Ops : disk[o] # None => disk[o].ws \in {None, req[o].ws}
  /\ \A o, p \in Ops, w \in Workspaces :
       reserves(p, w) /\ req[o] # None /\ req[o].ws = w /\ o # p => req[o].use = "acts"
  /\ \A o \in Ops : req[o] # None /\ req[o].use = "acts" =>
       req[o].ws \in Workspaces /\ space[req[o].ws] # "absent"

\* The map's order is strict, and what load() has still to read is not in it.
Loaded(o) == req[o] # None /\ (o \notin toLoad \/ pc[o] = "finishing")
Strict ==
  /\ \A o, p \in Ops : <<o, p>> \in older => <<p, o>> \notin older /\ Loaded(o) /\ Loaded(p)
  /\ \A o \in records : Loaded(o)

\* What runs is in the map and unsettled, and every key finds its record.
Runs == \A o \in Ops : pc[o] \in Suspended => o \in records /\ mem[o].status \notin Terminal
Keyed == \A o \in records : byKey[req[o].key] = o

\* A settled operation that did not name the workspace it reserved has left none.
UnNamed ==
  \A o \in Ops, w \in Workspaces : reserves(o, w) =>
    /\ disk[o] # None /\ disk[o].status \in Terminal /\ disk[o].ws = None =>
         space[w] # "present" /\ pc[o] \notin {"accepting", "running", "updating"}
    /\ pc[o] = "finishing" /\ mem[o].ws = None => space[w] # "present"

\* The creator of a workspace comes before the records that act on it, or has
\* named it.
CreatorFirst ==
  \A o, p \in records, w \in Workspaces :
    reserves(p, w) /\ space[w] = "present" /\ o # p /\ req[o].ws = w =>
      <<p, o>> \in older \/ mem[p].ws = w

\* What a suspended sweep will drop is in the map, not flagged, and no discard()
\* may take it.
Swept ==
  /\ \A o \in removeOnFinish :
       req[o] # None /\ req[o].ws \in Workspaces /\ space[req[o].ws] = "removed"
  /\ \A w \in Workspaces : \A o \in sweep[w] :
       /\ space[w] = "removed"
       /\ req[o].ws = w => o \notin removeOnFinish
       /\ reserves(o, w) => mem[o].ws = w
       /\ isTerminal(o) /\ Matches(o, w) => o \in records

Ordered == Naming /\ Strict /\ Runs /\ Keyed /\ UnNamed /\ CreatorFirst /\ Swept

\* One segment of the loop drops at most one record, one that has ended and
\* matches; what it flags and what it drops it does not visit again.
LEMMA VisitStep ==
  ASSUME IInv, Strict, NEW w \in Workspaces, NEW rest \in SUBSET Ops, visit(w, rest)
  PROVE  /\ removeOnFinish \subseteq removeOnFinish'
         /\ \A o \in removeOnFinish' : o \in removeOnFinish
              \/ (o \in rest /\ Matches(o, w) /\ o \notin sweep'[w])
         /\ \A v \in Workspaces \ {w} : sweep'[v] = sweep[v]
         /\ sweep'[w] \subseteq rest
         /\ \/ (sweep'[w] = {} /\ UNCHANGED <<records, byKey>>)
            \/ \E x \in rest :
                 /\ isTerminal(x) /\ Matches(x, w)
                 /\ records' = records \ {x}
                 /\ byKey' = [byKey EXCEPT ![req[x].key] = None]
                 /\ \A o \in sweep'[w] : o # x /\ <<x, o>> \in older
  <1>1. CASE /\ removeOnFinish' = removeOnFinish \cup {op \in rest : Matches(op, w)}
             /\ sweep' = [sweep EXCEPT ![w] = {}]
             /\ UNCHANGED <<records, byKey>>
    <2>1. sweep'[w] = {} /\ \A v \in Workspaces \ {w} : sweep'[v] = sweep[v]
      BY <1>1 DEF IInv, TypeOK
    <2>2. \A o \in removeOnFinish' : o \in removeOnFinish \/ (o \in rest /\ Matches(o, w))
      BY <1>1
    <2> QED
      BY <1>1, <2>1, <2>2
  <1>2. ASSUME NEW x \in rest, isTerminal(x), Matches(x, w), dropRecord(x, w),
               removeOnFinish' = removeOnFinish \cup {o \in {op \in rest : Matches(op, w)} : <<o, x>> \in older},
               sweep' = [sweep EXCEPT ![w] = {o \in rest : <<x, o>> \in older}]
        PROVE  /\ removeOnFinish \subseteq removeOnFinish'
               /\ \A o \in removeOnFinish' : o \in removeOnFinish
                    \/ (o \in rest /\ Matches(o, w) /\ o \notin sweep'[w])
               /\ \A v \in Workspaces \ {w} : sweep'[v] = sweep[v]
               /\ sweep'[w] \subseteq rest
               /\ records' = records \ {x}
               /\ byKey' = [byKey EXCEPT ![req[x].key] = None]
               /\ \A o \in sweep'[w] : o # x /\ <<x, o>> \in older
    <2>1. sweep'[w] = {o \in rest : <<x, o>> \in older}
      BY <1>2 DEF IInv, TypeOK
    <2>2. \A o \in rest : <<x, o>> \in older => <<o, x>> \notin older /\ o # x
      BY DEF Strict
    <2>3. \A v \in Workspaces \ {w} : sweep'[v] = sweep[v]
      BY <1>2 DEF IInv, TypeOK
    <2>4. ASSUME NEW o \in removeOnFinish', o \notin removeOnFinish
          PROVE  o \in rest /\ Matches(o, w) /\ o \notin sweep'[w]
      <3>1. o \in {op \in rest : Matches(op, w)} /\ <<o, x>> \in older
        BY <1>2, <2>4
      <3> QED
        BY <2>1, <2>2, <3>1
    <2> QED
      BY <1>2, <2>1, <2>2, <2>3, <2>4 DEF dropRecord
  <1> QED
    BY <1>1, <1>2 DEF visit, flag

LEMMA StepNaming ==
  ASSUME IInv, Naming, [Next]_vars
  PROVE  Naming'
  <1> USE DEF IInv
  <1>1. ASSUME NEW op \in Ops, NEW k \in Keys, NEW w \in Workspaces \cup {None}, NEW use \in Use,
                  Accept(op, k, w, use) PROVE Naming'
    <2>1. /\ UNCHANGED <<disk, space>> /\ pc[op] = "unused" /\ use \in Use
          /\ req' = [req EXCEPT ![op] = [key |-> k, ws |-> w, use |-> use]]
          /\ mem' = [mem EXCEPT ![op] = New] /\ req[op] = None /\ disk[op] = None
      BY <1>1 DEF Accept, spaces, Known
    <2>2. req'[op] = [key |-> k, ws |-> w, use |-> use] /\ req'[op] # None
      BY <2>1, NoneAssumption DEF TypeOK, Req
    <2>3. \A o \in Ops \ {op} : req'[o] = req[o] /\ mem'[o] = mem[o]
      BY <2>1 DEF TypeOK
    <2>4. mem'[op].ws = None
      BY <2>1 DEF TypeOK, New
    <2>5. \/ use = "none" /\ w = None
          \/ use = "acts" /\ w \in Workspaces /\ space[w] # "absent"
          \/ use \in {"creates", "reserves"} /\ Fresh(w)
      BY <1>1 DEF Accept, Use
    <2>6. ASSUME NEW o \in Ops, NEW q \in Ops, NEW v \in Workspaces,
                 reserves(q, v)', req'[o] # None, req'[o].ws = v, o # q
          PROVE  req'[o].use = "acts"
      <3>1. CASE o = op
        <4>1. req[q] # None /\ req[q].ws = w
          BY <2>2, <2>3, <2>6, <3>1 DEF reserves
        <4> QED
          BY <2>2, <2>5, <2>6, <3>1, <4>1, NoneAssumption DEF Fresh
      <3>2. CASE q = op
        <4>1. use = "reserves" /\ req[o] # None /\ req[o].ws = w
          BY <2>2, <2>3, <2>6, <3>2 DEF reserves
        <4> QED
          BY <2>5, <4>1 DEF Fresh
      <3>3. CASE o # op /\ q # op
        BY <2>3, <2>6, <3>3 DEF reserves, Naming
      <3> QED
        BY <3>1, <3>2, <3>3
    <2> QED
      BY <2>1, <2>2, <2>3, <2>4, <2>5, <2>6, NoneAssumption DEF Naming
  <1>2. ASSUME NEW op \in Ops, AcceptPersisted(op) PROVE Naming'
    BY <1>2, NoneAssumption DEF AcceptPersisted, life, spaces, Naming, Known, LoadIsQuiet, reserves, Fresh, New, TypeOK, Req, Rec, Suspended
  <1>3. ASSUME NEW op \in Ops, AcceptFailed(op) PROVE Naming'
    BY <1>3, NoneAssumption DEF AcceptFailed, life, spaces, obs, Naming, Known, LoadIsQuiet, reserves, Fresh, New, TypeOK, Req, Rec, Suspended
  <1>4. CASE LoadGivesUp \/ \E op \in Ops : LoadSkips(op)
    BY <1>4 DEF LoadGivesUp, LoadSkips, core, spaces, obs, Naming, Known, LoadIsQuiet, reserves, Fresh, New, TypeOK, Req, Rec, Suspended
  <1>5. ASSUME NEW op \in Ops, CreateWorkspace(op) PROVE Naming'
    BY <1>5, NoneAssumption DEF CreateWorkspace, core, life, obs, Naming, Known, LoadIsQuiet, reserves, Fresh, New, TypeOK, Req, Rec, Suspended
  <1>6. ASSUME NEW op \in Ops, Update(op) PROVE Naming'
    BY <1>6, NoneAssumption DEF Update, life, spaces, obs, Naming, Known, LoadIsQuiet, reserves, Fresh, New, TypeOK, Req, Rec, Suspended
  <1>7. ASSUME NEW op \in Ops, UpdateWritten(op) PROVE Naming'
    BY <1>7, NoneAssumption DEF UpdateWritten, persist, life, spaces, obs, Naming, Known, LoadIsQuiet, reserves, Fresh, New, TypeOK, Req, Rec, Suspended
  <1>8. ASSUME NEW op \in Ops, NEW result \in {"succeeded", "failed"}, RunnerDone(op, result) PROVE Naming'
    BY <1>8, NoneAssumption DEF RunnerDone, life, spaces, obs, Naming, Known, LoadIsQuiet, reserves, Fresh, New, TypeOK, Req, Rec, Suspended
  <1>9. ASSUME NEW op \in Ops, Finish(op) PROVE Naming'
    BY <1>9, NoneAssumption DEF Finish, persist, outcomeFile, settled, dropRecord, life, spaces, Naming, Known, LoadIsQuiet, reserves, Fresh, New, TypeOK, Req, Rec, Suspended
  <1>10. ASSUME NEW rm \in rms, Removed(rm) PROVE Naming'
    BY <1>10, NoneAssumption DEF Removed, persist, life, spaces, obs, Naming, Known, LoadIsQuiet, reserves, Fresh, New, TypeOK, Req, Rec, Suspended
  <1>11. ASSUME NEW op \in Ops, Discard(op) PROVE Naming'
    BY <1>11, NoneAssumption DEF Discard, discardable, isTerminal, dropRecord, life, spaces, Naming, Known, LoadIsQuiet, reserves, Fresh, New, TypeOK, Req, Rec, Suspended
  <1>12. ASSUME NEW w \in Workspaces, RemoveForWorkspace(w) PROVE Naming'
    BY <1>12, NoneAssumption DEF RemoveForWorkspace, life, Naming, Known, LoadIsQuiet, reserves, Fresh, New, TypeOK, Req, Rec, Suspended
  <1>13. ASSUME NEW w \in Workspaces, ResumeSweep(w) PROVE Naming'
    BY <1>13, NoneAssumption DEF ResumeSweep, life, Naming, Known, LoadIsQuiet, reserves, Fresh, New, TypeOK, Req, Rec, Suspended
  <1>14. ASSUME NEW landed \in SUBSET Writing, Restart(landed) PROVE Naming'
    BY <1>14, NoneAssumption DEF Restart, outcomeFile, settled, Writing, obs, Naming, Known, LoadIsQuiet, reserves, Fresh, New, TypeOK, Req, Rec, Suspended
  <1>15. ASSUME NEW op \in Ops, NEW result \in Terminal, NEW ws \in Workspaces \cup {None},
                   Load(op, result, ws) PROVE Naming'
    <2>1. /\ UNCHANGED <<req, disk, space>> /\ disk[op] \in Rec /\ req[op] # None
          /\ \A o \in Ops \ {op} : mem'[o] = mem[o]
      BY <1>15 DEF Load, spaces, LoadIsQuiet, TypeOK, Known
    <2>2. mem'[op].ws \in {disk[op].ws, req[op].ws}
      BY <1>15, <2>1 DEF Load, TypeOK, Rec
    <2>3. disk[op].ws \in {None, req[op].ws}
      BY <2>1, NoneAssumption DEF Naming
    <2> QED
      BY <2>1, <2>2, <2>3 DEF Naming, reserves
  <1>16. CASE UNCHANGED vars
    BY <1>16 DEF vars, core, spaces, Naming, Known, LoadIsQuiet, reserves, Fresh, New, TypeOK, Req, Rec, Suspended
  <1> QED
    BY <1>1, <1>2, <1>3, <1>4, <1>5, <1>6, <1>7, <1>8, <1>9, <1>10, <1>11, <1>12, <1>13, <1>14, <1>15, <1>16 DEF Next

LEMMA StepStrict ==
  ASSUME IInv, Strict, [Next]_vars
  PROVE  Strict'
  <1> USE DEF IInv
  <1>1. ASSUME NEW op \in Ops, NEW k \in Keys, NEW w \in Workspaces \cup {None}, NEW use \in Use,
                  Accept(op, k, w, use) PROVE Strict'
    <2>1. /\ UNCHANGED toLoad /\ toLoad = {} /\ req[op] = None
          /\ req' = [req EXCEPT ![op] = [key |-> k, ws |-> w, use |-> use]]
          /\ records' = records \cup {op} /\ older' = older \cup (records \X {op})
      BY <1>1 DEF Accept, index, Up, Known
    <2>2. req'[op] # None /\ \A o \in Ops \ {op} : req'[o] = req[o]
      BY <2>1, NoneAssumption DEF TypeOK, Req
    <2>3. \A o \in Ops : Loaded(o) => o # op /\ Loaded(o)'
      BY <2>1, <2>2 DEF Loaded
    <2>4. Loaded(op)'
      BY <2>1, <2>2 DEF Loaded
    <2>5. ASSUME NEW o \in Ops, NEW p \in Ops, <<o, p>> \in older', <<o, p>> \notin older
          PROVE  o \in records /\ p = op
      <3>1. <<o, p>> \in records \X {op}
        BY <2>1, <2>5
      <3> QED
        BY <3>1
    <2> QED
      BY <2>1, <2>3, <2>4, <2>5 DEF Strict, TypeOK
  <1>2. ASSUME NEW op \in Ops, AcceptPersisted(op) PROVE Strict'
    BY <1>2, NoneAssumption DEF AcceptPersisted, life, spaces, Strict, Loaded, Known, TypeOK, Req, Rec, Suspended
  <1>3. ASSUME NEW op \in Ops, AcceptFailed(op) PROVE Strict'
    BY <1>3, NoneAssumption DEF AcceptFailed, life, spaces, obs, Strict, Loaded, Known, TypeOK, Req, Rec, Suspended
  <1>4. CASE LoadGivesUp \/ \E op \in Ops : LoadSkips(op)
    BY <1>4 DEF LoadGivesUp, LoadSkips, core, spaces, obs, Strict, Loaded, Known, TypeOK, Req, Rec, Suspended
  <1>5. ASSUME NEW op \in Ops, CreateWorkspace(op) PROVE Strict'
    BY <1>5, NoneAssumption DEF CreateWorkspace, core, life, obs, Strict, Loaded, Known, TypeOK, Req, Rec, Suspended
  <1>6. ASSUME NEW op \in Ops, Update(op) PROVE Strict'
    BY <1>6, NoneAssumption DEF Update, life, spaces, obs, Strict, Loaded, Known, TypeOK, Req, Rec, Suspended
  <1>7. ASSUME NEW op \in Ops, UpdateWritten(op) PROVE Strict'
    BY <1>7, NoneAssumption DEF UpdateWritten, persist, life, spaces, obs, Strict, Loaded, Known, TypeOK, Req, Rec, Suspended
  <1>8. ASSUME NEW op \in Ops, NEW result \in {"succeeded", "failed"}, RunnerDone(op, result) PROVE Strict'
    BY <1>8, NoneAssumption DEF RunnerDone, life, spaces, obs, Strict, Loaded, Known, TypeOK, Req, Rec, Suspended
  <1>9. ASSUME NEW op \in Ops, Finish(op) PROVE Strict'
    BY <1>9, NoneAssumption DEF Finish, persist, outcomeFile, settled, dropRecord, life, spaces, Strict, Loaded, Known, TypeOK, Req, Rec, Suspended
  <1>10. ASSUME NEW rm \in rms, Removed(rm) PROVE Strict'
    BY <1>10, NoneAssumption DEF Removed, persist, life, spaces, obs, Strict, Loaded, Known, TypeOK, Req, Rec, Suspended
  <1>11. ASSUME NEW op \in Ops, Discard(op) PROVE Strict'
    BY <1>11, NoneAssumption DEF Discard, discardable, isTerminal, dropRecord, life, spaces, Strict, Loaded, Known, TypeOK, Req, Rec, Suspended
  <1>12. ASSUME NEW w \in Workspaces, RemoveForWorkspace(w) PROVE Strict'
    <2>1. records \in SUBSET Ops /\ visit(w, records)
      BY <1>12 DEF IInv, TypeOK, RemoveForWorkspace, ResumeSweep
    <2> QED
      BY <2>1, <1>12, VisitStep DEF RemoveForWorkspace, ResumeSweep, life, Strict, Loaded
  <1>13. ASSUME NEW w \in Workspaces, ResumeSweep(w) PROVE Strict'
    <2>1. sweep[w] \in SUBSET Ops /\ visit(w, sweep[w])
      BY <1>13 DEF IInv, TypeOK, RemoveForWorkspace, ResumeSweep
    <2> QED
      BY <2>1, <1>13, VisitStep DEF RemoveForWorkspace, ResumeSweep, life, Strict, Loaded
  <1>14. ASSUME NEW landed \in SUBSET Writing, Restart(landed) PROVE Strict'
    BY <1>14, NoneAssumption DEF Restart, outcomeFile, settled, Writing, obs, Strict, Loaded, Known, TypeOK, Req, Rec, Suspended
  <1>15. ASSUME NEW op \in Ops, NEW result \in Terminal, NEW ws \in Workspaces \cup {None},
                   Load(op, result, ws) PROVE Strict'
    <2>1. /\ UNCHANGED req /\ op \in toLoad /\ pc[op] # "finishing" /\ req[op] # None
          /\ records' = records \cup {op} /\ older' = older \cup (records \X {op})
      BY <1>15 DEF Load, index, LoadIsQuiet, Known
    <2>2. \A o \in Ops \ {op} : pc'[o] = pc[o] /\ (o \in toLoad' => o \in toLoad)
      BY <1>15 DEF Load, TypeOK
    <2>3. Loaded(op)' /\ ~Loaded(op)
      BY <1>15, <2>1 DEF Load, Loaded, TypeOK
    <2>4. \A o \in Ops : Loaded(o) => o # op /\ Loaded(o)'
      BY <2>1, <2>2, <2>3 DEF Loaded
    <2>5. ASSUME NEW o \in Ops, NEW p \in Ops, <<o, p>> \in older', <<o, p>> \notin older
          PROVE  o \in records /\ p = op
      <3>1. <<o, p>> \in records \X {op}
        BY <2>1, <2>5
      <3> QED
        BY <3>1
    <2> QED
      BY <2>1, <2>3, <2>4, <2>5 DEF Strict, TypeOK
  <1>16. CASE UNCHANGED vars
    BY <1>16 DEF vars, core, spaces, Strict, Loaded, Known, TypeOK, Req, Rec, Suspended
  <1> QED
    BY <1>1, <1>2, <1>3, <1>4, <1>5, <1>6, <1>7, <1>8, <1>9, <1>10, <1>11, <1>12, <1>13, <1>14, <1>15, <1>16 DEF Next

LEMMA StepRuns ==
  ASSUME IInv, Naming, Strict, Runs, Keyed, Swept, [Next]_vars
  PROVE  Runs'
  <1> USE DEF IInv
  <1>1. ASSUME NEW op \in Ops, NEW k \in Keys, NEW w \in Workspaces \cup {None}, NEW use \in Use,
                  Accept(op, k, w, use) PROVE Runs'
    <2>1. /\ records' = records \cup {op} /\ mem'[op] = New
          /\ \A o \in Ops \ {op} : pc'[o] = pc[o] /\ mem'[o] = mem[o]
      BY <1>1 DEF Accept, index, TypeOK
    <2> QED
      BY <2>1 DEF Runs, New, Terminal
  <1>2. ASSUME NEW op \in Ops, AcceptPersisted(op) PROVE Runs'
    BY <1>2, NoneAssumption DEF AcceptPersisted, life, spaces, Runs, Known, LoadIsQuiet, Terminal, TypeOK, Req, Rec, Suspended
  <1>3. ASSUME NEW op \in Ops, AcceptFailed(op) PROVE Runs'
    BY <1>3, NoneAssumption DEF AcceptFailed, life, spaces, obs, Runs, Known, LoadIsQuiet, Terminal, TypeOK, Req, Rec, Suspended
  <1>4. CASE LoadGivesUp \/ \E op \in Ops : LoadSkips(op)
    BY <1>4 DEF LoadGivesUp, LoadSkips, core, spaces, obs, Runs, Known, LoadIsQuiet, Terminal, TypeOK, Req, Rec, Suspended
  <1>5. ASSUME NEW op \in Ops, CreateWorkspace(op) PROVE Runs'
    BY <1>5, NoneAssumption DEF CreateWorkspace, core, life, obs, Runs, Known, LoadIsQuiet, Terminal, TypeOK, Req, Rec, Suspended
  <1>6. ASSUME NEW op \in Ops, Update(op) PROVE Runs'
    BY <1>6, NoneAssumption DEF Update, life, spaces, obs, Runs, Known, LoadIsQuiet, Terminal, TypeOK, Req, Rec, Suspended
  <1>7. ASSUME NEW op \in Ops, UpdateWritten(op) PROVE Runs'
    BY <1>7, NoneAssumption DEF UpdateWritten, persist, life, spaces, obs, Runs, Known, LoadIsQuiet, Terminal, TypeOK, Req, Rec, Suspended
  <1>8. ASSUME NEW op \in Ops, NEW result \in {"succeeded", "failed"}, RunnerDone(op, result) PROVE Runs'
    BY <1>8, NoneAssumption DEF RunnerDone, life, spaces, obs, Runs, Known, LoadIsQuiet, Terminal, TypeOK, Req, Rec, Suspended
  <1>9. ASSUME NEW op \in Ops, Finish(op) PROVE Runs'
    BY <1>9, NoneAssumption DEF Finish, persist, outcomeFile, settled, dropRecord, life, spaces, Runs, Known, LoadIsQuiet, Terminal, TypeOK, Req, Rec, Suspended
  <1>10. ASSUME NEW rm \in rms, Removed(rm) PROVE Runs'
    BY <1>10, NoneAssumption DEF Removed, persist, life, spaces, obs, Runs, Known, LoadIsQuiet, Terminal, TypeOK, Req, Rec, Suspended
  <1>11. ASSUME NEW op \in Ops, Discard(op) PROVE Runs'
    BY <1>11, NoneAssumption DEF Discard, discardable, isTerminal, dropRecord, life, spaces, Runs, Known, LoadIsQuiet, Terminal, TypeOK, Req, Rec, Suspended
  <1>12. ASSUME NEW w \in Workspaces, RemoveForWorkspace(w) PROVE Runs'
    <2>1. records \in SUBSET Ops /\ visit(w, records)
      BY <1>12 DEF IInv, TypeOK, RemoveForWorkspace, ResumeSweep
    <2> QED
      BY <2>1, <1>12, VisitStep DEF RemoveForWorkspace, ResumeSweep, isTerminal, life, Runs
  <1>13. ASSUME NEW w \in Workspaces, ResumeSweep(w) PROVE Runs'
    <2>1. sweep[w] \in SUBSET Ops /\ visit(w, sweep[w])
      BY <1>13 DEF IInv, TypeOK, RemoveForWorkspace, ResumeSweep
    <2> QED
      BY <2>1, <1>13, VisitStep DEF RemoveForWorkspace, ResumeSweep, isTerminal, life, Runs
  <1>14. ASSUME NEW landed \in SUBSET Writing, Restart(landed) PROVE Runs'
    BY <1>14, NoneAssumption DEF Restart, outcomeFile, settled, Writing, obs, Runs, Known, LoadIsQuiet, Terminal, TypeOK, Req, Rec, Suspended
  <1>15. ASSUME NEW op \in Ops, NEW result \in Terminal, NEW ws \in Workspaces \cup {None},
                   Load(op, result, ws) PROVE Runs'
    BY <1>15, NoneAssumption DEF Load, index, unsettled, spaces, life, Runs, Known, LoadIsQuiet, Terminal, TypeOK, Req, Rec, Suspended
  <1>16. CASE UNCHANGED vars
    BY <1>16 DEF vars, core, spaces, Runs, Known, LoadIsQuiet, Terminal, TypeOK, Req, Rec, Suspended
  <1> QED
    BY <1>1, <1>2, <1>3, <1>4, <1>5, <1>6, <1>7, <1>8, <1>9, <1>10, <1>11, <1>12, <1>13, <1>14, <1>15, <1>16 DEF Next

LEMMA StepKeyed ==
  ASSUME IInv, KeysUnique, KeysUnique', Strict, Runs, Keyed, Swept, [Next]_vars
  PROVE  Keyed'
  <1> USE DEF IInv
  <1>1. ASSUME NEW op \in Ops, NEW k \in Keys, NEW w \in Workspaces \cup {None}, NEW use \in Use,
                  Accept(op, k, w, use) PROVE Keyed'
    BY <1>1, NoneAssumption DEF Accept, index, life, spaces, obs, Keyed, KeysUnique, Runs, Known, IndexSound, TypeOK, Req, Rec, Suspended
  <1>2. ASSUME NEW op \in Ops, AcceptPersisted(op) PROVE Keyed'
    BY <1>2, NoneAssumption DEF AcceptPersisted, life, spaces, Keyed, KeysUnique, Runs, Known, IndexSound, TypeOK, Req, Rec, Suspended
  <1>3. ASSUME NEW op \in Ops, AcceptFailed(op) PROVE Keyed'
    BY <1>3, NoneAssumption DEF AcceptFailed, life, spaces, obs, Keyed, KeysUnique, Runs, Known, IndexSound, TypeOK, Req, Rec, Suspended
  <1>4. CASE LoadGivesUp \/ \E op \in Ops : LoadSkips(op)
    BY <1>4 DEF LoadGivesUp, LoadSkips, core, spaces, obs, Keyed, KeysUnique, Runs, Known, IndexSound, TypeOK, Req, Rec, Suspended
  <1>5. ASSUME NEW op \in Ops, CreateWorkspace(op) PROVE Keyed'
    BY <1>5, NoneAssumption DEF CreateWorkspace, core, life, obs, Keyed, KeysUnique, Runs, Known, IndexSound, TypeOK, Req, Rec, Suspended
  <1>6. ASSUME NEW op \in Ops, Update(op) PROVE Keyed'
    BY <1>6, NoneAssumption DEF Update, life, spaces, obs, Keyed, KeysUnique, Runs, Known, IndexSound, TypeOK, Req, Rec, Suspended
  <1>7. ASSUME NEW op \in Ops, UpdateWritten(op) PROVE Keyed'
    BY <1>7, NoneAssumption DEF UpdateWritten, persist, life, spaces, obs, Keyed, KeysUnique, Runs, Known, IndexSound, TypeOK, Req, Rec, Suspended
  <1>8. ASSUME NEW op \in Ops, NEW result \in {"succeeded", "failed"}, RunnerDone(op, result) PROVE Keyed'
    BY <1>8, NoneAssumption DEF RunnerDone, life, spaces, obs, Keyed, KeysUnique, Runs, Known, IndexSound, TypeOK, Req, Rec, Suspended
  <1>9. ASSUME NEW op \in Ops, Finish(op) PROVE Keyed'
    BY <1>9, NoneAssumption DEF Finish, persist, outcomeFile, settled, dropRecord, life, spaces, Keyed, KeysUnique, Runs, Known, IndexSound, TypeOK, Req, Rec, Suspended
  <1>10. ASSUME NEW rm \in rms, Removed(rm) PROVE Keyed'
    BY <1>10, NoneAssumption DEF Removed, persist, life, spaces, obs, Keyed, KeysUnique, Runs, Known, IndexSound, TypeOK, Req, Rec, Suspended
  <1>11. ASSUME NEW op \in Ops, Discard(op) PROVE Keyed'
    BY <1>11, NoneAssumption DEF Discard, discardable, isTerminal, dropRecord, life, spaces, Keyed, KeysUnique, Runs, Known, IndexSound, TypeOK, Req, Rec, Suspended
  <1>12. ASSUME NEW w \in Workspaces, RemoveForWorkspace(w) PROVE Keyed'
    <2>1. records \in SUBSET Ops /\ visit(w, records)
      BY <1>12 DEF IInv, TypeOK, RemoveForWorkspace, ResumeSweep
    <2> QED
      BY <2>1, <1>12, VisitStep, NoneAssumption DEF RemoveForWorkspace, ResumeSweep, life, Keyed, KeysUnique, Swept, TypeOK, Known, Req
  <1>13. ASSUME NEW w \in Workspaces, ResumeSweep(w) PROVE Keyed'
    <2>1. sweep[w] \in SUBSET Ops /\ visit(w, sweep[w])
      BY <1>13 DEF IInv, TypeOK, RemoveForWorkspace, ResumeSweep
    <2> QED
      BY <2>1, <1>13, VisitStep, NoneAssumption DEF RemoveForWorkspace, ResumeSweep, life, Keyed, KeysUnique, Swept, TypeOK, Known, Req
  <1>14. ASSUME NEW landed \in SUBSET Writing, Restart(landed) PROVE Keyed'
    BY <1>14, NoneAssumption DEF Restart, outcomeFile, settled, Writing, obs, Keyed, KeysUnique, Runs, Known, IndexSound, TypeOK, Req, Rec, Suspended
  <1>15. ASSUME NEW op \in Ops, NEW result \in Terminal, NEW ws \in Workspaces \cup {None},
                   Load(op, result, ws) PROVE Keyed'
    <2>1. /\ UNCHANGED req /\ records' = records \cup {op} /\ req[op] # None
          /\ byKey' = [byKey EXCEPT ![req[op].key] = op]
      BY <1>15 DEF Load, index, LoadIsQuiet, Known
    <2>2. \A o \in records : req[o].key \in Keys
      BY NoneAssumption DEF Known, TypeOK, Req
    <2>3. req[op].key \in Keys
      BY <2>1, NoneAssumption DEF TypeOK, Req
    <2>4. \A o \in records : o # op => req[o].key # req[op].key
      BY <2>1 DEF KeysUnique
    <2> QED
      BY <2>1, <2>2, <2>3, <2>4 DEF Keyed, TypeOK
  <1>16. CASE UNCHANGED vars
    BY <1>16 DEF vars, core, spaces, Keyed, KeysUnique, Runs, Known, IndexSound, TypeOK, Req, Rec, Suspended
  <1> QED
    BY <1>1, <1>2, <1>3, <1>4, <1>5, <1>6, <1>7, <1>8, <1>9, <1>10, <1>11, <1>12, <1>13, <1>14, <1>15, <1>16 DEF Next

LEMMA StepUnNamed ==
  ASSUME IInv, Naming, Runs, UnNamed, [Next]_vars
  PROVE  UnNamed'
  <1> USE DEF IInv
  <1>1. ASSUME NEW op \in Ops, NEW k \in Keys, NEW w \in Workspaces \cup {None}, NEW use \in Use,
                  Accept(op, k, w, use) PROVE UnNamed'
    BY <1>1, NoneAssumption DEF Accept, index, life, spaces, obs, UnNamed, Naming, Runs, Known, LoadIsQuiet, reserves, Terminal, TypeOK, Req, Rec, Suspended
  <1>2. ASSUME NEW op \in Ops, AcceptPersisted(op) PROVE UnNamed'
    BY <1>2, NoneAssumption DEF AcceptPersisted, life, spaces, UnNamed, Naming, Runs, Known, LoadIsQuiet, reserves, Terminal, TypeOK, Req, Rec, Suspended
  <1>3. ASSUME NEW op \in Ops, AcceptFailed(op) PROVE UnNamed'
    BY <1>3, NoneAssumption DEF AcceptFailed, life, spaces, obs, UnNamed, Naming, Runs, Known, LoadIsQuiet, reserves, Terminal, TypeOK, Req, Rec, Suspended
  <1>4. CASE LoadGivesUp \/ \E op \in Ops : LoadSkips(op)
    BY <1>4 DEF LoadGivesUp, LoadSkips, core, spaces, obs, UnNamed, Naming, Runs, Known, LoadIsQuiet, reserves, Terminal, TypeOK, Req, Rec, Suspended
  <1>5. ASSUME NEW op \in Ops, CreateWorkspace(op) PROVE UnNamed'
    BY <1>5, NoneAssumption DEF CreateWorkspace, core, life, obs, UnNamed, Naming, Runs, Known, LoadIsQuiet, reserves, Terminal, TypeOK, Req, Rec, Suspended
  <1>6. ASSUME NEW op \in Ops, Update(op) PROVE UnNamed'
    BY <1>6, NoneAssumption DEF Update, life, spaces, obs, UnNamed, Naming, Runs, Known, LoadIsQuiet, reserves, Terminal, TypeOK, Req, Rec, Suspended
  <1>7. ASSUME NEW op \in Ops, UpdateWritten(op) PROVE UnNamed'
    BY <1>7, NoneAssumption DEF UpdateWritten, persist, life, spaces, obs, UnNamed, Naming, Runs, Known, LoadIsQuiet, reserves, Terminal, TypeOK, Req, Rec, Suspended
  <1>8. ASSUME NEW op \in Ops, NEW result \in {"succeeded", "failed"}, RunnerDone(op, result) PROVE UnNamed'
    BY <1>8, NoneAssumption DEF RunnerDone, life, spaces, obs, UnNamed, Naming, Runs, Known, LoadIsQuiet, reserves, Terminal, TypeOK, Req, Rec, Suspended
  <1>9. ASSUME NEW op \in Ops, Finish(op) PROVE UnNamed'
    BY <1>9, NoneAssumption DEF Finish, persist, outcomeFile, settled, dropRecord, life, spaces, UnNamed, Naming, Runs, Known, LoadIsQuiet, reserves, Terminal, TypeOK, Req, Rec, Suspended
  <1>10. ASSUME NEW rm \in rms, Removed(rm) PROVE UnNamed'
    BY <1>10, NoneAssumption DEF Removed, persist, life, spaces, obs, UnNamed, Naming, Runs, Known, LoadIsQuiet, reserves, Terminal, TypeOK, Req, Rec, Suspended
  <1>11. ASSUME NEW op \in Ops, Discard(op) PROVE UnNamed'
    BY <1>11, NoneAssumption DEF Discard, discardable, isTerminal, dropRecord, life, spaces, UnNamed, Naming, Runs, Known, LoadIsQuiet, reserves, Terminal, TypeOK, Req, Rec, Suspended
  <1>12. ASSUME NEW w \in Workspaces, RemoveForWorkspace(w) PROVE UnNamed'
    <2>1. records \in SUBSET Ops /\ visit(w, records)
      BY <1>12 DEF IInv, TypeOK, RemoveForWorkspace, ResumeSweep
    <2> QED
      BY <2>1, <1>12 DEF RemoveForWorkspace, ResumeSweep, life, UnNamed, reserves, TypeOK
  <1>13. ASSUME NEW w \in Workspaces, ResumeSweep(w) PROVE UnNamed'
    <2>1. sweep[w] \in SUBSET Ops /\ visit(w, sweep[w])
      BY <1>13 DEF IInv, TypeOK, RemoveForWorkspace, ResumeSweep
    <2> QED
      BY <2>1, <1>13 DEF RemoveForWorkspace, ResumeSweep, life, UnNamed, reserves, TypeOK
  <1>14. ASSUME NEW landed \in SUBSET Writing, Restart(landed) PROVE UnNamed'
    <2> SUFFICES ASSUME NEW o \in Ops, NEW w \in Workspaces, reserves(o, w),
                        disk'[o] # None, disk'[o].status \in Terminal, disk'[o].ws = None
                 PROVE  space[w] # "present"
      BY <1>14 DEF Restart, UnNamed, reserves, TypeOK
    <2>1. CASE disk'[o] = disk[o]
      BY <2>1 DEF UnNamed
    <2>2. CASE disk'[o] = settled(o) /\ pc[o] = "finishing"
      <3>1. mem[o].ws = None
        BY <2>2 DEF settled, TypeOK, Rec
      <3> QED
        BY <2>2, <3>1 DEF UnNamed
    <2>3. CASE disk'[o] = mem[o] /\ pc[o] \in {"accepting", "updating"}
      BY <2>3 DEF Runs, Suspended
    <2> QED
      BY <1>14, <2>1, <2>2, <2>3 DEF Restart, outcomeFile, Writing
  <1>15. ASSUME NEW op \in Ops, NEW result \in Terminal, NEW ws \in Workspaces \cup {None},
                   Load(op, result, ws) PROVE UnNamed'
    BY <1>15, NoneAssumption DEF Load, index, unsettled, spaces, life, UnNamed, Naming, Runs, Known, LoadIsQuiet, reserves, Terminal, TypeOK, Req, Rec, Suspended
  <1>16. CASE UNCHANGED vars
    BY <1>16 DEF vars, core, spaces, UnNamed, Naming, Runs, Known, LoadIsQuiet, reserves, Terminal, TypeOK, Req, Rec, Suspended
  <1> QED
    BY <1>1, <1>2, <1>3, <1>4, <1>5, <1>6, <1>7, <1>8, <1>9, <1>10, <1>11, <1>12, <1>13, <1>14, <1>15, <1>16 DEF Next

\* What indexes nothing, creates no workspace and renames nothing keeps the order.
LEMMA CreatorKept ==
  ASSUME CreatorFirst, UNCHANGED <<req, older>>, records' \subseteq records, records \subseteq Ops,
         \A v \in Workspaces : space'[v] = "present" => space[v] = "present",
         \A o \in Ops : mem[o].ws \in Workspaces => mem'[o].ws = mem[o].ws
  PROVE  CreatorFirst'
  BY DEF CreatorFirst, reserves

LEMMA StepCreatorFirst ==
  ASSUME IInv, Naming, UnNamed, CreatorFirst, [Next]_vars
  PROVE  CreatorFirst'
  <1> USE DEF IInv
  <1>1. ASSUME NEW op \in Ops, NEW k \in Keys, NEW w \in Workspaces \cup {None}, NEW use \in Use,
                  Accept(op, k, w, use) PROVE CreatorFirst'
    <2>1. /\ UNCHANGED space /\ req[op] = None /\ op \notin records
          /\ req' = [req EXCEPT ![op] = [key |-> k, ws |-> w, use |-> use]]
          /\ records' = records \cup {op} /\ older' = older \cup (records \X {op})
          /\ \A o \in Ops \ {op} : mem'[o] = mem[o]
      BY <1>1 DEF Accept, index, spaces, Known, TypeOK
    <2>2. req'[op] = [key |-> k, ws |-> w, use |-> use] /\ \A o \in Ops \ {op} : req'[o] = req[o]
      BY <2>1 DEF TypeOK
    <2>3. use = "reserves" => \A o \in records : req[o].ws # w
      BY <1>1 DEF Accept, Fresh, Known, TypeOK
    <2> SUFFICES ASSUME NEW o \in records', NEW p \in records', NEW v \in Workspaces,
                        reserves(p, v)', space[v] = "present", o # p, req'[o].ws = v
                 PROVE  <<p, o>> \in older' \/ mem'[p].ws = v
      BY <2>1 DEF CreatorFirst
    <2>4. CASE o = op
      BY <2>1, <2>4
    <2>5. CASE p = op
      BY <2>1, <2>2, <2>3, <2>5 DEF reserves
    <2>6. CASE o # op /\ p # op
      <3>1. o \in records /\ p \in records /\ o \in Ops /\ p \in Ops
        BY <2>1, <2>6 DEF TypeOK
      <3> QED
        BY <2>1, <2>2, <2>6, <3>1 DEF reserves, CreatorFirst
    <2> QED
      BY <2>4, <2>5, <2>6
  <1>2. ASSUME NEW op \in Ops, AcceptPersisted(op) PROVE CreatorFirst'
    <2>1. /\ UNCHANGED <<req, older>> /\ records' \subseteq records
          /\ \A v \in Workspaces : space'[v] = "present" => space[v] = "present"
          /\ \A o \in Ops : mem[o].ws \in Workspaces => mem'[o].ws = mem[o].ws
      BY <1>2, NoneAssumption DEF AcceptPersisted, spaces, Naming, TypeOK, Rec
    <2> QED
      BY <2>1, CreatorKept DEF TypeOK
  <1>3. ASSUME NEW op \in Ops, AcceptFailed(op) PROVE CreatorFirst'
    <2>1. /\ UNCHANGED <<req, older>> /\ records' \subseteq records
          /\ \A v \in Workspaces : space'[v] = "present" => space[v] = "present"
          /\ \A o \in Ops : mem[o].ws \in Workspaces => mem'[o].ws = mem[o].ws
      BY <1>3, NoneAssumption DEF AcceptFailed, spaces, Naming, TypeOK, Rec
    <2> QED
      BY <2>1, CreatorKept DEF TypeOK
  <1>4. CASE LoadGivesUp \/ \E op \in Ops : LoadSkips(op)
    BY <1>4 DEF LoadGivesUp, LoadSkips, core, spaces, obs, CreatorFirst, Naming, UnNamed, Known, LoadIsQuiet, reserves, Fresh, Terminal, TypeOK, Req, Rec, Suspended
  <1>5. ASSUME NEW op \in Ops, CreateWorkspace(op) PROVE CreatorFirst'
    <2>1. /\ UNCHANGED <<req, records, older, mem>> /\ req[op] # None /\ space[req[op].ws] = "absent"
          /\ \A v \in Workspaces : v # req[op].ws => space'[v] = space[v]
      BY <1>5 DEF CreateWorkspace, core, Known, TypeOK
    <2> SUFFICES ASSUME NEW o \in records, NEW p \in records,
                        reserves(p, req[op].ws), o # p, req[o].ws = req[op].ws
                 PROVE  FALSE
      BY <2>1 DEF CreatorFirst, reserves
    <2>2. o \in Ops /\ p \in Ops /\ req[o] # None /\ req[p].ws = req[op].ws
      BY DEF TypeOK, Known, reserves
    <2>3. req[op].ws \in Workspaces
      BY <1>5, <2>1 DEF CreateWorkspace, TypeOK, Req
    <2>4. req[o].use = "acts"
      BY <2>2, <2>3 DEF Naming
    <2> QED
      BY <2>1, <2>2, <2>4 DEF Naming
  <1>6. ASSUME NEW op \in Ops, Update(op) PROVE CreatorFirst'
    BY <1>6, NoneAssumption DEF Update, life, spaces, obs, CreatorFirst, Naming, UnNamed, Known, LoadIsQuiet, reserves, Fresh, Terminal, TypeOK, Req, Rec, Suspended
  <1>7. ASSUME NEW op \in Ops, UpdateWritten(op) PROVE CreatorFirst'
    <2>1. /\ UNCHANGED <<req, older>> /\ records' \subseteq records
          /\ \A v \in Workspaces : space'[v] = "present" => space[v] = "present"
          /\ \A o \in Ops : mem[o].ws \in Workspaces => mem'[o].ws = mem[o].ws
      BY <1>7, NoneAssumption DEF UpdateWritten, spaces, Naming, TypeOK, Rec
    <2> QED
      BY <2>1, CreatorKept DEF TypeOK
  <1>8. ASSUME NEW op \in Ops, NEW result \in {"succeeded", "failed"}, RunnerDone(op, result) PROVE CreatorFirst'
    BY <1>8, NoneAssumption DEF RunnerDone, life, spaces, obs, CreatorFirst, Naming, UnNamed, Known, LoadIsQuiet, reserves, Fresh, Terminal, TypeOK, Req, Rec, Suspended
  <1>9. ASSUME NEW op \in Ops, Finish(op) PROVE CreatorFirst'
    <2>1. /\ UNCHANGED <<req, older>> /\ records' \subseteq records
          /\ \A v \in Workspaces : space'[v] = "present" => space[v] = "present"
          /\ \A o \in Ops : mem[o].ws \in Workspaces => mem'[o].ws = mem[o].ws
      BY <1>9, NoneAssumption DEF Finish, settled, dropRecord, spaces, Naming, TypeOK, Rec
    <2> QED
      BY <2>1, CreatorKept DEF TypeOK
  <1>10. ASSUME NEW rm \in rms, Removed(rm) PROVE CreatorFirst'
    BY <1>10, NoneAssumption DEF Removed, persist, life, spaces, obs, CreatorFirst, Naming, UnNamed, Known, LoadIsQuiet, reserves, Fresh, Terminal, TypeOK, Req, Rec, Suspended
  <1>11. ASSUME NEW op \in Ops, Discard(op) PROVE CreatorFirst'
    BY <1>11, NoneAssumption DEF Discard, discardable, isTerminal, dropRecord, life, spaces, CreatorFirst, Naming, UnNamed, Known, LoadIsQuiet, reserves, Fresh, Terminal, TypeOK, Req, Rec, Suspended
  <1>12. ASSUME NEW w \in Workspaces, RemoveForWorkspace(w) PROVE CreatorFirst'
    <2>1. records \in SUBSET Ops /\ visit(w, records)
      BY <1>12 DEF IInv, TypeOK, RemoveForWorkspace, ResumeSweep
    <2> QED
      BY <2>1, <1>12, VisitShrinks DEF RemoveForWorkspace, ResumeSweep, life, CreatorFirst, reserves, TypeOK
  <1>13. ASSUME NEW w \in Workspaces, ResumeSweep(w) PROVE CreatorFirst'
    <2>1. sweep[w] \in SUBSET Ops /\ visit(w, sweep[w])
      BY <1>13 DEF IInv, TypeOK, RemoveForWorkspace, ResumeSweep
    <2> QED
      BY <2>1, <1>13, VisitShrinks DEF RemoveForWorkspace, ResumeSweep, life, CreatorFirst, reserves, TypeOK
  <1>14. ASSUME NEW landed \in SUBSET Writing, Restart(landed) PROVE CreatorFirst'
    BY <1>14, NoneAssumption DEF Restart, outcomeFile, settled, Writing, obs, CreatorFirst, Naming, UnNamed, Known, LoadIsQuiet, reserves, Fresh, Terminal, TypeOK, Req, Rec, Suspended
  <1>15. ASSUME NEW op \in Ops, NEW result \in Terminal, NEW ws \in Workspaces \cup {None},
                   Load(op, result, ws) PROVE CreatorFirst'
    <2>1. /\ UNCHANGED <<req, space>> /\ req[op] # None /\ disk[op] \in Rec
          /\ records' = records \cup {op} /\ older' = older \cup (records \X {op})
          /\ \A o \in Ops \ {op} : mem'[o] = mem[o]
      BY <1>15 DEF Load, index, spaces, LoadIsQuiet, Known, TypeOK
    <2>2. ASSUME NEW v \in Workspaces, reserves(op, v), space[v] = "present" PROVE mem'[op].ws = v
      <3>1. CASE unsettled(op)
        BY <1>15, <2>1, <2>2, <3>1 DEF Load, reserves, TypeOK, Rec
      <3>2. CASE ~unsettled(op)
        <4>1. disk[op].ws \in {None, v}
          BY <2>1, <2>2, NoneAssumption DEF Naming, reserves
        <4>2. disk[op].ws # None
          BY <2>1, <2>2, <3>2, NoneAssumption DEF UnNamed, unsettled
        <4> QED
          BY <1>15, <3>2, <4>1, <4>2 DEF Load, TypeOK
      <3> QED
        BY <3>1, <3>2
    <2> SUFFICES ASSUME NEW o \in records', NEW p \in records', NEW v \in Workspaces,
                        reserves(p, v), space[v] = "present", o # p, req[o].ws = v
                 PROVE  <<p, o>> \in older' \/ mem'[p].ws = v
      BY <2>1 DEF CreatorFirst, reserves
    <2>3. CASE p = op
      BY <2>2, <2>3
    <2>4. CASE o = op
      BY <2>1, <2>4
    <2>5. CASE o # op /\ p # op
      <3>1. o \in records /\ p \in records /\ p \in Ops
        BY <2>1, <2>5 DEF TypeOK
      <3> QED
        BY <2>1, <2>5, <3>1 DEF CreatorFirst
    <2> QED
      BY <2>3, <2>4, <2>5
  <1>16. CASE UNCHANGED vars
    BY <1>16 DEF vars, core, spaces, CreatorFirst, Naming, UnNamed, Known, LoadIsQuiet, reserves, Fresh, Terminal, TypeOK, Req, Rec, Suspended
  <1> QED
    BY <1>1, <1>2, <1>3, <1>4, <1>5, <1>6, <1>7, <1>8, <1>9, <1>10, <1>11, <1>12, <1>13, <1>14, <1>15, <1>16 DEF Next

\* A segment of one workspace's loop leaves the other sweeps as they were: what
\* it drops or flags concerns no other workspace.
LEMMA VisitSwept ==
  ASSUME IInv, Naming, Strict, Swept, NEW w \in Workspaces, NEW rest \in SUBSET Ops, visit(w, rest),
         UNCHANGED <<req, mem>>, space'[w] = "removed",
         \A v \in Workspaces \ {w} : space'[v] = space[v]
  PROVE  /\ \A o \in removeOnFinish' :
              req[o] # None /\ req[o].ws \in Workspaces /\ space'[req[o].ws] = "removed"
         /\ \A v \in Workspaces \ {w} : \A o \in sweep'[v] :
              /\ space'[v] = "removed"
              /\ req[o].ws = v => o \notin removeOnFinish'
              /\ reserves(o, v) => mem[o].ws = v
              /\ isTerminal(o) /\ Matches(o, v) => o \in records'
  <1> USE DEF IInv
  <1>1. ASSUME NEW o \in Ops, NEW v \in Workspaces, Matches(o, v)
        PROVE  req[o] # None /\ req[o].ws = v
    BY <1>1, NoneAssumption DEF Matches, reserves, Naming
  <1>2. \A o \in removeOnFinish' :
          req[o] # None /\ req[o].ws \in Workspaces /\ space'[req[o].ws] = "removed"
    <2>1. \A o \in removeOnFinish' : o \in removeOnFinish \/ (o \in Ops /\ Matches(o, w))
      BY VisitStep
    <2> QED
      BY <1>1, <2>1 DEF Swept
  <1>3. ASSUME NEW v \in Workspaces \ {w}, NEW o \in sweep[v], req[o].ws = v
        PROVE  o \notin removeOnFinish' /\ (o \in records => o \in records')
    <2>1. o \in Ops /\ ~Matches(o, w)
      BY <1>1, <1>3 DEF TypeOK
    <2>2. o \notin removeOnFinish'
      BY <1>3, <2>1, VisitStep DEF Swept
    <2>3. o \in records => o \in records'
      BY <2>1, VisitStep
    <2> QED
      BY <2>2, <2>3
  <1>4. ASSUME NEW v \in Workspaces \ {w}, NEW o \in sweep'[v]
        PROVE  /\ space'[v] = "removed"
               /\ req[o].ws = v => o \notin removeOnFinish'
               /\ reserves(o, v) => mem[o].ws = v
               /\ isTerminal(o) /\ Matches(o, v) => o \in records'
    <2>1. o \in sweep[v] /\ o \in Ops
      BY <1>4, VisitStep DEF TypeOK
    <2> QED
      BY <1>1, <1>3, <2>1 DEF Swept
  <1> QED
    BY <1>2, <1>4

LEMMA StepSwept ==
  ASSUME IInv, Naming, Strict, Runs, CreatorFirst, Swept, [Next]_vars
  PROVE  Swept'
  <1> USE DEF IInv
  <1>1. ASSUME NEW op \in Ops, NEW k \in Keys, NEW w \in Workspaces \cup {None}, NEW use \in Use,
                  Accept(op, k, w, use) PROVE Swept'
    BY <1>1, NoneAssumption DEF Accept, index, life, spaces, obs, Swept, Naming, Runs, Known, LoadIsQuiet, isTerminal, Matches, reserves, Fresh, New, Terminal, TypeOK, Req, Rec, Suspended
  <1>2. ASSUME NEW op \in Ops, AcceptPersisted(op) PROVE Swept'
    <2>1. /\ UNCHANGED <<req, records, removeOnFinish, sweep, space>>
          /\ mem'[op].status = "running" /\ pc[op] = "accepting"
          /\ \A o \in Ops \ {op} : mem'[o] = mem[o]
          /\ mem[op].ws # None => mem'[op].ws = mem[op].ws
      BY <1>2 DEF AcceptPersisted, spaces, Naming, TypeOK, Rec
    <2>2. op \in records
      BY <2>1 DEF Runs, Suspended
    <2> QED
      BY <2>1, <2>2, NoneAssumption DEF Swept, isTerminal, Matches, reserves, TypeOK
  <1>3. ASSUME NEW op \in Ops, AcceptFailed(op) PROVE Swept'
    BY <1>3, NoneAssumption DEF AcceptFailed, life, spaces, obs, Swept, Naming, Runs, Known, LoadIsQuiet, isTerminal, Matches, reserves, Fresh, New, Terminal, TypeOK, Req, Rec, Suspended
  <1>4. CASE LoadGivesUp \/ \E op \in Ops : LoadSkips(op)
    BY <1>4 DEF LoadGivesUp, LoadSkips, core, spaces, obs, Swept, Naming, Runs, Known, LoadIsQuiet, isTerminal, Matches, reserves, Fresh, New, Terminal, TypeOK, Req, Rec, Suspended
  <1>5. ASSUME NEW op \in Ops, CreateWorkspace(op) PROVE Swept'
    BY <1>5, NoneAssumption DEF CreateWorkspace, core, life, obs, Swept, Naming, Runs, Known, LoadIsQuiet, isTerminal, Matches, reserves, Fresh, New, Terminal, TypeOK, Req, Rec, Suspended
  <1>6. ASSUME NEW op \in Ops, Update(op) PROVE Swept'
    BY <1>6, NoneAssumption DEF Update, life, spaces, obs, Swept, Naming, Runs, Known, LoadIsQuiet, isTerminal, Matches, reserves, Fresh, New, Terminal, TypeOK, Req, Rec, Suspended
  <1>7. ASSUME NEW op \in Ops, UpdateWritten(op) PROVE Swept'
    BY <1>7, NoneAssumption DEF UpdateWritten, persist, life, spaces, obs, Swept, Naming, Runs, Known, LoadIsQuiet, isTerminal, Matches, reserves, Fresh, New, Terminal, TypeOK, Req, Rec, Suspended
  <1>8. ASSUME NEW op \in Ops, NEW result \in {"succeeded", "failed"}, RunnerDone(op, result) PROVE Swept'
    BY <1>8, NoneAssumption DEF RunnerDone, life, spaces, obs, Swept, Naming, Runs, Known, LoadIsQuiet, isTerminal, Matches, reserves, Fresh, New, Terminal, TypeOK, Req, Rec, Suspended
  <1>9. ASSUME NEW op \in Ops, Finish(op) PROVE Swept'
    <2>1. /\ UNCHANGED <<req, sweep, space>> /\ removeOnFinish' = removeOnFinish \ {op}
          /\ \A o \in Ops \ {op} : mem'[o] = mem[o]
          /\ mem'[op].ws = mem[op].ws
          /\ records' = IF op \in removeOnFinish THEN records \ {op} ELSE records
      BY <1>9 DEF Finish, settled, dropRecord, spaces, TypeOK, Rec
    <2>2. op \in records
      BY <1>9 DEF Finish, Runs, Suspended
    <2>3. ASSUME NEW w \in Workspaces, op \in sweep[w], Matches(op, w) PROVE op \in records'
      <3>1. req[op].ws = w
        BY <2>3, NoneAssumption DEF Matches, reserves, Naming
      <3> QED
        BY <2>1, <2>2, <2>3, <3>1 DEF Swept
    <2> QED
      BY <2>1, <2>3 DEF Swept, isTerminal, Matches, reserves, TypeOK
  <1>10. ASSUME NEW rm \in rms, Removed(rm) PROVE Swept'
    BY <1>10, NoneAssumption DEF Removed, persist, life, spaces, obs, Swept, Naming, Runs, Known, LoadIsQuiet, isTerminal, Matches, reserves, Fresh, New, Terminal, TypeOK, Req, Rec, Suspended
  <1>11. ASSUME NEW op \in Ops, Discard(op) PROVE Swept'
    BY <1>11, NoneAssumption DEF Discard, discardable, isTerminal, dropRecord, life, spaces, Swept, Naming, Runs, Known, LoadIsQuiet, isTerminal, Matches, reserves, Fresh, New, Terminal, TypeOK, Req, Rec, Suspended
  <1>12. ASSUME NEW w \in Workspaces, RemoveForWorkspace(w) PROVE Swept'
    <2>1. /\ records \in SUBSET Ops /\ visit(w, records)
          /\ UNCHANGED <<req, mem>> /\ space[w] = "present"
          /\ space' = [space EXCEPT ![w] = "removed"]
      BY <1>12 DEF TypeOK, RemoveForWorkspace
    <2>2. /\ space'[w] = "removed" /\ \A v \in Workspaces \ {w} : space'[v] = space[v]
      BY <2>1 DEF TypeOK
    <2>3. \A o \in sweep'[w] : o \in records /\ o \in records' /\ req[o] # None
      <3>1. sweep'[w] \subseteq records
        BY <2>1, VisitStep
      <3>2. \/ sweep'[w] = {}
            \/ \E x \in records : records' = records \ {x} /\ \A o \in sweep'[w] : o # x
        <4>1. \/ (sweep'[w] = {} /\ UNCHANGED <<records, byKey>>)
              \/ \E x \in records :
                   /\ isTerminal(x) /\ Matches(x, w)
                   /\ records' = records \ {x}
                   /\ byKey' = [byKey EXCEPT ![req[x].key] = None]
                   /\ \A o \in sweep'[w] : o # x /\ <<x, o>> \in older
          BY <2>1, VisitStep
        <4>2. ASSUME NEW x \in records, records' = records \ {x}, \A o \in sweep'[w] : o # x /\ <<x, o>> \in older
              PROVE  \E y \in records : records' = records \ {y} /\ \A o \in sweep'[w] : o # y
          BY <4>2
        <4> QED
          BY <4>1, <4>2
      <3> QED
        BY <3>1, <3>2 DEF Known
    <2>4. ASSUME NEW o \in sweep'[w], reserves(o, w) PROVE mem[o].ws = w
      <3>1. PICK x \in records : Matches(x, w) /\ o # x /\ <<x, o>> \in older
        BY <2>1, <2>4, VisitStep
      <3>2. o \in Ops /\ x \in Ops /\ <<o, x>> \notin older
        BY <2>1, <2>3, <2>4, <3>1 DEF Strict
      <3>3. req[x].ws = w
        BY <3>1, <3>2, NoneAssumption DEF Matches, reserves, Naming
      <3> QED
        BY <2>1, <2>3, <2>4, <3>1, <3>2, <3>3 DEF CreatorFirst
    <2>5. \A o \in sweep'[w] : req[o].ws = w => o \notin removeOnFinish'
      BY <2>1, <2>3, VisitStep DEF Swept
    <2> QED
      <3>1. \A o \in sweep'[w] : /\ req[o].ws = w => o \notin removeOnFinish'
                                 /\ reserves(o, w) => mem[o].ws = w
                                 /\ isTerminal(o) /\ Matches(o, w) => o \in records'
        BY <2>3, <2>4, <2>5
      <3>3. /\ \A o \in removeOnFinish' :
                 req[o] # None /\ req[o].ws \in Workspaces /\ space'[req[o].ws] = "removed"
            /\ \A v \in Workspaces \ {w} : \A o \in sweep'[v] :
                 /\ space'[v] = "removed"
                 /\ req[o].ws = v => o \notin removeOnFinish'
                 /\ reserves(o, v) => mem[o].ws = v
                 /\ isTerminal(o) /\ Matches(o, v) => o \in records'
        BY <2>1, <2>2, VisitSwept
      <3>4. \A o \in Ops, v \in Workspaces :
              /\ isTerminal(o)' = isTerminal(o) /\ reserves(o, v)' = reserves(o, v)
              /\ Matches(o, v)' = Matches(o, v)
        BY <2>1 DEF isTerminal, Matches, reserves
      <3>5. ASSUME NEW v \in Workspaces, NEW o \in sweep'[v]
            PROVE  /\ space'[v] = "removed"
                   /\ req[o].ws = v => o \notin removeOnFinish'
                   /\ reserves(o, v) => mem[o].ws = v
                   /\ isTerminal(o) /\ Matches(o, v) => o \in records'
        <4>1. CASE v = w
          BY <2>2, <3>1, <3>5, <4>1 DEF isTerminal, Matches, reserves
        <4>2. CASE v # w
          BY <3>3, <3>5, <4>2
        <4> QED
          BY <4>1, <4>2
      <3>6. \A v \in Workspaces : sweep'[v] \subseteq Ops
        BY StepIInv DEF TypeOK
      <3> QED
        BY <2>1, <3>3, <3>4, <3>5, <3>6 DEF Swept
  <1>13. ASSUME NEW w \in Workspaces, ResumeSweep(w) PROVE Swept'
    <2>1. /\ sweep[w] \in SUBSET Ops /\ visit(w, sweep[w])
          /\ UNCHANGED <<req, mem, space>> /\ space[w] = "removed"
      BY <1>13 DEF TypeOK, ResumeSweep, Swept
    <2>2. \A o \in sweep'[w] : o \in sweep[w] /\ (o \in records => o \in records')
      <3>1. sweep'[w] \subseteq sweep[w]
        BY <2>1, VisitStep
      <3>2. \/ sweep'[w] = {}
            \/ \E x \in sweep[w] : records' = records \ {x} /\ \A o \in sweep'[w] : o # x
        <4>1. \/ (sweep'[w] = {} /\ UNCHANGED <<records, byKey>>)
              \/ \E x \in sweep[w] :
                   /\ isTerminal(x) /\ Matches(x, w)
                   /\ records' = records \ {x}
                   /\ byKey' = [byKey EXCEPT ![req[x].key] = None]
                   /\ \A o \in sweep'[w] : o # x /\ <<x, o>> \in older
          BY <2>1, VisitStep
        <4>2. ASSUME NEW x \in sweep[w], records' = records \ {x}, \A o \in sweep'[w] : o # x /\ <<x, o>> \in older
              PROVE  \E y \in sweep[w] : records' = records \ {y} /\ \A o \in sweep'[w] : o # y
          BY <4>2
        <4> QED
          BY <4>1, <4>2
      <3> QED
        BY <3>1, <3>2
    <2>3. \A o \in sweep'[w] : /\ reserves(o, w) => mem[o].ws = w
                               /\ isTerminal(o) /\ Matches(o, w) => o \in records'
      BY <2>2 DEF Swept
    <2>4. \A o \in sweep'[w] : req[o].ws = w => o \notin removeOnFinish'
      BY <2>1, <2>2, VisitStep DEF Swept
    <2> QED
      <3>1. \A o \in sweep'[w] : /\ req[o].ws = w => o \notin removeOnFinish'
                                 /\ reserves(o, w) => mem[o].ws = w
                                 /\ isTerminal(o) /\ Matches(o, w) => o \in records'
        BY <2>3, <2>4
      <3>2. space'[w] = "removed" /\ \A v \in Workspaces \ {w} : space'[v] = space[v]
        BY <2>1
      <3>3. /\ \A o \in removeOnFinish' :
                 req[o] # None /\ req[o].ws \in Workspaces /\ space'[req[o].ws] = "removed"
            /\ \A v \in Workspaces \ {w} : \A o \in sweep'[v] :
                 /\ space'[v] = "removed"
                 /\ req[o].ws = v => o \notin removeOnFinish'
                 /\ reserves(o, v) => mem[o].ws = v
                 /\ isTerminal(o) /\ Matches(o, v) => o \in records'
        BY <2>1, <3>2, VisitSwept
      <3>4. \A o \in Ops, v \in Workspaces :
              /\ isTerminal(o)' = isTerminal(o) /\ reserves(o, v)' = reserves(o, v)
              /\ Matches(o, v)' = Matches(o, v)
        BY <2>1 DEF isTerminal, Matches, reserves
      <3>5. ASSUME NEW v \in Workspaces, NEW o \in sweep'[v]
            PROVE  /\ space'[v] = "removed"
                   /\ req[o].ws = v => o \notin removeOnFinish'
                   /\ reserves(o, v) => mem[o].ws = v
                   /\ isTerminal(o) /\ Matches(o, v) => o \in records'
        <4>1. CASE v = w
          BY <3>2, <3>1, <3>5, <4>1 DEF isTerminal, Matches, reserves
        <4>2. CASE v # w
          BY <3>3, <3>5, <4>2
        <4> QED
          BY <4>1, <4>2
      <3>6. \A v \in Workspaces : sweep'[v] \subseteq Ops
        BY StepIInv DEF TypeOK
      <3> QED
        BY <2>1, <3>3, <3>4, <3>5, <3>6 DEF Swept
  <1>14. ASSUME NEW landed \in SUBSET Writing, Restart(landed) PROVE Swept'
    BY <1>14, NoneAssumption DEF Restart, outcomeFile, settled, Writing, obs, Swept, Naming, Runs, Known, LoadIsQuiet, isTerminal, Matches, reserves, Fresh, New, Terminal, TypeOK, Req, Rec, Suspended
  <1>15. ASSUME NEW op \in Ops, NEW result \in Terminal, NEW ws \in Workspaces \cup {None},
                   Load(op, result, ws) PROVE Swept'
    BY <1>15, NoneAssumption DEF Load, index, unsettled, spaces, life, Swept, Naming, Runs, Known, LoadIsQuiet, isTerminal, Matches, reserves, Fresh, New, Terminal, TypeOK, Req, Rec, Suspended
  <1>16. CASE UNCHANGED vars
    BY <1>16 DEF vars, core, spaces, Swept, Naming, Runs, Known, LoadIsQuiet, isTerminal, Matches, reserves, Fresh, New, Terminal, TypeOK, Req, Rec, Suspended
  <1> QED
    BY <1>1, <1>2, <1>3, <1>4, <1>5, <1>6, <1>7, <1>8, <1>9, <1>10, <1>11, <1>12, <1>13, <1>14, <1>15, <1>16 DEF Next

\* While an operation runs, its key finds it, in every life of the process and
\* whatever fails, unless two records of one key get into the map (NoSecondRun).
\* MCOperationRegistry_files.cfg shows the way to that: the file of a discarded
\* operation is still there when the process ends, its key was accepted again,
\* and the next load() reads both.
THEOREM TwoFilesAreTheOnlyWay == Spec /\ []KeysUnique => []NoSecondRun
  <1>1. Init => Ordered
    BY NoneAssumption DEF Init, Ordered, Naming, Strict, Runs, Keyed, UnNamed, CreatorFirst, Swept,
           New, reserves, Suspended
  <1>2. IInv /\ Ordered => NoSecondRun
    BY DEF Ordered, Runs, Keyed, NoSecondRun
  <1>3. IInv /\ Ordered /\ KeysUnique /\ KeysUnique' /\ [Next]_vars => Ordered'
    BY StepNaming, StepStrict, StepRuns, StepKeyed, StepUnNamed, StepCreatorFirst, StepSwept
       DEF Ordered
  <1> QED
    BY <1>1, <1>2, <1>3, RegistryInvariant, PTL DEF Spec

=============================================================================
