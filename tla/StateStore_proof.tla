---------------------------- MODULE StateStore_proof ----------------------------
(***************************************************************************)
(* Safety of the state store for every number of mutations, edits, starts  *)
(* and damages, whatever fails and wherever the process ends.              *)
(*                                                                         *)
(* That acknowledged changes survive is not inductive: a start may prefer  *)
(* a temporary file to the main one, so everything it may prefer (Leading) *)
(* must hold them too, and that rests on the order in which files are      *)
(* written (Clocked, Stages).                                              *)
(***************************************************************************)
EXTENDS StateStore, TLAPS

\* Whatever temporary files are chosen from, one of them is the newest.
Ranked == \A fs \in SUBSET tmps : fs # {} => \E f \in fs : \A g \in fs : g.at <= f.at

Clocked ==
  /\ \A t \in tmps : t.at <= clock
  /\ Readable(main) => main.at <= clock

\* What each stage of an operation and of a start knows.
Stages ==
  /\ mode \in {"down", "sweep"} => run = None
  /\ mode = "recover" => run # None /\ (run.backup => Readable(main))
  /\ mode = "load" /\ run # None => /\ run.snapshot = {} /\ ~run.backup
                                    /\ run.at = "settle" \/ main = None
  /\ mode = "up" => main # None
  /\ run # None =>
       /\ IF mode = "up" THEN run.op \in Ops ELSE run.op \notin Mutations
       /\ run.at = "copy" => mode = "recover"
       /\ run.at = "backup" => run.backup
       /\ run.backup => main # None
       /\ run.at \in {"backup", "rename"} =>
            run.tmp \in tmps /\ run.tmp.at = clock /\ run.tmp.content = run.snapshot
       /\ run.at = "settle" =>
            /\ main = Damaged => mode = "up" /\ damages > 0
            /\ main # Damaged => main \in Files /\ main.at = clock /\ main.content = run.snapshot
  /\ mode = "sweep" => Candidate = None

\* A mutation is enqueued once and settles once.
Fresh ==
  /\ failed \subseteq issued
  /\ \A i \in 1..Len(queue) : queue[i] \in Mutations =>
       /\ queue[i] \in issued \ failed
       /\ run # None => run.op # queue[i]
       /\ \A j \in 1..Len(queue) : queue[i] = queue[j] => i = j
  /\ run # None /\ run.op \in Mutations => run.op \in issued \ failed

\* Files a start may prefer to the main file, and the main file itself.
Leading == {t \in tmps : main = None \/ (Readable(main) /\ t.at > main.at)}

Undamaged ==
  damages = 0 =>
    /\ main # Damaged /\ backup # Damaged
    /\ acked \cup superseded # {} => main # None
    /\ mode = "up" /\ run # None => /\ acked \subseteq run.previous
                                    /\ run.snapshot \subseteq state
                                    /\ state \subseteq run.snapshot \cup Edits
                                    /\ run.op \in Mutations => run.op \in run.snapshot

\* acked and superseded, in every state the store may go on from.
AckedEverywhere ==
  damages = 0 =>
    /\ Readable(main) => acked \subseteq main.content
    /\ \A t \in Leading : acked \subseteq t.content
    /\ run # None => acked \subseteq run.snapshot
    /\ mode = "up" => acked \subseteq state
WithdrawnNowhere ==
  damages = 0 =>
    /\ Readable(main) => superseded \cap main.content = {}
    /\ \A t \in Leading : superseded \cap t.content = {}
    /\ run # None => superseded \cap (run.snapshot \cup run.previous) = {}
    /\ superseded \cap state = {}

\* A backup is there for the one damage of a life time.
Spare ==
  /\ backup # None => main # None
  /\ damages = 1 /\ main = Damaged => Readable(backup) \/ tmps # {} \/ backup = None

CopyFirst == mode = "recover" /\ main = Damaged => run.at = "copy" \/ corrupt

\* A promotion writes what the next start would recover, and only defaults
\* precede the first main file.
Promoting ==
  /\ mode = "recover" => run.snapshot = Best
  /\ main = None => backup = None /\ \A t \in tmps : t.content = {}

IInv ==
  /\ TypeOK /\ Ranked /\ Clocked /\ Stages /\ Fresh
  /\ Undamaged /\ AckedEverywhere /\ WithdrawnNowhere /\ Spare /\ CopyFirst /\ Promoting

-----------------------------------------------------------------------------
LEMMA NewestIsNewest ==
  ASSUME NEW fs, \E f \in fs : \A g \in fs : g.at <= f.at
  PROVE  NewestOf(fs) \in fs /\ \A g \in fs : g.at <= NewestOf(fs).at
  BY DEF NewestOf

\* A start promotes a file, and when it has the choice the newest one.
LEMMA CandidateIs ==
  ASSUME TypeOK, Ranked
  PROVE  /\ Candidate \in Files \cup {None}
         /\ Candidate # None =>
              \/ Candidate \in Leading
              \/ main = Damaged /\ Candidate \in tmps
              \/ ~Readable(main) /\ tmps = {} /\ Candidate = backup /\ Readable(backup)
         /\ Candidate = None =>
              /\ Leading = {}
              /\ ~Readable(main) => tmps = {} /\ ~Readable(backup)
  <1> USE FileAssumption
  <1>1. CASE Readable(main)
    <2>1. newerTmps \subseteq tmps /\ Leading = newerTmps
      BY <1>1 DEF newerTmps, Leading, Readable
    <2>2. CASE newerTmps # {}
      <3>1. NewestOf(newerTmps) \in newerTmps
        BY <2>1, <2>2, NewestIsNewest DEF Ranked
      <3>2. Candidate = NewestOf(newerTmps)
        BY <1>1, <2>2 DEF Candidate
      <3> QED
        BY <2>1, <3>1, <3>2 DEF TypeOK
    <2>3. CASE newerTmps = {}
      BY <1>1, <2>1, <2>3 DEF Candidate
    <2> QED
      BY <2>2, <2>3
  <1>2. CASE ~Readable(main) /\ tmps # {}
    <2>1. NewestOf(tmps) \in tmps
      BY <1>2, NewestIsNewest DEF Ranked
    <2>2. Candidate = NewestOf(tmps)
      BY <1>2 DEF Candidate
    <2> QED
      BY <1>2, <2>1, <2>2 DEF TypeOK, Leading, Readable
  <1>3. CASE ~Readable(main) /\ tmps = {}
    BY <1>3 DEF Candidate, TypeOK, Leading, Readable
  <1> QED
    BY <1>1, <1>2, <1>3

\* What a start would do depends on the files only.
LEMMA SameFiles ==
  ASSUME UNCHANGED <<main, tmps, backup>>
  PROVE  Best' = Best /\ Candidate' = Candidate /\ Leading' = Leading
  BY DEF Best, Candidate, newerTmps, Leading, Readable, NewestOf

\* A subset of the temporary files has a newest one as well.
LEMMA RankedSubset ==
  ASSUME Ranked, tmps' \subseteq tmps
  PROVE  Ranked'
  BY DEF Ranked

LEMMA InitIInv == Init => IInv
  <1> SUFFICES ASSUME Init PROVE IInv
    OBVIOUS
  <1> USE StoreAssumption, FileAssumption
  <1>1. TypeOK
    <2>1. queue \in Seq(Ops) /\ clock \in Nat /\ lives \in 0..MaxLives /\ damages \in 0..MaxDamage
      BY DEF Init
    <2> QED
      BY <2>1 DEF Init, TypeOK
  <1>2. Candidate = None
    BY <1>1 DEF Init, Candidate, Readable
  <1>3. Ranked /\ Clocked /\ Stages /\ Fresh
    BY <1>1, <1>2 DEF Init, Ranked, Clocked, Stages, Fresh, Readable
  <1>4. Undamaged /\ AckedEverywhere /\ WithdrawnNowhere
    BY DEF Init, Undamaged, AckedEverywhere, WithdrawnNowhere, Leading, Readable
  <1>5. Spare /\ CopyFirst /\ Promoting
    BY DEF Init, Spare, CopyFirst, Promoting, Readable
  <1> QED
    BY <1>1, <1>3, <1>4, <1>5 DEF IInv

\* A temporary file just written is the newest: what the next start recovers.
LEMMA WrittenIsBest ==
  ASSUME IInv, WriteTmp
  PROVE  Best' = run.snapshot
  <1> USE StoreAssumption, FileAssumption DEF IInv
  <1> DEFINE new == [content |-> run.snapshot, at |-> clock + 1]
  <1>w. /\ run \in Runs /\ run.at = "tmp" /\ run # None
        /\ new \in Files /\ new.at = clock + 1 /\ new.content = run.snapshot
        /\ tmps' = tmps \cup {new} /\ clock' = clock + 1
    BY DEF WriteTmp, At, TypeOK, Runs, Files
  <1>r. /\ run' = [run EXCEPT !.tmp = new, !.at = IF run.backup THEN "backup" ELSE "rename"]
        /\ run' \in Runs /\ run' # None
        /\ run'.op = run.op /\ run'.snapshot = run.snapshot /\ run'.previous = run.previous
        /\ run'.backup = run.backup /\ run'.from = run.from /\ run'.tmp = new
        /\ run'.at = IF run.backup THEN "backup" ELSE "rename"
    BY <1>w DEF WriteTmp, Runs
  <1> HIDE DEF new
  <1>c. (~Readable(main) \/ main.at <= clock) /\ \A t \in tmps : t.at < new.at
    BY <1>w DEF Clocked, TypeOK, Files
  <1>n. UNCHANGED <<state, queue, timer, backedUp, mode, main, backup, corrupt, lockLeft,
                    lives, damages, obs>>
    BY DEF WriteTmp
  <1>1. Candidate' = new
    <2>1. \A fs : new \in fs /\ fs \subseteq tmps' => NewestOf(fs) = new
      <3> SUFFICES ASSUME NEW fs, new \in fs, fs \subseteq tmps' PROVE NewestOf(fs) = new
        OBVIOUS
      <3>1. NewestOf(fs) \in fs /\ \A g \in fs : g.at <= NewestOf(fs).at
        <4>1. \A g \in fs : g.at <= new.at
          BY <1>w, <1>c DEF TypeOK, Files
        <4> QED
          BY <4>1, NewestIsNewest
      <3> QED
        BY <1>w, <1>c, <3>1 DEF TypeOK, Files
    <2>2. CASE Readable(main)
      <3>1. new \in newerTmps' /\ newerTmps' \subseteq tmps'
        BY <1>w, <1>c, <1>n, <2>2 DEF newerTmps, TypeOK, Files, Readable
      <3> QED
        BY <1>n, <2>1, <2>2, <3>1 DEF Candidate, Readable, NewestOf
    <2>3. CASE ~Readable(main)
      BY <1>w, <1>n, <2>1, <2>3 DEF Candidate, Readable, NewestOf
    <2> QED
      BY <2>2, <2>3
  <1> QED
    BY <1>w, <1>1, FileAssumption DEF Best

\* A renamed file is the newest as well.
LEMMA RenamedIsBest ==
  ASSUME IInv, Rename
  PROVE  Best' = run.snapshot
  <1> USE StoreAssumption, FileAssumption DEF IInv
  <1>r. /\ run \in Runs /\ run # None /\ run.at = "rename"
        /\ run.tmp \in Files /\ run.tmp.at = clock /\ run.tmp.content = run.snapshot
        /\ main' = run.tmp /\ tmps' = tmps \ {run.tmp}
    BY DEF Rename, At, Stages, TypeOK
  <1>n. ~\E t \in tmps' : t.at > main'.at
    BY <1>r DEF Clocked, Readable, TypeOK, Files
  <1> QED
    BY <1>r, <1>n DEF Best, Candidate, newerTmps, Readable

-----------------------------------------------------------------------------
(* Every step keeps the invariant. *)

LEMMA MutateStep ==
  ASSUME IInv, NEW m \in Mutations, Mutate(m)
  PROVE  IInv'
  <1> USE StoreAssumption, FileAssumption DEF IInv
  <1>0. Best' = Best /\ Candidate' = Candidate /\ Leading' = Leading
    BY SameFiles DEF Mutate, files
  <1>1. TypeOK'
    BY DEF TypeOK, Ops, Runs, Files, Changes, Mutate, files, world, obs
  <1>2. Ranked'
    BY DEF Ranked, Mutate, files, world, obs
  <1>3. Clocked'
    BY <1>0 DEF Clocked, Readable, Mutate, files, world, obs
  <1>4. Stages'
    BY <1>0 DEF Stages, Readable, Mutate, files, world, obs
  <1>5. Fresh'
    BY DEF Fresh, Mutate
  <1>6. Undamaged'
    BY <1>0 DEF Undamaged, Changes, Mutate, files, world, obs
  <1>7. AckedEverywhere'
    BY <1>0 DEF AckedEverywhere, Readable, Mutate, files, world, obs
  <1>8. WithdrawnNowhere'
    BY <1>0 DEF WithdrawnNowhere, Readable, Mutate, files, world, obs
  <1>9. Spare'
    BY <1>0 DEF Spare, Readable, Mutate, files, world, obs
  <1>10. CopyFirst'
    BY DEF CopyFirst, Mutate
  <1>11. Promoting'
    BY <1>0 DEF Promoting, Mutate, files, world, obs
  <1> QED
    BY <1>1, <1>2, <1>3, <1>4, <1>5, <1>6, <1>7, <1>8, <1>9, <1>10, <1>11

LEMMA EditStep ==
  ASSUME IInv, NEW e \in Edits, Edit(e)
  PROVE  IInv'
  <1> USE StoreAssumption, FileAssumption DEF IInv
  <1>0. Best' = Best /\ Candidate' = Candidate /\ Leading' = Leading
    BY SameFiles DEF Edit, files
  <1>1. TypeOK'
    BY DEF TypeOK, Ops, Runs, Files, Changes, Edit, files, world, obs
  <1>2. Ranked'
    BY DEF Ranked, Edit, files, world, obs
  <1>3. Clocked'
    BY <1>0 DEF Clocked, Readable, Edit, files, world, obs
  <1>4. Stages'
    BY <1>0 DEF Stages, Readable, Edit, files, world, obs
  <1>5. Fresh'
    BY DEF Fresh, Edit
  <1>6. Undamaged'
    BY <1>0 DEF Undamaged, Changes, Edit, files, world, obs
  <1>7. AckedEverywhere'
    BY <1>0 DEF AckedEverywhere, Readable, Edit, files, world, obs
  <1>8. WithdrawnNowhere'
    BY <1>0 DEF WithdrawnNowhere, Readable, TypeOK, Edit, files, world, obs
  <1>9. Spare'
    BY <1>0 DEF Spare, Readable, Edit, files, world, obs
  <1>10. CopyFirst'
    BY DEF CopyFirst, Edit
  <1>11. Promoting'
    BY <1>0 DEF Promoting, Edit, files, world, obs
  <1> QED
    BY <1>1, <1>2, <1>3, <1>4, <1>5, <1>6, <1>7, <1>8, <1>9, <1>10, <1>11

LEMMA TimerFiresStep ==
  ASSUME IInv, TimerFires
  PROVE  IInv'
  <1> USE StoreAssumption, FileAssumption DEF IInv
  <1>0. Best' = Best /\ Candidate' = Candidate /\ Leading' = Leading
    BY SameFiles DEF TimerFires, files
  <1>1. TypeOK'
    <2>1. queue' \in Seq(Ops)
      BY DEF TimerFires, TypeOK, Ops
    <2> QED
      BY <2>1 DEF TypeOK, TimerFires, files, world, obs
  <1>2. Ranked'
    BY DEF Ranked, TimerFires, files, world, obs
  <1>3. Clocked'
    BY <1>0 DEF Clocked, Readable, TimerFires, files, world, obs
  <1>4. Stages'
    BY <1>0 DEF Stages, Readable, TimerFires, files, world, obs
  <1>5. Fresh'
    BY DEF Fresh, TimerFires, obs
  <1>6. Undamaged'
    BY <1>0 DEF Undamaged, Changes, TimerFires, files, world, obs
  <1>7. AckedEverywhere'
    BY <1>0 DEF AckedEverywhere, Readable, TimerFires, files, world, obs
  <1>8. WithdrawnNowhere'
    BY <1>0 DEF WithdrawnNowhere, Readable, TimerFires, files, world, obs
  <1>9. Spare'
    BY <1>0 DEF Spare, Readable, TimerFires, files, world, obs
  <1>10. CopyFirst'
    BY DEF CopyFirst, TimerFires
  <1>11. Promoting'
    BY <1>0 DEF Promoting, TimerFires, files, world, obs
  <1> QED
    BY <1>1, <1>2, <1>3, <1>4, <1>5, <1>6, <1>7, <1>8, <1>9, <1>10, <1>11

LEMMA StartOpStep ==
  ASSUME IInv, StartOp
  PROVE  IInv'
  <1> USE StoreAssumption, FileAssumption DEF IInv
  <1>h. /\ Len(queue) \in Nat \ {0} /\ Head(queue) = queue[1] /\ queue[1] \in Ops
        /\ Len(Tail(queue)) = Len(queue) - 1
        /\ \A i \in 1..Len(Tail(queue)) : Tail(queue)[i] = queue[i + 1]
    BY DEF StartOp, TypeOK
  <1>r. /\ run = None /\ mode = "up" /\ queue' = Tail(queue)
        /\ run'.op = queue[1] /\ run'.at = "tmp" /\ run'.previous = state
        /\ run'.snapshot = state'
        /\ state' = IF queue[1] = "save" THEN state ELSE state \cup {queue[1]}
    BY <1>h DEF StartOp, Writing
  <1>0. Best' = Best /\ Candidate' = Candidate /\ Leading' = Leading
    BY SameFiles DEF StartOp, files
  <1>1. TypeOK'
    BY DEF TypeOK, Ops, Runs, Files, Changes, StartOp, Writing, files, world, obs
  <1>2. Ranked'
    BY DEF Ranked, StartOp, Writing, files, world, obs
  <1>3. Clocked'
    BY <1>0 DEF Clocked, Readable, StartOp, Writing, files, world, obs
  <1>4. Stages'
    BY <1>0 DEF Stages, Readable, TypeOK, StartOp, Writing, files, world, obs
  <1>5. Fresh'
    <2>1. \A i \in 1..Len(queue') : i + 1 \in 1..Len(queue) /\ queue'[i] = queue[i + 1]
      BY <1>h, <1>r
    <2>2. queue[1] \in Mutations => queue[1] \in issued \ failed
      BY <1>h DEF Fresh
    <2>3. \A i \in 1..Len(queue') : queue'[i] \in Mutations =>
            /\ queue'[i] \in issued \ failed
            /\ queue[1] # queue'[i]
            /\ \A j \in 1..Len(queue') : queue'[i] = queue'[j] => i = j
      BY <1>h, <1>r, <2>1 DEF Fresh
    <2> QED
      BY <1>r, <2>2, <2>3 DEF Fresh, StartOp, obs
  <1>6. Undamaged'
    <2> QED
      BY <1>h, <1>r DEF Undamaged, AckedEverywhere, TypeOK, Ops, StartOp, files, world, obs
  <1>7. AckedEverywhere'
    BY <1>0 DEF AckedEverywhere, Readable, StartOp, Writing, files, world, obs
  <1>8. WithdrawnNowhere'
    <2>1. queue[1] \in Mutations => queue[1] \notin superseded
      BY <1>h DEF Fresh, TypeOK
    <2>2. damages = 0 => superseded \cap state' = {}
      BY <1>h, <1>r, <2>1 DEF WithdrawnNowhere, Ops, StartOp, files, world, obs, Undamaged
    <2> QED
      BY <1>0, <1>r, <2>2 DEF WithdrawnNowhere, StartOp, files, world, obs, Readable
  <1>9. Spare'
    BY <1>0 DEF Spare, Readable, StartOp, Writing, files, world, obs
  <1>10. CopyFirst'
    BY DEF CopyFirst, StartOp, Writing
  <1>11. Promoting'
    BY <1>0 DEF Promoting, StartOp, Writing, files, world, obs
  <1> QED
    BY <1>1, <1>2, <1>3, <1>4, <1>5, <1>6, <1>7, <1>8, <1>9, <1>10, <1>11

LEMMA WriteTmpStep ==
  ASSUME IInv, WriteTmp
  PROVE  IInv'
  <1> USE StoreAssumption, FileAssumption DEF IInv
  <1> DEFINE new == [content |-> run.snapshot, at |-> clock + 1]
  <1>w. /\ run \in Runs /\ run.at = "tmp" /\ run # None
        /\ new \in Files /\ new.at = clock + 1 /\ new.content = run.snapshot
        /\ tmps' = tmps \cup {new} /\ clock' = clock + 1
    BY DEF WriteTmp, At, TypeOK, Runs, Files
  <1>r. /\ run' = [run EXCEPT !.tmp = new, !.at = IF run.backup THEN "backup" ELSE "rename"]
        /\ run' \in Runs /\ run' # None
        /\ run'.op = run.op /\ run'.snapshot = run.snapshot /\ run'.previous = run.previous
        /\ run'.backup = run.backup /\ run'.from = run.from /\ run'.tmp = new
        /\ run'.at = IF run.backup THEN "backup" ELSE "rename"
    BY <1>w DEF WriteTmp, Runs
  <1> HIDE DEF new
  <1>c. (~Readable(main) \/ main.at <= clock) /\ \A t \in tmps : t.at < new.at
    BY <1>w DEF Clocked, TypeOK, Files
  <1>n. UNCHANGED <<state, queue, timer, backedUp, mode, main, backup, corrupt, lockLeft,
                    lives, damages, obs>>
    BY DEF WriteTmp
  <1>1. TypeOK'
    <2> QED
      BY <1>w, <1>r, <1>n DEF TypeOK, obs
  <1>2. Ranked'
    <2> SUFFICES ASSUME NEW fs \in SUBSET tmps', fs # {}
                 PROVE  \E f \in fs : \A g \in fs : g.at <= f.at
      BY DEF Ranked
    <2>1. CASE new \in fs
      <3>1. \A g \in fs : g.at \in Nat
        BY <1>w DEF TypeOK, Files
      <3> QED
        BY <1>w, <1>c, <2>1, <3>1 DEF TypeOK
    <2>2. CASE new \notin fs
      BY <1>w, <2>2 DEF Ranked
    <2> QED
      BY <2>1, <2>2
  <1>3. Clocked'
    BY DEF Clocked, Readable, TypeOK, Ops, Runs, Files, Changes, WriteTmp, At, files, world, obs
  <1>4. Stages'
    <2> QED
      BY <1>w, <1>r, <1>n DEF Stages, Readable
  <1>5. Fresh'
    BY DEF Fresh, WriteTmp, At, obs
  <1>6. Undamaged'
    BY DEF Undamaged, WriteTmp, At, obs
  <1>7. AckedEverywhere'
    BY DEF AckedEverywhere, Leading, Readable, WriteTmp, At, files, world, obs
  <1>8. WithdrawnNowhere'
    BY DEF WithdrawnNowhere, Leading, Readable, WriteTmp, At, files, world, obs
  <1>9. Spare'
    BY DEF Spare, WriteTmp, At
  <1>10. CopyFirst'
    BY DEF CopyFirst, WriteTmp, At
  <1>11. Promoting'
    <2>1. Best' = run.snapshot
      BY WrittenIsBest
    <2>2. main = None => run.snapshot = {}
      <3> SUFFICES ASSUME main = None PROVE run.snapshot = {}
        OBVIOUS
      <3>1. mode \in {"recover", "load"} /\ run # None /\ run.at = "tmp"
        BY <1>w DEF Stages, TypeOK
      <3>2. CASE mode = "recover"
        <4>1. backup = None /\ ~Readable(main) /\ ~Readable(backup)
          BY DEF Promoting, Readable
        <4>2. run.snapshot = Best /\ Best # None
          BY <1>w, <3>2 DEF Promoting, Runs
        <4>3. Candidate # None
          BY <4>1, <4>2 DEF Best
        <4>4. Candidate \in tmps
          BY <4>1, <4>3, CandidateIs DEF Leading
        <4> QED
          BY <4>2, <4>3, <4>4 DEF Promoting, Best
      <3>3. CASE mode = "load"
        BY <1>w, <3>1, <3>3 DEF Stages
      <3> QED
        BY <3>1, <3>2, <3>3
    <2> QED
      BY <1>w, <1>r, <1>n, <2>1, <2>2 DEF Promoting
  <1> QED
    BY <1>1, <1>2, <1>3, <1>4, <1>5, <1>6, <1>7, <1>8, <1>9, <1>10, <1>11

LEMMA WriteBackupStep ==
  ASSUME IInv, WriteBackup
  PROVE  IInv'
  <1> USE StoreAssumption, FileAssumption DEF IInv
  <1>1. TypeOK'
    BY DEF TypeOK, Ops, Runs, Files, Changes, WriteBackup, At, files, world, obs
  <1>2. Ranked'
    BY DEF Ranked, WriteBackup, At
  <1>3. Clocked'
    BY DEF Clocked, Readable, WriteBackup, At, files, world, obs
  <1>4. Stages'
    BY DEF Stages, Readable, TypeOK, Ops, Runs, Files, Changes, Clocked, WriteBackup, At, files,
       world, obs
  <1>5. Fresh'
    BY DEF Fresh, WriteBackup, At, obs
  <1>6. Undamaged'
    BY DEF Undamaged, Changes, WriteBackup, At, files, world, obs
  <1>7. AckedEverywhere'
    BY DEF AckedEverywhere, Leading, Readable, WriteBackup, At, files, world, obs
  <1>8. WithdrawnNowhere'
    BY DEF WithdrawnNowhere, Leading, Readable, WriteBackup, At, files, world, obs
  <1>9. Spare'
    BY DEF Spare, Readable, TypeOK, Stages, WriteBackup, At, files, world, obs
  <1>10. CopyFirst'
    BY DEF CopyFirst, WriteBackup, At
  <1>11. Promoting'
    <2>1. Readable(main) => Best' = Best
      BY DEF WriteBackup, Best, Candidate, Readable, newerTmps, NewestOf
    <2>2. /\ mode = "recover" => Readable(main)
          /\ main # None /\ run'.snapshot = run.snapshot
      BY DEF WriteBackup, At, Stages, TypeOK, Runs
    <2> QED
      BY <2>1, <2>2 DEF Promoting, WriteBackup, Stages
  <1> QED
    BY <1>1, <1>2, <1>3, <1>4, <1>5, <1>6, <1>7, <1>8, <1>9, <1>10, <1>11

LEMMA RenameStep ==
  ASSUME IInv, Rename
  PROVE  IInv'
  <1> USE StoreAssumption, FileAssumption DEF IInv
  <1>r. /\ run \in Runs /\ run # None /\ run.at = "rename"
        /\ run.tmp \in Files /\ run.tmp.at = clock /\ run.tmp.content = run.snapshot
        /\ main' = run.tmp /\ tmps' = tmps \ {run.tmp}
    BY DEF Rename, At, Stages, TypeOK
  <1>n. ~\E t \in tmps' : t.at > main'.at
    BY <1>r DEF Clocked, Readable, TypeOK, Files
  <1>1. TypeOK'
    BY DEF TypeOK, Ops, Runs, Files, Changes, Rename, At, files, world, obs
  <1>2. Ranked'
    BY DEF Ranked, Rename, At
  <1>3. Clocked'
    <2>1. Readable(main)' => main'.at = clock
      BY <1>r
    <2>2. clock' = clock /\ clock \in Nat
      BY DEF Rename, world, TypeOK
    <2> QED
      BY <1>r, <2>1, <2>2 DEF Clocked
  <1>4. Stages'
    BY DEF Stages, Readable, TypeOK, Ops, Runs, Files, Changes, Clocked, Rename, At, files, world,
       obs
  <1>5. Fresh'
    BY DEF Fresh, Rename, At, obs
  <1>6. Undamaged'
    BY DEF Undamaged, Changes, TypeOK, Stages, Readable, Rename, At, files, world, obs
  <1>7. AckedEverywhere'
    BY DEF AckedEverywhere, Leading, Readable, TypeOK, Ops, Runs, Files, Changes, Stages, Clocked,
       Undamaged, Rename, At, files, world, obs
  <1>8. WithdrawnNowhere'
    BY DEF WithdrawnNowhere, Leading, Readable, TypeOK, Ops, Runs, Files, Changes, Stages,
       Clocked, Undamaged, Fresh, Rename, At, files, world, obs
  <1>9. Spare'
    BY DEF Spare, Readable, TypeOK, Stages, Rename, At, files, world, obs
  <1>10. CopyFirst'
    BY DEF CopyFirst, TypeOK, Stages, Readable, Rename, At, files, world, obs
  <1>11. Promoting'
    <2>1. Best' = run.snapshot
      BY RenamedIsBest
    <2> QED
      BY <1>r, <2>1 DEF Promoting, Rename, Runs
  <1> QED
    BY <1>1, <1>2, <1>3, <1>4, <1>5, <1>6, <1>7, <1>8, <1>9, <1>10, <1>11

LEMMA SettleStep ==
  ASSUME IInv, Settle
  PROVE  IInv'
  <1> USE StoreAssumption, FileAssumption DEF IInv
  <1>r. /\ run # None /\ mode = "up" /\ run' = None
        /\ damages = 0 => main \in Files /\ main.at = clock /\ main.content = run.snapshot
        /\ damages = 0 => Leading = {}
    BY DEF Settle, At, Stages, Undamaged, Leading, Clocked, TypeOK, Files, Readable
  <1>0. Best' = Best /\ Candidate' = Candidate /\ Leading' = Leading
    BY SameFiles DEF Settle, files
  <1>1. TypeOK'
    BY DEF TypeOK, Ops, Runs, Files, Changes, Settle, At, files, world, obs
  <1>2. Ranked'
    BY DEF Ranked, Settle, At, files, world, obs
  <1>3. Clocked'
    BY <1>0 DEF Clocked, Readable, Settle, At, files, world, obs
  <1>4. Stages'
    BY <1>0 DEF Stages, Readable, Settle, At, files, world, obs
  <1>5. Fresh'
    BY DEF Fresh, Settle, At
  <1>6. Undamaged'
    BY <1>0 DEF Undamaged, Changes, TypeOK, Stages, Readable, Settle, At, files, world, obs
  <1>7. AckedEverywhere'
    <2> QED
      BY <1>0, <1>r DEF AckedEverywhere, Undamaged, Settle, files, world
  <1>8. WithdrawnNowhere'
    <2> QED
      BY <1>0, <1>r DEF WithdrawnNowhere, Undamaged, Settle, files, world, TypeOK, Changes
  <1>9. Spare'
    BY <1>0 DEF Spare, Readable, Settle, At, files, world, obs
  <1>10. CopyFirst'
    BY DEF CopyFirst, Settle, At
  <1>11. Promoting'
    BY <1>0 DEF Promoting, Settle, At, files, world, obs
  <1> QED
    BY <1>1, <1>2, <1>3, <1>4, <1>5, <1>6, <1>7, <1>8, <1>9, <1>10, <1>11

LEMMA OpFailsStep ==
  ASSUME IInv, OpFails
  PROVE  IInv'
  <1> USE StoreAssumption, FileAssumption DEF IInv
  <1>r. /\ run \in Runs /\ run # None /\ mode = "up" /\ run' = None
        /\ run.op \in Mutations \cup {"save"}
    BY DEF OpFails, Breaks, At, TypeOK, Stages, Ops
  <1>0. Best' = Best /\ Candidate' = Candidate /\ Leading' = Leading
    BY SameFiles DEF OpFails, files
  <1>1. TypeOK'
    <2> QED
      BY <1>r DEF TypeOK, OpFails, Runs, Changes, files, world
  <1>2. Ranked'
    BY DEF Ranked, OpFails, Breaks, At, files, world, obs
  <1>3. Clocked'
    BY <1>0 DEF Clocked, Readable, OpFails, Breaks, At, files, world, obs
  <1>4. Stages'
    BY <1>0 DEF Stages, Readable, OpFails, Breaks, At, files, world, obs
  <1>5. Fresh'
    <2> QED
      BY <1>r DEF Fresh, OpFails
  <1>6. Undamaged'
    BY <1>0 DEF Undamaged, Changes, OpFails, Breaks, At, files, world, obs
  <1>7. AckedEverywhere'
    BY <1>0 DEF AckedEverywhere, Readable, TypeOK, Ops, Runs, Files, Changes, Stages, Clocked,
       Undamaged, OpFails, Breaks, At, files, world, obs
  <1>8. WithdrawnNowhere'
    BY <1>0 DEF WithdrawnNowhere, Readable, OpFails, Breaks, At, files, world, obs
  <1>9. Spare'
    BY <1>0 DEF Spare, Readable, OpFails, Breaks, At, files, world, obs
  <1>10. CopyFirst'
    BY DEF CopyFirst, OpFails, Breaks, At
  <1>11. Promoting'
    BY <1>0 DEF Promoting, OpFails, Breaks, At, files, world, obs
  <1> QED
    BY <1>1, <1>2, <1>3, <1>4, <1>5, <1>6, <1>7, <1>8, <1>9, <1>10, <1>11

LEMMA RecoverySkippedStep ==
  ASSUME IInv, RecoverySkipped
  PROVE  IInv'
  <1> USE StoreAssumption, FileAssumption DEF IInv
  <1>0. Best' = Best /\ Candidate' = Candidate /\ Leading' = Leading
    BY SameFiles DEF RecoverySkipped, files
  <1>1. TypeOK'
    BY DEF TypeOK, Ops, Runs, Files, Changes, RecoverySkipped, memory, files, world, obs
  <1>2. Ranked'
    BY DEF Ranked, RecoverySkipped, memory, files, world, obs
  <1>3. Clocked'
    BY <1>0 DEF Clocked, Readable, RecoverySkipped, memory, files, world, obs
  <1>4. Stages'
    BY <1>0 DEF Stages, RecoverySkipped, memory
  <1>5. Fresh'
    BY DEF Fresh, RecoverySkipped, memory, obs
  <1>6. Undamaged'
    BY <1>0 DEF Undamaged, Changes, RecoverySkipped, memory, files, world, obs
  <1>7. AckedEverywhere'
    BY <1>0 DEF AckedEverywhere, Readable, RecoverySkipped, memory, files, world, obs
  <1>8. WithdrawnNowhere'
    BY <1>0 DEF WithdrawnNowhere, Readable, RecoverySkipped, memory, files, world, obs
  <1>9. Spare'
    BY <1>0 DEF Spare, Readable, RecoverySkipped, memory, files, world, obs
  <1>10. CopyFirst'
    BY DEF CopyFirst, RecoverySkipped, memory
  <1>11. Promoting'
    BY <1>0 DEF Promoting, RecoverySkipped, memory, files, world, obs
  <1> QED
    BY <1>1, <1>2, <1>3, <1>4, <1>5, <1>6, <1>7, <1>8, <1>9, <1>10, <1>11

LEMMA StartUpStep ==
  ASSUME IInv, StartUp
  PROVE  IInv'
  <1> USE StoreAssumption, FileAssumption DEF IInv
  <1>c. /\ Candidate \in Files \cup {None} /\ mode = "down" /\ run = None
        /\ Candidate = None => mode' = "sweep" /\ run' = None
        /\ Candidate # None =>
             /\ mode' = "recover" /\ run' \in Runs /\ run' # None
             /\ run'.op = "promote" /\ run'.at = (IF main = Damaged THEN "copy" ELSE "tmp")
             /\ run'.snapshot = Candidate.content /\ run'.previous = {}
             /\ run'.tmp = None /\ run'.backup = Readable(main) /\ run'.from = Candidate
    <2>1. CASE Candidate # None
      <3>1. Candidate \in Files
        BY <2>1, CandidateIs
      <3>2. Candidate.content \in SUBSET Changes /\ Readable(main) \in BOOLEAN
        BY <3>1 DEF Files, Readable
      <3>3. run' = [Writing("promote", Candidate.content, {}, Readable(main), Candidate)
                    EXCEPT !.at = IF main = Damaged THEN "copy" ELSE "tmp"]
        BY <2>1 DEF StartUp
      <3>4. run' = [op |-> "promote", at |-> IF main = Damaged THEN "copy" ELSE "tmp",
                    snapshot |-> Candidate.content, previous |-> {}, tmp |-> None,
                    backup |-> Readable(main), from |-> Candidate]
        BY <3>3 DEF Writing
      <3>5. run' \in Runs
        BY <3>1, <3>2, <3>4 DEF Runs
      <3> QED
        BY <2>1, <3>1, <3>4, <3>5 DEF StartUp, Stages
    <2>2. CASE Candidate = None
      BY <2>2 DEF StartUp, Stages
    <2> QED
      BY <2>1, <2>2
  <1>d. /\ damages = 0 /\ Candidate # None => acked \subseteq Candidate.content
                                            /\ superseded \cap Candidate.content = {}
        /\ Candidate # None => main = None \/ Readable(main) \/ main = Damaged
    <2>1. damages = 0 /\ Candidate # None => Candidate \in Leading
      BY CandidateIs DEF Undamaged, Promoting, Readable
    <2> QED
      BY <2>1 DEF AckedEverywhere, WithdrawnNowhere, Readable
  <1>0. Best' = Best /\ Candidate' = Candidate /\ Leading' = Leading
    BY SameFiles DEF StartUp, files
  <1>1. TypeOK'
    <2>1. lives' \in 0..MaxLives /\ lockLeft' \in BOOLEAN
      <3>1. lives < MaxLives /\ lives' = lives + 1 /\ lockLeft' = FALSE
        BY DEF StartUp
      <3>2. lives \in 0..MaxLives /\ MaxLives \in Nat
        BY StoreAssumption DEF TypeOK
      <3>3. lives + 1 \in 0..MaxLives
        BY <3>1, <3>2 DEF TypeOK
      <3> QED
        BY <3>1, <3>3
    <2>2. run' \in Runs \cup {None} /\ mode' \in {"recover", "sweep"}
      BY <1>c
    <2>3. UNCHANGED <<state, queue, timer, backedUp, files, clock, damages, obs>>
      BY DEF StartUp
    <2> QED
      BY <2>1, <2>2, <2>3 DEF TypeOK, files, obs
  <1>2. Ranked'
    BY DEF Ranked, StartUp, Writing, files, world, obs
  <1>3. Clocked'
    BY <1>0 DEF Clocked, Readable, StartUp, Writing, files, world, obs
  <1>4. Stages'
    <2> QED
      BY <1>0, <1>c, <1>d DEF Stages, Readable, StartUp, files, obs
  <1>5. Fresh'
    BY DEF Fresh, StartUp, Writing, obs
  <1>6. Undamaged'
    BY <1>0 DEF Undamaged, Changes, StartUp, Writing, files, world, obs
  <1>7. AckedEverywhere'
    <2> QED
      BY <1>0, <1>c, <1>d DEF AckedEverywhere, Readable, StartUp, files, obs
  <1>8. WithdrawnNowhere'
    <2> QED
      BY <1>0, <1>c, <1>d DEF WithdrawnNowhere, Readable, StartUp, files, obs
  <1>9. Spare'
    BY <1>0 DEF Spare, Readable, StartUp, Writing, files, world, obs
  <1>10. CopyFirst'
    BY DEF CopyFirst, StartUp, Writing, files, world, obs
  <1>11. Promoting'
    <2> QED
      BY <1>0, <1>c, <1>d DEF Promoting, StartUp, files, obs, Best
  <1> QED
    BY <1>1, <1>2, <1>3, <1>4, <1>5, <1>6, <1>7, <1>8, <1>9, <1>10, <1>11

LEMMA CopyCorruptStep ==
  ASSUME IInv, CopyCorrupt
  PROVE  IInv'
  <1> USE StoreAssumption, FileAssumption DEF IInv
  <1>0. Best' = Best /\ Candidate' = Candidate /\ Leading' = Leading
    BY SameFiles DEF CopyCorrupt, files
  <1>1. TypeOK'
    BY DEF TypeOK, Ops, Runs, Files, Changes, CopyCorrupt, At, files, world, obs
  <1>2. Ranked'
    BY DEF Ranked, CopyCorrupt, At
  <1>3. Clocked'
    BY <1>0 DEF Clocked, Readable, CopyCorrupt, At, files, world, obs
  <1>4. Stages'
    BY <1>0 DEF Stages, Readable, TypeOK, Ops, Runs, Files, Changes, Clocked, CopyCorrupt, At,
       files, world, obs
  <1>5. Fresh'
    BY DEF Fresh, CopyCorrupt, At, obs
  <1>6. Undamaged'
    BY <1>0 DEF Undamaged, Changes, CopyCorrupt, At, files, world, obs
  <1>7. AckedEverywhere'
    BY <1>0 DEF AckedEverywhere, Readable, CopyCorrupt, At, files, world, obs
  <1>8. WithdrawnNowhere'
    BY <1>0 DEF WithdrawnNowhere, Readable, CopyCorrupt, At, files, world, obs
  <1>9. Spare'
    BY <1>0 DEF Spare, Readable, CopyCorrupt, At, files, world, obs
  <1>10. CopyFirst'
    BY DEF CopyFirst, CopyCorrupt, At
  <1>11. Promoting'
    BY <1>0 DEF Promoting, CopyCorrupt, At
  <1> QED
    BY <1>1, <1>2, <1>3, <1>4, <1>5, <1>6, <1>7, <1>8, <1>9, <1>10, <1>11

LEMMA PromotedStep ==
  ASSUME IInv, Promoted
  PROVE  IInv'
  <1> USE StoreAssumption, FileAssumption DEF IInv
  <1>1. TypeOK'
    BY DEF TypeOK, Ops, Runs, Files, Changes, Promoted, At, files, world, obs
  <1>2. Ranked'
    BY DEF Ranked, Promoted, At
  <1>3. Clocked'
    BY DEF Clocked, Readable, Promoted, At, files, world, obs
  <1>4. Stages'
    <2>1. /\ run # None /\ run' = None /\ mode' = "sweep" /\ tmps' \subseteq tmps /\ main' = main
          /\ main \in Files /\ main.at = clock
      BY DEF Promoted, At, Stages
    <2>2. Readable(main') /\ newerTmps' = {}
      BY <2>1 DEF newerTmps, Clocked, Readable, TypeOK, Files
    <2>3. Candidate' = None
      BY <2>2 DEF Candidate, Readable
    <2> QED
      BY <2>1, <2>3 DEF Stages
  <1>5. Fresh'
    BY DEF Fresh, Promoted, At, obs
  <1>6. Undamaged'
    BY DEF Undamaged, Changes, Promoted, At, files, world, obs
  <1>7. AckedEverywhere'
    BY DEF AckedEverywhere, Leading, Readable, Promoted, At, files, world, obs
  <1>8. WithdrawnNowhere'
    BY DEF WithdrawnNowhere, Leading, Readable, Promoted, At, files, world, obs
  <1>9. Spare'
    BY DEF Spare, Readable, TypeOK, Stages, Promoted, At, files, world, obs
  <1>10. CopyFirst'
    BY DEF CopyFirst, Promoted, At
  <1>11. Promoting'
    BY DEF Promoting, Promoted, At
  <1> QED
    BY <1>1, <1>2, <1>3, <1>4, <1>5, <1>6, <1>7, <1>8, <1>9, <1>10, <1>11

LEMMA PromotionFailsStep ==
  ASSUME IInv, PromotionFails
  PROVE  IInv'
  <1> USE StoreAssumption, FileAssumption DEF IInv
  <1>0. Best' = Best /\ Candidate' = Candidate /\ Leading' = Leading
    BY SameFiles DEF PromotionFails, files
  <1>1. TypeOK'
    BY DEF TypeOK, Ops, Runs, Files, Changes, PromotionFails, Breaks, At, afterFailure, files,
       world, obs
  <1>2. Ranked'
    BY DEF Ranked, PromotionFails, Breaks, At, afterFailure, files, world, obs
  <1>3. Clocked'
    BY <1>0 DEF Clocked, Readable, PromotionFails, Breaks, At, afterFailure, files, world, obs
  <1>4. Stages'
    BY <1>0 DEF Stages, PromotionFails, Breaks, At, afterFailure
  <1>5. Fresh'
    BY DEF Fresh, PromotionFails, Breaks, At, afterFailure, obs
  <1>6. Undamaged'
    BY <1>0 DEF Undamaged, Changes, PromotionFails, Breaks, At, afterFailure, files, world, obs
  <1>7. AckedEverywhere'
    BY <1>0 DEF AckedEverywhere, Readable, PromotionFails, Breaks, At, afterFailure, files, world,
       obs
  <1>8. WithdrawnNowhere'
    BY <1>0 DEF WithdrawnNowhere, Readable, PromotionFails, Breaks, At, afterFailure, files,
       world, obs
  <1>9. Spare'
    BY <1>0 DEF Spare, Readable, PromotionFails, Breaks, At, afterFailure, files, world, obs
  <1>10. CopyFirst'
    BY DEF CopyFirst, PromotionFails, Breaks, At, afterFailure
  <1>11. Promoting'
    BY <1>0 DEF Promoting, PromotionFails, Breaks, At, afterFailure, files, world, obs
  <1> QED
    BY <1>1, <1>2, <1>3, <1>4, <1>5, <1>6, <1>7, <1>8, <1>9, <1>10, <1>11

LEMMA SweepStep ==
  ASSUME IInv, NEW age \in 0..clock, Sweep(age)
  PROVE  IInv'
  <1> USE StoreAssumption, FileAssumption DEF IInv
  <1>c. Candidate = None /\ mode = "sweep" /\ run = None /\ run' = None /\ tmps' \subseteq tmps
    BY DEF Sweep, Stages, memory
  <1>1. TypeOK'
    BY DEF TypeOK, Ops, Runs, Files, Changes, Sweep, memory, files, world, obs
  <1>2. Ranked'
    BY DEF Ranked, Sweep, memory
  <1>3. Clocked'
    BY DEF Clocked, Readable, Sweep, memory, files, world, obs
  <1>4. Stages'
    BY DEF Stages, Sweep, memory
  <1>5. Fresh'
    BY DEF Fresh, Sweep, memory, obs
  <1>6. Undamaged'
    BY DEF Undamaged, Changes, Sweep, memory, files, world, obs
  <1>7. AckedEverywhere'
    BY DEF AckedEverywhere, Leading, Readable, Sweep, memory, files, world, obs
  <1>8. WithdrawnNowhere'
    BY DEF WithdrawnNowhere, Leading, Readable, Sweep, memory, files, world, obs
  <1>9. Spare'
    <2>1. ~Readable(main) => tmps = {} /\ ~Readable(backup)
      BY <1>c, CandidateIs
    <2> QED
      BY <1>c, <2>1 DEF Spare, Sweep, Readable, world
  <1>10. CopyFirst'
    BY DEF CopyFirst, Sweep, memory
  <1>11. Promoting'
    BY DEF Promoting, Sweep, memory
  <1> QED
    BY <1>1, <1>2, <1>3, <1>4, <1>5, <1>6, <1>7, <1>8, <1>9, <1>10, <1>11

LEMMA LoadStep ==
  ASSUME IInv, Load
  PROVE  IInv'
  <1> USE StoreAssumption, FileAssumption DEF IInv
  <1>0. Best' = Best /\ Candidate' = Candidate /\ Leading' = Leading
    BY SameFiles DEF Load, files
  <1>1. TypeOK'
    <2>1. main = None => run' = run \/ run' = Writing("defaults", {}, {}, FALSE, None)
      BY DEF Load
    <2>2. Writing("defaults", {}, {}, FALSE, None) \in Runs
      BY DEF Writing, Runs
    <2>3. run' \in Runs \cup {None}
      BY <2>1, <2>2 DEF Load, TypeOK
    <2>4. state' \subseteq Changes
      BY DEF Load, TypeOK, Files, Readable
    <2> QED
      BY <2>3, <2>4 DEF Load, TypeOK, files, world, obs
  <1>2. Ranked'
    BY DEF Ranked, Load, Writing, files, world, obs
  <1>3. Clocked'
    BY <1>0 DEF Clocked, Readable, Load, Writing, files, world, obs
  <1>4. Stages'
    BY <1>0 DEF Stages, Readable, Load, Writing, files, world, obs
  <1>5. Fresh'
    BY DEF Fresh, Load, Writing, obs
  <1>6. Undamaged'
    BY <1>0 DEF Undamaged, Changes, Load, Writing, files, world, obs
  <1>7. AckedEverywhere'
    BY <1>0 DEF AckedEverywhere, Readable, TypeOK, Ops, Runs, Files, Changes, Stages, Clocked,
       Undamaged, Load, Writing, files, world, obs
  <1>8. WithdrawnNowhere'
    BY <1>0 DEF WithdrawnNowhere, Readable, Load, Writing, files, world, obs
  <1>9. Spare'
    BY <1>0 DEF Spare, Readable, Load, Writing, files, world, obs
  <1>10. CopyFirst'
    BY DEF CopyFirst, Load, Writing
  <1>11. Promoting'
    BY <1>0 DEF Promoting, Load, Writing, files, world, obs
  <1> QED
    BY <1>1, <1>2, <1>3, <1>4, <1>5, <1>6, <1>7, <1>8, <1>9, <1>10, <1>11

LEMMA DefaultsWrittenStep ==
  ASSUME IInv, DefaultsWritten
  PROVE  IInv'
  <1> USE StoreAssumption, FileAssumption DEF IInv
  <1>0. Best' = Best /\ Candidate' = Candidate /\ Leading' = Leading
    BY SameFiles DEF DefaultsWritten, files
  <1>1. TypeOK'
    BY DEF TypeOK, Ops, Runs, Files, Changes, DefaultsWritten, At, Breaks, files, world, obs
  <1>2. Ranked'
    BY DEF Ranked, DefaultsWritten, At, Breaks, files, world, obs
  <1>3. Clocked'
    BY <1>0 DEF Clocked, Readable, DefaultsWritten, At, Breaks, files, world, obs
  <1>4. Stages'
    BY <1>0 DEF Stages, Readable, DefaultsWritten, At, Breaks, files, world, obs
  <1>5. Fresh'
    BY DEF Fresh, DefaultsWritten, At, Breaks, obs
  <1>6. Undamaged'
    BY <1>0 DEF Undamaged, Changes, DefaultsWritten, At, Breaks, files, world, obs
  <1>7. AckedEverywhere'
    BY <1>0 DEF AckedEverywhere, Readable, TypeOK, Stages, DefaultsWritten, At, Breaks, files,
       world, obs
  <1>8. WithdrawnNowhere'
    BY <1>0 DEF WithdrawnNowhere, Readable, DefaultsWritten, At, Breaks, files, world, obs
  <1>9. Spare'
    BY <1>0 DEF Spare, Readable, DefaultsWritten, At, Breaks, files, world, obs
  <1>10. CopyFirst'
    BY DEF CopyFirst, DefaultsWritten, At, Breaks
  <1>11. Promoting'
    BY <1>0 DEF Promoting, DefaultsWritten, At, Breaks, files, world, obs
  <1> QED
    BY <1>1, <1>2, <1>3, <1>4, <1>5, <1>6, <1>7, <1>8, <1>9, <1>10, <1>11

LEMMA CrashStep ==
  ASSUME IInv, Crash
  PROVE  IInv'
  <1> USE StoreAssumption, FileAssumption DEF IInv
  <1>0. Best' = Best /\ Candidate' = Candidate /\ Leading' = Leading
    BY SameFiles DEF Crash, files
  <1>1. TypeOK'
    <2>1. queue' \in Seq(Ops)
      BY DEF Crash
    <2> QED
      BY <2>1 DEF TypeOK, Crash, Changes, files, obs
  <1>2. Ranked'
    BY DEF Ranked, Crash, files, world, obs
  <1>3. Clocked'
    BY <1>0 DEF Clocked, Readable, Crash, files, world, obs
  <1>4. Stages'
    BY <1>0 DEF Stages, Crash
  <1>5. Fresh'
    BY DEF Fresh, Crash, obs
  <1>6. Undamaged'
    BY <1>0 DEF Undamaged, Changes, Crash, files, world, obs
  <1>7. AckedEverywhere'
    BY <1>0 DEF AckedEverywhere, Readable, Crash, files, world, obs
  <1>8. WithdrawnNowhere'
    BY <1>0 DEF WithdrawnNowhere, Readable, Crash, files, world, obs
  <1>9. Spare'
    BY <1>0 DEF Spare, Readable, Crash, files, world, obs
  <1>10. CopyFirst'
    BY DEF CopyFirst, Crash
  <1>11. Promoting'
    BY <1>0 DEF Promoting, Crash, files, world, obs
  <1> QED
    BY <1>1, <1>2, <1>3, <1>4, <1>5, <1>6, <1>7, <1>8, <1>9, <1>10, <1>11

LEMMA DamageStep ==
  ASSUME IInv, Damage
  PROVE  IInv'
  <1> USE StoreAssumption, FileAssumption DEF IInv
  <1>1. TypeOK'
    BY DEF TypeOK, Damage, memory, obs
  <1>2. Ranked'
    BY DEF Ranked, Damage, memory
  <1>3. Clocked'
    BY DEF Clocked, Readable, Damage, memory, files, world, obs
  <1>4. Stages'
    BY DEF Stages, Readable, TypeOK, Damage, memory, files, world, obs
  <1>5. Fresh'
    BY DEF Fresh, Damage, memory, obs
  <1>6. Undamaged'
    BY DEF Undamaged, Changes, TypeOK, Damage, memory, files, world, obs
  <1>7. AckedEverywhere'
    BY DEF AckedEverywhere, Leading, Readable, TypeOK, Damage, memory, files, world, obs
  <1>8. WithdrawnNowhere'
    BY DEF WithdrawnNowhere, Leading, Readable, TypeOK, Damage, memory, files, world, obs
  <1>9. Spare'
    BY DEF Spare, Readable, TypeOK, Ops, Runs, Files, Changes, Stages, Undamaged, Damage, memory,
       files, world, obs
  <1>10. CopyFirst'
    BY DEF CopyFirst, Damage, memory
  <1>11. Promoting'
    BY DEF Promoting, Damage, memory
  <1> QED
    BY <1>1, <1>2, <1>3, <1>4, <1>5, <1>6, <1>7, <1>8, <1>9, <1>10, <1>11

LEMMA StepIInv == IInv /\ [Next]_vars => IInv'
  <1> SUFFICES ASSUME IInv, [Next]_vars PROVE IInv'
    OBVIOUS
  <1>1. CASE Next
    BY <1>1, MutateStep, EditStep, TimerFiresStep, StartOpStep, WriteTmpStep, WriteBackupStep,
       RenameStep, SettleStep, OpFailsStep, RecoverySkippedStep, StartUpStep, CopyCorruptStep,
       PromotedStep, PromotionFailsStep, SweepStep, LoadStep, DefaultsWrittenStep, CrashStep,
       DamageStep DEF Next
  <1>2. CASE UNCHANGED vars
    <2>1. UNCHANGED <<memory, mode, files, world, obs>>
      BY <1>2 DEF vars
    <2>2. Best' = Best /\ Candidate' = Candidate /\ Leading' = Leading
      BY <2>1, SameFiles DEF files
    <2>3. TypeOK' /\ Ranked' /\ Clocked' /\ Stages' /\ Fresh'
      BY <2>1, <2>2 DEF IInv, TypeOK, Ranked, Clocked, Stages, Fresh, Readable, memory, files,
                        world, obs
    <2>4. Undamaged' /\ AckedEverywhere' /\ WithdrawnNowhere' /\ Spare' /\ CopyFirst' /\ Promoting'
      BY <2>1, <2>2 DEF IInv, Undamaged, AckedEverywhere, WithdrawnNowhere, Spare, CopyFirst,
                        Promoting, Readable, memory, files, world, obs
    <2> QED
      BY <2>3, <2>4 DEF IInv
  <1> QED
    BY <1>1, <1>2

LEMMA StoreInvariant == Spec => []IInv
  BY InitIInv, StepIInv, PTL DEF Spec

-----------------------------------------------------------------------------
(* The theorems *)

\* The types of the state hold in every state of every behaviour.
THEOREM TypeCorrect == Spec => []TypeOK
  <1>1. IInv => TypeOK
    BY DEF IInv
  <1> QED
    BY <1>1, StoreInvariant, PTL

\* What mutate() acknowledged is in memory and in the main file, whatever
\* writes fail and wherever the process ends and starts again.
THEOREM AcknowledgedChangesSurvive == Spec => []AckedSurvive
  <1>1. IInv => AckedSurvive
    BY DEF IInv, AckedSurvive, AckedEverywhere, Undamaged, Readable
  <1> QED
    BY <1>1, StoreInvariant, PTL

\* A change whose caller was told that it failed does not come back once a
\* later operation succeeded.
THEOREM WithdrawnChangesStayOut == Spec => []WithdrawnStaysOut
  <1>1. IInv => WithdrawnStaysOut
    BY DEF IInv, WithdrawnStaysOut, WithdrawnNowhere
  <1> QED
    BY <1>1, StoreInvariant, PTL

\* One damaged main file never leaves the store without a complete state.
THEOREM OneDamageIsSurvived == Spec => []OneDamageSurvivable
  <1>1. IInv => OneDamageSurvivable
    <2> SUFFICES ASSUME IInv, backup # None, damages <= 1
                 PROVE  Readable(main) \/ tmps # {} \/ Readable(backup)
      BY DEF OneDamageSurvivable
    <2>1. damages \in {0, 1}
      BY StoreAssumption DEF IInv, TypeOK
    <2> QED
      BY <2>1 DEF IInv, Spare, Undamaged, Readable
  <1> QED
    BY <1>1, StoreInvariant, PTL

\* A recovery keeps a copy of the unreadable file before it replaces it.
THEOREM OriginalsAreKept == Spec => OriginalBytesKept
  <1>1. IInv /\ [Next]_vars => [main = Damaged /\ main' # Damaged /\ mode = "recover" => corrupt]_vars
    <2> SUFFICES ASSUME IInv, [Next]_vars, main = Damaged, main' # Damaged, mode = "recover"
                 PROVE  corrupt
      OBVIOUS
    <2>1. Rename
      BY DEF Next, vars, memory, files, world, Mutate, Edit, TimerFires, StartOp, WriteTmp,
             WriteBackup, Settle, OpFails, RecoverySkipped, StartUp, CopyCorrupt, Promoted,
             PromotionFails, Sweep, Load, DefaultsWritten, Crash, Damage, Readable
    <2> QED
      BY <2>1 DEF IInv, CopyFirst, Rename, At
  <1> QED
    BY <1>1, StoreInvariant, PTL DEF Spec, OriginalBytesKept

LEMMA BestIsKept ==
  ASSUME IInv, [Next]_vars, mode # "up", damages' = damages, Best # None
  PROVE  Best' = Best
  <1> USE FileAssumption DEF IInv
  <1>1. CASE UNCHANGED <<main, tmps, backup>>
    BY <1>1, SameFiles
  <1>2. (WriteTmp \/ Rename) => run.snapshot = Best
    <2> SUFFICES ASSUME WriteTmp \/ Rename PROVE run.snapshot = Best
      OBVIOUS
    <2>1. mode \in {"recover", "load"} /\ run # None
      BY DEF WriteTmp, Rename, At, Stages, TypeOK
    <2>2. CASE mode = "load"
      <3>1. main = None /\ run.snapshot = {} /\ backup = None
        BY <2>1, <2>2 DEF WriteTmp, Rename, At, Stages, Promoting
      <3>2. Candidate # None
        BY <3>1 DEF Best, Readable
      <3>3. Candidate \in tmps
        BY <3>1, <3>2, CandidateIs DEF Leading, Readable
      <3> QED
        BY <3>1, <3>2, <3>3 DEF Promoting, Best
    <2> QED
      BY <2>1, <2>2 DEF Promoting
  <1>3. CASE WriteTmp
    BY <1>2, <1>3, WrittenIsBest
  <1>4. CASE Rename
    BY <1>2, <1>4, RenamedIsBest
  <1>5. CASE WriteBackup
    <2>1. Readable(main)
      BY <1>5 DEF WriteBackup, At, Stages, TypeOK
    <2> QED
      BY <1>5, <2>1 DEF WriteBackup, Best, Candidate, Readable, newerTmps, NewestOf
  <1>6. ASSUME Promoted \/ \E age \in 0..clock : Sweep(age)
        PROVE  Best' = Best
    <2>1. main' = main /\ backup' = backup /\ tmps' \subseteq tmps
      BY <1>6 DEF Promoted, Sweep
    <2>2. CASE Readable(main)
      <3>1. newerTmps = {}
        <4>1. CASE Promoted
          BY <2>2, <4>1 DEF Promoted, At, Stages, Clocked, newerTmps, Readable, TypeOK, Files
        <4>2. CASE \E age \in 0..clock : Sweep(age)
          BY <2>2, <4>2, CandidateIs DEF Sweep, Stages, newerTmps, Leading, Readable
        <4> QED
          BY <1>6, <4>1, <4>2
      <3>2. newerTmps' = {}
        BY <2>1, <3>1 DEF newerTmps
      <3> QED
        BY <2>1, <2>2, <3>1, <3>2 DEF Best, Candidate, Readable
    <2>3. CASE ~Readable(main)
      <3>1. tmps = {}
        BY <1>6, <2>3, CandidateIs DEF Promoted, At, Sweep, Stages, Readable
      <3> QED
        BY <1>1, <2>1, <3>1
    <2> QED
      BY <2>2, <2>3
  <1>7. ASSUME \/ \E m \in Mutations : Mutate(m)
               \/ \E e \in Edits : Edit(e)
               \/ TimerFires \/ StartOp \/ Settle \/ OpFails
        PROVE  Best' = Best
    BY <1>1, <1>7 DEF Mutate, Edit, TimerFires, StartOp, Settle, OpFails, files
  <1>8. ASSUME \/ RecoverySkipped \/ StartUp \/ CopyCorrupt \/ PromotionFails
               \/ Load \/ DefaultsWritten \/ Crash
        PROVE  Best' = Best
    <2>1. UNCHANGED <<main, tmps, backup>>
      BY <1>8 DEF RecoverySkipped, StartUp, CopyCorrupt, PromotionFails, Load, DefaultsWritten,
                  Crash, files
    <2> QED
      BY <1>1, <2>1
  <1>9. ~Damage
    BY DEF Damage, TypeOK
  <1>10. CASE UNCHANGED vars
    BY <1>1, <1>10 DEF vars, files
  <1> QED
    BY <1>3, <1>4, <1>5, <1>6, <1>7, <1>8, <1>9, <1>10 DEF Next

\* Whatever fails or crashes inside a start, the newest complete state on disk
\* is still what the next start recovers.
THEOREM NewestIsKept == Spec => RecoveryKeepsNewest
  <1>1. IInv /\ [Next]_vars
          => [mode # "up" /\ damages' = damages /\ Best # None => Best' = Best]_vars
    BY BestIsKept
  <1> QED
    BY <1>1, StoreInvariant, PTL DEF Spec, RecoveryKeepsNewest

=================================================================================
