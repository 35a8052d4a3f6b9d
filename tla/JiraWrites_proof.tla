--------------------------- MODULE JiraWrites_proof ---------------------------
(***************************************************************************)
(* Safety of the Jira write journal for every number of attempts, actions, *)
(* lives and journal entries, whatever is saved or fails.                  *)
(*                                                                         *)
(* What a window is told of a write is not inductive by itself: an entry   *)
(* that is unresolved in memory blocks its action even when nobody is in   *)
(* doubt about it any more (Blocking), and evidence read from Jira stays   *)
(* true because the call it is about is over (Evidence).                   *)
(***************************************************************************)
EXTENDS JiraWrites, TLAPS, FiniteSetTheorems

Open(entry) == entry # None /\ entry.state \in {"pending", "unknown"}

Typing ==
  /\ mem \in [Attempts -> Entries \cup {None}] /\ disk \in [Attempts -> Entries \cup {None}]
  /\ loaded \in BOOLEAN
  /\ pc \in [Attempts -> {"new", "posting", "marking", "done"}]
  /\ answer \in [Attempts -> Answers \cup {None}]
  /\ evidence \in [Attempts -> Verdicts \cup {None}]
  /\ shown \subseteq Attempts
  /\ now \in 0..MaxTime /\ lives \in 1..MaxLives
  /\ applied \in [Attempts -> (0..MaxTime) \cup {None}] /\ undone \subseteq Attempts
  /\ act \in [Attempts -> Actions \cup {None}]
  /\ told \in [Attempts -> Words \cup {None}]

\* The journal has room for what memory and the file hold.
Stored == {w \in Attempts : disk[w] # None}
Bounded == Cardinality(Inside) <= MaxEntries /\ Cardinality(Stored) <= MaxEntries

\* What each phase of a call knows.
Phases ==
  \A w \in Attempts :
    /\ pc[w] = "new" => act[w] = None /\ told[w] = None /\ mem[w] = None /\ disk[w] = None
    /\ pc[w] \in {"new", "posting"} => applied[w] = None /\ answer[w] = None
    /\ pc[w] \in {"posting", "marking"} => loaded /\ act[w] # None /\ told[w] = None
    /\ pc[w] = "marking" => answer[w] # None
    /\ pc[w] = "done" => act[w] # None /\ told[w] # None
    /\ answer[w] \in {"rejected", "not-sent"} => applied[w] = None

\* Until the journal is read, memory knows nothing.
Unread == ~loaded => \A w \in Attempts : mem[w] = None /\ evidence[w] = None

\* An entry is about its attempt and was written before Jira saw the request.
About(entry, w) ==
  entry # None => /\ entry.action = act[w] /\ entry.submitted <= now
                  /\ applied[w] # None => entry.submitted <= applied[w]
Faithful == \A w \in Attempts : About(mem[w], w) /\ About(disk[w], w)

\* What is in doubt is unresolved in memory, too.
DoubtIsOpen == \A w \in Attempts : InDoubt(w) /\ loaded => Open(mem[w])

\* An unresolved entry keeps every other attempt at its action from being sent.
Blocking ==
  \A v, w \in Attempts : v # w /\ Open(mem[v]) /\ act[v] = act[w] => pc[w] # "posting"

Evidence ==
  \A w \in Attempts : evidence[w] # None =>
    /\ pc[w] = "done"
    /\ evidence[w] = "not-applied" => applied[w] = None \/ w \in undone

PendingIsShown ==
  \A w \in Attempts : mem[w] # None /\ mem[w].state = "pending" /\ pc[w] = "done" => w \in shown

IInv ==
  /\ Typing /\ Bounded /\ Phases /\ Unread /\ Faithful
  /\ DoubtIsKept /\ DoubtIsOpen /\ Blocking /\ Evidence /\ PendingIsShown /\ NotAppliedIsTrue

-----------------------------------------------------------------------------
LEMMA InitIInv == Init => IInv
  <1> SUFFICES ASSUME Init PROVE IInv
    OBVIOUS
  <1>1. Typing
    <2>1. /\ mem = [w \in Attempts |-> None] /\ disk = [w \in Attempts |-> None]
          /\ answer = [w \in Attempts |-> None] /\ evidence = [w \in Attempts |-> None]
          /\ act = [w \in Attempts |-> None] /\ told = [w \in Attempts |-> None]
      BY DEF Init
    <2>2. now \in 0..MaxTime /\ lives \in 1..MaxLives
      BY JiraAssumption DEF Init
    <2> QED
      BY <2>1, <2>2 DEF Init, Typing
  <1>2. Bounded
    <2>1. Inside = {} /\ Stored = {}
      BY DEF Init, Inside, Stored
    <2> QED
      BY <2>1, FS_EmptySet, JiraAssumption DEF Bounded
  <1>3. Phases /\ Unread /\ Faithful /\ Evidence
    BY NoneAssumption DEF Init, Phases, Unread, Faithful, About, Evidence, Answers
  <1>4. DoubtIsKept /\ DoubtIsOpen /\ Blocking /\ PendingIsShown /\ NotAppliedIsTrue
    BY NoneAssumption DEF Init, DoubtIsKept, InDoubt, DoubtIsOpen, Blocking, PendingIsShown,
                          NotAppliedIsTrue, Open
  <1> QED
    BY <1>1, <1>2, <1>3, <1>4 DEF IInv

\* Loading, marking and saving keep the shape of the journal, and change one
\* entry's state or none.
LEMMA ChangeTypes ==
  ASSUME Typing, NEW w \in Attempts, mem[w] # None, NEW state \in States
  PROVE  /\ Change(w, state) \in [Attempts -> Entries \cup {None}]
         /\ \A v \in Attempts : v # w => Change(w, state)[v] = mem[v]
         /\ Change(w, state)[w] # None
         /\ Change(w, state)[w].action = mem[w].action
         /\ Change(w, state)[w].state = state
         /\ Change(w, state)[w].submitted = mem[w].submitted
  <1>1. mem[w] \in Entries
    BY DEF Typing
  <1> DEFINE next == [mem[w] EXCEPT !.state = state, !.updated = now]
  <1>2. /\ next \in Entries /\ next.action = mem[w].action
        /\ next.state = state /\ next.submitted = mem[w].submitted
    BY <1>1 DEF Entries, Typing
  <1>3. Change(w, state) = [mem EXCEPT ![w] = next]
    BY <1>1 DEF Change, Typing
  <1> HIDE DEF next
  <1>4. next # None
    BY <1>2, NoneAssumption
  <1> QED
    BY <1>2, <1>3, <1>4 DEF Typing

LEMMA InterruptedTypes ==
  ASSUME Typing, NEW w \in Attempts
  PROVE  /\ interrupted(w) \in Entries \cup {None}
         /\ interrupted(w) = None <=> disk[w] = None
         /\ disk[w] # None => /\ interrupted(w).action = disk[w].action
                              /\ interrupted(w).submitted = disk[w].submitted
                              /\ interrupted(w).state =
                                   IF disk[w].state = "pending" THEN "unknown" ELSE disk[w].state
  <1>1. CASE disk[w] = None
    BY <1>1 DEF interrupted
  <1>2. CASE disk[w] # None
    <2>1. disk[w] \in Entries
      BY <1>2 DEF Typing
    <2>2. [disk[w] EXCEPT !.state = "unknown", !.updated = now] \in Entries
      BY <2>1 DEF Entries, States, Typing
    <2> QED
      BY <1>2, <2>1, <2>2, NoneAssumption DEF interrupted, Entries
  <1> QED
    BY <1>1, <1>2

\* Used where cardinalities are added.
LEMMA InsideIsFinite == IsFiniteSet(Inside) /\ Cardinality(Inside) \in Nat
  BY JiraAssumption, FS_Subset, FS_CardinalityType DEF Inside

-----------------------------------------------------------------------------
(* Every step keeps the invariant. *)

LEMMA LoadJournalStep ==
  ASSUME IInv, LoadJournal
  PROVE  IInv'
  <1> USE JiraAssumption, NoneAssumption DEF IInv, jira
  <1>1. Typing'
    BY InterruptedTypes DEF Typing, LoadJournal, calls
  <1>2. Bounded'
    <2>1. Inside' = Stored
      BY InterruptedTypes DEF LoadJournal, Inside, Stored, Typing
    <2>2. Stored' = Stored
      BY <2>1, InterruptedTypes DEF LoadJournal, Inside, Stored, Typing
    <2> QED
      BY <2>1, <2>2 DEF Bounded
  <1>3. Phases'
    BY InterruptedTypes DEF Typing, Phases, Unread, LoadJournal, calls
  <1>4. Unread'
    BY DEF Typing, Unread, Phases, LoadJournal, calls
  <1>5. Faithful'
    BY InterruptedTypes DEF Typing, Faithful, About, Phases, LoadJournal, calls
  <1>6. DoubtIsKept'
    BY InterruptedTypes DEF Typing, DoubtIsKept, DoubtIsOpen, InDoubt, Open, Inside, Phases, LoadJournal, calls
  <1>7. DoubtIsOpen'
    BY InterruptedTypes DEF Typing, DoubtIsOpen, InDoubt, Open, Phases, LoadJournal, calls, DoubtIsKept
  <1>8. Blocking'
    BY DEF Typing, Blocking, Open, DoubtIsOpen, InDoubt, Phases, LoadJournal, calls
  <1>9. Evidence'
    BY DEF Typing, Evidence, Phases, LoadJournal, calls
  <1>10. PendingIsShown'
    BY InterruptedTypes DEF Typing, PendingIsShown, Phases, LoadJournal, calls
  <1>11. NotAppliedIsTrue'
    BY DEF Typing, NotAppliedIsTrue, Phases, Evidence, LoadJournal, calls
  <1> QED
    BY <1>1, <1>2, <1>3, <1>4, <1>5, <1>6, <1>7, <1>8, <1>9, <1>10, <1>11 DEF IInv

LEMMA BeginStep ==
  ASSUME IInv, NEW w \in Attempts, NEW a \in Actions, NEW drop \in SUBSET Attempts, Begin(w, a, drop)
  PROVE  IInv'
  <1> USE JiraAssumption, NoneAssumption DEF IInv, jira
  <1> DEFINE entry == [action |-> a, state |-> "pending", submitted |-> now, updated |-> now]
  <1>a. /\ entry # None /\ entry.action = a /\ entry.state = "pending"
    BY DEF Typing, Entries, States
  <1>b. /\ mem' = [v \in Attempts |-> IF v = w THEN entry ELSE IF v \in drop THEN None ELSE mem[v]]
        /\ disk' = mem'
    BY DEF Begin, Saved
  <1>c. w \notin Inside /\ drop \subseteq Settled
    BY <1>a DEF Begin, Room, droppable, Inside, Phases, Settled
  <1> HIDE DEF entry
  <1>1. Typing'
    BY DEF Typing, Begin, Saved, Entries, States
  <1>2. Bounded'
    <2>1. /\ w \notin Inside /\ w \notin drop
          /\ drop \subseteq Inside
      BY DEF Begin, Room, droppable, Settled, Inside, Phases
    <2>2. Inside' = (Inside \ drop) \cup {w} /\ Stored' = Inside'
      BY <1>a, <1>b, <2>1 DEF Inside, Stored
    <2>3. Cardinality(Inside') = Cardinality(Inside) - Cardinality(drop) + 1
      <3>1. /\ IsFiniteSet(drop) /\ Cardinality(drop) \in Nat
            /\ IsFiniteSet(Inside \ drop) /\ Cardinality(Inside \ drop) \in Nat
        BY <2>1, InsideIsFinite, FS_Subset, FS_CardinalityType
      <3>2. Cardinality(Inside \ drop) = Cardinality(Inside) - Cardinality(Inside \cap drop)
        BY InsideIsFinite, FS_Difference
      <3>3. Inside \cap drop = drop /\ w \notin Inside \ drop
        BY <2>1
      <3> QED
        BY <2>2, <3>1, <3>2, <3>3, FS_AddElement
    <2>4. \/ Cardinality(drop) = 0 /\ Cardinality(Inside) < MaxEntries
          \/ Cardinality(drop) = Cardinality(Inside) + 1 - MaxEntries
      BY FS_EmptySet DEF Begin, Room
    <2> QED
      BY <2>2, <2>3, <2>4, InsideIsFinite DEF Bounded
  <1>3. Phases'
    BY DEF Typing, Phases, Unread, Begin, Saved, Words, Answers
  <1>4. Unread'
    BY DEF Typing, Unread, Phases, Begin, Saved
  <1>5. Faithful'
    BY DEF Typing, Faithful, About, Phases, Begin, Saved, Entries
  <1>6. DoubtIsKept' /\ DoubtIsOpen'
    <2> SUFFICES ASSUME NEW v \in Attempts, InDoubt(v)' PROVE Open(mem[v])' /\ Open(disk[v])' /\ v \in Inside'
      BY DEF DoubtIsKept, DoubtIsOpen, Open
    <2>1. CASE v = w
      BY <1>a, <1>b, <2>1 DEF Open, Inside
    <2>2. CASE v # w
      <3>1. InDoubt(v)
        BY <2>2 DEF Begin, InDoubt, Typing
      <3>2. Open(mem[v])
        BY <3>1 DEF DoubtIsOpen, Begin
      <3>3. v \notin drop
        BY <3>2 DEF Open, Begin, Room, droppable, Settled, Inside
      <3> QED
        BY <2>2, <3>2, <3>3 DEF Begin, Saved, Open, Inside
    <2> QED
      BY <2>1, <2>2
  <1>8. Blocking'
    <2> SUFFICES ASSUME NEW v \in Attempts, NEW u \in Attempts, v # u,
                        Open(mem'[v]), act'[v] = act'[u], pc'[u] = "posting"
                 PROVE  FALSE
      BY DEF Blocking
    <2>1. \A x \in Attempts : Open(mem[x]) => act[x] # a
      BY DEF Begin, Blocked, Blocks, Open, Inside, Faithful, About
    <2>2. \A x \in Attempts : pc[x] = "posting" => Open(mem[x])
      BY DEF DoubtIsOpen, InDoubt, Phases
    <2>3. \A x \in Attempts \ {w} : /\ act'[x] = act[x] /\ pc'[x] = pc[x]
                                    /\ Open(mem'[x]) => Open(mem[x])
      BY <1>b DEF Begin, Typing, Open
    <2>4. act'[w] = a
      BY DEF Begin, Typing
    <2>5. CASE v = w
      BY <2>1, <2>2, <2>3, <2>4, <2>5
    <2>6. CASE u = w
      BY <2>1, <2>3, <2>4, <2>6
    <2> QED
      BY <2>3, <2>5, <2>6 DEF Blocking
  <1>9. Evidence'
    BY DEF Typing, Evidence, Phases, Begin, Saved
  <1>10. PendingIsShown'
    BY DEF Typing, PendingIsShown, Phases, Begin, Saved
  <1>11. NotAppliedIsTrue'
    BY DEF Typing, NotAppliedIsTrue, Phases, Evidence, Begin, Saved
  <1> QED
    BY <1>1, <1>2, <1>3, <1>4, <1>5, <1>6, <1>8, <1>9, <1>10, <1>11 DEF IInv

LEMMA BeginRefusedStep ==
  ASSUME IInv, NEW w \in Attempts, NEW a \in Actions, BeginRefused(w, a)
  PROVE  IInv'
  <1> USE JiraAssumption, NoneAssumption DEF IInv, jira
  <1>1. Typing'
    BY DEF Typing, BeginRefused, journal, Words
  <1>2. Bounded'
    BY DEF Typing, Bounded, Inside, Stored, BeginRefused, journal
  <1>3. Phases'
    BY DEF Typing, Phases, Unread, BeginRefused, journal, Words
  <1>4. Unread'
    BY DEF Typing, Unread, Phases, BeginRefused, journal
  <1>5. Faithful'
    BY DEF Typing, Faithful, About, Phases, BeginRefused, journal
  <1>6. DoubtIsKept'
    BY DEF Typing, DoubtIsKept, DoubtIsOpen, InDoubt, Open, Inside, Phases, BeginRefused, journal, Words
  <1>7. DoubtIsOpen'
    BY DEF Typing, DoubtIsOpen, InDoubt, Open, Phases, BeginRefused, journal, Words
  <1>8. Blocking'
    BY DEF Typing, Blocking, Open, DoubtIsOpen, InDoubt, Phases, BeginRefused, journal
  <1>9. Evidence'
    BY DEF Typing, Evidence, Phases, BeginRefused, journal
  <1>10. PendingIsShown'
    BY DEF Typing, PendingIsShown, Phases, BeginRefused, journal
  <1>11. NotAppliedIsTrue'
    BY DEF Typing, NotAppliedIsTrue, Phases, Evidence, BeginRefused, journal
  <1> QED
    BY <1>1, <1>2, <1>3, <1>4, <1>5, <1>6, <1>7, <1>8, <1>9, <1>10, <1>11 DEF IInv

LEMMA PostedStep ==
  ASSUME IInv, NEW w \in Attempts, NEW result \in Answers, Posted(w, result)
  PROVE  IInv'
  <1> USE JiraAssumption, NoneAssumption DEF IInv, jira
  <1>1. Typing'
    BY DEF Typing, Posted, journal
  <1>2. Bounded'
    BY DEF Typing, Bounded, Inside, Stored, Posted, journal
  <1>3. Phases'
    BY DEF Typing, Phases, Unread, Posted, journal, Answers
  <1>4. Unread'
    BY DEF Typing, Unread, Phases, Posted, journal
  <1>5. Faithful'
    BY DEF Typing, Faithful, About, Phases, Posted, journal, Entries
  <1>6. DoubtIsKept'
    BY DEF Typing, DoubtIsKept, DoubtIsOpen, InDoubt, Open, Inside, Phases, Posted, journal
  <1>7. DoubtIsOpen'
    BY DEF Typing, DoubtIsOpen, InDoubt, Open, Phases, Posted, journal
  <1>8. Blocking'
    BY DEF Typing, Blocking, Open, DoubtIsOpen, InDoubt, Phases, Posted, journal
  <1>9. Evidence'
    BY DEF Typing, Evidence, Phases, Posted, journal
  <1>10. PendingIsShown'
    BY DEF Typing, PendingIsShown, Phases, Posted, journal
  <1>11. NotAppliedIsTrue'
    BY DEF Typing, NotAppliedIsTrue, Phases, Evidence, Posted, journal, Words
  <1> QED
    BY <1>1, <1>2, <1>3, <1>4, <1>5, <1>6, <1>7, <1>8, <1>9, <1>10, <1>11 DEF IInv

\* Saving a changed entry leaves the journal as full as it was.
LEMMA ChangeSize ==
  ASSUME Typing, Bounded, NEW w \in Attempts, mem[w] # None, NEW state \in States,
         Saved(Change(w, state))
  PROVE  Bounded'
  <1>1. Inside' = Inside /\ Stored' = Inside
    BY ChangeTypes DEF Saved, Inside, Stored
  <1> QED
    BY <1>1 DEF Bounded

LEMMA MarkStep ==
  ASSUME IInv, NEW w \in Attempts, Mark(w)
  PROVE  IInv'
  <1> USE JiraAssumption, NoneAssumption DEF IInv, jira
  \* The call's entry is in doubt until now, so it is there and unresolved.
  <1>1. Open(mem[w]) /\ Open(disk[w])
    BY DEF Mark, Phases, InDoubt, DoubtIsOpen, DoubtIsKept, Open
  <1>2. answer[w] \in Answers /\ mark(answer[w]) \in States /\ word(answer[w]) \in Words
    BY DEF Mark, Phases, Typing, Answers, mark, word, States, Words
  <1>3. ~Missing(w)
    BY <1>1 DEF Missing, Settled, Open
  <1>4. /\ mem' \in [Attempts -> Entries \cup {None}] /\ disk' \in [Attempts -> Entries \cup {None}]
        /\ \A v \in Attempts : v # w => mem'[v] = mem[v] /\ disk'[v] \in {mem[v], disk[v]}
        /\ mem'[w] # None /\ mem'[w].action = mem[w].action /\ mem'[w].submitted = mem[w].submitted
        /\ disk'[w] \in {mem'[w], disk[w]}
        /\ Bounded'
        /\ told' = [told EXCEPT ![w] = told'[w]] /\ told'[w] \in Words
        /\ told'[w] = "unknown" => Open(mem'[w]) /\ Open(disk'[w])
        /\ told'[w] \in {"failed", "not-applied", "refused"} => answer[w] \in {"rejected", "not-sent"}
    <2>1. CASE /\ Saved(Change(w, mark(answer[w])))
               /\ told' = [told EXCEPT ![w] = word(answer[w])]
      <3>1. Bounded'
        BY <1>1, <1>2, <2>1, ChangeSize DEF Open
      <3>2. mem' = Change(w, mark(answer[w])) /\ disk' = mem' /\ told'[w] = word(answer[w])
        BY <2>1 DEF Saved, Typing
      <3>3. word(answer[w]) = "unknown" => mark(answer[w]) = "unknown"
        BY <1>2 DEF mark, word, Answers
      <3>4. word(answer[w]) \in {"failed", "not-applied", "refused"}
              => answer[w] \in {"rejected", "not-sent"}
        BY <1>2 DEF word, Answers
      <3>5. /\ mem' \in [Attempts -> Entries \cup {None}]
            /\ \A v \in Attempts : v # w => mem'[v] = mem[v]
            /\ mem'[w] # None /\ mem'[w].action = mem[w].action
            /\ mem'[w].state = mark(answer[w]) /\ mem'[w].submitted = mem[w].submitted
        BY <1>1, <1>2, <3>2, ChangeTypes DEF Open
      <3>6. told'[w] = "unknown" => Open(mem'[w]) /\ Open(disk'[w])
        BY <3>2, <3>3, <3>5 DEF Open
      <3> QED
        BY <1>2, <2>1, <3>1, <3>2, <3>4, <3>5, <3>6
    <2>2. CASE /\ UNCHANGED <<mem, disk>>
               /\ told' = [told EXCEPT ![w] =
                    IF answer[w] = "ok" THEN "unknown" ELSE word(answer[w])]
      <3>1. Bounded'
        BY <2>2 DEF Bounded, Inside, Stored
      <3>2. told'[w] = IF answer[w] = "ok" THEN "unknown" ELSE word(answer[w])
        BY <2>2 DEF Typing
      <3>3. word(answer[w]) \in {"failed", "not-applied", "refused"}
              => answer[w] \in {"rejected", "not-sent"}
        BY <1>2 DEF word, Answers
      <3> QED
        BY <1>1, <1>2, <2>2, <3>1, <3>2, <3>3 DEF Typing, Open, Words
    <2> QED
      BY <1>3, <2>1, <2>2 DEF Mark
  <1>5. Typing'
    BY <1>4 DEF Typing, Mark
  <1>6. Phases' /\ Unread'
    BY <1>1, <1>4 DEF Phases, Unread, Mark, Typing, Open, Answers
  <1>7. Faithful'
    BY <1>1, <1>4 DEF Faithful, About, Mark, Open
  <1>8. DoubtIsKept' /\ DoubtIsOpen'
    <2> SUFFICES ASSUME NEW v \in Attempts, InDoubt(v)'
                 PROVE  Open(mem'[v]) /\ Open(disk'[v])
      BY DEF DoubtIsKept, DoubtIsOpen, Open, Inside
    <2>1. CASE v = w
      BY <1>4, <2>1 DEF InDoubt
    <2>2. CASE v # w
      BY <1>4, <2>2 DEF InDoubt, DoubtIsOpen, DoubtIsKept, Open, Mark, Typing
    <2> QED
      BY <2>1, <2>2
  <1>9. Blocking'
    BY <1>1, <1>4 DEF Blocking, Open, Mark, Typing
  <1>10. Evidence' /\ PendingIsShown'
    BY <1>4 DEF Evidence, PendingIsShown, Mark, Typing
  <1>11. NotAppliedIsTrue'
    BY <1>4 DEF NotAppliedIsTrue, Phases, Mark, Typing
  <1> QED
    BY <1>4, <1>5, <1>6, <1>7, <1>8, <1>9, <1>10, <1>11

LEMMA ReadEvidenceStep ==
  ASSUME IInv, NEW w \in Attempts, NEW verdict \in Verdicts, ReadEvidence(w, verdict)
  PROVE  IInv'
  <1> USE JiraAssumption, NoneAssumption DEF IInv, jira
  <1>1. Typing'
    BY DEF Typing, ReadEvidence, journal
  <1>2. Bounded'
    BY DEF Typing, Bounded, Inside, Stored, ReadEvidence, journal
  <1>3. Phases'
    BY DEF Typing, Phases, Unread, ReadEvidence, journal
  <1>4. Unread'
    BY DEF Typing, Unread, Phases, ReadEvidence, journal, Unresolved
  <1>5. Faithful'
    BY DEF Typing, Faithful, About, Phases, ReadEvidence, journal
  <1>6. DoubtIsKept'
    BY DEF Typing, DoubtIsKept, DoubtIsOpen, InDoubt, Open, Inside, Phases, ReadEvidence, journal
  <1>7. DoubtIsOpen'
    BY DEF Typing, DoubtIsOpen, InDoubt, Open, Phases, ReadEvidence, journal
  <1>8. Blocking'
    BY DEF Typing, Blocking, Open, DoubtIsOpen, InDoubt, Phases, ReadEvidence, journal
  <1>9. Evidence'
    BY DEF Typing, Evidence, Phases, ReadEvidence, journal, Faithful, About, verdicts, Shows, Unresolved, Inside, Entries
  <1>10. PendingIsShown'
    BY DEF Typing, PendingIsShown, Phases, ReadEvidence, journal
  <1>11. NotAppliedIsTrue'
    BY DEF Typing, NotAppliedIsTrue, Phases, Evidence, ReadEvidence, journal
  <1> QED
    BY <1>1, <1>2, <1>3, <1>4, <1>5, <1>6, <1>7, <1>8, <1>9, <1>10, <1>11 DEF IInv

LEMMA MarkReconciledStep ==
  ASSUME IInv, NEW w \in Attempts, MarkReconciled(w)
  PROVE  IInv'
  <1> USE JiraAssumption, NoneAssumption DEF IInv, jira
  <1> DEFINE state == IF evidence[w] = "unresolved" THEN "unknown" ELSE evidence[w]
  <1>1. state \in {"unknown", "applied", "not-applied"} /\ state \in States /\ state \in Words
    BY DEF MarkReconciled, Typing, Verdicts, States, Words
  <1>2. pc[w] = "done" /\ (state = "not-applied" => applied[w] = None \/ w \in undone)
    BY DEF MarkReconciled, Evidence
  <1> HIDE DEF state
  <1>3. CASE UNCHANGED <<mem, disk, told>>
    <2>1. Typing' /\ Phases' /\ Unread' /\ Evidence'
      BY <1>3 DEF MarkReconciled, Typing, Phases, Unread, Evidence
    <2>2. Bounded' /\ Faithful'
      BY <1>3 DEF MarkReconciled, Bounded, Inside, Stored, Faithful, About
    <2>3. DoubtIsKept' /\ DoubtIsOpen'
      BY <1>3 DEF MarkReconciled, DoubtIsKept, DoubtIsOpen, InDoubt, Open, Inside
    <2>4. Blocking' /\ PendingIsShown' /\ NotAppliedIsTrue'
      BY <1>3 DEF MarkReconciled, Blocking, Open, PendingIsShown, NotAppliedIsTrue
    <2> QED
      BY <2>1, <2>2, <2>3, <2>4
  <1>4. CASE /\ w \in Inside /\ mem[w].state \in {"unknown", "pending"}
             /\ Saved(Change(w, state))
             /\ told' = [told EXCEPT ![w] = state]
    <2>1. Open(mem[w]) /\ mem[w] # None
      BY <1>4 DEF Open, Inside
    <2>2. /\ mem' \in [Attempts -> Entries \cup {None}] /\ disk' = mem'
          /\ \A v \in Attempts : v # w => mem'[v] = mem[v]
          /\ mem'[w] # None /\ mem'[w].action = mem[w].action
          /\ mem'[w].state = state /\ mem'[w].submitted = mem[w].submitted
      BY <1>1, <1>4, <2>1, ChangeTypes DEF Saved
    <2>3. Bounded'
      BY <1>1, <1>4, <2>1, ChangeSize
    <2>4. Typing'
      BY <1>1, <1>4, <2>2 DEF Typing, MarkReconciled
    <2>5. Phases' /\ Unread'
      BY <1>1, <1>2, <1>4, <2>2 DEF Phases, Unread, MarkReconciled, Typing
    <2>6. Faithful'
      BY <2>1, <2>2 DEF Faithful, About, MarkReconciled
    <2>7. DoubtIsKept' /\ DoubtIsOpen'
      <3> SUFFICES ASSUME NEW v \in Attempts, InDoubt(v)' PROVE Open(mem'[v])
        BY <2>2 DEF DoubtIsKept, DoubtIsOpen, Open, Inside
      <3>1. CASE v = w
        BY <1>1, <1>4, <2>2, <3>1 DEF InDoubt, Typing, Open
      <3>2. CASE v # w
        BY <1>4, <2>2, <3>2 DEF InDoubt, DoubtIsOpen, MarkReconciled, Typing, Open
      <3> QED
        BY <3>1, <3>2
    <2>8. Blocking'
      BY <2>1, <2>2 DEF Blocking, Open, MarkReconciled
    <2>9. Evidence' /\ PendingIsShown'
      BY <1>1, <2>2 DEF Evidence, PendingIsShown, MarkReconciled, Typing
    <2>10. NotAppliedIsTrue'
      BY <1>1, <1>2, <1>4 DEF NotAppliedIsTrue, MarkReconciled, Typing
    <2> QED
      BY <2>3, <2>4, <2>5, <2>6, <2>7, <2>8, <2>9, <2>10
  <1> QED
    BY <1>3, <1>4 DEF MarkReconciled, state

LEMMA TickStep ==
  ASSUME IInv, Tick
  PROVE  IInv'
  <1> USE JiraAssumption, NoneAssumption DEF IInv, jira
  <1>1. Typing'
    BY DEF Typing, Tick, journal, calls
  <1>2. Bounded'
    BY DEF Typing, Bounded, Inside, Stored, Tick, journal, calls
  <1>3. Phases'
    BY DEF Typing, Phases, Unread, Tick, journal, calls
  <1>4. Unread'
    BY DEF Typing, Unread, Phases, Tick, journal, calls
  <1>5. Faithful'
    BY DEF Typing, Faithful, About, Phases, Tick, journal, calls, Entries
  <1>6. DoubtIsKept'
    BY DEF Typing, DoubtIsKept, DoubtIsOpen, InDoubt, Open, Inside, Phases, Tick, journal, calls
  <1>7. DoubtIsOpen'
    BY DEF Typing, DoubtIsOpen, InDoubt, Open, Phases, Tick, journal, calls
  <1>8. Blocking'
    BY DEF Typing, Blocking, Open, DoubtIsOpen, InDoubt, Phases, Tick, journal, calls
  <1>9. Evidence'
    BY DEF Typing, Evidence, Phases, Tick, journal, calls
  <1>10. PendingIsShown'
    BY DEF Typing, PendingIsShown, Phases, Tick, journal, calls
  <1>11. NotAppliedIsTrue'
    BY DEF Typing, NotAppliedIsTrue, Phases, Evidence, Tick, journal, calls
  <1> QED
    BY <1>1, <1>2, <1>3, <1>4, <1>5, <1>6, <1>7, <1>8, <1>9, <1>10, <1>11 DEF IInv

LEMMA RestartStep ==
  ASSUME IInv, NEW landed \in SUBSET Posting, Restart(landed)
  PROVE  IInv'
  <1> USE JiraAssumption, NoneAssumption DEF IInv, jira
  <1>1. Typing'
    <2>1. now' \in 0..MaxTime /\ lives' \in 1..MaxLives
      BY DEF Restart, Typing
    <2>2. /\ mem' = [v \in Attempts |-> None] /\ evidence' = [v \in Attempts |-> None]
          /\ answer' = [v \in Attempts |-> None] /\ shown' = {}
      BY DEF Restart
    <2>3. applied' \in [Attempts -> (0..MaxTime) \cup {None}]
      BY DEF Restart, Typing
    <2>4. told' \in [Attempts -> Words \cup {None}]
      BY DEF Restart, Typing, Words
    <2>5. /\ pc' \in [Attempts -> {"new", "posting", "marking", "done"}]
          /\ disk' \in [Attempts -> Entries \cup {None}] /\ loaded' \in BOOLEAN
          /\ act' \in [Attempts -> Actions \cup {None}] /\ undone' \subseteq Attempts
      BY DEF Restart, Typing
    <2> QED
      BY <2>1, <2>2, <2>3, <2>4, <2>5 DEF Typing
  <1>2. Bounded'
    <2>1. Inside' = {} /\ Stored' = Stored
      BY DEF Restart, Inside, Stored
    <2> QED
      BY <2>1, FS_EmptySet DEF Bounded
  <1>3. Phases'
    <2>1. answer' = [v \in Attempts |-> None] /\ mem' = [v \in Attempts |-> None]
      BY DEF Restart
    <2>2. ASSUME NEW v \in Attempts
          PROVE  /\ pc'[v] = IF pc[v] = "new" THEN "new" ELSE "done"
                 /\ applied'[v] = IF v \in landed THEN now ELSE applied[v]
                 /\ told'[v] = IF pc[v] \in {"posting", "marking"} THEN "unknown" ELSE told[v]
                 /\ act'[v] = act[v] /\ disk'[v] = disk[v]
                 /\ pc[v] = "new" => v \notin landed
      BY DEF Restart, Posting
    <2>3. /\ \A v \in Attempts : pc[v] \in {"new", "posting", "marking", "done"}
          /\ "unknown" # None
      BY DEF Typing, Words
    <2> QED
      BY <2>1, <2>2, <2>3 DEF Phases, Answers
  <1>4. Unread'
    BY DEF Typing, Unread, Phases, Restart, Posting
  <1>5. Faithful'
    BY DEF Typing, Faithful, About, Phases, Restart, Posting
  <1>6. DoubtIsKept'
    BY DEF Typing, DoubtIsKept, DoubtIsOpen, InDoubt, Open, Inside, Phases, Restart, Posting
  <1>7. DoubtIsOpen'
    BY DEF Typing, DoubtIsOpen, InDoubt, Open, Phases, Restart, Posting
  <1>8. Blocking'
    BY DEF Typing, Blocking, Open, DoubtIsOpen, InDoubt, Phases, Restart, Posting
  <1>9. Evidence'
    BY DEF Typing, Evidence, Phases, Restart, Posting
  <1>10. PendingIsShown'
    BY DEF Typing, PendingIsShown, Phases, Restart, Posting
  <1>11. NotAppliedIsTrue'
    BY DEF Typing, NotAppliedIsTrue, Phases, Evidence, Restart, Posting
  <1> QED
    BY <1>1, <1>2, <1>3, <1>4, <1>5, <1>6, <1>7, <1>8, <1>9, <1>10, <1>11 DEF IInv

LEMMA ElsewhereStep ==
  ASSUME IInv, NEW w \in Attempts, Elsewhere(w)
  PROVE  IInv'
  <1> USE DEF IInv, journal, calls
  <1>1. Typing' /\ Phases' /\ Unread' /\ PendingIsShown'
    BY DEF Elsewhere, Typing, Phases, Unread, PendingIsShown
  <1>2. Bounded' /\ Faithful'
    BY DEF Elsewhere, Bounded, Inside, Stored, Faithful, About
  <1>3. DoubtIsKept' /\ DoubtIsOpen' /\ Blocking'
    BY DEF Elsewhere, DoubtIsKept, DoubtIsOpen, InDoubt, Blocking, Open, Inside
  <1>4. Evidence' /\ NotAppliedIsTrue'
    BY DEF Elsewhere, Evidence, NotAppliedIsTrue
  <1> QED
    BY <1>1, <1>2, <1>3, <1>4

LEMMA StepIInv == IInv /\ [Next]_vars => IInv'
  <1> SUFFICES ASSUME IInv, [Next]_vars PROVE IInv'
    OBVIOUS
  <1>1. CASE LoadJournal
    BY <1>1, LoadJournalStep
  <1>2. ASSUME NEW w \in Attempts, NEW a \in Actions, NEW drop \in SUBSET Attempts,
               Begin(w, a, drop)
        PROVE  IInv'
    BY <1>2, BeginStep
  <1>3. ASSUME NEW w \in Attempts, NEW a \in Actions, BeginRefused(w, a) PROVE IInv'
    BY <1>3, BeginRefusedStep
  <1>4. ASSUME NEW w \in Attempts, NEW result \in Answers, Posted(w, result) PROVE IInv'
    BY <1>4, PostedStep
  <1>5. ASSUME NEW w \in Attempts, Mark(w) PROVE IInv'
    BY <1>5, MarkStep
  <1>6. ASSUME NEW w \in Attempts, NEW verdict \in Verdicts, ReadEvidence(w, verdict) PROVE IInv'
    BY <1>6, ReadEvidenceStep
  <1>7. ASSUME NEW w \in Attempts, MarkReconciled(w) PROVE IInv'
    BY <1>7, MarkReconciledStep
  <1>8. CASE Tick
    BY <1>8, TickStep
  <1>9. ASSUME NEW w \in Attempts, Elsewhere(w) PROVE IInv'
    BY <1>9, ElsewhereStep
  <1>10. ASSUME NEW landed \in SUBSET Posting, Restart(landed) PROVE IInv'
    BY <1>10, RestartStep
  <1>11. CASE UNCHANGED vars
    <2>1. Typing' /\ Phases' /\ Unread' /\ Evidence' /\ PendingIsShown' /\ NotAppliedIsTrue'
      BY <1>11 DEF IInv, vars, journal, calls, jira, Typing, Phases, Unread, Evidence,
                   PendingIsShown, NotAppliedIsTrue
    <2>2. Bounded' /\ Faithful'
      BY <1>11 DEF IInv, vars, journal, calls, jira, Bounded, Inside, Stored, Faithful, About
    <2>3. DoubtIsKept' /\ DoubtIsOpen' /\ Blocking'
      BY <1>11 DEF IInv, vars, journal, calls, jira, DoubtIsKept, DoubtIsOpen, InDoubt, Blocking,
                   Open, Inside
    <2> QED
      BY <2>1, <2>2, <2>3 DEF IInv
  <1> QED
    BY <1>1, <1>2, <1>3, <1>4, <1>5, <1>6, <1>7, <1>8, <1>9, <1>10, <1>11 DEF Next

\* Whatever fails, is lost on the way or is interrupted, the invariant holds.
THEOREM JournalInvariant == Spec => []IInv
  <1> QED
    BY InitIInv, StepIInv, PTL DEF Spec

-----------------------------------------------------------------------------
\* The journal never holds more entries than makeRoom() allows, and every
\* variable keeps its type (TypeOK).
THEOREM TypeCorrect == Spec => []TypeOK
  <1>1. IInv => TypeOK
    BY DEF IInv, Typing, Bounded, TypeOK, Inside
  <1> QED
    BY <1>1, JournalInvariant, PTL

\* begin() never lets a request go out while another of the same action is in
\* doubt (NoRepeatInDoubt).
THEOREM NothingIsRepeatedInDoubt == Spec => []NoRepeatInDoubt
  <1>1. ASSUME IInv PROVE NoRepeatInDoubt
    <2> SUFFICES ASSUME NEW v \in Attempts, NEW w \in Attempts, v # w, act[v] = act[w],
                        InDoubt(v), pc[w] = "posting"
                 PROVE  FALSE
      BY DEF NoRepeatInDoubt
    <2>1. loaded
      BY <1>1 DEF IInv, Phases
    <2>2. Open(mem[v])
      BY <1>1, <2>1 DEF IInv, DoubtIsOpen
    <2> QED
      BY <1>1, <2>2 DEF IInv, Blocking
  <1> QED
    BY <1>1, JournalInvariant, PTL

\* What recordFailure() reports as failed never happens, and what Jira, as it
\* is when asked, shows as not applied was not, unless others have undone it
\* (NotAppliedIsTrue).
THEOREM ReportsAreTrue == Spec => []NotAppliedIsTrue
  <1>1. IInv => NotAppliedIsTrue
    BY DEF IInv
  <1> QED
    BY <1>1, JournalInvariant, PTL

\* No restart, failed save or full journal forgets a write in doubt
\* (DoubtIsKept).
THEOREM DoubtsAreKept == Spec => []DoubtIsKept
  <1>1. IInv => DoubtIsKept
    BY DEF IInv
  <1> QED
    BY <1>1, JournalInvariant, PTL

\* reconcileWrite() takes every write in doubt whose call is over: the history
\* lists it, or its call has named it (DoubtIsListed).
THEOREM DoubtsAreListed == Spec => []DoubtIsListed
  <1>1. ASSUME IInv PROVE DoubtIsListed
    <2> SUFFICES ASSUME NEW w \in Attempts, InDoubt(w), pc[w] = "done", loaded
                 PROVE  Unresolved(w)
      BY DEF DoubtIsListed
    <2>1. Open(mem[w])
      BY <1>1 DEF IInv, DoubtIsOpen
    <2>2. mem[w].state = "pending" => w \in shown
      BY <1>1, <2>1 DEF IInv, PendingIsShown, Open
    <2> QED
      BY <2>1, <2>2 DEF Unresolved, Open, Inside
  <1> QED
    BY <1>1, JournalInvariant, PTL
=============================================================================
