-------------------------- MODULE TerminalStream_proof --------------------------
(***************************************************************************)
(* A client shows every chunk once and in order, for any length of history *)
(* and any number of removals, restarts, reconnects and replays.           *)
(*                                                                         *)
(* What a terminal will show once all frames on their way have arrived is  *)
(* a fold over those frames.  Its laws (the last frame sent is the last    *)
(* shown; handling the first changes nothing; a replay makes what came     *)
(* before irrelevant) are proved by induction over sequences, which is     *)
(* reduced to the well-foundedness of finite sets because the library's    *)
(* induction theorems cannot be instantiated here.  With them Complete is  *)
(* inductive: what arrives is whole, reaches to the newest chunk, and its  *)
(* throughSeq is not beyond it, so that no live chunk is taken for one     *)
(* that was replayed already.                                              *)
(***************************************************************************)
EXTENDS TerminalStream, FiniteSetTheorems, SequenceTheorems, TLAPS

-----------------------------------------------------------------------------
(* Induction. *)

\* Induction over the natural numbers, for the members of a set: the initial
\* segments up to a number outside of it would have no least one.
LEMMA SetInduction ==
  ASSUME NEW P \in SUBSET Nat, 0 \in P, \A n \in P : n + 1 \in P
  PROVE  P = Nat
  <1>1. SUFFICES ASSUME NEW n \in Nat, n \notin P PROVE FALSE
    OBVIOUS
  <1> DEFINE T == {0..k : k \in Nat \ P}
  <1>2. T \subseteq FiniteSubsetsOf(Nat) /\ T # {}
    <2>1. \A k \in Nat : 0..k \subseteq Nat /\ IsFiniteSet(0..k)
      BY FS_Interval
    <2> QED BY <2>1, <1>1 DEF FiniteSubsetsOf
  <1>3. IsWellFoundedOn(StrictSubsetOrdering(Nat), FiniteSubsetsOf(Nat))
    BY FS_StrictSubsetOrderingWellFounded
  <1> HIDE DEF T
  <1>4. PICK x \in T : \A y \in T : ~(<<y, x>> \in StrictSubsetOrdering(Nat))
    BY <1>2, <1>3, WFMin
  <1>5. PICK m \in Nat \ P : x = 0..m
    BY <1>4 DEF T
  <1>6. m # 0 /\ m - 1 \in Nat \ P
    BY <1>5
  <1>7. 0..(m-1) \in T
    BY <1>6 DEF T
  <1>8. <<0..(m-1), x>> \in StrictSubsetOrdering(Nat)
    <2>1. 0..(m-1) \subseteq 0..m /\ 0..(m-1) # 0..m /\ 0..m \subseteq Nat
      BY <1>5, <1>6
    <2> QED BY <2>1, <1>5 DEF StrictSubsetOrdering
  <1> QED BY <1>4, <1>7, <1>8

\* Induction over sequences, element by element.
LEMMA SeqInduction ==
  ASSUME NEW S, NEW P \in SUBSET Seq(S), <<>> \in P,
         \A q \in P : \A e \in S : Append(q, e) \in P
  PROVE  P = Seq(S)
  <1> DEFINE N == {n \in Nat : \A q \in Seq(S) : Len(q) = n => q \in P}
  <1>1. 0 \in N
    <2>1. \A q \in Seq(S) : Len(q) = 0 => q = <<>>
      OBVIOUS
    <2> QED BY <2>1
  <1>2. ASSUME NEW n \in N PROVE n + 1 \in N
    <2>0. n \in Nat /\ n + 1 \in Nat
      OBVIOUS
    <2>1. ASSUME NEW q \in Seq(S), Len(q) = n + 1 PROVE q \in P
      <3>1. q # <<>>
        BY <2>0, <2>1
      <3>2. PICK r \in Seq(S), e \in S : q = Append(r, e)
        BY <3>1, SequenceEmptyOrAppend
      <3>3. Len(r) = n
        BY <2>0, <2>1, <3>2, AppendProperties, LenProperties
      <3>4. r \in P
        BY <3>3
      <3> QED BY <3>2, <3>4
    <2> QED BY <2>0, <2>1
  <1>3. N \in SUBSET Nat
    OBVIOUS
  <1> HIDE DEF N
  <1>4. N = Nat
    BY <1>1, <1>2, <1>3, SetInduction
  <1> QED BY <1>4, LenProperties DEF N

-----------------------------------------------------------------------------
(* The fold. *)

\* The terminal c after the frames q.
After(c, q) == FoldLeft(Shown, c, q)

\* g solves its recursion for the prefixes of q up to n.
Folding(g, c, q, n) ==
  g = [s \in SUBSET (1..n) |-> IF s = {} THEN c ELSE Shown(g[s \ {Max(s)}], q[Max(s)])]

\* The fold is the recursive function of its definition.
LEMMA AfterIs == ASSUME NEW c, NEW q, NEW n \in Nat, DOMAIN q = 1..n
  PROVE After(c, q) = (CHOOSE g : Folding(g, c, q, n))[1..n]
  BY DEF After, FoldLeft, MapThenFoldSet, Folding

\* The last index of a prefix is the one the fold takes first.
LEMMA MaxOf == ASSUME NEW n \in Nat, NEW s \in SUBSET (1..n), n \in s PROVE Max(s) = n
  <1>1. \A y \in s : n >= y
    OBVIOUS
  <1>2. \A x \in s : (\A y \in s : x >= y) => x = n
    OBVIOUS
  <1> QED BY <1>1, <1>2 DEF Max

\* The recursion has a solution for every length.
LEMMA FoldingExists == ASSUME NEW c, NEW q PROVE \A n \in Nat : \E g : Folding(g, c, q, n)
  <1> DEFINE P == {n \in Nat : \E g : Folding(g, c, q, n)}
  <1>1. 0 \in P
    <2> DEFINE g == [s \in SUBSET (1..0) |-> c]
    <2>1. Folding(g, c, q, 0)
      BY DEF Folding
    <2> QED BY <2>1
  <1>2. ASSUME NEW n \in P PROVE n + 1 \in P
    <2>0. n \in Nat
      OBVIOUS
    <2>1. PICK g : Folding(g, c, q, n)
      OBVIOUS
    <2> DEFINE h == [s \in SUBSET (1..(n + 1)) |->
                      IF n + 1 \in s THEN Shown(g[s \ {n + 1}], q[n + 1]) ELSE g[s]]
    <2>2. ASSUME NEW s \in SUBSET (1..(n + 1))
          PROVE h[s] = IF s = {} THEN c ELSE Shown(h[s \ {Max(s)}], q[Max(s)])
      <3>1. CASE n + 1 \in s
        <4>1. Max(s) = n + 1
          BY <3>1, <2>0, MaxOf
        <4>2. s \ {n + 1} \in SUBSET (1..(n + 1)) /\ n + 1 \notin s \ {n + 1}
          OBVIOUS
        <4>3. h[s \ {n + 1}] = g[s \ {n + 1}]
          BY <4>2
        <4> QED BY <3>1, <4>1, <4>3
      <3>2. CASE n + 1 \notin s
        <4>1. s \in SUBSET (1..n)
          BY <3>2, <2>0
        <4>2. g[s] = IF s = {} THEN c ELSE Shown(g[s \ {Max(s)}], q[Max(s)])
          BY <2>1, <4>1 DEF Folding
        <4>3. h[s] = g[s]
          BY <3>2
        <4>4. h[s \ {Max(s)}] = g[s \ {Max(s)}]
          BY <3>2
        <4> QED BY <4>2, <4>3, <4>4
      <3> QED BY <3>1, <3>2
    <2>3. Folding(h, c, q, n + 1)
      <3> HIDE DEF h
      <3>1. h = [s \in SUBSET (1..(n + 1)) |-> h[s]]
        BY DEF h
      <3> QED BY <2>2, <3>1 DEF Folding
    <2> QED BY <2>0, <2>3
  <1>3. P \in SUBSET Nat
    OBVIOUS
  <1> HIDE DEF P
  <1>4. P = Nat
    BY <1>1, <1>2, <1>3, SetInduction
  <1> QED BY <1>4 DEF P

\* A solution takes the elements in their order.
LEMMA FoldingTop ==
  ASSUME NEW c, NEW q, NEW n \in Nat, NEW g, Folding(g, c, q, n), NEW k \in Nat, k + 1 <= n
  PROVE  g[1..(k + 1)] = Shown(g[1..k], q[k + 1])
  <1> DEFINE s == 1..(k + 1)
  <1>1. k + 1 \in s /\ s \in SUBSET (1..n)
    OBVIOUS
  <1>2. Max(s) = k + 1
    <2>1. s \in SUBSET (1..(k + 1)) /\ k + 1 \in Nat
      OBVIOUS
    <2> QED BY <1>1, <2>1, MaxOf
  <1>3. s \ {k + 1} = 1..k
    OBVIOUS
  <1> HIDE DEF s
  <1>4. s # {}
    BY <1>1
  <1>5. g[s] = IF s = {} THEN c ELSE Shown(g[s \ {Max(s)}], q[Max(s)])
    BY <1>1 DEF Folding
  <1> QED BY <1>2, <1>3, <1>4, <1>5 DEF s

\* Solutions for two sequences agree on a common prefix.
LEMMA FoldingUnique ==
  ASSUME NEW c, NEW q, NEW r, NEW n \in Nat, NEW m \in Nat, NEW g, NEW h,
         Folding(g, c, q, n), Folding(h, c, r, m), n <= m, \A i \in 1..n : q[i] = r[i]
  PROVE  g[1..n] = h[1..n]
  <1> DEFINE P == {k \in Nat : k <= n => g[1..k] = h[1..k]}
  <1>1. 0 \in P
    <2>1. 1..0 = {} /\ {} \in SUBSET (1..n) /\ {} \in SUBSET (1..m)
      OBVIOUS
    <2>2. g[{}] = c
      BY <2>1 DEF Folding
    <2>3. h[{}] = c
      BY <2>1 DEF Folding
    <2> QED BY <2>1, <2>2, <2>3
  <1>2. ASSUME NEW k \in P PROVE k + 1 \in P
    <2> SUFFICES ASSUME k + 1 <= n PROVE g[1..(k + 1)] = h[1..(k + 1)]
      OBVIOUS
    <2>1. k \in Nat /\ k + 1 <= n /\ k + 1 <= m
      OBVIOUS
    <2>2. g[1..(k + 1)] = Shown(g[1..k], q[k + 1])
      <3> HIDE DEF P
      <3> QED BY ONLY <2>1, Folding(g, c, q, n), n \in Nat, FoldingTop
    <2>3. h[1..(k + 1)] = Shown(h[1..k], r[k + 1])
      BY <2>1, FoldingTop
    <2>4. g[1..k] = h[1..k] /\ q[k + 1] = r[k + 1]
      BY <2>1
    <2> QED BY <2>2, <2>3, <2>4
  <1>3. P \in SUBSET Nat
    OBVIOUS
  <1> HIDE DEF P
  <1>4. P = Nat
    BY <1>1, <1>2, <1>3, SetInduction
  <1> QED BY <1>4 DEF P

\* Nothing arrives: the terminal is as it was.
LEMMA AfterEmpty == ASSUME NEW c PROVE After(c, <<>>) = c
  <1>1. DOMAIN <<>> = 1..0
    OBVIOUS
  <1>2. PICK g : Folding(g, c, <<>>, 0)
    BY FoldingExists
  <1>3. Folding(CHOOSE f : Folding(f, c, <<>>, 0), c, <<>>, 0)
    BY <1>2
  <1> DEFINE f == CHOOSE f : Folding(f, c, <<>>, 0)
  <1>4. f[1..0] = c
    <2> HIDE DEF f
    <2>1. Folding(f, c, <<>>, 0)
      BY <1>3 DEF f
    <2>2. 1..0 = {} /\ {} \in SUBSET (1..0)
      OBVIOUS
    <2> QED BY <2>1, <2>2 DEF Folding
  <1> QED BY <1>1, <1>4, AfterIs

\* The frame sent last is shown last.
LEMMA AfterAppend ==
  ASSUME NEW S, NEW c, NEW q \in Seq(S), NEW e \in S
  PROVE  After(c, Append(q, e)) = Shown(After(c, q), e)
  <1> DEFINE n == Len(q)
             r == Append(q, e)
             g == CHOOSE f : Folding(f, c, q, n)
             h == CHOOSE f : Folding(f, c, r, n + 1)
  <1>1. n \in Nat /\ DOMAIN q = 1..n /\ DOMAIN r = 1..(n + 1)
    BY LenProperties, AppendProperties
  <1>2. (\A i \in 1..n : q[i] = r[i]) /\ r[n + 1] = e
    BY AppendProperties
  <1> HIDE DEF n, r
  <1>3. Folding(g, c, q, n) /\ Folding(h, c, r, n + 1)
    <2>1. \E f : Folding(f, c, q, n)
      BY <1>1, FoldingExists
    <2>2. n + 1 \in Nat
      BY <1>1
    <2>3. \E f : Folding(f, c, r, n + 1)
      BY <2>2, FoldingExists
    <2> QED BY <2>1, <2>3
  <1>4. After(c, q) = g[1..n] /\ After(c, r) = h[1..(n + 1)]
    BY <1>1, AfterIs
  <1> HIDE DEF g, h
  <1>5. g[1..n] = h[1..n]
    BY <1>1, <1>2, <1>3, FoldingUnique
  <1>6. h[1..(n + 1)] = Shown(h[1..n], r[n + 1])
    BY <1>1, <1>3, FoldingTop
  <1> QED BY <1>2, <1>4, <1>5, <1>6 DEF r


-----------------------------------------------------------------------------
(* The invariant. *)

\* What is on the way, and the records the store keeps.
Data == [type : {"data", "exit"}, chunk : Chunk]
Replays == [type : {"replay"}, through : 0..MaxOutputs, chunks : Seq(Chunk)]
Removals == [type : {"removed"}]
Messages == Frames \cup Data \cup Replays \cup Removals
Subscriptions == [id : BOOLEAN, replay : BOOLEAN]
Terminals == [screen : Seq(Chunk), through : 0..MaxOutputs \cup {None}]

\* A store never leaves out what it has not had.
Numbered(st) == st # None => st.from <= st.seq + 1

\* Numbers and lives are within the bounds: every life costs a removal.
Counted ==
  /\ outputs \in 0..MaxOutputs /\ moves \in 0..MaxMoves
  /\ store # None => store.seq <= outputs
  /\ life + (IF ~panel /\ session # "none" THEN 1 ELSE 0) <= moves

\* What a closed socket had on the way is lost.
Wired ==
  /\ toClient \in Seq(Messages) /\ toServer \in Seq(Subscriptions)
  /\ ~link => toServer = <<>>

\* Whole(), of any store and life, with the first chunk bounded too.
WholeOf(s, st, lf) ==
  /\ \A i \in 2..Len(s) : s[i] = <<s[i-1][1], s[i-1][2] + 1>>
  /\ s # <<>> => st # None /\ s[Len(s)] = <<lf, st.seq>> /\ s[1][2] <= st.seq
  /\ st # None /\ st.from <= st.seq => s # <<>> /\ s[1][2] <= st.from

\* A terminal that shows all of the pane's output: the next chunk is new to it.
Good(c) ==
  /\ WholeOf(c.screen, store, life)
  /\ c.through # None => c.through <= (IF store = None THEN 0 ELSE store.seq)

\* The terminal once everything on its way has arrived.
Arriving == After(Term, toClient)

Complete == routed /\ ~misled => Good(Arriving)

IInv == TypeOK /\ Numbered(store) /\ Counted /\ Wired /\ Complete

\* A frame leaves a terminal a terminal.
LEMMA ShownType ==
  ASSUME NEW c \in Terminals, NEW f \in Messages
  PROVE  Shown(c, f) \in Terminals
  <1>1. CASE f \in Frames \cup Removals
    BY <1>1 DEF Frames, Removals, Shown
  <1>2. CASE f \in Replays
    BY <1>2 DEF Replays, Shown, Terminals
  <1>3. CASE f \in Data
    <2>1. [c EXCEPT !.screen = Append(@, f.chunk)] \in Terminals
      <3>1. c.screen \in Seq(Chunk) /\ f.chunk \in Chunk
        BY <1>3 DEF Data, Terminals
      <3>2. Append(c.screen, f.chunk) \in Seq(Chunk)
        BY <3>1, AppendProperties
      <3> QED BY <3>2 DEF Terminals
    <2> QED BY <1>3, <2>1 DEF Data, Shown
  <1> QED BY <1>1, <1>2, <1>3 DEF Messages

\* So do any number of frames.
LEMMA AfterType ==
  ASSUME NEW c \in Terminals
  PROVE  \A q \in Seq(Messages) : After(c, q) \in Terminals
  <1> DEFINE P == {q \in Seq(Messages) : After(c, q) \in Terminals}
  <1>1. <<>> \in P
    BY AfterEmpty
  <1>2. ASSUME NEW q \in P, NEW f \in Messages PROVE Append(q, f) \in P
    BY AfterAppend, ShownType, AppendProperties
  <1>3. P \in SUBSET Seq(Messages)
    OBVIOUS
  <1> HIDE DEF P
  <1>4. P = Seq(Messages)
    BY <1>1, <1>2, <1>3, SeqInduction
  <1> QED BY <1>4 DEF P

\* Handling the first frame on the way changes nothing about what will be shown.
LEMMA AfterHead ==
  ASSUME NEW S, NEW c
  PROVE  \A q \in Seq(S) : q # <<>> => After(c, q) = After(Shown(c, Head(q)), Tail(q))
  <1> DEFINE P == {q \in Seq(S) : q # <<>> => After(c, q) = After(Shown(c, Head(q)), Tail(q))}
  <1>1. <<>> \in P
    OBVIOUS
  <1>2. ASSUME NEW q \in P, NEW f \in S PROVE Append(q, f) \in P
    <2>0. q \in Seq(S) /\ Append(q, f) \in Seq(S)
      BY AppendProperties
    <2>1. After(c, Append(q, f)) = Shown(After(c, q), f)
      BY <2>0, AfterAppend
    <2>2. CASE q = <<>>
      <3>1. Head(Append(q, f)) = f /\ Tail(Append(q, f)) = <<>>
        BY <2>0, <2>2, HeadTailAppend
      <3> QED BY <2>0, <2>1, <2>2, <3>1, AfterEmpty
    <2>3. CASE q # <<>>
      <3>1. Head(Append(q, f)) = Head(q) /\ Tail(Append(q, f)) = Append(Tail(q), f)
        BY <2>0, <2>3, HeadTailAppend
      <3>2. Tail(q) \in Seq(S)
        BY <2>0, <2>3, HeadTailProperties
      <3>3. After(Shown(c, Head(q)), Append(Tail(q), f)) = Shown(After(Shown(c, Head(q)), Tail(q)), f)
        <4> DEFINE d == Shown(c, Head(q))
                   t == Tail(q)
        <4>1. t \in Seq(S)
          BY <3>2
        <4> HIDE DEF d, t
        <4>2. After(d, Append(t, f)) = Shown(After(d, t), f)
          BY <4>1, AfterAppend
        <4> QED BY <4>2 DEF d, t
      <3>4. After(c, q) = After(Shown(c, Head(q)), Tail(q))
        BY <2>3
      <3> QED BY <2>0, <2>1, <3>1, <3>3, <3>4
    <2> QED BY <2>2, <2>3
  <1>3. P \in SUBSET Seq(S)
    OBVIOUS
  <1> HIDE DEF P
  <1>4. P = Seq(S)
    BY <1>1, <1>2, <1>3, SeqInduction
  <1> QED BY <1>4 DEF P

\* After a replay on the way it does not matter what was shown before.
LEMMA AfterReplay ==
  ASSUME NEW c, NEW d
  PROVE  \A q \in Seq(Messages) :
           (\E i \in DOMAIN q : q[i].type = "replay") => After(c, q) = After(d, q)
  <1> DEFINE P == {q \in Seq(Messages) :
                     (\E i \in DOMAIN q : q[i].type = "replay") => After(c, q) = After(d, q)}
  <1>1. <<>> \in P
    OBVIOUS
  <1>2. ASSUME NEW q \in P, NEW f \in Messages PROVE Append(q, f) \in P
    <2>0. q \in Seq(Messages) /\ Append(q, f) \in Seq(Messages)
      BY AppendProperties
    <2>1. After(c, Append(q, f)) = Shown(After(c, q), f) /\ After(d, Append(q, f)) = Shown(After(d, q), f)
      BY <2>0, AfterAppend
    <2>2. CASE f.type = "replay"
      <3>1. \A e : Shown(e, f) = [screen |-> f.chunks, through |-> f.through]
        BY <2>2 DEF Shown
      <3> QED BY <2>0, <2>1, <3>1
    <2>3. CASE f.type # "replay"
      <3> SUFFICES ASSUME NEW i \in DOMAIN Append(q, f), Append(q, f)[i].type = "replay"
                   PROVE  After(c, Append(q, f)) = After(d, Append(q, f))
        BY <2>0
      <3>1. i \in 1..Len(q) /\ q[i].type = "replay"
        BY <2>0, <2>3, AppendProperties, LenProperties
      <3>2. After(c, q) = After(d, q)
        BY <2>0, <3>1, LenProperties
      <3> QED BY <2>1, <3>2
    <2> QED BY <2>2, <2>3
  <1>3. P \in SUBSET Seq(Messages)
    OBVIOUS
  <1> HIDE DEF P
  <1>4. P = Seq(Messages)
    BY <1>1, <1>2, <1>3, SeqInduction
  <1> QED BY <1>4 DEF P

\* Neither the screen nor what is on its way to it changes.
LEMMA ArrivingKept ==
  ASSUME UNCHANGED <<toClient, terminal>>
  PROVE  Arriving' = Arriving
  BY DEF Arriving, terminal, Term

\* A step that keeps the store and what arrives keeps Complete.
LEMMA CompleteKept ==
  ASSUME Complete, UNCHANGED <<store, life>>, Arriving' = Arriving,
         routed' /\ ~misled' => routed /\ ~misled
  PROVE  Complete'
  BY DEF Complete, Good

\* A frame is appended.
LEMMA ArrivingSent ==
  ASSUME Wired, UNCHANGED terminal, NEW f \in Messages, toClient' = Append(toClient, f)
  PROVE  Arriving' = Shown(Arriving, f)
  <1>1. Arriving' = After(Term, Append(toClient, f))
    BY DEF Arriving, terminal, Term
  <1> QED BY <1>1, AfterAppend DEF Wired, Arriving

\* A frame is handled.
LEMMA ArrivingHandled ==
  ASSUME Wired, toClient # <<>>, toClient' = Tail(toClient), Term' = Shown(Term, Head(toClient))
  PROVE  Arriving' = Arriving
  <1>1. Arriving' = After(Shown(Term, Head(toClient)), Tail(toClient))
    BY DEF Arriving
  <1> QED BY <1>1, AfterHead DEF Wired, Arriving

\* What will be shown is a terminal.
LEMMA ArrivingType ==
  ASSUME TypeOK, Wired
  PROVE  Term \in Terminals /\ Arriving \in Terminals
  <1>1. Term \in Terminals
    BY DEF Term, Terminals, TypeOK
  <1> QED BY <1>1, AfterType DEF Wired, Arriving

-----------------------------------------------------------------------------
(* What the store's operations keep. *)

\* The store of the type invariant.
Stores == [seq : 1..MaxOutputs, from : 1..MaxOutputs + 1] \cup {None}

\* No record of the store is None.
LEMMA StoresAre ==
  ASSUME NEW n \in Nat, NEW m \in Nat
  PROVE  [seq |-> n, from |-> m] # None
  <1>1. [seq |-> n, from |-> m] \in [seq : Nat, from : Nat]
    OBVIOUS
  <1> QED BY <1>1, StreamAssumption

\* append() takes the next number and never goes back in what it keeps.
LEMMA AppendedType ==
  ASSUME TypeOK, Numbered(store), Counted, outputs < MaxOutputs
  PROVE  /\ Appended \in Stores /\ Appended # None /\ Numbered(Appended)
         /\ Appended.seq = (IF store = None THEN 0 ELSE store.seq) + 1
         /\ Appended.seq <= outputs + 1
         /\ <<life, Appended.seq>> \in Chunk
         /\ Appended.from >= (IF store = None THEN 1 ELSE store.from)
         /\ store = None => Appended.from >= 1
  <1> DEFINE n == IF store = None THEN 1 ELSE store.seq + 1
             f == IF store = None THEN 1 ELSE store.from
             g == IF n + 1 - f > Kept THEN n + 1 - Kept ELSE f
  <1>1. n \in 1..(outputs + 1) /\ f \in 1..n
    BY DEF TypeOK, Numbered, Counted
  <1>2. g \in f..(n + 1)
    BY <1>1, StreamAssumption
  <1>3. Appended = [seq |-> n, from |-> g]
    BY DEF Appended
  <1>4. n \in 1..MaxOutputs /\ g \in 1..(MaxOutputs + 1)
    BY <1>1, <1>2, StreamAssumption DEF Counted
  <1> HIDE DEF g
  <1>5. Appended # None
    BY <1>3, <1>4, StoresAre
  <1>6. <<life, n>> \in Chunk
    BY <1>4 DEF Chunk, TypeOK
  <1> QED BY <1>1, <1>2, <1>3, <1>4, <1>5, <1>6 DEF Stores, Numbered

\* A whole screen stays whole with the chunk that was just stored.
LEMMA WholeAppended ==
  ASSUME NEW st \in Stores, NEW nw \in Stores, NEW lf \in Nat, NEW s \in Seq(Chunk),
         nw # None, <<lf, nw.seq>> \in Chunk,
         nw.seq = (IF st = None THEN 0 ELSE st.seq) + 1,
         nw.from >= (IF st = None THEN 1 ELSE st.from), Numbered(st),
         WholeOf(s, st, lf)
  PROVE  WholeOf(Append(s, <<lf, nw.seq>>), nw, lf)
  <1> DEFINE e == <<lf, nw.seq>>
             t == Append(s, e)
             n == Len(s)
  <1>1. n \in Nat /\ Len(t) = n + 1 /\ t # <<>> /\ t[n + 1] = e
    BY AppendProperties, LenProperties
  <1>2. \A i \in 1..n : t[i] = s[i]
    BY AppendProperties
  <1>3. nw.seq \in Nat /\ nw.from \in Nat /\ (st # None => st.seq \in Nat /\ st.from \in Nat)
    BY StreamAssumption DEF Stores
  <1>4. e[1] = lf /\ e[2] = nw.seq
    OBVIOUS
  <1> HIDE DEF e, t, n
  <1>5. CASE s = <<>>
    <2>1. n = 0
      BY <1>5 DEF n
    <2>2. st = None \/ st.from > st.seq
      BY <1>3, <1>5 DEF WholeOf
    <2>3. t[1] = e /\ nw.from >= nw.seq
      BY <1>1, <1>3, <2>1, <2>2 DEF Numbered
    <2> QED BY <1>1, <1>3, <1>4, <2>1, <2>3 DEF WholeOf, e, t
  <1>6. CASE s # <<>>
    <2>1. n >= 1 /\ st # None /\ s[n] = <<lf, st.seq>> /\ s[1][2] <= st.seq /\ nw.seq = st.seq + 1
      BY <1>1, <1>6, LenProperties DEF WholeOf, n
    <2>2. t[1] = s[1] /\ t[n] = s[n]
      BY <1>1, <1>2, <2>1
    <2>3. s[1] \in Chunk /\ s[1][2] \in Nat
      <3>1. s[1] \in Chunk
        BY <2>1, <1>1, ElementOfSeq DEF n
      <3> QED BY <3>1 DEF Chunk
    <2>4. ASSUME NEW i \in 2..(n + 1) PROVE t[i] = <<t[i-1][1], t[i-1][2] + 1>>
      <3>1. CASE i = n + 1
        BY <1>1, <1>3, <1>4, <2>1, <2>2, <3>1 DEF e
      <3>2. CASE i # n + 1
        <4>1. i \in 2..n /\ i \in 1..n /\ i - 1 \in 1..n
          BY <1>1, <3>2
        <4>2. s[i] = <<s[i-1][1], s[i-1][2] + 1>>
          BY <4>1 DEF WholeOf, n
        <4> QED BY <1>2, <4>1, <4>2
      <3> QED BY <3>1, <3>2
    <2>5. t[1][2] <= nw.seq
      BY <1>3, <2>1, <2>2, <2>3
    <2>6. t[1][2] <= nw.from
      <3>1. CASE st.from <= st.seq
        <4>1. s[1][2] <= st.from
          BY <2>1, <3>1 DEF WholeOf
        <4> QED BY <1>3, <2>1, <2>2, <2>3, <4>1
      <3>2. CASE ~(st.from <= st.seq)
        BY <1>3, <2>1, <2>2, <2>3, <3>2
      <3> QED BY <3>1, <3>2
    <2> QED BY <1>1, <2>4, <2>5, <2>6 DEF WholeOf, e, t
  <1> QED BY <1>5, <1>6 DEF e, t

\* clear() keeps the counter and nothing else.
LEMMA ClearedType ==
  ASSUME TypeOK, Numbered(store), Counted
  PROVE  /\ Cleared \in Stores /\ Numbered(Cleared) /\ (Cleared = None <=> store = None)
         /\ store # None => Cleared.seq = store.seq /\ Cleared.from = store.seq + 1
  <1>1. CASE store = None
    BY <1>1 DEF Cleared, Stores, Numbered
  <1>2. CASE store # None
    <2>1. store.seq \in 1..MaxOutputs /\ Cleared = [seq |-> store.seq, from |-> store.seq + 1]
      BY <1>2 DEF TypeOK, Cleared
    <2>2. Cleared # None
      BY <2>1, StoresAre
    <2> QED BY <1>2, <2>1, <2>2, StreamAssumption DEF Stores, Numbered
  <1> QED BY <1>1, <1>2

\* A replay is whole by itself.
LEMMA SnapshotType ==
  ASSUME TypeOK, Numbered(store), Counted
  PROVE  /\ Snapshot \in Replays
         /\ WholeOf(Snapshot.chunks, store, life)
         /\ Snapshot.through = (IF store = None THEN 0 ELSE store.seq)
  <1> DEFINE s == Snapshot.chunks
  <1>1. Snapshot.type = "replay" /\ Snapshot.through = (IF store = None THEN 0 ELSE store.seq)
    BY DEF Snapshot
  <1>2. Snapshot.through \in 0..MaxOutputs
    BY <1>1, StreamAssumption DEF TypeOK
  <1>3. CASE store = None
    <2>1. s = <<>>
      BY <1>3 DEF Snapshot
    <2>2. s \in Seq(Chunk) /\ Snapshot = [type |-> "replay", through |-> Snapshot.through, chunks |-> s]
      BY <2>1, <1>3 DEF Snapshot
    <2>3. WholeOf(s, store, life)
      BY <2>1, <1>3 DEF WholeOf
    <2> QED BY <1>1, <1>2, <2>2, <2>3 DEF Replays
  <1>4. CASE store # None
    <2> DEFINE n == store.seq + 1 - store.from
    <2>1. store.seq \in 1..MaxOutputs /\ store.from \in 1..(MaxOutputs + 1) /\ store.from <= store.seq + 1
      BY <1>4 DEF TypeOK, Numbered
    <2>2. n \in Nat
      BY <2>1
    <2>3. s = [i \in 1..n |-> <<life, store.from + i - 1>>]
      BY <1>4 DEF Snapshot
    <2>4. \A i \in 1..n : <<life, store.from + i - 1>> \in Chunk
      BY <2>1, StreamAssumption DEF Chunk, TypeOK
    <2>5. s \in Seq(Chunk) /\ Len(s) = n
      BY <2>2, <2>3, <2>4
    <2>6. ASSUME NEW i \in 2..n PROVE s[i] = <<s[i-1][1], s[i-1][2] + 1>>
      <3>1. i \in 1..n /\ i - 1 \in 1..n
        BY <2>2
      <3>2. s[i] = <<life, store.from + i - 1>> /\ s[i-1] = <<life, store.from + (i - 1) - 1>>
        BY <2>3, <3>1
      <3>3. store.from + i - 1 = (store.from + (i - 1) - 1) + 1
        BY <2>1, <3>1
      <3> QED BY <3>2, <3>3
    <2>7. n > 0 => s # <<>> /\ s[n] = <<life, store.seq>> /\ s[1][2] = store.from
      BY <2>1, <2>2, <2>3
    <2>8. s # <<>> => n > 0
      BY <2>2, <2>3
    <2>9. WholeOf(s, store, life)
      <3> HIDE DEF s, n
      <3>1. n > 0 => store.from <= store.seq
        BY <2>1 DEF n
      <3>2. store.from <= store.seq => n > 0
        BY <2>1 DEF n
      <3> QED BY <1>4, <2>1, <2>5, <2>6, <2>7, <2>8, <3>1, <3>2 DEF WholeOf
    <2>10. Snapshot = [type |-> "replay", through |-> Snapshot.through, chunks |-> s]
      BY DEF Snapshot
    <2> QED BY <1>1, <1>2, <2>5, <2>9, <2>10 DEF Replays
  <1> QED BY <1>3, <1>4

-----------------------------------------------------------------------------
(* Steps. *)

\* The type invariant in three parts.
ServerOK ==
  /\ panel \in BOOLEAN /\ session \in {"none", "live", "exited"} /\ store \in Stores
  /\ rev \in Nat /\ unsaid \in BOOLEAN /\ life \in Lives
SocketOK ==
  /\ filtered \in BOOLEAN /\ routed \in BOOLEAN /\ (routed => filtered /\ link)
  /\ sending \in BOOLEAN /\ pending \in Frames \cup {None} /\ (pending # None => sending)
  /\ catchup \in BOOLEAN /\ link \in BOOLEAN
ClientOK ==
  /\ view \in BOOLEAN /\ seen \in Nat /\ want \in BOOLEAN
  /\ memory \in BOOLEAN \cup {None} /\ key \in BOOLEAN \cup {None}
  /\ armed \in BOOLEAN /\ due \in BOOLEAN
  /\ screen \in Seq(Chunk) /\ through \in 0..MaxOutputs \cup {None}

\* They are the type invariant, ...
LEMMA TypeParts == TypeOK <=> ServerOK /\ SocketOK /\ ClientOK /\ misled \in BOOLEAN
  BY DEF TypeOK, ServerOK, SocketOK, ClientOK, Stores

\* ... also after a step.
LEMMA TypePartsNext == ServerOK' /\ SocketOK' /\ ClientOK' /\ misled' \in BOOLEAN => TypeOK'
  BY DEF TypeOK, ServerOK, SocketOK, ClientOK, Stores

\* A step that leaves the server alone keeps the types of its state;
LEMMA ServerKept == ServerOK /\ UNCHANGED server => ServerOK'
  BY DEF ServerOK, server

\* likewise the socket,
LEMMA SocketKept ==
  SocketOK /\ UNCHANGED <<filtered, routed, link, sending, pending, catchup>> => SocketOK'
  BY DEF SocketOK

\* and the client.
LEMMA ClientKept == ClientOK /\ UNCHANGED client => ClientOK'
  BY DEF ClientOK, client, terminal

\* The counts depend on the store, the lives and the bounds only.
LEMMA StoreKept ==
  ASSUME Numbered(store), Counted, UNCHANGED <<store, life, panel, session, moves, outputs>>
  PROVE  Numbered(store)' /\ Counted'
  BY DEF Numbered, Counted

\* Initially nothing was shown and nothing is on its way.
LEMMA InitIInv == Init => IInv
  <1> SUFFICES ASSUME Init PROVE IInv
    OBVIOUS
  <1>1. TypeOK
    <2>1. ServerOK
      <3>1. 0 \in Lives
        BY StreamAssumption DEF Lives
      <3> QED BY <3>1 DEF Init, ServerOK, Stores
    <2>2. SocketOK
      BY DEF Init, SocketOK
    <2>3. ClientOK
      <3>1. <<>> \in Seq(Chunk)
        OBVIOUS
      <3>2. /\ view = TRUE /\ seen = 0 /\ want = TRUE /\ memory = None /\ key = None
            /\ armed = FALSE /\ due = TRUE /\ screen = <<>> /\ through = None
        BY DEF Init
      <3> QED BY <3>1, <3>2 DEF ClientOK
    <2> QED BY <2>1, <2>2, <2>3, TypeParts DEF Init
  <1>2. Counted
    BY StreamAssumption DEF Init, Counted
  <1> QED BY <1>1, <1>2 DEF Init, IInv, Numbered, Wired, Complete

\* A state frame is sent, held back or not needed; it changes nothing on screen.
LEMMA StateSent ==
  ASSUME TypeOK, Wired, SendStateFrame, rev' \in Nat,
         UNCHANGED <<panel, routed, filtered, link, toServer, terminal>>
  PROVE  /\ sending' \in BOOLEAN /\ pending' \in Frames \cup {None} /\ (pending' # None => sending')
         /\ toClient' \in Seq(Messages) /\ Arriving' = Arriving
  <1> DEFINE f == [type |-> "state", rev |-> rev', panel |-> panel]
  <1>1. f \in Frames /\ f \in Messages
    BY DEF TypeOK, Frames, Messages
  <1>2. \A c : Shown(c, f) = c
    BY DEF Shown
  <1>3. CASE ~link \/ sending
    <2>1. UNCHANGED <<toClient, terminal>>
      BY <1>3 DEF SendStateFrame
    <2>2. Arriving' = Arriving
      BY <2>1, ArrivingKept
    <2> QED BY <1>1, <1>3, <2>1, <2>2 DEF SendStateFrame, TypeOK, Wired
  <1>4. CASE link /\ ~sending
    <2> HIDE DEF f
    <2>1. toClient' = Append(toClient, f) /\ sending' = TRUE /\ pending' = pending
      BY <1>4 DEF SendStateFrame, Sent, f
    <2>2. Arriving' = Arriving
      BY <1>1, <1>2, <2>1, ArrivingSent
    <2> QED BY <1>1, <2>1, <2>2, AppendProperties DEF TypeOK, Wired
  <1> QED BY <1>3, <1>4

\* The frame held back is sent; it is a state frame.
LEMMA DrainedIInv == IInv /\ Drained => IInv'
  <1> SUFFICES ASSUME IInv, Drained PROVE IInv'
    OBVIOUS
  <1> USE DEF IInv
  <1>1. UNCHANGED <<server, filtered, routed, catchup, toServer, link, client, misled, moves, outputs>>
    BY DEF Drained
  <1>2. toClient' \in Seq(Messages) /\ Arriving' = Arriving
    <2>1. CASE pending # None /\ link
      <3>1. toClient' = Append(toClient, pending) /\ pending \in Frames /\ pending \in Messages
        BY <2>1 DEF Drained, Sent, TypeOK, Messages
      <3>2. \A c : Shown(c, pending) = c
        BY <3>1 DEF Shown, Frames
      <3> QED BY <1>1, <3>1, <3>2, ArrivingSent, AppendProperties DEF Wired, client
    <2>2. CASE ~(pending # None /\ link)
      <3>1. UNCHANGED toClient
        BY <2>2 DEF Drained, Sent
      <3> QED BY <1>1, <3>1, ArrivingKept DEF Wired, client
    <2> QED BY <2>1, <2>2
  <1>3. Numbered(store)' /\ Counted'
    BY <1>1, StoreKept DEF server
  <1>6. TypeOK'
    <2>1. SocketOK'
      BY <1>1, TypeParts DEF Drained, SocketOK
    <2>2. ServerOK' /\ ClientOK' /\ misled' \in BOOLEAN
      BY <1>1, TypeParts, ServerKept, ClientKept
    <2> QED BY <2>1, <2>2, TypePartsNext
  <1>4. Wired'
    BY <1>1, <1>2 DEF Wired
  <1>5. Complete'
    BY <1>1, <1>2, CompleteKept DEF server
  <1> QED BY <1>3, <1>4, <1>5, <1>6

\* A state frame changes nothing on the screen.
LEMMA BroadcastIInv == IInv /\ Broadcast => IInv'
  <1> SUFFICES ASSUME IInv, Broadcast PROVE IInv'
    OBVIOUS
  <1> USE DEF IInv
  <1>1. /\ UNCHANGED <<panel, session, store, life, filtered, routed, catchup, toServer, link,
                       client, misled, outputs>>
        /\ rev' = rev + 1 /\ unsaid' = FALSE /\ SendStateFrame
        /\ moves' \in {moves, moves + 1} /\ moves' \in 0..MaxMoves
    BY StreamAssumption DEF Broadcast, Move, Counted
  <1>2. rev' \in Nat /\ UNCHANGED <<panel, routed, filtered, link, toServer, terminal>>
    BY <1>1 DEF TypeOK, client
  <1>3. /\ sending' \in BOOLEAN /\ pending' \in Frames \cup {None} /\ (pending' # None => sending')
        /\ toClient' \in Seq(Messages) /\ Arriving' = Arriving
    BY <1>1, <1>2, StateSent
  <1>4. TypeOK'
    <2>1. ServerOK'
      BY <1>1, <1>2, TypeParts DEF ServerOK
    <2>2. SocketOK'
      BY <1>1, <1>3, TypeParts DEF SocketOK
    <2>3. ClientOK' /\ misled' \in BOOLEAN
      BY <1>1, TypeParts, ClientKept
    <2> QED BY <2>1, <2>2, <2>3, TypePartsNext
  <1>5. Numbered(store)' /\ Counted' /\ Wired'
    BY <1>1, <1>3, StreamAssumption DEF Numbered, Counted, Wired, TypeOK, Lives
  <1>6. Complete'
    BY <1>1, <1>3, CompleteKept
  <1> QED BY <1>4, <1>5, <1>6

\* Nor does the one a new socket catches up with.
LEMMA CatchUpIInv == IInv /\ CatchUp => IInv'
  <1> SUFFICES ASSUME IInv, CatchUp PROVE IInv'
    OBVIOUS
  <1> USE DEF IInv
  <1>1. /\ UNCHANGED <<panel, session, store, life, unsaid, filtered, routed, toServer, link,
                       client, misled, moves, outputs, rev>>
        /\ catchup' = FALSE /\ SendStateFrame
    BY DEF CatchUp
  <1>2. rev' \in Nat /\ UNCHANGED <<panel, routed, filtered, link, toServer, terminal>>
    BY <1>1 DEF TypeOK, client
  <1>3. /\ sending' \in BOOLEAN /\ pending' \in Frames \cup {None} /\ (pending' # None => sending')
        /\ toClient' \in Seq(Messages) /\ Arriving' = Arriving
    BY <1>1, <1>2, StateSent
  <1>4. TypeOK'
    <2>1. ServerOK'
      BY <1>1, <1>2, TypeParts DEF ServerOK
    <2>2. SocketOK'
      BY <1>1, <1>3, TypeParts DEF SocketOK
    <2>3. ClientOK' /\ misled' \in BOOLEAN
      BY <1>1, TypeParts, ClientKept
    <2> QED BY <2>1, <2>2, <2>3, TypePartsNext
  <1>5. Numbered(store)' /\ Counted' /\ Wired'
    BY <1>1, <1>3, StreamAssumption DEF Numbered, Counted, Wired, TypeOK, Lives
  <1>6. Complete'
    BY <1>1, <1>3, CompleteKept
  <1> QED BY <1>4, <1>5, <1>6

\* A chunk of output, or the notice of an exit, is stored and routed.
LEMMA ChunkRouted ==
  ASSUME IInv, outputs < MaxOutputs, store' = Appended, NEW ty \in {"data", "exit"},
         toClient' = Routes([type |-> ty, chunk |-> <<life, Appended.seq>>]),
         UNCHANGED <<routed, filtered, link, toServer, terminal, misled, life>>
  PROVE  Wired' /\ Complete'
  <1> USE DEF IInv
  <1> DEFINE f == [type |-> ty, chunk |-> <<life, Appended.seq>>]
  <1>1. f \in Data /\ f \in Messages
    BY AppendedType DEF Data, Messages
  <1>2. CASE ~(link /\ (filtered => routed))
    <2>1. toClient' = toClient
      BY <1>2 DEF Routes
    <2>2. ~routed'
      BY <1>2 DEF TypeOK
    <2> QED BY <2>1, <2>2 DEF Wired, Complete
  <1>3. CASE link /\ (filtered => routed)
    <2>1. toClient' = Append(toClient, f)
      BY <1>3 DEF Routes, Sent
    <2>2. Wired'
      <3> HIDE DEF f
      <3>1. Append(toClient, f) \in Seq(Messages)
        BY <1>1, AppendProperties DEF Wired
      <3> QED BY <2>1, <3>1 DEF Wired
    <2>3. ASSUME routed', ~misled' PROVE Good(Arriving)'
      <3> DEFINE c == Arriving
      <3>1. c \in Terminals /\ Good(c)
        BY <2>3, ArrivingType DEF Complete
      <3>2. Arriving' = Shown(c, f)
        BY <1>1, <2>1, ArrivingSent
      <3> HIDE DEF c
      <3>3. Shown(c, f) = [c EXCEPT !.screen = Append(@, <<life, Appended.seq>>)]
        <4>1. CASE ty = "exit"
          BY <4>1 DEF Shown
        <4>2. CASE ty = "data"
          <5>1. ~(c.through # None /\ Appended.seq <= c.through)
            BY <3>1, AppendedType, StreamAssumption DEF Good, Terminals, TypeOK
          <5> QED BY <4>2, <5>1 DEF Shown
        <4> QED BY <4>1, <4>2
      <3> DEFINE t == Append(c.screen, <<life, Appended.seq>>)
      <3>4. (Arriving').screen = t /\ (Arriving').through = c.through
        BY <3>1, <3>2, <3>3 DEF Terminals
      <3>5. WholeOf(t, Appended, life)
        <4>1. store \in Stores /\ life \in Nat /\ c.screen \in Seq(Chunk) /\ WholeOf(c.screen, store, life)
          BY <3>1 DEF TypeOK, Stores, Lives, Terminals, Good
        <4> QED BY <4>1, AppendedType, WholeAppended
      <3>6. c.through # None => c.through <= (IF store' = None THEN 0 ELSE store'.seq)
        BY <3>1, AppendedType, StreamAssumption DEF Good, Terminals, TypeOK
      <3> HIDE DEF t
      <3> QED BY <3>4, <3>5, <3>6 DEF Good
    <2> QED BY <2>2, <2>3 DEF Complete
  <1> QED BY <1>2, <1>3

\* A chunk that is routed is the next one of the screen.
LEMMA OutputIInv == IInv /\ Output => IInv'
  <1> SUFFICES ASSUME IInv, Output PROVE IInv'
    OBVIOUS
  <1> USE DEF IInv
  <1>1. /\ UNCHANGED <<panel, session, rev, unsaid, life, filtered, routed, coalescer, toServer, link,
                       client, misled, moves>>
        /\ outputs < MaxOutputs /\ outputs' = outputs + 1 /\ store' = Appended
        /\ toClient' = Routes([type |-> "data", chunk |-> <<life, Appended.seq>>])
    BY DEF Output
  <1>2. Wired' /\ Complete'
    BY <1>1, ChunkRouted DEF client
  <1>3. Numbered(store)' /\ Counted'
    BY <1>1, AppendedType, StreamAssumption DEF Numbered, Counted, TypeOK
  <1>4. TypeOK'
    <2>1. ServerOK'
      BY <1>1, AppendedType, TypeParts DEF ServerOK
    <2>2. SocketOK' /\ ClientOK' /\ misled' \in BOOLEAN
      BY <1>1, TypeParts, SocketKept, ClientKept DEF coalescer
    <2> QED BY <2>1, <2>2, TypePartsNext
  <1> QED BY <1>2, <1>3, <1>4

\* So is the notice of an exit.
LEMMA ExitIInv == IInv /\ Exit => IInv'
  <1> SUFFICES ASSUME IInv, Exit PROVE IInv'
    OBVIOUS
  <1> USE DEF IInv
  <1>1. /\ UNCHANGED <<panel, rev, life, filtered, routed, coalescer, toServer, link,
                       client, misled, moves>>
        /\ session = "live" /\ session' = "exited" /\ unsaid' = TRUE
        /\ outputs < MaxOutputs /\ outputs' = outputs + 1 /\ store' = Appended
        /\ toClient' = Routes([type |-> "exit", chunk |-> <<life, Appended.seq>>])
    BY DEF Exit
  <1>2. Wired' /\ Complete'
    BY <1>1, ChunkRouted DEF client
  <1>3. Numbered(store)' /\ Counted'
    BY <1>1, AppendedType, StreamAssumption DEF Numbered, Counted, TypeOK
  <1>4. TypeOK'
    <2>1. ServerOK'
      BY <1>1, AppendedType, TypeParts DEF ServerOK
    <2>2. SocketOK' /\ ClientOK' /\ misled' \in BOOLEAN
      BY <1>1, TypeParts, SocketKept, ClientKept DEF coalescer
    <2> QED BY <2>1, <2>2, TypePartsNext
  <1> QED BY <1>2, <1>3, <1>4

\* A cleared store goes on counting, so the screen goes on being whole.
LEMMA SpawnIInv == IInv /\ Spawn => IInv'
  <1> SUFFICES ASSUME IInv, Spawn PROVE IInv'
    OBVIOUS
  <1> USE DEF IInv
  <1>1. /\ UNCHANGED <<panel, rev, unsaid, life, socket, client, misled, outputs>>
        /\ panel = TRUE /\ session' = "live" /\ store' = Cleared
        /\ moves < MaxMoves /\ moves' = moves + 1
    BY DEF Spawn, Move, TypeOK
  <1>2. Wired' /\ Arriving' = Arriving
    BY <1>1, ArrivingKept DEF Wired, socket, client
  <1>3. Numbered(store)'
    BY <1>1, ClearedType
  <1>4. Counted'
    BY <1>1, ClearedType, StreamAssumption DEF Counted, TypeOK, Lives
  <1>5. TypeOK'
    <2>1. ServerOK'
      BY <1>1, ClearedType, TypeParts DEF ServerOK
    <2>2. SocketOK' /\ ClientOK' /\ misled' \in BOOLEAN
      BY <1>1, TypeParts, SocketKept, ClientKept DEF socket, coalescer
    <2> QED BY <2>1, <2>2, TypePartsNext
  <1>6. ASSUME Good(Arriving) PROVE Good(Arriving)'
    <2> DEFINE c == Arriving
    <2>1. c.screen \in Seq(Chunk) /\ c.through \in 0..MaxOutputs \cup {None}
      BY ArrivingType DEF Terminals
    <2>2. WholeOf(c.screen, Cleared, life)
      <3>1. store # None => store.seq \in Nat
        BY DEF TypeOK
      <3> HIDE DEF c
      <3>2. WholeOf(c.screen, store, life)
        BY <1>6 DEF Good, c
      <3> QED BY <3>1, <3>2, ClearedType DEF WholeOf
    <2>3. c.through # None => c.through <= (IF Cleared = None THEN 0 ELSE Cleared.seq)
      BY <1>6, ClearedType DEF Good
    <2> HIDE DEF c
    <2>4. Arriving' = c
      BY <1>2 DEF c
    <2> QED BY <1>1, <2>2, <2>3, <2>4 DEF Good
  <1>7. Complete'
    BY <1>1, <1>6 DEF Complete, socket
  <1> QED BY <1>2, <1>3, <1>4, <1>5, <1>7

\* A removal is a move; the session is still there.
LEMMA RemovePanelIInv == IInv /\ RemovePanel => IInv'
  <1> SUFFICES ASSUME IInv, RemovePanel PROVE IInv'
    OBVIOUS
  <1> USE DEF IInv
  <1>1. /\ UNCHANGED <<session, store, rev, life, socket, client, misled, outputs>>
        /\ panel = TRUE /\ panel' = FALSE /\ unsaid' = (unsaid \/ session = "none")
        /\ moves < MaxMoves /\ moves' = moves + 1
    BY DEF RemovePanel, Move, TypeOK
  <1>2. Wired' /\ Complete'
    BY <1>1, ArrivingKept, CompleteKept DEF Wired, socket, client
  <1>3. Numbered(store)' /\ Counted'
    BY <1>1, StreamAssumption DEF Numbered, Counted, TypeOK, Lives
  <1>4. TypeOK'
    <2>1. ServerOK'
      BY <1>1, TypeParts DEF ServerOK
    <2>2. SocketOK' /\ ClientOK' /\ misled' \in BOOLEAN
      BY <1>1, TypeParts, SocketKept, ClientKept DEF socket, coalescer
    <2> QED BY <2>1, <2>2, TypePartsNext
  <1> QED BY <1>2, <1>3, <1>4

\* So is a return.
LEMMA PutPanelIInv == IInv /\ PutPanel => IInv'
  <1> SUFFICES ASSUME IInv, PutPanel PROVE IInv'
    OBVIOUS
  <1> USE DEF IInv
  <1>1. /\ UNCHANGED <<session, store, rev, life, socket, client, misled, outputs>>
        /\ ~panel /\ panel' = TRUE /\ unsaid' = TRUE
        /\ moves < MaxMoves /\ moves' = moves + 1
    BY DEF PutPanel, Move
  <1>2. Wired' /\ Complete'
    BY <1>1, ArrivingKept, CompleteKept DEF Wired, socket, client
  <1>3. Numbered(store)' /\ Counted'
    BY <1>1, StreamAssumption DEF Numbered, Counted, TypeOK, Lives
  <1>4. TypeOK'
    <2>1. ServerOK'
      BY <1>1, TypeParts DEF ServerOK
    <2>2. SocketOK' /\ ClientOK' /\ misled' \in BOOLEAN
      BY <1>1, TypeParts, SocketKept, ClientKept DEF socket, coalescer
    <2> QED BY <2>1, <2>2, TypePartsNext
  <1> QED BY <1>2, <1>3, <1>4

\* A life ends: nobody is routed any more.
LEMMA SyncWithStateIInv == IInv /\ SyncWithState => IInv'
  <1> SUFFICES ASSUME IInv, SyncWithState PROVE IInv'
    OBVIOUS
  <1> USE DEF IInv
  <1>1. /\ UNCHANGED <<panel, rev, filtered, coalescer, toServer, link, client, misled, moves, outputs>>
        /\ ~panel /\ session # "none" /\ session' = "none" /\ store' = None /\ life' = life + 1
        /\ unsaid' = TRUE /\ routed' = FALSE /\ toClient' = Told
    BY DEF SyncWithState
  <1>2. Wired'
    <2>1. toClient' = toClient \/ toClient' = Append(toClient, [type |-> "removed"])
      BY <1>1 DEF Told, Sent
    <2>2. [type |-> "removed"] \in Messages
      BY DEF Messages, Removals
    <2>3. toClient' \in Seq(Messages)
      BY <2>1, <2>2, AppendProperties DEF Wired
    <2> QED BY <1>1, <2>3 DEF Wired
  <1>3. Complete'
    BY <1>1 DEF Complete
  <1>4. life + 1 <= moves /\ moves \in 0..MaxMoves /\ life \in Nat
    BY <1>1 DEF Counted, TypeOK, Lives
  <1>5. Numbered(store)' /\ Counted'
    BY <1>1, <1>4 DEF Numbered, Counted
  <1>6. TypeOK'
    <2>1. life' \in Lives
      BY <1>1, <1>4, StreamAssumption DEF Lives
    <2>2. ServerOK'
      BY <1>1, <2>1, TypeParts DEF ServerOK, Stores
    <2>3. SocketOK'
      BY <1>1, TypeParts DEF SocketOK, coalescer
    <2>4. ClientOK' /\ misled' \in BOOLEAN
      BY <1>1, TypeParts, ClientKept
    <2> QED BY <2>2, <2>3, <2>4, TypePartsNext
  <1> QED BY <1>2, <1>3, <1>5, <1>6

\* Who becomes routed is replayed, and a replay is whole.
LEMMA HandleTerminalSubscribeIInv == IInv /\ HandleTerminalSubscribe => IInv'
  <1> SUFFICES ASSUME IInv, HandleTerminalSubscribe PROVE IInv'
    OBVIOUS
  <1> USE DEF IInv
  <1> DEFINE m == Head(toServer)
             accepted == m.id /\ panel
             replays == accepted /\ (~routed \/ m.replay)
  <1>1. /\ UNCHANGED <<server, coalescer, link, client, moves, outputs>>
        /\ toServer # <<>> /\ toServer' = Tail(toServer)
        /\ filtered' = TRUE /\ routed' = accepted
        /\ toClient' = (IF replays THEN Sent(Snapshot) ELSE toClient)
        /\ misled' = ((m.id /\ ~panel) \/ (misled /\ accepted /\ ~replays))
    BY DEF HandleTerminalSubscribe
  <1>2. m \in Subscriptions /\ Tail(toServer) \in Seq(Subscriptions)
    BY <1>1, HeadTailProperties DEF Wired
  <1>3. m.id \in BOOLEAN /\ m.replay \in BOOLEAN /\ accepted \in BOOLEAN /\ replays \in BOOLEAN
    BY <1>2 DEF Subscriptions, TypeOK
  <1>4. link
    BY <1>1 DEF Wired, TypeOK
  <1>5. Snapshot \in Messages
    BY SnapshotType DEF Messages
  <1>6. replays => toClient' = Append(toClient, Snapshot)
    BY <1>1, <1>4 DEF Sent
  <1>7. Wired'
    <2>1. Append(toClient, Snapshot) \in Seq(Messages)
      BY <1>5, AppendProperties DEF Wired
    <2>2. toClient' \in Seq(Messages)
      BY <1>1, <1>6, <2>1 DEF Wired
    <2> QED BY <1>1, <1>2, <1>4, <2>2 DEF Wired
  <1>8. Numbered(store)' /\ Counted'
    BY <1>1, StoreKept DEF server
  <1>9. TypeOK'
    <2>1. SocketOK'
      BY <1>1, <1>3, <1>4, TypeParts DEF SocketOK, coalescer
    <2>2. ServerOK' /\ ClientOK'
      BY <1>1, TypeParts, ServerKept, ClientKept
    <2>3. misled' \in BOOLEAN
      BY <1>1, <1>3 DEF TypeOK
    <2> QED BY <2>1, <2>2, <2>3, TypePartsNext
  <1>10. ASSUME routed', ~misled' PROVE Good(Arriving)'
    <2>1. CASE replays
      <3>1. Arriving' = Shown(Arriving, Snapshot)
        BY <1>1, <1>5, <1>6, <2>1, ArrivingSent DEF client
      <3>2. Shown(Arriving, Snapshot) = [screen |-> Snapshot.chunks, through |-> Snapshot.through]
        <4>1. Snapshot.type = "replay"
          BY SnapshotType DEF Replays
        <4> QED BY <4>1 DEF Shown
      <3>3. (Arriving').screen = Snapshot.chunks /\ (Arriving').through = Snapshot.through
        BY <3>1, <3>2
      <3>4. WholeOf((Arriving').screen, store, life)
        BY <3>3, SnapshotType
      <3>5. (Arriving').through = (IF store = None THEN 0 ELSE store.seq)
        BY <3>3, SnapshotType
      <3>6. (Arriving').through <= (IF store = None THEN 0 ELSE store.seq)
        BY <3>5 DEF TypeOK
      <3> QED BY <1>1, <3>4, <3>6 DEF Good, server
    <2>2. CASE ~replays
      <3>1. routed /\ ~misled
        BY <1>1, <1>3, <1>10, <2>2 DEF TypeOK
      <3>2. Arriving' = Arriving
        BY <1>1, <2>2, ArrivingKept DEF client
      <3> QED BY <1>1, <3>1, <3>2 DEF Complete, Good, server
    <2> QED BY <2>1, <2>2
  <1>11. Complete'
    BY <1>10 DEF Complete
  <1> QED BY <1>7, <1>8, <1>9, <1>11

\* A sync sends at most one subscription.
LEMMA Synced ==
  ASSUME TypeOK, Wired, NEW k \in BOOLEAN \cup {None}, Sync(k), want' \in BOOLEAN, view' \in BOOLEAN
  PROVE  /\ key' \in BOOLEAN /\ memory' \in BOOLEAN \cup {None}
         /\ toServer' \in Seq(Subscriptions) /\ (~link => toServer' = toServer)
  <1>1. Rendered \in BOOLEAN
    BY DEF Rendered
  <1>2. key' = Rendered /\ (memory' = Rendered \/ memory' = memory)
    BY DEF Sync
  <1>3. \/ toServer' = toServer
        \/ link /\ toServer' = Append(toServer, Subscription(Rendered, FALSE))
    BY DEF Sync
  <1>4. Subscription(Rendered, FALSE) \in Subscriptions
    BY <1>1 DEF Subscription, Subscriptions
  <1>5. Append(toServer, Subscription(Rendered, FALSE)) \in Seq(Subscriptions)
    BY <1>4, AppendProperties DEF Wired
  <1>6. key' \in BOOLEAN
    BY <1>1, <1>2
  <1>7. memory' \in BOOLEAN \cup {None}
    BY <1>1, <1>2 DEF TypeOK
  <1>8. toServer' \in Seq(Subscriptions)
    BY <1>3, <1>5 DEF Wired
  <1>9. ~link => toServer' = toServer
    BY <1>3
  <1> QED BY <1>6, <1>7, <1>8, <1>9

\* The steps of the client that leave the terminal alone.
LEMMA ClientOnly ==
  ASSUME IInv, ClientOK', toServer' \in Seq(Subscriptions), ~link => toServer' = toServer,
         moves' \in {moves, moves + 1}, moves' <= MaxMoves,
         UNCHANGED <<server, filtered, routed, coalescer, toClient, link, terminal, misled, outputs>>
  PROVE  IInv'
  <1> USE DEF IInv
  <1>1. Wired'
    BY DEF Wired
  <1>2. Complete'
    BY ArrivingKept, CompleteKept DEF server
  <1>3. Numbered(store)' /\ Counted'
    BY StreamAssumption DEF Numbered, Counted, server, TypeOK, Lives
  <1>4. TypeOK'
    BY TypeParts, ServerKept, SocketKept, TypePartsNext DEF coalescer
  <1> QED BY <1>1, <1>2, <1>3, <1>4

\* A sync of the client only sends a subscription.
LEMMA SyncIInv == IInv /\ (Debounced \/ Refocus) => IInv'
  <1> SUFFICES ASSUME IInv, Debounced \/ Refocus PROVE IInv'
    OBVIOUS
  <1> USE DEF IInv
  <1>1. /\ UNCHANGED <<want, view, server, filtered, routed, coalescer, toClient, link, seen, armed,
                       terminal, misled, moves, outputs>>
        /\ due' \in {FALSE, due}
    BY DEF Debounced, Refocus
  <1>2. PICK k \in BOOLEAN \cup {None} : Sync(k)
    BY DEF Debounced, Refocus, TypeOK
  <1>3. want' \in BOOLEAN /\ view' \in BOOLEAN
    BY <1>1 DEF TypeOK
  <1>4. /\ key' \in BOOLEAN /\ memory' \in BOOLEAN \cup {None}
        /\ toServer' \in Seq(Subscriptions) /\ (~link => toServer' = toServer)
    BY <1>2, <1>3, Synced
  <1>5. ClientOK'
    BY <1>1, <1>3, <1>4, TypeParts DEF ClientOK, terminal
  <1>6. moves' \in {moves, moves + 1} /\ moves' <= MaxMoves
    BY <1>1 DEF Counted
  <1> QED BY <1>1, <1>4, <1>5, <1>6, ClientOnly

\* The choice of a tab only makes one due.
LEMMA ToggleIInv == IInv /\ Toggle => IInv'
  <1> SUFFICES ASSUME IInv, Toggle PROVE IInv'
    OBVIOUS
  <1> USE DEF IInv
  <1>1. /\ UNCHANGED <<server, socket, view, seen, memory, key, armed, terminal, misled, outputs>>
        /\ want' = ~want /\ due' = TRUE /\ moves < MaxMoves /\ moves' = moves + 1
    BY DEF Toggle, Move
  <1>2. ClientOK'
    BY <1>1, TypeParts DEF ClientOK, terminal
  <1>3. moves' \in {moves, moves + 1} /\ moves' <= MaxMoves
    BY <1>1, StreamAssumption DEF Counted
  <1> QED BY <1>1, <1>2, <1>3, ClientOnly DEF socket, Wired

\* A request for a replay only sends one.
LEMMA RequestTerminalReplayIInv == IInv /\ RequestTerminalReplay => IInv'
  <1> SUFFICES ASSUME IInv, RequestTerminalReplay PROVE IInv'
    OBVIOUS
  <1> USE DEF IInv
  <1>1. /\ UNCHANGED <<server, filtered, routed, coalescer, toClient, link, client, misled, outputs>>
        /\ link /\ toServer' = Append(toServer, Subscription(TRUE, TRUE))
        /\ moves < MaxMoves /\ moves' = moves + 1
    BY DEF RequestTerminalReplay, Move
  <1>2. ClientOK'
    BY <1>1, TypeParts, ClientKept
  <1>3. moves' \in {moves, moves + 1} /\ moves' <= MaxMoves
    BY <1>1, StreamAssumption DEF Counted
  <1>4. toServer' \in Seq(Subscriptions)
    <2>1. Subscription(TRUE, TRUE) \in Subscriptions
      BY DEF Subscription, Subscriptions
    <2> QED BY <1>1, <2>1, AppendProperties DEF Wired
  <1> QED BY <1>1, <1>2, <1>3, <1>4, ClientOnly DEF client

\* A terminal frame moves from the way to the screen.
LEMMA HandleTerminalFrameIInv == IInv /\ HandleTerminalFrame => IInv'
  <1> SUFFICES ASSUME IInv, HandleTerminalFrame PROVE IInv'
    OBVIOUS
  <1> USE DEF IInv
  <1> DEFINE c == Shown(Term, Head(toClient))
  <1>1. /\ UNCHANGED <<server, filtered, routed, coalescer, link, moves, outputs,
                       toServer, view, seen, want, memory, key, armed, due, misled>>
        /\ toClient # <<>> /\ toClient' = Tail(toClient)
        /\ screen' = c.screen /\ through' = c.through
    BY DEF HandleTerminalFrame, Receive
  <1>2. Head(toClient) \in Messages /\ toClient' \in Seq(Messages)
    BY <1>1, HeadTailProperties DEF Wired
  <1>3. c \in Terminals
    BY <1>2, ArrivingType, ShownType
  <1> HIDE DEF c
  <1>4. Term' = c
    BY <1>1, <1>3 DEF Term, Terminals
  <1>5. Arriving' = Arriving
    BY <1>1, <1>4, ArrivingHandled DEF c
  <1>6. Wired' /\ Complete'
    BY <1>1, <1>2, <1>5, CompleteKept DEF Wired, server
  <1>7. Numbered(store)' /\ Counted'
    BY <1>1, StoreKept DEF server
  <1>8. TypeOK'
    <2>1. ClientOK'
      BY <1>1, <1>3, TypeParts DEF ClientOK, Terminals
    <2> QED BY <1>1, <2>1, TypeParts, ServerKept, SocketKept, TypePartsNext DEF coalescer
  <1> QED BY <1>6, <1>7, <1>8

\* A frame that the terminal does not show.
LEMMA HandledSilently ==
  ASSUME IInv, Receive, Head(toClient).type \in {"removed", "state"}, UNCHANGED <<terminal, misled>>,
         ClientOK', toServer' \in Seq(Subscriptions), ~link => toServer' = toServer
  PROVE  IInv'
  <1> USE DEF IInv
  <1>1. /\ UNCHANGED <<server, filtered, routed, coalescer, link, moves, outputs>>
        /\ toClient # <<>> /\ toClient' = Tail(toClient)
    BY DEF Receive
  <1>2. toClient' \in Seq(Messages)
    BY <1>1, HeadTailProperties DEF Wired
  <1>3. Term' = Shown(Term, Head(toClient))
    <2>1. Shown(Term, Head(toClient)) = Term
      BY DEF Shown
    <2> QED BY <2>1 DEF Term, terminal
  <1>4. Arriving' = Arriving
    BY <1>1, <1>3, ArrivingHandled
  <1>5. Wired' /\ Complete'
    BY <1>1, <1>2, <1>4, CompleteKept DEF Wired, server
  <1>6. Numbered(store)' /\ Counted'
    BY <1>1, StoreKept DEF server
  <1>7. TypeOK'
    BY <1>1, TypeParts, ServerKept, SocketKept, TypePartsNext DEF coalescer
  <1> QED BY <1>5, <1>6, <1>7

\* The notice of a removal is for the transport.
LEMMA HandleTerminalRemovedIInv == IInv /\ HandleTerminalRemoved => IInv'
  <1> SUFFICES ASSUME IInv, HandleTerminalRemoved PROVE IInv'
    OBVIOUS
  <1>1. /\ UNCHANGED <<toServer, view, seen, want, key, due, terminal, misled>>
        /\ Receive /\ Head(toClient).type \in {"removed", "state"}
        /\ memory' = (IF memory = TRUE THEN FALSE ELSE memory) /\ armed' = TRUE
    BY DEF HandleTerminalRemoved
  <1>2. ClientOK'
    BY <1>1, TypeParts DEF ClientOK, terminal, IInv
  <1> QED BY <1>1, <1>2, HandledSilently DEF IInv, Wired

\* A payload that is no news is dropped.
LEMMA HandleStaleStateIInv == IInv /\ HandleStaleState => IInv'
  <1> SUFFICES ASSUME IInv, HandleStaleState PROVE IInv'
    OBVIOUS
  <1>1. /\ UNCHANGED <<toServer, client, misled>>
        /\ Receive /\ Head(toClient).type \in {"removed", "state"}
    BY DEF HandleStaleState
  <1>2. ClientOK'
    BY <1>1, TypeParts, ClientKept DEF IInv
  <1> QED BY <1>1, <1>2, HandledSilently DEF IInv, Wired, client

\* A payload without the pane disposes its view: what was shown is made good only by
\* a replay on the way, and without one the client is misled.
LEMMA HandleStateUpdatedIInv == IInv /\ HandleStateUpdated => IInv'
  <1> SUFFICES ASSUME IInv, HandleStateUpdated PROVE IInv'
    OBVIOUS
  <1> USE DEF IInv
  <1> DEFINE f == Head(toClient)
             replaying == \E i \in DOMAIN toClient : toClient[i].type = "replay"
  <1>1. /\ Receive /\ f.type = "state"
        /\ view' = f.panel /\ seen' = f.rev /\ due' = TRUE /\ armed' = FALSE /\ want' = want
        /\ IF armed THEN Sync(None) ELSE UNCHANGED <<key, memory, toServer>>
        /\ IF f.panel THEN UNCHANGED <<terminal, misled>>
           ELSE screen' = <<>> /\ through' = None /\ misled' = (misled \/ (routed /\ ~replaying))
    BY DEF HandleStateUpdated
  <1>2. /\ UNCHANGED <<server, filtered, routed, coalescer, link, moves, outputs>>
        /\ toClient # <<>> /\ toClient' = Tail(toClient)
    BY <1>1 DEF Receive
  <1>3. f \in Messages /\ toClient' \in Seq(Messages)
    BY <1>2, HeadTailProperties DEF Wired
  <1>4. f \in Frames
    BY <1>1, <1>3 DEF Messages, Data, Replays, Removals
  <1> HIDE DEF f
  <1>5. view' \in BOOLEAN /\ seen' \in Nat /\ want' \in BOOLEAN /\ f.panel \in BOOLEAN
    BY <1>1, <1>4 DEF Frames, TypeOK
  <1>6. /\ key' \in BOOLEAN \cup {None} /\ memory' \in BOOLEAN \cup {None}
        /\ toServer' \in Seq(Subscriptions) /\ (~link => toServer' = toServer)
    <2>1. CASE armed
      BY <1>1, <1>5, <2>1, Synced
    <2>2. CASE ~armed
      BY <1>1, <2>2 DEF TypeOK, Wired
    <2> QED BY <2>1, <2>2
  <1>7. CASE f.panel
    <2>1. UNCHANGED <<terminal, misled>>
      BY <1>1, <1>7
    <2>2. ClientOK'
      BY <1>1, <1>5, <1>6, <2>1, TypeParts DEF ClientOK, terminal
    <2>3. Head(toClient).type \in {"removed", "state"}
      BY <1>1 DEF f
    <2> QED BY <1>1, <1>6, <2>1, <2>2, <2>3, HandledSilently
  <1>8. CASE ~f.panel
    <2>1. screen' = <<>> /\ through' = None /\ misled' = (misled \/ (routed /\ ~replaying))
      BY <1>1, <1>8
    <2>2. ClientOK'
      <3>1. <<>> \in Seq(Chunk)
        OBVIOUS
      <3> QED BY <1>1, <1>5, <1>6, <2>1, <3>1 DEF ClientOK
    <2>3. Wired'
      BY <1>2, <1>3, <1>6 DEF Wired
    <2>4. Numbered(store)' /\ Counted'
      BY <1>2, StoreKept DEF server
    <2>5. misled' \in BOOLEAN
      BY <2>1 DEF TypeOK
    <2>6. TypeOK'
      BY <1>2, <2>2, <2>5, TypeParts, ServerKept, SocketKept, TypePartsNext DEF coalescer
    <2>7. ASSUME routed', ~misled' PROVE Arriving' = Arriving /\ routed /\ ~misled
      <3>1. routed /\ ~misled /\ replaying
        BY <1>2, <2>1, <2>7
      <3>2. PICK i \in DOMAIN toClient : toClient[i].type = "replay"
        BY <3>1
      <3>3. Len(toClient) \in Nat /\ DOMAIN toClient = 1..Len(toClient) /\ f = toClient[1]
        BY <1>2 DEF Wired, f
      <3>4. i # 1
        BY <1>1, <3>2, <3>3
      <3>5. /\ Len(Tail(toClient)) = Len(toClient) - 1
            /\ \A j \in 1..Len(Tail(toClient)) : Tail(toClient)[j] = toClient[j + 1]
        BY <1>2, HeadTailProperties DEF Wired
      <3>6. DOMAIN Tail(toClient) = 1..(Len(toClient) - 1)
        BY <1>2, <1>3, <3>5, LenProperties
      <3>7. i - 1 \in DOMAIN Tail(toClient) /\ Tail(toClient)[i - 1].type = "replay"
        BY <3>2, <3>3, <3>4, <3>5, <3>6
      <3>8. After(Term', Tail(toClient)) = After(Shown(Term, Head(toClient)), Tail(toClient))
        BY <1>2, <1>3, <3>7, AfterReplay
      <3>9. Arriving' = After(Term', Tail(toClient))
        BY <1>2 DEF Arriving
      <3>10. Arriving = After(Shown(Term, Head(toClient)), Tail(toClient))
        BY <1>2, AfterHead DEF Arriving, Wired
      <3> QED BY <3>1, <3>8, <3>9, <3>10
    <2>8. Complete'
      BY <1>2, <2>7 DEF Complete, Good, server
    <2> QED BY <2>3, <2>4, <2>6, <2>8
  <1> QED BY <1>5, <1>7, <1>8

\* A closed socket is routed nowhere.
LEMMA DisconnectIInv == IInv /\ Disconnect => IInv'
  <1> SUFFICES ASSUME IInv, Disconnect PROVE IInv'
    OBVIOUS
  <1> USE DEF IInv
  <1>1. /\ UNCHANGED <<server, client, outputs>>
        /\ moves < MaxMoves /\ moves' = moves + 1 /\ link' = FALSE
        /\ filtered' = FALSE /\ routed' = FALSE
        /\ sending' = FALSE /\ pending' = None /\ catchup' = FALSE
        /\ toClient' = <<>> /\ toServer' = <<>> /\ misled' = FALSE
    BY DEF Disconnect, Move
  <1>2. Wired' /\ Complete'
    BY <1>1 DEF Wired, Complete
  <1>3. Numbered(store)' /\ Counted'
    BY <1>1, StreamAssumption DEF Numbered, Counted, server, TypeOK, Lives
  <1>4. TypeOK'
    <2>1. SocketOK'
      BY <1>1 DEF SocketOK
    <2> QED BY <1>1, <2>1, TypeParts, ServerKept, ClientKept, TypePartsNext
  <1> QED BY <1>2, <1>3, <1>4

\* A new one is routed when its subscription arrives.
LEMMA ConnectIInv == IInv /\ Connect => IInv'
  <1> SUFFICES ASSUME IInv, Connect PROVE IInv'
    OBVIOUS
  <1> USE DEF IInv
  <1>1. /\ UNCHANGED <<server, filtered, routed, sending, pending, toClient, client, misled, moves, outputs>>
        /\ ~link /\ link' = TRUE /\ catchup' = (seen # rev)
        /\ toServer' = (IF memory = None THEN <<>> ELSE <<Subscription(memory, FALSE)>>)
    BY DEF Connect
  <1>2. toServer' \in Seq(Subscriptions)
    <2>1. CASE memory = None
      <3>1. <<>> \in Seq(Subscriptions)
        OBVIOUS
      <3> QED BY <1>1, <2>1, <3>1
    <2>2. CASE memory # None
      <3>1. Subscription(memory, FALSE) \in Subscriptions
        BY <2>2 DEF Subscription, Subscriptions, TypeOK
      <3>2. \A x \in Subscriptions : <<x>> \in Seq(Subscriptions)
        OBVIOUS
      <3> QED BY <1>1, <2>2, <3>1, <3>2
    <2> QED BY <2>1, <2>2
  <1>3. Wired' /\ Complete'
    BY <1>1, <1>2, ArrivingKept, CompleteKept DEF Wired, client, server
  <1>4. Numbered(store)' /\ Counted'
    BY <1>1, StoreKept DEF server
  <1>5. TypeOK'
    <2>1. SocketOK'
      BY <1>1, TypeParts DEF SocketOK
    <2> QED BY <1>1, <2>1, TypeParts, ServerKept, ClientKept, TypePartsNext
  <1> QED BY <1>3, <1>4, <1>5

\* Nothing happens.
LEMMA StutterIInv == IInv /\ UNCHANGED vars => IInv'
  <1> SUFFICES ASSUME IInv, UNCHANGED vars PROVE IInv'
    OBVIOUS
  <1> USE DEF IInv
  <1>1. UNCHANGED <<server, socket, client, misled, moves, outputs>>
    BY DEF vars
  <1>2. Wired' /\ Complete'
    BY <1>1, ArrivingKept, CompleteKept DEF Wired, client, server, socket
  <1>3. Numbered(store)' /\ Counted'
    BY <1>1, StoreKept DEF server
  <1>4. TypeOK'
    BY <1>1, TypeParts, ServerKept, SocketKept, ClientKept, TypePartsNext DEF socket, coalescer
  <1> QED BY <1>2, <1>3, <1>4

\* Every step keeps the invariant.
LEMMA NextIInv == IInv /\ [Next]_vars => IInv'
  BY DrainedIInv, BroadcastIInv, CatchUpIInv, OutputIInv, ExitIInv, SpawnIInv, RemovePanelIInv,
     PutPanelIInv, SyncWithStateIInv, HandleTerminalSubscribeIInv, HandleTerminalFrameIInv,
     HandleTerminalRemovedIInv, HandleStaleStateIInv, HandleStateUpdatedIInv, SyncIInv, ToggleIInv,
     RequestTerminalReplayIInv, DisconnectIInv, ConnectIInv, StutterIInv
  DEF Next, Handle

\* It holds in every reachable state.
LEMMA Invariant == Spec => []IInv
  BY InitIInv, NextIInv, PTL DEF Spec

\* A good terminal is a whole one.
LEMMA CompleteIsNothingMissing == IInv => NothingMissing
  <1> SUFFICES ASSUME IInv, routed, ~misled PROVE Whole(Arriving.screen)
    BY DEF NothingMissing, Arriving, After
  <1> DEFINE s == Arriving.screen
  <1>1. WholeOf(s, store, life) /\ s \in Seq(Chunk)
    BY ArrivingType DEF IInv, Complete, Good, Terminals
  <1> HIDE DEF s
  <1>2. \A i \in 2..Len(s) : s[i] = <<s[i-1][1], s[i-1][2] + 1>>
    BY <1>1 DEF WholeOf
  <1>3. s # <<>> => store # None /\ Last(s) = <<life, store.seq>>
    BY <1>1 DEF WholeOf, Last
  <1>4. Snapshot.chunks # <<>> => store # None /\ store.from <= store.seq
    <2>1. CASE store = None
      BY <2>1 DEF Snapshot
    <2>2. CASE store # None /\ ~(store.from <= store.seq)
      <3>1. store.seq \in 1..MaxOutputs /\ store.from \in 1..(MaxOutputs + 1)
        BY <2>2 DEF IInv, TypeOK
      <3>2. 1..(store.seq + 1 - store.from) = {}
        BY <2>2, <3>1
      <3>3. Snapshot.chunks = [i \in 1..(store.seq + 1 - store.from) |-> <<life, store.from + i - 1>>]
        BY <2>2 DEF Snapshot
      <3> QED BY <3>2, <3>3
    <2> QED BY <2>1, <2>2
  <1>5. Snapshot.chunks # <<>> => s # <<>> /\ Head(s)[2] <= store.from
    BY <1>1, <1>4 DEF WholeOf
  <1> QED BY <1>2, <1>3, <1>5 DEF Whole, s

\* Every variable keeps its type, for any number of outputs and moves: numbers and
\* lives stay within the bounds that count them.
THEOREM TypeCorrect == Spec => []TypeOK
  <1>1. IInv => TypeOK
    BY DEF IInv
  <1> QED BY <1>1, Invariant, PTL

\* While the pane is streamed, what the client shows and what is on its way are all
\* of the output, once and in order, whatever was evicted, replayed, restarted, removed,
\* brought back or reconnected (terminal-replay-buffer.ts, remote-server.ts,
\* terminal-controller.ts).
THEOREM NothingIsMissing == Spec => []NothingMissing
  BY Invariant, CompleteIsNothingMissing, PTL
===============================================================================
