------------------------ MODULE ServiceBrowserProofs ------------------------
(***************************************************************************)
(* Proofs about ServiceBrowser for every set of objects, every kind and    *)
(* size of lines, and every bound.                                         *)
(*                                                                         *)
(* The two action properties rest on what an object remembers of its init  *)
(* (Holdings): one without a child id has no child, one that can read has  *)
(* a child, and only one whose fork failed holds the child's end of the    *)
(* socket pair.                                                            *)
(*                                                                         *)
(* What is said of the lines rests on what is on its way to the page       *)
(* (InFlight: the buffer, the socket and what the child has yet to write). *)
(* Each step passes it on, returns its first line, adds lines at its end   *)
(* or loses the end (Carried, Returned, Added, Lost), and leaves all other *)
(* objects alone (Apart).  So it is always the beginning of the lines sent *)
(* and not yet returned (Whole), and each step is one of LineStream.       *)
(*                                                                         *)
(* Flat and LinesIn are recursive functions.  What they compute is found   *)
(* from the least number of pieces at which it could be something else     *)
(* (Least, UpTo), and that they exist from the steps they take (Course).   *)
(***************************************************************************)
EXTENDS ServiceBrowser, SequenceTheorems, WellFoundedInduction, TLAPS

ChildStates == {"none", "starting", "running", "exiting", "dead"}

Holdings ==
    /\ obj   \in [Objects -> {"none", "made", "deleted"}]
    /\ st    \in [Objects -> States]
    /\ pid   \in [Objects -> {"none", "failed", "child"}]
    /\ ends  \in [Objects -> SUBSET {0, 1}]
    /\ child \in [Objects -> ChildStates]
    /\ term  \in [Objects -> {"none", "pending", "handled"}]
    /\ \A o \in Objects :
           /\ obj[o] = "none" => st[o] = "NOT_READY" /\ child[o] = "none"
           /\ pid[o] = "none" => child[o] = "none"
           /\ st[o] = "READY" => child[o] # "none"
           /\ pid[o] # "failed" => 1 \notin ends[o]

\* The variables that Holdings is about.
held == <<obj, st, pid, ends, child, term>>

\* A step that touches none of these variables keeps Holdings.
LEMMA HoldingsStutter == Holdings /\ UNCHANGED held => Holdings'
BY DEF Holdings, held

-----------------------------------------------------------------------------
(***************************************************************************)
(* The steps that change one of these variables keep Holdings.             *)
(***************************************************************************)
LEMMA CreateKeeps ==
    ASSUME Holdings, NEW o \in Objects,
           NoSocketPair(o) \/ NoFork(o) \/ NoFcntl(o) \/ Ready(o)
    PROVE  Holdings'
<1>1. CASE NoSocketPair(o)
  BY <1>1 DEF Holdings, NoSocketPair, Create, States, ChildStates
<1>2. CASE NoFork(o)
  BY <1>2 DEF Holdings, NoFork, Create, States, ChildStates
<1>3. CASE NoFcntl(o)
  BY <1>3 DEF Holdings, NoFcntl, Create, Forked, States, ChildStates
<1>4. CASE Ready(o)
  BY <1>4 DEF Holdings, Ready, Create, Forked, States, ChildStates
<1>. QED
  BY <1>1, <1>2, <1>3, <1>4

\* A poll changes nothing but the state, to CLOSED.
LEMMA PollKeeps ==
    ASSUME Holdings, NEW o \in Objects, Poll(o)
    PROVE  Holdings'
<1>1. CASE PollData(o)
  BY <1>1, HoldingsStutter DEF PollData, PollUnchanged, childVars, held
<1>2. CASE PollNothing(o)
  BY <1>2, HoldingsStutter DEF PollNothing, PollUnchanged, childVars, held
<1>3. CASE PollEnd(o)
  BY <1>3 DEF Holdings, PollEnd, PollUnchanged, childVars, States
<1>. QED
  BY <1>1, <1>2, <1>3 DEF Poll

\* The destructor gives up fd[0] and may signal, which Holdings allows.
LEMMA DeallocateKeeps ==
    ASSUME Holdings, NEW o \in Objects, Deallocate(o)
    PROVE  Holdings'
BY DEF Holdings, Deallocate, childVars

\* A child that moves leaves the object alone and does not become "none".
LEMMA ChildKeeps ==
    ASSUME Holdings, NEW o \in Objects,
           NEW from \in SUBSET (ChildStates \ {"none"}),
           NEW to \in ChildStates \ {"none"},
           ChildStep(o, from, to),
           term' \in [Objects -> {"none", "pending", "handled"}]
    PROVE  Holdings'
BY DEF Holdings, ChildStep, objVars, ChildStates

\* Every step keeps Holdings.
LEMMA NextKeeps == Holdings /\ [Next]_vars => Holdings'
<1>. SUFFICES ASSUME Holdings, [Next]_vars
              PROVE  Holdings'
  OBVIOUS
<1>. USE DEF ChildStates
<1>0. /\ term \in [Objects -> {"none", "pending", "handled"}]
      /\ child \in [Objects -> ChildStates]
  BY DEF Holdings
<1>1. CASE UNCHANGED vars
  BY <1>1, HoldingsStutter DEF vars, objVars, childVars, held
<1>2. CASE HostFlush
  BY <1>2, HoldingsStutter DEF HostFlush, objVars, childVars, held
<1>3. ASSUME NEW o \in Objects,
             NoSocketPair(o) \/ NoFork(o) \/ NoFcntl(o) \/ Ready(o)
      PROVE  Holdings'
  BY <1>3, CreateKeeps
<1>4. ASSUME NEW o \in Objects, Poll(o) PROVE Holdings'
  BY <1>4, PollKeeps
<1>5. ASSUME NEW o \in Objects, Deallocate(o) PROVE Holdings'
  BY <1>5, DeallocateKeeps
<1>6. ASSUME NEW o \in Objects, Start(o) PROVE Holdings'
  BY <1>0, <1>6, ChildKeeps DEF Start
<1>7. ASSUME NEW o \in Objects, Write(o) PROVE Holdings'
  <2>1. child[o] \in {"running", "exiting"}
    BY <1>7 DEF Write, ChildStep
  <2>. QED
    BY <1>0, <1>7, <2>1, ChildKeeps DEF Write
<1>8. ASSUME NEW o \in Objects, Exit(o) PROVE Holdings'
  BY <1>0, <1>8, ChildKeeps DEF Exit
<1>9. ASSUME NEW o \in Objects, HandleTerm(o) PROVE Holdings'
  BY <1>0, <1>9, ChildKeeps DEF HandleTerm
<1>10. ASSUME NEW o \in Objects, ChildEnds(o) PROVE Holdings'
  BY <1>0, <1>10, ChildKeeps DEF ChildEnds
<1>11. ASSUME NEW o \in Objects, NEW l \in Lines, Compose(o, l)
       PROVE  Holdings'
  BY <1>0, <1>11, ChildKeeps DEF Compose
<1>. QED
  BY <1>1, <1>2, <1>3, <1>4, <1>5, <1>6, <1>7, <1>8, <1>9, <1>10, <1>11
     DEF Next

\* However init went, an object's fields tell what it made: whether it has a
\* child, and which ends of the socket pair are open.
THEOREM Remembered == Spec => []Holdings
<1>1. Init => Holdings
  BY DEF Init, Holdings, States, ChildStates
<1>. QED
  BY <1>1, NextKeeps, PTL DEF Spec

-----------------------------------------------------------------------------
\* Only a deallocation deletes an object, and only the object itself.
LEMMA OnlyDeallocateDeletes ==
    ASSUME Holdings, [Next]_vars, NEW o \in Objects,
           obj[o] = "made", obj'[o] = "deleted"
    PROVE  Deallocate(o)
<1>1. ASSUME NEW q \in Objects, NEW s, NEW id, NEW e, Create(q, s, id, e)
      PROVE  FALSE
  BY <1>1 DEF Create, Holdings
<1>2. obj' # obj
  OBVIOUS
<1>3. ASSUME NEW q \in Objects, Deallocate(q) PROVE q = o
  BY <1>3 DEF Deallocate, Holdings
<1>. QED
  BY <1>1, <1>2, <1>3
     DEF Next, vars, objVars, childVars, HostFlush, NoSocketPair, NoFork,
         NoFcntl, Ready, Poll, PollData, PollNothing, PollEnd, PollUnchanged,
         ChildStep, Start, Write, Exit, HandleTerm, ChildEnds, Compose

\* Only the end of file makes an object that is READY something else.
LEMMA OnlyPollEndCloses ==
    ASSUME Holdings, [Next]_vars, NEW o \in Objects,
           st[o] = "READY", st'[o] # "READY"
    PROVE  PollEnd(o)
<1>1. ASSUME NEW q \in Objects, NEW s, NEW id, NEW e, Create(q, s, id, e)
      PROVE  FALSE
  BY <1>1 DEF Create, Holdings
<1>2. st' # st
  OBVIOUS
<1>3. ASSUME NEW q \in Objects, PollEnd(q) PROVE q = o
  BY <1>3 DEF PollEnd, Holdings
<1>. QED
  BY <1>1, <1>2, <1>3
     DEF Next, vars, objVars, childVars, HostFlush, NoSocketPair, NoFork,
         NoFcntl, Ready, Poll, PollData, PollNothing, PollUnchanged,
         Deallocate, ChildStep, Start, Write, Exit, HandleTerm, ChildEnds,
         Compose

\* Disposing of an object signals its child, closes its socket and leaves the
\* children of the others alone, unless its fork had failed: whatever point of
\* init it came to, and however many objects there are.
THEOREM OwnChildOnly == Spec => OnlyOwnChild
<1>1. ASSUME Holdings, [Next]_vars, NEW o \in Objects, NEW c \in Objects,
             obj[o] = "made", obj'[o] = "deleted", pid[o] # "failed"
      PROVE  /\ ends'[o] = {} /\ (Alive(o) => term'[o] # "none")
             /\ term'[c] # term[c] => c = o
  <2>1. Deallocate(o)
    BY <1>1, OnlyDeallocateDeletes
  <2>2. ends'[o] = {}
    BY <1>1, <2>1 DEF Deallocate, Holdings
  <2>3. Alive(o) => pid[o] = "child"
    BY <1>1 DEF Alive, Holdings
  <2>4. Alive(o) => term'[o] # "none"
    BY <2>1, <2>3 DEF Deallocate, Killed
  <2>5. term'[c] # term[c] => c = o
    <3>1. term'[c] # term[c] => c \in Killed(o)
      BY <2>1 DEF Deallocate
    <3>2. Killed(o) \subseteq {o}
      BY <1>1 DEF Killed, Holdings
    <3>. QED
      BY <3>1, <3>2
  <2>. QED
    BY <2>2, <2>4, <2>5
<1>2. Holdings /\ [Next]_vars =>
          [\A o, c \in Objects :
             obj[o] = "made" /\ obj'[o] = "deleted" =>
                 \/ pid[o] = "failed"
                 \/ /\ ends'[o] = {} /\ (Alive(o) => term'[o] # "none")
                    /\ term'[c] # term[c] => c = o]_vars
  BY <1>1
<1>. QED
  BY <1>2, Remembered, PTL DEF Spec, OnlyOwnChild

\* popmsg gives up an object only when its child has ended and everything that
\* reached the socket has been read.
THEOREM ClosedLast == Spec => ClosesLast
<1>1. ASSUME Holdings, [Next]_vars, NEW o \in Objects,
             st[o] = "READY", st'[o] # "READY"
      PROVE  child[o] = "dead" /\ sock[o] = <<>>
  <2>1. PollEnd(o)
    BY <1>1, OnlyPollEndCloses
  <2>. QED
    BY <1>1, <2>1 DEF PollEnd, Alive, Holdings, ChildStates
<1>2. Holdings /\ [Next]_vars =>
          [\A o \in Objects : st[o] = "READY" /\ st'[o] # "READY"
             => child[o] = "dead" /\ sock[o] = <<>>]_vars
  BY <1>1
<1>. QED
  BY <1>2, Remembered, PTL DEF Spec, ClosesLast

-----------------------------------------------------------------------------
(***************************************************************************)
(* Induction over numbers, and the courses of recursive functions.         *)
(***************************************************************************)

\* < on the natural numbers is well-founded.
LEMMA NatOrder ==
    ASSUME NEW R, R = {p \in Nat \X Nat : p[1] < p[2]}
    PROVE  IsWellFoundedOn(R, Nat)
<1>1. R = OpToRel(<, Nat)
  BY DEF OpToRel
<1>. QED
  BY <1>1, NatLessThanWellFounded

\* Every set of natural numbers has a least element.
LEMMA Least ==
    ASSUME NEW T, T \subseteq Nat, T # {}
    PROVE  \E n \in T : \A m \in T : n <= m
<1>1. PICK R : R = {p \in Nat \X Nat : p[1] < p[2]}
  OBVIOUS
<1>2. IsWellFoundedOn(R, Nat)
  BY <1>1, NatOrder
<1>3. PICK n \in T : \A m \in T : ~ (<<m, n>> \in R)
  BY <1>2, WFMin
<1>4. \A m, k \in Nat : m < k => <<m, k>> \in R
  BY <1>1
<1>5. \A m \in T : ~ (m < n)
  BY <1>3, <1>4
<1>. QED
  BY <1>5

\* Induction up to n, for a set instead of a property.
LEMMA UpTo ==
    ASSUME NEW n \in Nat, NEW T,
           0 \in T, \A k \in 1..n : k - 1 \in T => k \in T
    PROVE  \A k \in 0..n : k \in T
<1>. DEFINE U == {k \in 0..n : k \notin T}
<1>1. SUFFICES ASSUME U # {} PROVE FALSE
  OBVIOUS
<1>2. PICK m \in U : \A k \in U : m <= k
  <2>1. U \subseteq Nat
    OBVIOUS
  <2>. HIDE DEF U
  <2>. QED
    BY <1>1, <2>1, Least
<1>3. m \in 1..n /\ m - 1 \in 0..n /\ ~ (m <= m - 1)
  BY <1>2
<1>. QED
  BY <1>2, <1>3

\* f goes from b through n steps, the i-th of which is G[i].
IsCourse(n, V, b, G, f) ==
    /\ f \in [0..n -> V] /\ f[0] = b
    /\ \A i \in 1..n : f[i] = G[i][f[i - 1]]

\* n steps can be made one after the other.
LEMMA Course ==
    ASSUME NEW n \in Nat, NEW V, NEW b \in V, NEW G \in [1..n -> [V -> V]]
    PROVE  \E f : IsCourse(n, V, b, G, f)
<1>. USE DEF IsCourse
<1>. DEFINE Is(k, f) == IsCourse(k, V, b, G, f)
            T == {k \in 0..n : \E f : Is(k, f)}
<1>1. 0 \in T
  <2>. DEFINE f == [i \in 0..0 |-> b]
  <2>1. Is(0, f)
    OBVIOUS
  <2>. HIDE DEF Is, f
  <2>. QED
    BY <2>1
<1>2. ASSUME NEW k \in 1..n, k - 1 \in T PROVE k \in T
  <2>1. PICK f : Is(k - 1, f)
    BY <1>2
  <2>. DEFINE g == [i \in 0..k |-> IF i = k THEN G[k][f[k - 1]] ELSE f[i]]
  <2>2. G[k][f[k - 1]] \in V
    <3>1. k - 1 \in 0..(k - 1)
      OBVIOUS
    <3>2. f[k - 1] \in V
      BY <2>1, <3>1
    <3>3. G[k] \in [V -> V]
      OBVIOUS
    <3>. QED
      BY <3>2, <3>3
  <2>3. g \in [0..k -> V]
    <3>1. ASSUME NEW i \in 0..k, i # k PROVE f[i] \in V
      BY <2>1, <3>1
    <3>. QED
      BY <2>2, <3>1
  <2>4. g[0] = b
    BY <2>1
  <2>5. ASSUME NEW i \in 1..k PROVE g[i] = G[i][g[i - 1]]
    <3>1. CASE i = k
      BY <3>1
    <3>2. CASE i # k
      BY <3>2, <2>1
    <3>. QED
      BY <3>1, <3>2
  <2>6. Is(k, g)
    BY <2>3, <2>4, <2>5
  <2>. HIDE DEF Is, g
  <2>. QED
    BY <2>6
<1>3. n \in T
  <2>. HIDE DEF T
  <2>1. \A k \in 1..n : k - 1 \in T => k \in T
    BY <1>2
  <2>2. \A k \in 0..n : k \in T
    BY <1>1, <2>1, UpTo
  <2>. QED
    BY <2>2
<1>. QED
  BY <1>3

-----------------------------------------------------------------------------
(***************************************************************************)
(* Sequences of pieces, and the pieces of lines.                           *)
(***************************************************************************)

\* Facts about sequences, for sequences of pieces.
LEMMA PieceConcat ==
    ASSUME NEW s \in PieceSeqs, NEW t \in PieceSeqs
    PROVE  /\ s \o t \in PieceSeqs /\ Len(s) \in Nat /\ Len(t) \in Nat
           /\ Len(s \o t) = Len(s) + Len(t)
           /\ \A i \in 1..Len(s) : (s \o t)[i] = s[i]
           /\ s \o <<>> = s /\ <<>> \o s = s
<1>. DEFINE S == AllLines \X Nat
<1>1. s \in Seq(S) /\ t \in Seq(S)
  BY DEF PieceSeqs
<1>. HIDE DEF S
<1>. QED
  BY <1>1, ConcatProperties, ConcatEmptySeq, LenProperties DEF PieceSeqs, S

\* Concatenation is associative.
LEMMA PieceAssoc ==
    ASSUME NEW s \in PieceSeqs, NEW t \in PieceSeqs, NEW u \in PieceSeqs
    PROVE  (s \o t) \o u = s \o (t \o u)
<1>. DEFINE S == AllLines \X Nat
<1>1. s \in Seq(S) /\ t \in Seq(S) /\ u \in Seq(S)
  BY DEF PieceSeqs
<1>. HIDE DEF S
<1>. QED
  BY <1>1, ConcatAssociative

\* The pieces of a line are as many as its size, and the last is its newline.
LEMMA PiecesType ==
    ASSUME NEW l \in AllLines
    PROVE  /\ Pieces(l) \in PieceSeqs /\ Size[l] \in Nat /\ Size[l] > 1
           /\ Len(Pieces(l)) = Size[l]
           /\ \A k \in 1..Size[l] : /\ Pieces(l)[k] = <<l, k>>
                                    /\ Newline(Pieces(l)[k]) <=> k = Size[l]
<1>1. Size[l] \in Nat /\ Size[l] > 1
  BY LineAssumption DEF AllLines
<1>2. Pieces(l) \in [1..Size[l] -> AllLines \X Nat]
  BY <1>1 DEF Pieces
<1>3. Pieces(l) \in PieceSeqs
  BY <1>1, <1>2 DEF PieceSeqs
<1>. QED
  BY <1>1, <1>2, <1>3 DEF Pieces, Newline

\* f is the course of Flat: f[i] are the pieces of the first i lines.
Flattens(ls, f) ==
    /\ f \in [0..Len(ls) -> PieceSeqs] /\ f[0] = <<>>
    /\ \A i \in 1..Len(ls) : f[i] = f[i - 1] \o Pieces(ls[i])

\* Flat is what FlattenSeq has put together after the last line.
LEMMA FlatCourse ==
    ASSUME NEW ls \in Seq(AllLines)
    PROVE  \E f : Flattens(ls, f) /\ Flat(ls) = f[Len(ls)]
<1>. DEFINE n == Len(ls)
            s == [i \in 1..n |-> Pieces(ls[i])]
<1>1. n \in Nat /\ \A i \in 1..n : ls[i] \in AllLines /\ s[i] \in PieceSeqs
  BY PiecesType
<1>2. Flat(ls) = FlattenSeq(s) /\ s \in Seq(PieceSeqs) /\ Len(s) = n
  BY <1>1 DEF Flat
<1>e. <<>> \in PieceSeqs /\ \A q \in PieceSeqs : <<>> \o q = q
  BY EmptySeq, ConcatEmptySeq DEF PieceSeqs
<1>3. CASE n = 0
  <2>1. s = <<>>
    BY <1>2, <1>3, EmptySeq
  <2>2. Flat(ls) = <<>>
    BY <1>2, <1>3, <2>1 DEF FlattenSeq
  <2>. DEFINE f == [i \in 0..0 |-> <<>>]
  <2>3. f \in [0..0 -> PieceSeqs] /\ f[0] = <<>>
    BY <1>e
  <2>4. Flattens(ls, f)
    BY <2>3, <1>3 DEF Flattens
  <2>. QED
    BY <2>2, <2>3, <2>4, <1>3
<1>4. CASE n # 0
  <2>. DEFINE G == [i \in 1..n |-> [v \in PieceSeqs |-> v \o s[i]]]
  <2>1. G \in [1..n -> [PieceSeqs -> PieceSeqs]]
    BY <1>1, ConcatProperties DEF PieceSeqs
  <2>0. \A i \in 1..n : \A v \in PieceSeqs : G[i][v] = v \o s[i]
    OBVIOUS
  <2>. HIDE DEF n, s, G
  <2>2. PICK f \in [0..n -> PieceSeqs] :
             f[0] = <<>> /\ \A i \in 1..n : f[i] = G[i][f[i - 1]]
    <3>. DEFINE b == <<>>
    <3>1. n \in Nat /\ b \in PieceSeqs
      BY <1>1, <1>e DEF n
    <3>. HIDE DEF b
    <3>2. \E f : IsCourse(n, PieceSeqs, b, G, f)
      BY <3>1, <2>1, Course
    <3>. QED
      BY <3>2 DEF b, IsCourse
  <2>3. \A i \in 1..n : f[i] = f[i - 1] \o s[i]
    <3>. SUFFICES ASSUME NEW i \in 1..n PROVE f[i] = f[i - 1] \o s[i]
      OBVIOUS
    <3>1. i - 1 \in 0..n
      BY <1>1
    <3>2. f[i - 1] \in PieceSeqs
      BY <3>1, <2>2
    <3>. QED
      BY <2>0, <2>2, <3>2
  <2>. DEFINE g == [i \in 1..n |-> f[i]]
  <2>4. g = [i \in 1..n |-> IF i = 1 THEN s[i] ELSE g[i-1] \o s[i]]
    <3>1. ASSUME NEW i \in 1..n
          PROVE  f[i] = IF i = 1 THEN s[i] ELSE g[i-1] \o s[i]
      <4>1. CASE i = 1
        <5>1. f[1] = f[0] \o s[1]
          <6>1. 1 \in 1..n /\ 1 - 1 = 0
            BY <4>1
          <6>2. f[1] = f[1 - 1] \o s[1]
            BY <6>1, <2>3
          <6>. QED
            BY <6>1, <6>2
        <5>. QED
          BY <5>1, <4>1, <2>2, <1>e, <1>1
      <4>2. CASE i # 1
        <5>1. i - 1 \in 1..n
          BY <4>2, <1>1
        <5>. QED
          BY <5>1, <4>2, <2>3
      <4>. QED
        BY <4>1, <4>2
    <3>. QED
      BY <3>1
  <2>. DEFINE h == CHOOSE e : e = [i \in 1..n |-> IF i = 1 THEN s[i] ELSE e[i-1] \o s[i]]
  <2>5. h = [i \in 1..n |-> IF i = 1 THEN s[i] ELSE h[i-1] \o s[i]]
    <3>. HIDE DEF g
    <3>. QED BY <2>4
  <2>6. Flat(ls) = h[n]
    BY <1>2, <1>4 DEF FlattenSeq
  <2>. HIDE DEF h, g
  <2>7. \A i \in 1..n : h[i] = IF i = 1 THEN s[i] ELSE h[i-1] \o s[i]
    BY <2>5
  <2>. DEFINE T == {i \in 0..n : i # 0 => h[i] = f[i]}
  <2>8. \A k \in 1..n : k - 1 \in T => k \in T
    <3>. SUFFICES ASSUME NEW k \in 1..n, k - 1 \in T PROVE h[k] = f[k]
      OBVIOUS
    <3>1. CASE k = 1
      <4>1. f[1] = f[0] \o s[1] /\ h[1] = s[1]
        <5>1. 1 \in 1..n /\ 1 - 1 = 0
          BY <3>1
        <5>2. f[1] = f[1 - 1] \o s[1]
          BY <5>1, <2>3
        <5>. QED
          BY <5>1, <5>2, <2>7
      <4>. QED
        BY <4>1, <3>1, <2>2, <1>e, <1>1
    <3>2. CASE k # 1
      <4>1. h[k - 1] = f[k - 1]
        BY <3>2, <1>1
      <4>. QED
        BY <4>1, <3>2, <2>7, <2>3
    <3>. QED BY <3>1, <3>2
  <2>9. n \in T
    <3>0. 0 \in T
      BY <1>1
    <3>. HIDE DEF T
    <3>1. n \in Nat
      BY <1>1 DEF n
    <3>2. \A k \in 0..n : k \in T
      BY <3>0, <3>1, <2>8, UpTo
    <3>. QED
      BY <3>1, <3>2
  <2>10. Flattens(ls, f)
    BY <2>2, <2>3, <1>1 DEF Flattens, s, n
  <2>. QED
    BY <2>6, <2>9, <2>10, <1>4 DEF n
<1>. QED
  BY <1>3, <1>4

\* Two courses of one list, or of one and of one that begins with it, agree.
LEMMA FlattensAgree ==
    ASSUME NEW ls \in Seq(AllLines), NEW ms \in Seq(AllLines),
           Len(ls) <= Len(ms), \A i \in 1..Len(ls) : ls[i] = ms[i],
           NEW f, Flattens(ls, f), NEW g, Flattens(ms, g)
    PROVE  \A i \in 0..Len(ls) : f[i] = g[i]
<1>. DEFINE n == Len(ls)
            T == {i \in 0..n : f[i] = g[i]}
<1>1. n \in Nat /\ Len(ms) \in Nat
  OBVIOUS
<1>2. 0 \in T
  BY <1>1 DEF Flattens
<1>3. ASSUME NEW k \in 1..n, k - 1 \in T PROVE k \in T
  <2>1. f[k] = f[k - 1] \o Pieces(ls[k]) /\ g[k] = g[k - 1] \o Pieces(ms[k])
    <3>1. k \in 1..Len(ls) /\ k \in 1..Len(ms)
      BY <1>1
    <3>. QED
      BY <3>1 DEF Flattens
  <2>2. ls[k] = ms[k] /\ f[k - 1] = g[k - 1] /\ k \in 0..n
    BY <1>1, <1>3
  <2>. QED
    BY <2>1, <2>2
<1>4. \A k \in 1..n : k - 1 \in T => k \in T
  BY <1>3
<1>5. \A k \in 0..n : k \in T
  <2>. HIDE DEF T, n
  <2>. QED
    BY <1>1, <1>2, <1>4, UpTo
<1>. QED
  BY <1>5

\* What Flat makes of lines are pieces.
LEMMA FlatType ==
    ASSUME NEW ls \in Seq(AllLines)
    PROVE  Flat(ls) \in PieceSeqs
<1>1. PICK f : Flattens(ls, f) /\ Flat(ls) = f[Len(ls)]
  BY FlatCourse
<1>2. Len(ls) \in 0..Len(ls)
  OBVIOUS
<1>. QED
  BY <1>1, <1>2 DEF Flattens

\* No lines have no pieces.
LEMMA FlatEmpty == Flat(<<>>) = <<>>
<1>. DEFINE s == <<>>
<1>1. s \in Seq(AllLines) /\ Len(s) = 0
  BY EmptySeq
<1>. HIDE DEF s
<1>2. PICK f : Flattens(s, f) /\ Flat(s) = f[Len(s)]
  BY <1>1, FlatCourse
<1>3. Flat(s) = <<>>
  BY <1>1, <1>2 DEF Flattens
<1>. QED
  BY <1>3 DEF s

\* One line more adds its pieces.
LEMMA FlatAppend ==
    ASSUME NEW ls \in Seq(AllLines), NEW l \in AllLines
    PROVE  Flat(Append(ls, l)) = Flat(ls) \o Pieces(l)
<1>. DEFINE ms == Append(ls, l)
            n  == Len(ls)
<1>1. /\ ms \in Seq(AllLines) /\ Len(ms) = n + 1 /\ n \in Nat /\ ms[n + 1] = l
      /\ \A i \in 1..n : ls[i] = ms[i]
  BY AppendProperties
<1>. HIDE DEF ms
<1>2. PICK f : Flattens(ls, f) /\ Flat(ls) = f[n]
  BY FlatCourse
<1>3. PICK g : Flattens(ms, g) /\ Flat(ms) = g[n + 1]
  BY <1>1, FlatCourse
<1>4. f[n] = g[n]
  <2>1. n \in 0..n
    BY <1>1
  <2>. QED
    BY <1>1, <1>2, <1>3, <2>1, FlattensAgree
<1>5. g[n + 1] = g[n] \o Pieces(l)
  <2>1. n + 1 \in 1..(n + 1) /\ (n + 1) - 1 = n
    BY <1>1
  <2>. HIDE DEF n
  <2>2. g[n + 1] = g[(n + 1) - 1] \o Pieces(ms[n + 1])
    BY <1>1, <1>3, <2>1 DEF Flattens
  <2>. QED
    BY <1>1, <2>1, <2>2
<1>. QED
  BY <1>2, <1>3, <1>4, <1>5 DEF ms

\* Flat takes concatenations to concatenations.
LEMMA FlatConcat ==
    ASSUME NEW ls \in Seq(AllLines), NEW ms \in Seq(AllLines)
    PROVE  Flat(ls \o ms) = Flat(ls) \o Flat(ms)
<1>. DEFINE n == Len(ms)
            Up(k) == SubSeq(ms, 1, k)
            T == {k \in 0..n : Flat(ls \o Up(k)) = Flat(ls) \o Flat(Up(k))}
<1>1. n \in Nat /\ Up(n) = ms
  BY SubSeqFull
<1>2. 0 \in T
  <2>1. Up(0) = <<>>
    BY SubSeqEmpty
  <2>2. ls \o <<>> = ls /\ Flat(ls) \o <<>> = Flat(ls)
    BY FlatType, ConcatEmptySeq DEF PieceSeqs
  <2>3. Flat(ls \o Up(0)) = Flat(ls) \o Flat(Up(0))
    BY <2>1, <2>2, FlatEmpty
  <2>. HIDE DEF Up
  <2>. QED
    BY <1>1, <2>3
<1>3. ASSUME NEW k \in 1..n, k - 1 \in T PROVE k \in T
  <2>. DEFINE u == Up(k - 1)
              l == ms[k]
  <2>0. k - 1 \in 0..n /\ k \in 0..n
    BY <1>1
  <2>1. u \in Seq(AllLines) /\ l \in AllLines
    BY <1>1, SubSeqProperties
  <2>2. Up(k) = Append(u, l)
    <3>1. 1 \in 1..n /\ k \in 1..n
      BY <1>1
    <3>2. Up(k) = u \o <<l>>
      BY <3>1, SubSeqRecursiveSecond
    <3>. QED
      BY <2>1, <3>2, AppendIsConcat
  <2>3. Flat(ls \o u) = Flat(ls) \o Flat(u)
    BY <1>3
  <2>. HIDE DEF Up, u, l
  <2>4. ls \o u \in Seq(AllLines) /\ <<l>> \in Seq(AllLines)
    BY <2>1, ConcatProperties
  <2>5. ls \o Append(u, l) = Append(ls \o u, l)
    <3>1. Append(u, l) = u \o <<l>> /\ Append(ls \o u, l) = (ls \o u) \o <<l>>
      BY <2>1, <2>4, AppendIsConcat
    <3>. QED
      BY <2>1, <2>4, <3>1, ConcatAssociative
  <2>6. Flat(Append(ls \o u, l)) = (Flat(ls) \o Flat(u)) \o Pieces(l)
    BY <2>1, <2>3, <2>4, FlatAppend
  <2>7. Flat(Append(u, l)) = Flat(u) \o Pieces(l)
    BY <2>1, FlatAppend
  <2>8. (Flat(ls) \o Flat(u)) \o Pieces(l) = Flat(ls) \o (Flat(u) \o Pieces(l))
    <3>1. Flat(ls) \in PieceSeqs /\ Flat(u) \in PieceSeqs /\ Pieces(l) \in PieceSeqs
      BY <2>1, FlatType, PiecesType
    <3>. QED
      BY <3>1, PieceAssoc
  <2>9. Flat(ls \o Up(k)) = Flat(ls) \o Flat(Up(k))
    BY <2>2, <2>5, <2>6, <2>7, <2>8
  <2>. QED
    BY <2>0, <2>9
<1>4. \A k \in 1..n : k - 1 \in T => k \in T
  BY <1>3
<1>5. n \in T
  <2>. HIDE DEF T, n
  <2>1. \A k \in 0..n : k \in T
    BY <1>1, <1>2, <1>4, UpTo
  <2>. QED
    BY <1>1, <2>1
<1>. QED
  BY <1>1, <1>5

\* The pieces of lines begin with those of the first.
LEMMA FlatFirst ==
    ASSUME NEW ls \in Seq(AllLines), ls # <<>>
    PROVE  /\ Head(ls) \in AllLines /\ Tail(ls) \in Seq(AllLines)
           /\ Flat(ls) = Pieces(Head(ls)) \o Flat(Tail(ls))
<1>. DEFINE l == Head(ls)
            t == Tail(ls)
            e == <<>>
<1>1. l \in AllLines /\ t \in Seq(AllLines)
  OBVIOUS
<1>2. ls = <<l>> \o t
  OBVIOUS
<1>3. e \in Seq(AllLines) /\ Append(e, l) = <<l>> /\ <<l>> \in Seq(AllLines)
  BY <1>1, EmptySeq
<1>. HIDE DEF l, t
<1>4. Flat(<<l>>) = Pieces(l)
  <2>1. Flat(e) = <<>> /\ <<>> \o Pieces(l) = Pieces(l)
    BY <1>1, FlatEmpty, PiecesType, ConcatEmptySeq DEF PieceSeqs
  <2>. HIDE DEF e
  <2>2. Flat(Append(e, l)) = Flat(e) \o Pieces(l)
    BY <1>1, <1>3, FlatAppend
  <2>. QED
    BY <1>3, <2>1, <2>2
<1>. QED
  BY <1>1, <1>2, <1>3, <1>4, FlatConcat DEF l, t

\* Where the elements of a concatenation come from.
LEMMA PieceAt ==
    ASSUME NEW s \in PieceSeqs, NEW t \in PieceSeqs
    PROVE  /\ \A i \in (Len(s) + 1)..(Len(s) + Len(t)) : (s \o t)[i] = t[i - Len(s)]
           /\ \A i \in 1..Len(s) : s[i] \in AllLines \X Nat
<1>. DEFINE S == AllLines \X Nat
<1>1. s \in Seq(S) /\ t \in Seq(S)
  BY DEF PieceSeqs
<1>. HIDE DEF S
<1>2. \A i \in 1..Len(s) : s[i] \in S
  BY <1>1, ElementOfSeq
<1>. QED
  BY <1>1, <1>2, ConcatProperties, LenProperties DEF S

\* A part of a sequence of pieces.
LEMMA PieceSub ==
    ASSUME NEW s \in PieceSeqs, NEW m \in 1..(Len(s) + 1), NEW n \in 0..Len(s)
    PROVE  /\ SubSeq(s, m, n) \in PieceSeqs
           /\ Len(SubSeq(s, m, n)) = IF m <= n THEN n - m + 1 ELSE 0
           /\ \A i \in 1..(n - m + 1) : SubSeq(s, m, n)[i] = s[m + i - 1]
<1>. DEFINE S == AllLines \X Nat
<1>1. s \in Seq(S)
  BY DEF PieceSeqs
<1>. HIDE DEF S
<1>2. Len(s) \in Nat /\ m \in Int /\ n \in Int
  BY <1>1, LenProperties
<1>3. \A i \in m..n : s[i] \in S
  BY <1>1, <1>2, ElementOfSeq
<1>. QED
  BY <1>1, <1>2, <1>3, SubSeqProperties DEF PieceSeqs, S

\* Sequences of pieces with the same elements are the same.
LEMMA PieceEqual ==
    ASSUME NEW s \in PieceSeqs, NEW t \in PieceSeqs,
           Len(s) = Len(t), \A i \in 1..Len(s) : s[i] = t[i]
    PROVE  s = t
<1>. DEFINE S == AllLines \X Nat
<1>1. s \in Seq(S) /\ t \in Seq(S)
  BY DEF PieceSeqs
<1>. HIDE DEF S
<1>. QED
  BY <1>1, SeqEqual

\* pos is where the first line of s ends.
FirstEnd(s, pos) ==
    /\ pos \in 1..Len(s) /\ Newline(s[pos])
    /\ \A i \in 1..(pos - 1) : ~ Newline(s[i])

\* popmsg finds the end of the first line.
LEMMA Found ==
    ASSUME NEW s \in PieceSeqs, NEW pos, pos = SelectInSeq(s, Newline), pos # 0
    PROVE  FirstEnd(s, pos)
<1>. DEFINE I == {i \in 1..Len(s) : Newline(s[i])}
<1>0. Len(s) \in Nat
  BY PieceConcat
<1>1. I # {} /\ pos = Min(I)
  BY DEF SelectInSeq
<1>2. \E i \in I : \A j \in I : i <= j
  <2>1. I \subseteq Nat
    BY <1>0
  <2>. HIDE DEF I
  <2>. QED
    BY <1>1, <2>1, Least
<1>3. pos \in I /\ \A j \in I : pos <= j
  <2>. HIDE DEF I
  <2>. QED
    BY <1>1, <1>2 DEF Min
<1>4. ASSUME NEW i \in 1..(pos - 1) PROVE ~ Newline(s[i])
  <2>1. i \in 1..Len(s) /\ ~ (pos <= i)
    BY <1>0, <1>3
  <2>. QED
    BY <1>3, <2>1
<1>. QED
  BY <1>3, <1>4 DEF FirstEnd

\* What follows does not move the end of the first line.
LEMMA FirstEndConcat ==
    ASSUME NEW s \in PieceSeqs, NEW t \in PieceSeqs, NEW pos, FirstEnd(s, pos)
    PROVE  /\ FirstEnd(s \o t, pos)
           /\ SubSeq(s \o t, 1, pos - 1) = SubSeq(s, 1, pos - 1)
           /\ SubSeq(s \o t, pos + 1, Len(s \o t)) = SubSeq(s, pos + 1, Len(s)) \o t
<1>. DEFINE u == s \o t
            n == Len(s)
            m == Len(t)
<1>1. /\ u \in PieceSeqs /\ n \in Nat /\ m \in Nat /\ Len(u) = n + m
      /\ \A i \in 1..n : u[i] = s[i]
      /\ \A i \in (n + 1)..(n + m) : u[i] = t[i - n]
  BY PieceConcat, PieceAt
<1>. HIDE DEF u, n, m
<1>2. pos \in 1..n
  BY DEF FirstEnd, n
<1>3. FirstEnd(u, pos)
  BY <1>1, <1>2 DEF FirstEnd
<1>4. SubSeq(u, 1, pos - 1) = SubSeq(s, 1, pos - 1)
  <2>. DEFINE a == SubSeq(u, 1, pos - 1)
              b == SubSeq(s, 1, pos - 1)
              e == pos - 1
  <2>1. e \in 0..n /\ e \in 0..Len(u) /\ 1 \in 1..(n + 1) /\ 1 \in 1..(Len(u) + 1)
    BY <1>1, <1>2
  <2>. HIDE DEF e
  <2>2. /\ a \in PieceSeqs /\ Len(a) = IF 1 <= e THEN e - 1 + 1 ELSE 0
        /\ \A i \in 1..(e - 1 + 1) : a[i] = u[1 + i - 1]
    BY <1>1, <2>1, PieceSub DEF n, e
  <2>3. /\ b \in PieceSeqs /\ Len(b) = IF 1 <= e THEN e - 1 + 1 ELSE 0
        /\ \A i \in 1..(e - 1 + 1) : b[i] = s[1 + i - 1]
    BY <1>1, <2>1, PieceSub DEF n, e
  <2>. HIDE DEF a, b
  <2>4. \A i \in 1..Len(a) : a[i] = b[i]
    BY <1>1, <2>1, <2>2, <2>3
  <2>5. a = b
    BY <2>2, <2>3, <2>4, PieceEqual
  <2>. QED
    BY <2>5 DEF a, b
<1>5. SubSeq(u, pos + 1, Len(u)) = SubSeq(s, pos + 1, n) \o t
  <2>. DEFINE a == SubSeq(u, pos + 1, Len(u))
              c == SubSeq(s, pos + 1, n)
              b == c \o t
              p == pos + 1
  <2>1. /\ p \in 1..(n + 1) /\ p \in 1..(Len(u) + 1) /\ n \in 0..n
        /\ Len(u) \in 0..Len(u) /\ p = pos + 1
    BY <1>1, <1>2
  <2>. HIDE DEF p
  <2>2. /\ a \in PieceSeqs /\ Len(a) = n + m - pos
        /\ \A i \in 1..(n + m - pos) : a[i] = u[pos + i]
    <3>1. /\ a \in PieceSeqs /\ Len(a) = IF p <= n + m THEN n + m - p + 1 ELSE 0
          /\ \A i \in 1..(n + m - p + 1) : a[i] = u[p + i - 1]
      BY <1>1, <2>1, PieceSub DEF p
    <3>. HIDE DEF a
    <3>. QED
      BY <3>1, <2>1, <1>1, <1>2
  <2>3. /\ c \in PieceSeqs /\ Len(c) = n - pos
        /\ \A i \in 1..(n - pos) : c[i] = s[pos + i]
    <3>1. /\ c \in PieceSeqs /\ Len(c) = IF p <= n THEN n - p + 1 ELSE 0
          /\ \A i \in 1..(n - p + 1) : c[i] = s[p + i - 1]
      BY <1>1, <2>1, PieceSub DEF p, n
    <3>. HIDE DEF c
    <3>. QED
      BY <3>1, <2>1, <1>1, <1>2
  <2>. HIDE DEF a, c
  <2>4. /\ b \in PieceSeqs /\ Len(b) = n - pos + m
        /\ \A i \in 1..(n - pos) : b[i] = c[i]
        /\ \A i \in (n - pos + 1)..(n - pos + m) : b[i] = t[i - (n - pos)]
    <3>1. /\ b \in PieceSeqs /\ Len(b) = Len(c) + m
          /\ \A i \in 1..Len(c) : b[i] = c[i]
          /\ \A i \in (Len(c) + 1)..(Len(c) + m) : b[i] = t[i - Len(c)]
      BY <2>3, PieceConcat, PieceAt DEF m
    <3>. HIDE DEF b
    <3>. QED
      BY <3>1, <2>3
  <2>. HIDE DEF b
  <2>5. ASSUME NEW i \in 1..Len(a) PROVE a[i] = b[i]
    <3>1. CASE i <= n - pos
      <4>1. pos + i \in 1..n /\ i \in 1..(n - pos) /\ i \in 1..(n + m - pos)
        BY <1>1, <1>2, <2>2, <3>1
      <4>. QED
        BY <4>1, <1>1, <2>2, <2>3, <2>4
    <3>2. CASE i > n - pos
      <4>1. /\ pos + i \in (n + 1)..(n + m) /\ i \in 1..(n + m - pos)
            /\ i \in (n - pos + 1)..(n - pos + m) /\ (pos + i) - n = i - (n - pos)
        BY <1>1, <1>2, <2>2, <3>2
      <4>2. a[i] = u[pos + i]
        BY <4>1, <2>2
      <4>3. u[pos + i] = t[(pos + i) - n]
        BY <4>1, <1>1
      <4>4. b[i] = t[i - (n - pos)]
        BY <4>1, <2>4
      <4>. QED
        BY <4>1, <4>2, <4>3, <4>4
    <3>. QED
      BY <3>1, <3>2, <1>1, <1>2, <2>2
  <2>6. a = b
    <3>1. Len(a) = Len(b)
      BY <2>2, <2>4, <1>1, <1>2
    <3>. QED
      BY <2>2, <2>4, <2>5, <3>1, PieceEqual
  <2>. QED
    BY <2>6 DEF a, b, c
<1>. QED
  BY <1>3, <1>4, <1>5 DEF u, n

\* The first line of pieces that begin as those of ls is the first of ls.
LEMMA FirstLine ==
    ASSUME NEW s \in PieceSeqs, NEW t \in PieceSeqs, NEW ls \in Seq(AllLines),
           Flat(ls) = s \o t, NEW pos, FirstEnd(s, pos)
    PROVE  /\ ls # <<>>
           /\ SubSeq(s, 1, pos - 1) = Text(Head(ls))
           /\ Flat(Tail(ls)) = SubSeq(s, pos + 1, Len(s)) \o t
<1>. DEFINE l == Head(ls)
            p == Pieces(l)
            r == Flat(Tail(ls))
            k == Size[l]
<1>1. pos \in 1..Len(s) /\ Len(s) \in Nat /\ Len(t) \in Nat
  BY PieceConcat DEF FirstEnd
<1>2. ls # <<>>
  <2>1. Len(s \o t) # 0
    BY <1>1, PieceConcat
  <2>2. Len(<<>>) = 0
    OBVIOUS
  <2>. QED
    BY <2>1, <2>2, FlatEmpty
<1>3. /\ l \in AllLines /\ Tail(ls) \in Seq(AllLines) /\ r \in PieceSeqs
      /\ Flat(ls) = p \o r
  BY <1>2, FlatFirst, FlatType
<1>4. /\ p \in PieceSeqs /\ k \in Nat /\ k > 1 /\ Len(p) = k
      /\ \A i \in 1..k : Newline(p[i]) <=> i = k
  BY <1>3, PiecesType
<1>. HIDE DEF l, p, r, k
<1>5. FirstEnd(p, k)
  BY <1>4 DEF FirstEnd
<1>6. /\ FirstEnd(p \o r, k)
      /\ SubSeq(p \o r, 1, k - 1) = SubSeq(p, 1, k - 1)
      /\ SubSeq(p \o r, k + 1, Len(p \o r)) = SubSeq(p, k + 1, Len(p)) \o r
  <2>1. p \in PieceSeqs /\ r \in PieceSeqs /\ FirstEnd(p, k)
    BY <1>3, <1>4, <1>5
  <2>. QED
    BY <2>1, FirstEndConcat
<1>7. /\ FirstEnd(s \o t, pos)
      /\ SubSeq(s \o t, 1, pos - 1) = SubSeq(s, 1, pos - 1)
      /\ SubSeq(s \o t, pos + 1, Len(s \o t)) = SubSeq(s, pos + 1, Len(s)) \o t
  BY FirstEndConcat
<1>8. pos = k
  <2>. DEFINE u == s \o t
  <2>1. FirstEnd(u, pos) /\ FirstEnd(u, k)
    BY <1>3, <1>6, <1>7
  <2>. HIDE DEF u
  <2>2. ~ (pos < k) /\ ~ (k < pos)
    BY <2>1, <1>1, <1>4 DEF FirstEnd
  <2>. QED
    BY <2>2, <1>1, <1>4
<1>9. SubSeq(s, 1, pos - 1) = Text(l)
  BY <1>3, <1>4, <1>6, <1>7, <1>8 DEF Text, Front, p
<1>10. SubSeq(p, k + 1, Len(p)) \o r = r
  <2>1. SubSeq(p, k + 1, Len(p)) = <<>>
    BY <1>4, SubSeqEmpty
  <2>. QED
    BY <2>1, <1>3, PieceConcat
<1>. QED
  BY <1>2, <1>3, <1>6, <1>7, <1>8, <1>9, <1>10 DEF l, r

-----------------------------------------------------------------------------
(***************************************************************************)
(* The lines in a sequence of pieces.                                      *)
(***************************************************************************)

\* f is the course of LinesIn: f[k] are the lines in the first k pieces.
Lists(s, f) ==
    /\ f \in [0..Len(s) -> Seq(AllLines)] /\ f[0] = <<>>
    /\ \A i \in 1..Len(s) :
           f[i] = IF Newline(s[i]) THEN Append(f[i - 1], s[i][1]) ELSE f[i - 1]

\* A prefix of r is a prefix of what is longer than r.
LEMMA PrefixAppend ==
    ASSUME NEW S, NEW q \in Seq(S), NEW r \in Seq(S), NEW e \in S, IsPrefix(q, r)
    PROVE  IsPrefix(q, Append(r, e))
<1>1. /\ Len(q) \in Nat /\ Len(r) \in Nat /\ Len(q) <= Len(r)
      /\ Append(r, e) \in Seq(S) /\ Len(Append(r, e)) = Len(r) + 1
      /\ \A i \in 1..Len(r) : Append(r, e)[i] = r[i]
  BY AppendProperties DEF IsPrefix
<1>. DEFINE n == Len(q)
            u == Append(r, e)
            a == SubSeq(r, 1, n)
            b == SubSeq(u, 1, n)
<1>2. 1 \in Int /\ n \in Int /\ (\A i \in 1..n : r[i] \in S /\ u[i] \in S /\ u[i] = r[i])
  BY <1>1
<1>. HIDE DEF n, u
<1>3. /\ a \in Seq(S) /\ Len(a) = IF 1 <= n THEN n - 1 + 1 ELSE 0
      /\ \A i \in 1..(n - 1 + 1) : a[i] = r[1 + i - 1]
  BY <1>2, SubSeqProperties
<1>4. /\ b \in Seq(S) /\ Len(b) = IF 1 <= n THEN n - 1 + 1 ELSE 0
      /\ \A i \in 1..(n - 1 + 1) : b[i] = u[1 + i - 1]
  BY <1>2, SubSeqProperties
<1>. HIDE DEF a, b
<1>5. \A i \in 1..Len(a) : a[i] = b[i]
  BY <1>1, <1>2, <1>3, <1>4 DEF n
<1>6. a = b
  BY <1>3, <1>4, <1>5, SeqEqual
<1>. QED
  BY <1>1, <1>6 DEF IsPrefix, a, b, n, u

\* LinesIn is the last value of its course.
LEMMA LinesCourse ==
    ASSUME NEW s \in PieceSeqs
    PROVE  \E f : Lists(s, f) /\ LinesIn(s) = f[Len(s)]
<1>. DEFINE n == Len(s)
            V == Seq(AllLines)
            G == [i \in 1..n |-> [v \in V |->
                     IF Newline(s[i]) THEN Append(v, s[i][1]) ELSE v]]
            b == <<>>
<1>1. n \in Nat /\ b \in V
  BY PieceConcat, EmptySeq
<1>2. \A i \in 1..n : s[i][1] \in AllLines
  BY PieceAt
<1>3. G \in [1..n -> [V -> V]]
  BY <1>2, AppendProperties
<1>4. \A i \in 1..n : \A v \in V :
          G[i][v] = IF Newline(s[i]) THEN Append(v, s[i][1]) ELSE v
  OBVIOUS
<1>. HIDE DEF G, b, n, V
<1>5. PICK f : IsCourse(n, V, b, G, f)
  BY <1>1, <1>3, Course
<1>6. f \in [0..n -> V] /\ f[0] = <<>>
  BY <1>5 DEF IsCourse, b
<1>7. ASSUME NEW i \in 1..n
      PROVE  f[i] = IF Newline(s[i]) THEN Append(f[i - 1], s[i][1]) ELSE f[i - 1]
  <2>1. i - 1 \in 0..n
    BY <1>1
  <2>2. f[i - 1] \in V
    BY <1>6, <2>1
  <2>3. f[i] = G[i][f[i - 1]]
    BY <1>5 DEF IsCourse
  <2>. QED
    BY <1>4, <2>2, <2>3
<1>8. Lists(s, f)
  BY <1>6, <1>7 DEF Lists, n, V
<1>. DEFINE e(k, g) == IF k = 0 THEN <<>>
                       ELSE IF Newline(s[k]) THEN Append(g[k - 1], s[k][1])
                       ELSE g[k - 1]
            h == CHOOSE g : g = [k \in 0..n |-> e(k, g)]
<1>9. f = [k \in 0..n |-> e(k, f)]
  <2>1. ASSUME NEW k \in 0..n PROVE f[k] = e(k, f)
    <3>1. CASE k = 0
      BY <3>1, <1>6
    <3>2. CASE k # 0
      <4>1. k \in 1..n
        BY <3>2, <1>1
      <4>. QED
        BY <4>1, <3>2, <1>7
    <3>. QED
      BY <3>1, <3>2
  <2>. HIDE DEF e
  <2>. QED
    BY <1>6, <2>1
<1>10. h = [k \in 0..n |-> e(k, h)]
  <2>. HIDE DEF e
  <2>. QED
    BY <1>9
<1>11. LinesIn(s) = h[n]
  BY DEF LinesIn, n
<1>. HIDE DEF h
<1>12. \A k \in 0..n : h[k] = e(k, h)
  <2>. HIDE DEF e
  <2>. QED
    BY <1>10
<1>. DEFINE T == {k \in 0..n : h[k] = f[k]}
<1>13. \A k \in 1..n : k - 1 \in T => k \in T
  <2>. SUFFICES ASSUME NEW k \in 1..n, k - 1 \in T PROVE k \in T
    OBVIOUS
  <2>1. k \in 0..n /\ k # 0
    BY <1>1
  <2>2. h[k] = IF Newline(s[k]) THEN Append(h[k - 1], s[k][1]) ELSE h[k - 1]
    BY <2>1, <1>12
  <2>3. h[k - 1] = f[k - 1]
    OBVIOUS
  <2>4. h[k] = f[k]
    BY <2>2, <2>3, <1>7
  <2>. QED
    BY <2>1, <2>4
<1>14. 0 \in T
  <2>1. 0 \in 0..n
    BY <1>1
  <2>2. h[0] = <<>>
    BY <2>1, <1>12
  <2>. QED
    BY <2>1, <2>2, <1>6
<1>15. n \in T
  <2>. HIDE DEF T
  <2>1. \A k \in 0..n : k \in T
    BY <1>1, <1>13, <1>14, UpTo
  <2>. QED
    BY <2>1, <1>1
<1>. QED
  BY <1>8, <1>11, <1>15 DEF n

\* LinesIn gives lines.
LEMMA LinesType ==
    ASSUME NEW s \in PieceSeqs
    PROVE  LinesIn(s) \in Seq(AllLines)
<1>1. PICK f : Lists(s, f) /\ LinesIn(s) = f[Len(s)]
  BY LinesCourse
<1>2. Len(s) \in 0..Len(s)
  BY PieceConcat
<1>. QED
  BY <1>1, <1>2 DEF Lists

\* No pieces, no lines.
LEMMA LinesEmpty == LinesIn(<<>>) = <<>>
<1>. DEFINE s == <<>>
<1>1. s \in PieceSeqs /\ Len(s) = 0
  BY EmptySeq DEF PieceSeqs
<1>. HIDE DEF s
<1>2. PICK f : Lists(s, f) /\ LinesIn(s) = f[Len(s)]
  BY <1>1, LinesCourse
<1>3. LinesIn(s) = <<>>
  BY <1>1, <1>2 DEF Lists
<1>. QED
  BY <1>3 DEF s

\* What follows adds lines behind those that are in s.
LEMMA LinesGrow ==
    ASSUME NEW s \in PieceSeqs, NEW t \in PieceSeqs
    PROVE  IsPrefix(LinesIn(s), LinesIn(s \o t))
<1>. DEFINE u == s \o t
            n == Len(s)
            m == Len(u)
<1>1. /\ u \in PieceSeqs /\ n \in Nat /\ m \in Nat /\ n <= m
      /\ \A i \in 1..n : u[i] = s[i]
  BY PieceConcat
<1>. HIDE DEF u
<1>2. PICK f : Lists(s, f) /\ LinesIn(s) = f[n]
  BY LinesCourse
<1>3. PICK g : Lists(u, g) /\ LinesIn(u) = g[m]
  BY <1>1, LinesCourse
<1>. HIDE DEF n, m
<1>4. /\ f[0] = <<>> /\ g[0] = <<>> /\ f \in [0..n -> Seq(AllLines)]
      /\ \A i \in 1..n :
           f[i] = IF Newline(s[i]) THEN Append(f[i - 1], s[i][1]) ELSE f[i - 1]
      /\ g \in [0..m -> Seq(AllLines)]
      /\ \A i \in 1..m :
           g[i] = IF Newline(u[i]) THEN Append(g[i - 1], u[i][1]) ELSE g[i - 1]
  BY <1>2, <1>3 DEF Lists, n, m
<1>. DEFINE T == {k \in 0..n : g[k] = f[k]}
<1>5. n \in T
  <2>1. 0 \in T
    BY <1>1, <1>4
  <2>2. ASSUME NEW k \in 1..n, k - 1 \in T PROVE k \in T
    <3>1. k \in 1..m /\ k \in 0..n /\ u[k] = s[k]
      BY <1>1
    <3>2. g[k - 1] = f[k - 1]
      BY <2>2
    <3>3. g[k] = f[k]
      BY <1>4, <3>1, <3>2
    <3>. QED
      BY <3>1, <3>3
  <2>3. \A k \in 1..n : k - 1 \in T => k \in T
    BY <2>2
  <2>. HIDE DEF T
  <2>4. \A k \in 0..n : k \in T
    BY <1>1, <2>1, <2>3, UpTo
  <2>. QED
    BY <2>4, <1>1
<1>6. f[n] = g[n] /\ f[n] \in Seq(AllLines)
  BY <1>5, <1>4, <1>1
<1>. DEFINE q == f[n]
            U == {k \in 0..m : n <= k => IsPrefix(q, g[k])}
<1>7. m \in U
  <2>0. IsPrefix(q, q)
    BY <1>6 DEF IsPrefix
  <2>1. 0 \in U
    <3>1. 0 \in 0..m
      BY <1>1
    <3>2. CASE n = 0
      BY <3>1, <3>2, <1>6, <2>0
    <3>3. CASE n # 0
      BY <3>1, <3>3, <1>1
    <3>. QED
      BY <3>2, <3>3
  <2>2. ASSUME NEW k \in 1..m, k - 1 \in U PROVE k \in U
    <3>. SUFFICES ASSUME n <= k PROVE IsPrefix(q, g[k])
      BY <1>1
    <3>1. CASE n = k
      BY <3>1, <1>6, <2>0
    <3>2. CASE n # k
      <4>1. n <= k - 1 /\ k - 1 \in 0..m
        BY <3>2, <1>1
      <4>2. IsPrefix(q, g[k - 1]) /\ g[k - 1] \in Seq(AllLines)
        BY <4>1, <2>2, <1>4
      <4>3. g[k] = g[k - 1] \/ g[k] = Append(g[k - 1], u[k][1])
        BY <1>4
      <4>4. u[k][1] \in AllLines
        BY <1>1, PieceAt DEF m
      <4>. QED
        BY <4>2, <4>3, <4>4, <1>6, PrefixAppend
    <3>. QED
      BY <3>1, <3>2
  <2>3. \A k \in 1..m : k - 1 \in U => k \in U
    BY <2>2
  <2>. HIDE DEF U
  <2>4. \A k \in 0..m : k \in U
    BY <1>1, <2>1, <2>3, UpTo
  <2>. QED
    BY <2>4, <1>1
<1>. QED
  BY <1>1, <1>2, <1>3, <1>7 DEF u

\* Without its first line s has the lines after the first.
LEMMA LinesRest ==
    ASSUME NEW s \in PieceSeqs, NEW pos, FirstEnd(s, pos)
    PROVE  /\ LinesIn(s) # <<>>
           /\ LinesIn(SubSeq(s, pos + 1, Len(s))) = Tail(LinesIn(s))
<1>. DEFINE u == SubSeq(s, pos + 1, Len(s))
            n == Len(s)
            m == n - pos
            l == s[pos][1]
<1>0. n \in Nat /\ pos \in 1..n /\ pos \in Nat /\ m \in Nat
  BY PieceConcat DEF FirstEnd
<1>1. /\ u \in PieceSeqs /\ Len(u) = m
      /\ \A i \in 1..m : u[i] = s[pos + i]
  <2>. DEFINE p == pos + 1
  <2>1. p \in 1..(n + 1) /\ n \in 0..n /\ p = pos + 1
    BY <1>0
  <2>. HIDE DEF p
  <2>2. /\ u \in PieceSeqs /\ Len(u) = IF p <= n THEN n - p + 1 ELSE 0
        /\ \A i \in 1..(n - p + 1) : u[i] = s[p + i - 1]
    BY <2>1, PieceSub DEF p
  <2>. HIDE DEF u
  <2>. QED
    BY <1>0, <2>1, <2>2
<1>2. l \in AllLines
  BY <1>0, PieceAt
<1>. HIDE DEF u
<1>3. PICK f : Lists(s, f) /\ LinesIn(s) = f[n]
  BY LinesCourse
<1>4. PICK g : Lists(u, g) /\ LinesIn(u) = g[m]
  BY <1>1, LinesCourse
<1>5. /\ f[0] = <<>> /\ g[0] = <<>>
      /\ \A i \in 1..n :
           f[i] = IF Newline(s[i]) THEN Append(f[i - 1], s[i][1]) ELSE f[i - 1]
      /\ g \in [0..m -> Seq(AllLines)]
      /\ \A i \in 1..m :
           g[i] = IF Newline(u[i]) THEN Append(g[i - 1], u[i][1]) ELSE g[i - 1]
  BY <1>1, <1>3, <1>4 DEF Lists
<1>. HIDE DEF n, l
<1>. DEFINE T == {k \in 0..(pos - 1) : f[k] = <<>>}
<1>6. f[pos - 1] = <<>>
  <2>1. 0 \in T
    BY <1>0, <1>5
  <2>2. ASSUME NEW k \in 1..(pos - 1), k - 1 \in T PROVE k \in T
    <3>1. k \in 1..n /\ ~ Newline(s[k]) /\ k \in 0..(pos - 1)
      BY <1>0 DEF FirstEnd
    <3>2. f[k] = f[k - 1]
      BY <3>1, <1>5
    <3>. QED
      BY <3>1, <3>2, <2>2
  <2>3. \A k \in 1..(pos - 1) : k - 1 \in T => k \in T
    BY <2>2
  <2>. DEFINE e == pos - 1
  <2>5. e \in Nat
    BY <1>0
  <2>4. \A k \in 0..e : k \in T
    <3>1. \A k \in 1..e : k - 1 \in T => k \in T
      BY <2>3
    <3>. HIDE DEF T, e
    <3>. QED
      BY <2>1, <2>5, <3>1, UpTo
  <2>. QED
    BY <2>4, <2>5
<1>7. f[pos] = <<l>>
  <2>1. Newline(s[pos])
    BY DEF FirstEnd
  <2>2. f[pos] = Append(f[pos - 1], l)
    BY <2>1, <1>0, <1>5 DEF l
  <2>. QED
    BY <2>2, <1>6
<1>. DEFINE U == {k \in 0..m : f[pos + k] = <<l>> \o g[k]}
<1>8. m \in U
  <2>1. 0 \in U
    <3>1. 0 \in 0..m /\ pos + 0 = pos
      BY <1>0
    <3>2. <<l>> \o <<>> = <<l>>
      OBVIOUS
    <3>. QED
      BY <3>1, <3>2, <1>5, <1>7
  <2>2. ASSUME NEW k \in 1..m, k - 1 \in U PROVE k \in U
    <3>1. /\ pos + k \in 1..n /\ k \in 0..m /\ k - 1 \in 0..m
          /\ (pos + k) - 1 = pos + (k - 1)
      BY <1>0
    <3>. DEFINE v == g[k - 1]
                w == f[pos + (k - 1)]
                x == s[pos + k]
    <3>2. u[k] = x /\ v \in Seq(AllLines) /\ w = <<l>> \o v
      BY <1>1, <1>5, <2>2, <3>1
    <3>3. x[1] \in AllLines
      BY <3>1, PieceAt DEF n
    <3>4. /\ f[pos + k] = IF Newline(x) THEN Append(w, x[1]) ELSE w
          /\ g[k] = IF Newline(x) THEN Append(v, x[1]) ELSE v
      BY <1>5, <3>1, <3>2
    <3>. HIDE DEF v, w, x
    <3>5. Append(w, x[1]) = <<l>> \o Append(v, x[1])
      <4>. DEFINE y == <<l>>
                  z == x[1]
                  zz == <<z>>
      <4>1. y \in Seq(AllLines) /\ zz \in Seq(AllLines) /\ z \in AllLines
        BY <1>2, <3>3
      <4>. HIDE DEF y, z
      <4>2. y \o v \in Seq(AllLines) /\ w = y \o v
        BY <4>1, <3>2, ConcatProperties DEF y
      <4>3. Append(w, z) = (y \o v) \o zz /\ Append(v, z) = v \o zz
        BY <4>1, <4>2, <3>2, AppendIsConcat
      <4>. HIDE DEF zz
      <4>4. (y \o v) \o zz = y \o (v \o zz)
        <5>1. y \in Seq(AllLines) /\ zz \in Seq(AllLines) /\ v \in Seq(AllLines)
          BY <4>1, <3>2
        <5>. QED
          BY <5>1, ConcatAssociative
      <4>. QED
        BY <4>3, <4>4 DEF y, z
    <3>. QED
      BY <3>1, <3>2, <3>4, <3>5
  <2>3. \A k \in 1..m : k - 1 \in U => k \in U
    BY <2>2
  <2>. HIDE DEF U, m
  <2>4. \A k \in 0..m : k \in U
    BY <1>0, <2>1, <2>3, UpTo
  <2>. QED
    BY <2>4, <1>0
<1>9. LinesIn(s) = <<l>> \o LinesIn(u)
  BY <1>0, <1>3, <1>4, <1>8
<1>10. LinesIn(u) \in Seq(AllLines)
  BY <1>1, LinesType
<1>11. LinesIn(s) # <<>> /\ Tail(LinesIn(s)) = LinesIn(u)
  BY <1>2, <1>9, <1>10
<1>. QED
  BY <1>11 DEF u, n

-----------------------------------------------------------------------------
(***************************************************************************)
(* The type invariant, and what the steps do to the lines of their object. *)
(***************************************************************************)

\* What the other variables hold.
Data ==
    /\ printed \in Nat /\ inherited \in [Objects -> Nat]
    /\ buffer \in [Objects -> PieceSeqs] /\ flush \in [Objects -> PieceSeqs]
    /\ sock \in [Objects -> PieceSeqs] /\ left \in [Objects -> Nat]
    /\ sent \in [Objects -> Seq(AllLines)] /\ got \in [Objects -> Seq(PieceSeqs)]
    /\ \A o \in Objects :
           /\ left[o] <= Len(flush[o]) /\ Len(sock[o]) <= Room
           /\ obj[o] = "none" =>
                  /\ buffer[o] = <<>> /\ flush[o] = <<>> /\ sock[o] = <<>>
                  /\ left[o] = 0 /\ sent[o] = <<>> /\ got[o] = <<>>
                  /\ term[o] = "none"

dataVars == <<printed, inherited, buffer, flush, sock, left, sent, got>>

\* A step that touches none of these variables keeps Data.
LEMMA DataStutter ==
    ASSUME Data, UNCHANGED <<dataVars, obj, term>>
    PROVE  Data'
BY DEF Data, dataVars

\* A new object begins with nothing.
LEMMA CreateData ==
    ASSUME Holdings, Data, NEW o \in Objects,
           NoSocketPair(o) \/ NoFork(o) \/ NoFcntl(o) \/ Ready(o)
    PROVE  Data'
<1>0. printed \in Nat /\ inherited \in [Objects -> Nat]
  BY DEF Data
<1>1. /\ UNCHANGED <<buffer, flush, left, term, sock, sent, got>>
      /\ obj' = [obj EXCEPT ![o] = "made"]
      /\ printed' \in Nat /\ inherited' \in [Objects -> Nat]
  <2>1. CASE NoSocketPair(o)
    BY <1>0, <2>1 DEF NoSocketPair, Create
  <2>2. CASE NoFork(o)
    BY <1>0, <2>2 DEF NoFork, Create
  <2>3. CASE NoFcntl(o)
    BY <1>0, <2>3 DEF NoFcntl, Create, Forked
  <2>4. CASE Ready(o)
    BY <1>0, <2>4 DEF Ready, Create, Forked
  <2>. QED
    BY <2>1, <2>2, <2>3, <2>4
<1>2. \A q \in Objects : obj'[q] = "none" => obj[q] = "none"
  BY <1>1 DEF Holdings
<1>. QED
  BY <1>1, <1>2 DEF Data

\* TakeLine keeps all it was given, or returns what is before the first
\* newline and keeps what is behind it.
LEMMA TakeLineType ==
    ASSUME Data, NEW o \in Objects, NEW buf \in PieceSeqs, TakeLine(o, buf)
    PROVE  /\ buffer' \in [Objects -> PieceSeqs]
           /\ got' \in [Objects -> Seq(PieceSeqs)]
           /\ \A q \in Objects : q # o => buffer'[q] = buffer[q] /\ got'[q] = got[q]
           /\ \/ buffer'[o] = buf /\ got'[o] = got[o]
              \/ \E pos : /\ FirstEnd(buf, pos)
                          /\ buffer'[o] = SubSeq(buf, pos + 1, Len(buf))
                          /\ got'[o] = Append(got[o], SubSeq(buf, 1, pos - 1))
<1>. DEFINE pos == SelectInSeq(buf, Newline)
<1>0. got \in [Objects -> Seq(PieceSeqs)] /\ buffer \in [Objects -> PieceSeqs]
  BY DEF Data
<1>1. CASE pos = 0
  <2>1. buffer' = [buffer EXCEPT ![o] = buf] /\ got' = got
    BY <1>1 DEF TakeLine
  <2>. QED
    BY <2>1, <1>0
<1>2. CASE pos # 0
  <2>. DEFINE a == SubSeq(buf, pos + 1, Len(buf))
              b == SubSeq(buf, 1, pos - 1)
  <2>1. FirstEnd(buf, pos)
    BY <1>2, Found
  <2>2. buffer' = [buffer EXCEPT ![o] = a] /\ got' = [got EXCEPT ![o] = Append(@, b)]
    BY <1>2 DEF TakeLine
  <2>. HIDE DEF pos
  <2>3. a \in PieceSeqs /\ b \in PieceSeqs
    <3>1. Len(buf) \in Nat /\ pos \in 1..Len(buf)
      BY <2>1, PieceConcat DEF FirstEnd
    <3>2. /\ pos + 1 \in 1..(Len(buf) + 1) /\ Len(buf) \in 0..Len(buf)
          /\ 1 \in 1..(Len(buf) + 1) /\ pos - 1 \in 0..Len(buf)
      BY <3>1
    <3>. QED
      BY <3>2, PieceSub
  <2>4. /\ FirstEnd(buf, pos) /\ buffer'[o] = a
        /\ got'[o] = Append(got[o], b)
    BY <2>1, <2>2, <1>0
  <2>5. buffer' \in [Objects -> PieceSeqs] /\ got' \in [Objects -> Seq(PieceSeqs)]
    <3>. HIDE DEF a, b
    <3>1. Append(got[o], b) \in Seq(PieceSeqs)
      BY <2>3, <1>0, AppendProperties
    <3>. QED
      BY <2>2, <2>3, <3>1, <1>0
  <2>6. \A q \in Objects : q # o => buffer'[q] = buffer[q] /\ got'[q] = got[q]
    BY <2>2, <1>0
  <2>. QED
    BY <2>4, <2>5, <2>6
<1>. QED
  BY <1>1, <1>2

\* What a poll that reads something reads, and leaves.
LEMMA ReadCut ==
    ASSUME Data, NEW o \in Objects, PollData(o)
    PROVE  \E a, b \in PieceSeqs :
               /\ a \o b = sock[o] /\ TakeLine(o, buffer[o] \o a)
               /\ sock' = [sock EXCEPT ![o] = b]
<1>. DEFINE s == sock[o]
            n == Len(s)
            r == IF n < Chunk THEN n ELSE Chunk
            a == SubSeq(s, 1, r)
            b == SubSeq(s, r + 1, n)
<1>1. s \in PieceSeqs /\ n \in Nat
  BY PieceConcat DEF Data
<1>2. r \in 0..n
  BY <1>1, SizeAssumption
<1>3. /\ TakeLine(o, buffer[o] \o a)
      /\ sock' = [sock EXCEPT ![o] = b]
  BY DEF PollData, Data
<1>. HIDE DEF s, r
<1>4. 1 \in 1..(n + 1) /\ r + 1 \in 1..(n + 1) /\ n \in 0..n /\ r \in Nat /\ n >= r
  BY <1>1, <1>2
<1>5. /\ a \in PieceSeqs /\ Len(a) = r
      /\ \A i \in 1..r : a[i] = s[i]
  <2>1. /\ a \in PieceSeqs /\ Len(a) = IF 1 <= r THEN r - 1 + 1 ELSE 0
        /\ \A i \in 1..(r - 1 + 1) : a[i] = s[1 + i - 1]
    BY <1>1, <1>2, <1>4, PieceSub
  <2>. HIDE DEF a
  <2>. QED
    BY <2>1, <1>4
<1>6. /\ b \in PieceSeqs /\ Len(b) = n - r
      /\ \A i \in 1..(n - r) : b[i] = s[r + i]
  <2>. DEFINE p == r + 1
  <2>0. p \in 1..(n + 1) /\ p = r + 1
    BY <1>4
  <2>. HIDE DEF p
  <2>1. /\ b \in PieceSeqs /\ Len(b) = IF p <= n THEN n - p + 1 ELSE 0
        /\ \A i \in 1..(n - p + 1) : b[i] = s[p + i - 1]
    BY <1>1, <1>4, <2>0, PieceSub DEF p
  <2>. HIDE DEF b, n
  <2>. QED
    BY <2>1, <2>0, <1>4
<1>7. a \o b = s
  <2>. HIDE DEF a, b
  <2>. DEFINE c == a \o b
  <2>1. /\ c \in PieceSeqs /\ Len(c) = Len(a) + Len(b)
        /\ \A i \in 1..Len(a) : c[i] = a[i]
        /\ \A i \in (Len(a) + 1)..(Len(a) + Len(b)) : c[i] = b[i - Len(a)]
    BY <1>5, <1>6, PieceConcat, PieceAt
  <2>. HIDE DEF c
  <2>2. Len(c) = n
    BY <2>1, <1>4, <1>5, <1>6
  <2>3. ASSUME NEW i \in 1..n PROVE c[i] = s[i]
    <3>1. CASE i <= r
      BY <3>1, <1>4, <1>5, <2>1
    <3>2. CASE i > r
      <4>1. i \in (Len(a) + 1)..(Len(a) + Len(b)) /\ i - r \in 1..(n - r) /\ r + (i - r) = i
        BY <3>2, <1>4, <1>5, <1>6
      <4>2. c[i] = b[i - r]
        BY <4>1, <2>1, <1>5
      <4>3. b[i - r] = s[r + (i - r)]
        BY <4>1, <1>6
      <4>. QED
        BY <4>1, <4>2, <4>3
    <3>. QED
      BY <3>1, <3>2, <1>4
  <2>4. c = s
    BY <2>1, <2>2, <2>3, <1>1, PieceEqual DEF n
  <2>. QED
    BY <2>4 DEF c
<1>. QED
  <2>. HIDE DEF a, b
  <2>. QED
    BY <1>3, <1>5, <1>6, <1>7 DEF s

\* What the child has yet to write are the last pieces of its flush.
LEMMA UnwrittenType ==
    ASSUME Data, NEW o \in Objects
    PROVE  /\ Unwritten(o) \in PieceSeqs /\ Len(Unwritten(o)) = left[o]
           /\ InFlight(o) \in PieceSeqs
<1>. DEFINE f == flush[o]
            n == Len(f)
            k == left[o]
            p == n - k + 1
<1>1. /\ f \in PieceSeqs /\ n \in Nat /\ k \in Nat /\ k <= n
      /\ buffer[o] \in PieceSeqs /\ sock[o] \in PieceSeqs
  BY PieceConcat DEF Data
<1>. HIDE DEF f, k
<1>2. p \in 1..(n + 1) /\ n \in 0..n
  BY <1>1
<1>3. SubSeq(f, p, n) \in PieceSeqs /\ Len(SubSeq(f, p, n)) = IF p <= n THEN n - p + 1 ELSE 0
  <2>. HIDE DEF p
  <2>. QED
    BY <1>1, <1>2, PieceSub
<1>4. Unwritten(o) = SubSeq(f, p, n)
  BY DEF Unwritten, f, k
<1>5. Len(Unwritten(o)) = k
  <2>. HIDE DEF n
  <2>. QED
    BY <1>1, <1>3, <1>4
<1>6. InFlight(o) \in PieceSeqs
  <2>. HIDE DEF p, n
  <2>. QED
    BY <1>1, <1>3, <1>4, PieceConcat DEF InFlight
<1>. QED
  BY <1>3, <1>4, <1>5, <1>6 DEF k

\* What a step may do to the lines of an object o: pass them on ...
Carried(o) ==
    /\ InFlight(o)' = InFlight(o) /\ sent'[o] = sent[o] /\ got'[o] = got[o]

\* ... return the first ...
Returned(o) ==
    /\ sent'[o] = sent[o]
    /\ \E pos : /\ FirstEnd(InFlight(o), pos)
                /\ InFlight(o)' = SubSeq(InFlight(o), pos + 1, Len(InFlight(o)))
                /\ got'[o] = Append(got[o], SubSeq(InFlight(o), 1, pos - 1))

\* ... add some at the end ...
Added(o) ==
    /\ got'[o] = got[o]
    /\ \E all \in Seq(AllLines) :
           InFlight(o)' = InFlight(o) \o Flat(all) /\ sent'[o] = sent[o] \o all

\* ... or lose the end.
Lost(o) ==
    /\ sent'[o] = sent[o] /\ got'[o] = got[o]
    /\ \E rest \in PieceSeqs : InFlight(o) = InFlight(o)' \o rest

\* What an object knows of itself.
Status(o) == <<obj[o], st[o], child[o], term[o] = "handled">>

\* A step leaves the lines of an object and its status alone.
Apart(o) == UNCHANGED <<Status(o), InFlight(o), sent[o], got[o]>>

\* A poll passes everything on or returns the first line.
LEMMA PollSteps ==
    ASSUME Holdings, Data, NEW o \in Objects, PollData(o) \/ PollNothing(o)
    PROVE  /\ Data'
           /\ obj[o] = "made" /\ st[o] = "READY" /\ UNCHANGED <<obj, st, child, term>>
           /\ Carried(o) \/ Returned(o)
           /\ \A q \in Objects : q # o => Apart(q)
<1>. DEFINE w == Unwritten(o)
<1>0. /\ obj[o] = "made" /\ st[o] = "READY" /\ UNCHANGED <<obj, st, child, term>>
      /\ UNCHANGED <<printed, inherited, flush, left, sent>>
  BY DEF PollData, PollNothing, PollUnchanged, childVars
<1>1. \E a, b \in PieceSeqs :
          /\ a \o b = sock[o] /\ TakeLine(o, buffer[o] \o a)
          /\ sock' = [sock EXCEPT ![o] = b]
  <2>1. CASE PollData(o)
    BY <2>1, ReadCut
  <2>2. CASE PollNothing(o)
    <3>. DEFINE e == <<>>
    <3>1. /\ e \in PieceSeqs /\ e \o e = e /\ buffer[o] \o e = buffer[o]
          /\ sock[o] = e /\ sock \in [Objects -> PieceSeqs]
      BY <2>2, PieceConcat, EmptySeq DEF Data, PollNothing, PieceSeqs
    <3>2. TakeLine(o, buffer[o] \o e) /\ sock' = sock
      BY <2>2, <3>1 DEF PollNothing
    <3>. HIDE DEF e
    <3>3. sock' = [sock EXCEPT ![o] = e]
      BY <3>1, <3>2
    <3>. QED
      BY <3>1, <3>2, <3>3
  <2>. QED
    BY <2>1, <2>2
<1>2. PICK a \in PieceSeqs, b \in PieceSeqs :
          /\ a \o b = sock[o] /\ TakeLine(o, buffer[o] \o a)
          /\ sock' = [sock EXCEPT ![o] = b]
  BY <1>1
<1>. DEFINE buf == buffer[o] \o a
<1>3. /\ buffer[o] \in PieceSeqs /\ buf \in PieceSeqs /\ w \in PieceSeqs
      /\ b \o w \in PieceSeqs /\ sock \in [Objects -> PieceSeqs]
  BY PieceConcat, UnwrittenType DEF Data
<1>4. InFlight(o) = buf \o (b \o w)
  <2>1. (buffer[o] \o (a \o b)) \o w = ((buffer[o] \o a) \o b) \o w
    BY <1>3, PieceAssoc
  <2>2. (buf \o b) \o w = buf \o (b \o w)
    BY <1>3, PieceAssoc
  <2>. QED
    BY <1>2, <2>1, <2>2 DEF InFlight
<1>. HIDE DEF buf
<1>5. /\ buffer' \in [Objects -> PieceSeqs]
      /\ got' \in [Objects -> Seq(PieceSeqs)]
      /\ \A q \in Objects : q # o => buffer'[q] = buffer[q] /\ got'[q] = got[q]
      /\ \/ buffer'[o] = buf /\ got'[o] = got[o]
         \/ \E pos : /\ FirstEnd(buf, pos)
                     /\ buffer'[o] = SubSeq(buf, pos + 1, Len(buf))
                     /\ got'[o] = Append(got[o], SubSeq(buf, 1, pos - 1))
  BY <1>2, <1>3, TakeLineType DEF buf
<1>6. \A q \in Objects : Unwritten(q)' = Unwritten(q)
  BY <1>0 DEF Unwritten
<1>7. sock' \in [Objects -> PieceSeqs] /\ sock'[o] = b
      /\ \A q \in Objects : q # o => sock'[q] = sock[q]
  BY <1>2, <1>3
<1>8. InFlight(o)' = (buffer'[o] \o b) \o w
  BY <1>6, <1>7 DEF InFlight
<1>9. Carried(o) \/ Returned(o)
  <2>1. CASE buffer'[o] = buf /\ got'[o] = got[o]
    <3>1. (buf \o b) \o w = buf \o (b \o w)
      BY <1>3, PieceAssoc
    <3>. QED
      BY <2>1, <3>1, <1>0, <1>4, <1>8 DEF Carried
  <2>2. ASSUME NEW pos, FirstEnd(buf, pos),
               buffer'[o] = SubSeq(buf, pos + 1, Len(buf)),
               got'[o] = Append(got[o], SubSeq(buf, 1, pos - 1))
        PROVE  Returned(o)
    <3>. DEFINE c == SubSeq(buf, pos + 1, Len(buf))
                d == b \o w
    <3>1. c \in PieceSeqs /\ d \in PieceSeqs
      BY <1>3, <1>5, <2>2
    <3>. HIDE DEF d
    <3>0. /\ buf \in PieceSeqs /\ d \in PieceSeqs /\ FirstEnd(buf, pos)
          /\ b \in PieceSeqs /\ w \in PieceSeqs
      BY <1>3, <2>2, <3>1
    <3>2. /\ FirstEnd(buf \o d, pos)
          /\ SubSeq(buf \o d, 1, pos - 1) = SubSeq(buf, 1, pos - 1)
          /\ SubSeq(buf \o d, pos + 1, Len(buf \o d)) = c \o d
      BY <3>0, FirstEndConcat
    <3>. HIDE DEF c, w
    <3>3. (c \o b) \o w = c \o (b \o w)
      <4>1. c \in PieceSeqs
        BY <3>1
      <4>. QED
        BY <3>0, <4>1, PieceAssoc
    <3>4. InFlight(o)' = c \o d
      BY <1>8, <2>2, <3>3 DEF c, d
    <3>5. InFlight(o) = buf \o d
      BY <1>4 DEF d
    <3>. QED
      BY <1>0, <2>2, <3>2, <3>4, <3>5 DEF Returned
  <2>. QED
    BY <1>5, <2>1, <2>2
<1>10. ASSUME NEW q \in Objects, q # o PROVE Apart(q)
  <2>1. InFlight(q)' = InFlight(q)
    BY <1>5, <1>6, <1>7, <1>10 DEF InFlight
  <2>. QED
    BY <1>0, <1>5, <1>10, <2>1 DEF Apart, Status
<1>11. Data'
  <2>1. Len(b) <= Len(sock[o])
    <3>1. Len(a \o b) = Len(a) + Len(b) /\ Len(a) \in Nat /\ Len(b) \in Nat
      BY PieceConcat
    <3>. QED
      BY <1>2, <3>1
  <2>2. Len(sock[o]) <= Room /\ Len(sock[o]) \in Nat /\ Len(b) \in Nat
    BY <1>3, PieceConcat DEF Data
  <2>3. \A q \in Objects : Len(sock'[q]) <= Room
    BY <1>7, <2>1, <2>2, SizeAssumption DEF Data
  <2>4. \A q \in Objects : obj[q] = "none" => q # o
    BY <1>0
  <2>. QED
    BY <1>0, <1>5, <1>7, <2>3, <2>4 DEF Data
<1>. QED
  BY <1>0, <1>9, <1>10, <1>11

\* Every flush, also the one in a signal handler, on top of another.
LEMMA FlushData ==
    ASSUME Data, NEW o \in Objects, NEW rest \in PieceSeqs,
           NEW ls \in Seq(AllLines), Flush(o, rest, ls), obj[o] # "none",
           UNCHANGED <<printed, obj, buffer, sock, got>>,
           \A q \in Objects : q # o => term'[q] = term[q]
    PROVE  /\ Data'
           /\ \E all \in Seq(AllLines) :
                  /\ flush'[o] = rest \o Flat(all) /\ left'[o] = Len(flush'[o])
                  /\ sent'[o] = sent[o] \o all
           /\ \A q \in Objects : q # o =>
                  UNCHANGED <<InFlight(q), sent[q], got[q]>>
<1>. DEFINE all == Unflushed(o) \o ls
            f   == Flat(all)
            fl  == rest \o f
<1>1. all \in Seq(AllLines)
  <2>1. inherited[o] \in Nat /\ Notice \in AllLines
    BY DEF Data, AllLines
  <2>2. Unflushed(o) \in Seq(AllLines)
    BY <2>1 DEF Unflushed, Notices
  <2>. QED
    BY <2>2, ConcatProperties
<1>2. f \in PieceSeqs
  BY <1>1, FlatType
<1>3. /\ flush' = [flush EXCEPT ![o] = fl]
      /\ left' = [left EXCEPT ![o] = Len(rest) + Len(f)]
      /\ sent' = [sent EXCEPT ![o] = @ \o all]
      /\ inherited' = [inherited EXCEPT ![o] = 0]
  BY DEF Flush
<1>. HIDE DEF all, f
<1>4. fl \in PieceSeqs /\ Len(fl) = Len(rest) + Len(f) /\ Len(fl) \in Nat
  BY <1>2, PieceConcat
<1>. HIDE DEF fl
<1>5. /\ flush \in [Objects -> PieceSeqs] /\ left \in [Objects -> Nat]
      /\ sent \in [Objects -> Seq(AllLines)] /\ inherited \in [Objects -> Nat]
  BY DEF Data
<1>6. sent[o] \o all \in Seq(AllLines)
  BY <1>1, <1>5, ConcatProperties
<1>7. /\ flush' \in [Objects -> PieceSeqs] /\ left' \in [Objects -> Nat]
      /\ sent' \in [Objects -> Seq(AllLines)] /\ inherited' \in [Objects -> Nat]
      /\ flush'[o] = fl /\ left'[o] = Len(fl) /\ sent'[o] = sent[o] \o all
      /\ \A q \in Objects : q # o =>
             flush'[q] = flush[q] /\ left'[q] = left[q] /\ sent'[q] = sent[q]
  BY <1>3, <1>4, <1>5, <1>6
<1>8. Data'
  <2>1. \A q \in Objects : left'[q] <= Len(flush'[q])
    <3>. SUFFICES ASSUME NEW q \in Objects PROVE left'[q] <= Len(flush'[q])
      OBVIOUS
    <3>1. CASE q = o
      BY <3>1, <1>4, <1>7
    <3>2. CASE q # o
      BY <3>2, <1>7 DEF Data
    <3>. QED
      BY <3>1, <3>2
  <2>. QED
    BY <1>7, <2>1 DEF Data
<1>9. ASSUME NEW q \in Objects, q # o
      PROVE  UNCHANGED <<InFlight(q), sent[q], got[q]>>
  BY <1>7, <1>9 DEF InFlight, Unwritten
<1>10. flush'[o] = rest \o Flat(all) /\ left'[o] = Len(flush'[o])
  BY <1>7 DEF fl, f
<1>. QED
  BY <1>1, <1>7, <1>8, <1>9, <1>10

\* A flush that follows no other adds its lines.
LEMMA FlushAdds ==
    ASSUME Data, NEW o \in Objects, left[o] = 0,
           NEW ls \in Seq(AllLines), Flush(o, <<>>, ls), obj[o] # "none",
           UNCHANGED <<printed, obj, buffer, sock, got, term>>
    PROVE  /\ Data' /\ Added(o)
           /\ \A q \in Objects : q # o =>
                  UNCHANGED <<InFlight(q), sent[q], got[q]>>
<1>. DEFINE rest == <<>>
<1>1. rest \in PieceSeqs /\ \A s \in PieceSeqs : s \o rest = s /\ rest \o s = s
  BY PieceConcat, EmptySeq DEF PieceSeqs
<1>. HIDE DEF rest
<1>2. Flush(o, rest, ls)
  BY DEF rest
<1>3. /\ Data'
      /\ \E all \in Seq(AllLines) :
             /\ flush'[o] = rest \o Flat(all) /\ left'[o] = Len(flush'[o])
             /\ sent'[o] = sent[o] \o all
      /\ \A q \in Objects : q # o => UNCHANGED <<InFlight(q), sent[q], got[q]>>
  BY <1>1, <1>2, FlushData
<1>4. PICK all \in Seq(AllLines) :
          /\ flush'[o] = rest \o Flat(all) /\ left'[o] = Len(flush'[o])
          /\ sent'[o] = sent[o] \o all
  BY <1>3
<1>. DEFINE f == Flat(all)
<1>5. /\ f \in PieceSeqs /\ Len(f) \in Nat /\ flush'[o] = f /\ left'[o] = Len(f)
      /\ flush[o] \in PieceSeqs /\ Len(flush[o]) \in Nat
      /\ buffer[o] \in PieceSeqs /\ sock[o] \in PieceSeqs
  BY <1>1, <1>4, FlatType, PieceConcat DEF Data
<1>. HIDE DEF f
<1>6. Unwritten(o) = rest
  BY <1>5, SubSeqEmpty DEF Unwritten, rest
<1>7. Unwritten(o)' = f
  <2>1. f \in Seq(AllLines \X Nat)
    BY <1>5 DEF PieceSeqs
  <2>2. SubSeq(f, 1, Len(f)) = f
    BY <2>1, SubSeqFull
  <2>3. Unwritten(o)' = SubSeq(f, (Len(f) - Len(f)) + 1, Len(f))
    BY <1>5 DEF Unwritten
  <2>4. (Len(f) - Len(f)) + 1 = 1
    BY <1>5
  <2>. QED
    BY <2>2, <2>3, <2>4
<1>8. InFlight(o)' = InFlight(o) \o f
  <2>. DEFINE s == buffer[o] \o sock[o]
  <2>1. s \in PieceSeqs /\ s \o rest = s
    BY <1>1, <1>5, PieceConcat
  <2>2. InFlight(o) = s /\ InFlight(o)' = s \o f
    BY <1>6, <1>7, <2>1 DEF InFlight
  <2>. QED
    BY <2>2
<1>9. Added(o)
  BY <1>4, <1>8 DEF Added, f
<1>. QED
  BY <1>3, <1>9

\* A line composed, or what exit flushes, comes after everything else.
LEMMA ComposeSteps ==
    ASSUME Holdings, Data, NEW o \in Objects,
           Exit(o) \/ \E l \in Lines : Compose(o, l)
    PROVE  /\ Data' /\ Added(o)
           /\ child[o] = "running" /\ child'[o] \in {"running", "exiting"}
           /\ UNCHANGED <<obj, st, term>>
           /\ \A q \in Objects : q # o => Apart(q)
<1>1. /\ child[o] = "running" /\ left[o] = 0 /\ obj[o] # "none"
      /\ \E to \in {"running", "exiting"} : child' = [child EXCEPT ![o] = to]
      /\ UNCHANGED <<printed, obj, buffer, sock, got, term, st>>
  <2>1. child[o] = "running" => obj[o] # "none"
    BY DEF Holdings
  <2>2. CASE Exit(o)
    BY <2>1, <2>2 DEF Exit, ChildStep, objVars
  <2>3. CASE \E l \in Lines : Compose(o, l)
    BY <2>1, <2>3 DEF Compose, ChildStep, objVars
  <2>. QED
    BY <2>2, <2>3
<1>2. \E ls \in Seq(AllLines) : Flush(o, <<>>, ls)
  <2>1. <<>> \in Seq(AllLines) /\ \A l \in Lines : <<l>> \in Seq(AllLines)
    BY EmptySeq DEF AllLines
  <2>. QED
    BY <2>1 DEF Exit, Compose
<1>3. /\ child'[o] \in {"running", "exiting"}
      /\ \A q \in Objects : q # o => child'[q] = child[q]
  BY <1>1 DEF Holdings
<1>4. /\ Data' /\ Added(o)
      /\ \A q \in Objects : q # o => UNCHANGED <<InFlight(q), sent[q], got[q]>>
  BY <1>1, <1>2, FlushAdds
<1>. QED
  BY <1>1, <1>3, <1>4 DEF Apart, Status

\* The kernel moves a piece from the flush to the socket.
LEMMA WriteSteps ==
    ASSUME Holdings, Data, NEW o \in Objects, Write(o)
    PROVE  /\ Data' /\ Carried(o) /\ UNCHANGED <<obj, st, term, child>>
           /\ \A q \in Objects : q # o => Apart(q)
<1>. DEFINE f == flush[o]
            n == Len(f)
            k == left[o]
            w == Unwritten(o)
            p == n - k + 1
            x == f[p]
            v == SubSeq(f, p + 1, n)
<1>1. /\ UNCHANGED <<objVars, printed, got, inherited, flush, term, sent>>
      /\ child' = [child EXCEPT ![o] = child[o]] /\ child[o] \in {"running", "exiting"}
      /\ left[o] # 0 /\ Len(sock[o]) < Room
      /\ sock' = [sock EXCEPT ![o] = Append(@, Head(w))]
      /\ left' = [left EXCEPT ![o] = @ - 1]
  BY DEF Write, ChildStep
<1>2. /\ f \in PieceSeqs /\ n \in Nat /\ k \in Nat /\ k <= n /\ k # 0
      /\ sock \in [Objects -> PieceSeqs] /\ left \in [Objects -> Nat]
      /\ sock[o] \in PieceSeqs /\ buffer[o] \in PieceSeqs /\ w \in PieceSeqs
      /\ Len(sock[o]) \in Nat
  BY <1>1, PieceConcat, UnwrittenType DEF Data
<1>3. p \in 1..n /\ p + 1 \in 1..(n + 1) /\ n \in p..n /\ n \in 0..n
  BY <1>2
<1>4. w = SubSeq(f, p, n)
  BY DEF Unwritten
<1>5. /\ Head(w) = x /\ w = <<x>> \o v /\ x \in AllLines \X Nat /\ v \in PieceSeqs
  <2>. HIDE DEF f, p, v
  <2>1. f \in Seq(AllLines \X Nat)
    BY <1>2 DEF PieceSeqs
  <2>2. Head(SubSeq(f, p, n)) = x
    BY <2>1, <1>3, HeadTailOfSubSeq
  <2>3. SubSeq(f, p, n) = <<x>> \o v
    BY <2>1, <1>3, SubSeqRecursiveFirst DEF v
  <2>4. x \in AllLines \X Nat
    BY <2>1, <1>3, ElementOfSeq
  <2>5. v \in PieceSeqs
    BY <1>2, <1>3, PieceSub DEF v
  <2>. QED
    BY <1>4, <2>2, <2>3, <2>4, <2>5
<1>6. Unwritten(o)' = v
  <2>1. left'[o] = k - 1 /\ flush'[o] = f
    BY <1>1, <1>2
  <2>2. Unwritten(o)' = SubSeq(f, (n - (k - 1)) + 1, n)
    BY <2>1 DEF Unwritten
  <2>3. (n - (k - 1)) + 1 = p + 1
    BY <1>2
  <2>. QED
    BY <2>2, <2>3
<1>. HIDE DEF f, n, k, w, p, x, v
<1>7. /\ sock' = [sock EXCEPT ![o] = Append(sock[o], x)]
      /\ Append(sock[o], x) \in PieceSeqs
      /\ Len(Append(sock[o], x)) = Len(sock[o]) + 1
      /\ Append(sock[o], x) = sock[o] \o <<x>> /\ <<x>> \in PieceSeqs
  <2>. DEFINE S == AllLines \X Nat
  <2>1. sock[o] \in Seq(S) /\ x \in S
    BY <1>2, <1>5 DEF PieceSeqs
  <2>. HIDE DEF S
  <2>2. /\ Append(sock[o], x) \in Seq(S) /\ <<x>> \in Seq(S)
        /\ Len(Append(sock[o], x)) = Len(sock[o]) + 1
        /\ Append(sock[o], x) = sock[o] \o <<x>>
    BY <2>1, AppendProperties, AppendIsConcat
  <2>. QED
    BY <1>1, <1>5, <2>2 DEF PieceSeqs, S
<1>8. /\ sock' \in [Objects -> PieceSeqs] /\ left' \in [Objects -> Nat]
      /\ sock'[o] = sock[o] \o <<x>> /\ Len(sock'[o]) = Len(sock[o]) + 1
      /\ left'[o] = left[o] - 1 /\ left[o] \in Nat \ {0}
      /\ \A q \in Objects : q # o => sock'[q] = sock[q] /\ left'[q] = left[q]
  <2>1. /\ sock' = [sock EXCEPT ![o] = sock[o] \o <<x>>]
        /\ sock[o] \o <<x>> \in PieceSeqs
        /\ Len(sock[o] \o <<x>>) = Len(sock[o]) + 1
    BY <1>7
  <2>. DEFINE z == sock[o] \o <<x>>
  <2>. HIDE DEF z
  <2>2. sock' = [sock EXCEPT ![o] = z] /\ z \in PieceSeqs /\ Len(z) = Len(sock[o]) + 1
    BY <2>1 DEF z
  <2>3. /\ sock' \in [Objects -> PieceSeqs] /\ sock'[o] = z
        /\ \A q \in Objects : q # o => sock'[q] = sock[q]
    BY <2>2, <1>2
  <2>4. /\ left' \in [Objects -> Nat] /\ left'[o] = left[o] - 1 /\ left[o] \in Nat \ {0}
        /\ \A q \in Objects : q # o => left'[q] = left[q]
    BY <1>1, <1>2 DEF k
  <2>5. sock'[o] = sock[o] \o <<x>>
    BY <2>3 DEF z
  <2>. QED
    BY <2>2, <2>3, <2>4, <2>5
<1>9. InFlight(o)' = InFlight(o)
  <2>. DEFINE y == <<x>>
              b == buffer[o]
              s == sock[o]
  <2>1. InFlight(o)' = (b \o (s \o y)) \o v
    BY <1>1, <1>6, <1>8 DEF InFlight, objVars
  <2>2. InFlight(o) = (b \o s) \o (y \o v)
    BY <1>5 DEF InFlight, w
  <2>3. b \in PieceSeqs /\ s \in PieceSeqs /\ y \in PieceSeqs /\ v \in PieceSeqs
    BY <1>2, <1>5, <1>7
  <2>. HIDE DEF y, b, s
  <2>4. b \o s \in PieceSeqs
    BY <2>3, PieceConcat
  <2>5. /\ b \o (s \o y) = (b \o s) \o y
        /\ ((b \o s) \o y) \o v = (b \o s) \o (y \o v)
    BY <2>3, <2>4, PieceAssoc
  <2>. QED
    BY <2>1, <2>2, <2>5
<1>10. Data'
  <2>1. \A q \in Objects : left'[q] <= Len(flush'[q]) /\ Len(sock'[q]) <= Room
    <3>. SUFFICES ASSUME NEW q \in Objects
                  PROVE  left'[q] <= Len(flush'[q]) /\ Len(sock'[q]) <= Room
      OBVIOUS
    <3>1. left[q] <= Len(flush[q]) /\ Len(sock[q]) <= Room /\ flush[q] \in PieceSeqs
      BY DEF Data
    <3>2. Len(flush[q]) \in Nat
      BY <3>1, PieceConcat
    <3>3. CASE q = o
      BY <3>1, <3>2, <3>3, <1>1, <1>2, <1>8, SizeAssumption
    <3>4. CASE q # o
      BY <3>1, <3>4, <1>1, <1>8
    <3>. QED
      BY <3>3, <3>4
  <2>2. obj[o] # "none"
    BY <1>1 DEF Holdings
  <2>. QED
    BY <1>1, <1>8, <2>1, <2>2 DEF Data, objVars
<1>11. child' = child
  BY <1>1 DEF Holdings
<1>12. ASSUME NEW q \in Objects, q # o PROVE Apart(q)
  BY <1>1, <1>8, <1>11, <1>12 DEF Apart, Status, InFlight, Unwritten, objVars
<1>. QED
  BY <1>1, <1>9, <1>10, <1>11, <1>12 DEF Carried, objVars

\* The signal handler changes its own object's lines only.
LEMMA HandleTermSteps ==
    ASSUME Holdings, Data, NEW o \in Objects, HandleTerm(o)
    PROVE  /\ Data' /\ UNCHANGED <<obj, st>> /\ term'[o] = "handled"
           /\ child[o] = "running" /\ child'[o] = "exiting"
           /\ \A q \in Objects : q # o => Apart(q)
<1>1. /\ child[o] = "running" /\ child' = [child EXCEPT ![o] = "exiting"]
      /\ UNCHANGED <<objVars, printed, got, sock>>
      /\ term' = [term EXCEPT ![o] = "handled"]
  BY DEF HandleTerm, ChildStep
<1>2. \E rest \in PieceSeqs, ls \in Seq(AllLines) : Flush(o, rest, ls)
  <2>. DEFINE e == <<>>
  <2>1. /\ e \in PieceSeqs /\ e \in Seq(AllLines)
        /\ Unwritten(o) \in PieceSeqs /\ flush[o] \in PieceSeqs
    BY EmptySeq, UnwrittenType DEF PieceSeqs, Data
  <2>2. \E rest \in IF left[o] = 0 THEN {e} ELSE {Unwritten(o), flush[o]} :
            Flush(o, rest, e)
    BY DEF HandleTerm
  <2>. HIDE DEF e
  <2>. QED
    BY <2>1, <2>2
<1>3. obj[o] # "none" /\ term'[o] = "handled" /\ child'[o] = "exiting"
      /\ \A q \in Objects : q # o => term'[q] = term[q] /\ child'[q] = child[q]
  BY <1>1 DEF Holdings
<1>4. UNCHANGED <<printed, obj, st, buffer, sock, got>>
  BY <1>1 DEF objVars
<1>5. /\ Data'
      /\ \A q \in Objects : q # o => UNCHANGED <<InFlight(q), sent[q], got[q]>>
  BY <1>2, <1>3, <1>4, FlushData
<1>. QED
  BY <1>1, <1>3, <1>4, <1>5 DEF Apart, Status

\* A child that ends takes with it what it has not written.
LEMMA ChildEndsSteps ==
    ASSUME Holdings, Data, NEW o \in Objects, ChildEnds(o)
    PROVE  /\ Data' /\ Lost(o) /\ UNCHANGED <<obj, st, term>>
           /\ Alive(o) /\ child'[o] = "dead"
           /\ \A q \in Objects : q # o => Apart(q)
<1>1. /\ Alive(o) /\ child' = [child EXCEPT ![o] = "dead"]
      /\ UNCHANGED <<objVars, printed, got, inherited, flush, term, sock, sent>>
      /\ left' = [left EXCEPT ![o] = 0]
  BY DEF ChildEnds, ChildStep, Alive
<1>2. /\ child'[o] = "dead" /\ left'[o] = 0 /\ left' \in [Objects -> Nat]
      /\ \A q \in Objects : q # o => child'[q] = child[q] /\ left'[q] = left[q]
  BY <1>1 DEF Holdings, Data
<1>3. UNCHANGED <<printed, obj, st, buffer, sock, got>>
  BY <1>1 DEF objVars
<1>4. /\ flush[o] \in PieceSeqs /\ Len(flush[o]) \in Nat /\ buffer[o] \in PieceSeqs
      /\ sock[o] \in PieceSeqs /\ Unwritten(o) \in PieceSeqs
  BY PieceConcat, UnwrittenType DEF Data
<1>5. Data'
  <2>1. \A q \in Objects : left'[q] <= Len(flush'[q])
    <3>. SUFFICES ASSUME NEW q \in Objects PROVE left'[q] <= Len(flush'[q])
      OBVIOUS
    <3>1. CASE q = o
      BY <3>1, <1>1, <1>2, <1>4
    <3>2. CASE q # o
      BY <3>2, <1>1, <1>2 DEF Data
    <3>. QED
      BY <3>1, <3>2
  <2>. QED
    BY <1>1, <1>2, <1>3, <2>1 DEF Data
<1>6. Unwritten(o)' = <<>>
  <2>1. Unwritten(o)' = SubSeq(flush[o], (Len(flush[o]) - 0) + 1, Len(flush[o]))
    BY <1>1, <1>2 DEF Unwritten
  <2>2. (Len(flush[o]) - 0) + 1 \in Int /\ Len(flush[o]) < (Len(flush[o]) - 0) + 1
    BY <1>4
  <2>. QED
    BY <1>4, <2>1, <2>2, SubSeqEmpty
<1>7. InFlight(o) = InFlight(o)' \o Unwritten(o)
  <2>. DEFINE s == buffer[o] \o sock[o]
  <2>1. s \in PieceSeqs /\ s \o <<>> = s
    BY <1>4, PieceConcat
  <2>2. InFlight(o)' = s /\ InFlight(o) = s \o Unwritten(o)
    BY <1>3, <1>6, <2>1 DEF InFlight
  <2>. QED
    BY <2>2
<1>8. Lost(o)
  BY <1>1, <1>4, <1>7 DEF Lost
<1>9. ASSUME NEW q \in Objects, q # o PROVE Apart(q)
  BY <1>1, <1>2, <1>3, <1>9 DEF Apart, Status, InFlight, Unwritten
<1>. QED
  BY <1>1, <1>2, <1>3, <1>5, <1>8, <1>9

\* A child that starts to run has written nothing.
LEMMA StartSteps ==
    ASSUME Holdings, Data, NEW o \in Objects, Start(o)
    PROVE  /\ Data' /\ Carried(o) /\ UNCHANGED <<obj, st, term>>
           /\ child[o] = "starting" /\ child'[o] = "running"
           /\ \A q \in Objects : q # o => Apart(q)
<1>1. /\ child[o] = "starting" /\ child' = [child EXCEPT ![o] = "running"]
      /\ UNCHANGED <<objVars, printed, got, inherited, flush, left, term, sock, sent>>
  BY DEF Start, ChildStep
<1>2. /\ child'[o] = "running" /\ \A q \in Objects : q # o => child'[q] = child[q]
  BY <1>1 DEF Holdings
<1>3. UNCHANGED <<dataVars, obj, st, term>>
  BY <1>1 DEF objVars, dataVars
<1>4. \A q \in Objects : UNCHANGED <<InFlight(q), sent[q], got[q]>>
  BY <1>3 DEF InFlight, Unwritten, dataVars
<1>. QED
  BY <1>1, <1>2, <1>3, <1>4, DataStutter DEF Carried, Apart, Status

\* The end of file closes an object whose child is dead.
LEMMA PollEndSteps ==
    ASSUME Holdings, Data, NEW o \in Objects, PollEnd(o)
    PROVE  /\ Data' /\ Carried(o) /\ UNCHANGED <<obj, child, term>>
           /\ obj[o] = "made" /\ st[o] = "READY" /\ st'[o] = "CLOSED"
           /\ child[o] = "dead"
           /\ \A q \in Objects : q # o => Apart(q)
<1>1. /\ obj[o] = "made" /\ st[o] = "READY" /\ ~ Alive(o)
      /\ st' = [st EXCEPT ![o] = "CLOSED"]
      /\ UNCHANGED <<dataVars, obj, child, term>>
  BY DEF PollEnd, PollUnchanged, childVars, dataVars
<1>2. /\ st'[o] = "CLOSED" /\ child[o] = "dead"
      /\ \A q \in Objects : q # o => st'[q] = st[q]
  BY <1>1 DEF Holdings, Alive, ChildStates
<1>3. \A q \in Objects : UNCHANGED <<InFlight(q), sent[q], got[q]>>
  BY <1>1 DEF InFlight, Unwritten, dataVars
<1>. QED
  BY <1>1, <1>2, <1>3, DataStutter DEF Carried, Apart, Status

\* The destructor may signal other children, and nothing comes of it before
\* they handle the signal.
LEMMA DeallocateSteps ==
    ASSUME Holdings, Data, NEW o \in Objects, Deallocate(o)
    PROVE  /\ Data' /\ UNCHANGED <<st, child, sent, got>>
           /\ obj[o] = "made" /\ obj'[o] = "deleted"
           /\ \A q \in Objects : (term'[q] = "handled") <=> (term[q] = "handled")
           /\ \A q \in Objects : q # o => Apart(q)
<1>1. /\ obj[o] = "made" /\ obj' = [obj EXCEPT ![o] = "deleted"]
      /\ sock' = [sock EXCEPT ![o] = <<>>]
      /\ term' = [c \in Objects |->
                     IF c \in Killed(o) /\ Alive(c) /\ term[c] = "none"
                     THEN "pending" ELSE term[c]]
      /\ UNCHANGED <<st, buffer, child, inherited, flush, left, printed, sent, got>>
  BY DEF Deallocate, childVars
<1>2. /\ obj'[o] = "deleted" /\ \A q \in Objects : q # o => obj'[q] = obj[q]
      /\ \A q \in Objects : (term'[q] = "handled") <=> (term[q] = "handled")
      /\ \A q \in Objects : obj[q] = "none" => term'[q] = term[q]
  BY <1>1 DEF Holdings, Alive
<1>3. /\ sock'[o] = <<>> /\ sock' \in [Objects -> PieceSeqs] /\ Len(sock'[o]) = 0
      /\ \A q \in Objects : q # o => sock'[q] = sock[q]
  <2>1. <<>> \in PieceSeqs /\ Len(<<>>) = 0
    BY EmptySeq DEF PieceSeqs
  <2>. QED
    BY <1>1, <2>1 DEF Data
<1>4. Data'
  <2>1. \A q \in Objects : Len(sock'[q]) <= Room
    <3>. SUFFICES ASSUME NEW q \in Objects PROVE Len(sock'[q]) <= Room
      OBVIOUS
    <3>1. CASE q = o
      BY <3>1, <1>3, SizeAssumption
    <3>2. CASE q # o
      BY <3>2, <1>3 DEF Data
    <3>. QED
      BY <3>1, <3>2
  <2>. QED
    BY <1>1, <1>2, <1>3, <2>1 DEF Data
<1>5. ASSUME NEW q \in Objects, q # o PROVE Apart(q)
  BY <1>1, <1>2, <1>3, <1>5 DEF Apart, Status, InFlight, Unwritten
<1>. QED
  BY <1>1, <1>2, <1>4, <1>5

\* Nothing is on its way to a new object.
LEMMA CreateSteps ==
    ASSUME Holdings, Data, NEW o \in Objects,
           NoSocketPair(o) \/ NoFork(o) \/ NoFcntl(o) \/ Ready(o)
    PROVE  /\ Data' /\ UNCHANGED <<term, sent, got>> /\ term[o] = "none"
           /\ obj[o] = "none" /\ obj'[o] = "made"
           /\ st'[o] = "READY" => child'[o] = "starting"
           /\ InFlight(o)' = <<>> /\ sent[o] = <<>> /\ got[o] = <<>>
           /\ \A q \in Objects : q # o => Apart(q)
<1>1. /\ obj[o] = "none" /\ obj' = [obj EXCEPT ![o] = "made"]
      /\ UNCHANGED <<buffer, flush, left, term, sock, sent, got>>
  BY DEF NoSocketPair, NoFork, NoFcntl, Ready, Create
<1>2. /\ st'[o] = "READY" => child'[o] = "starting"
      /\ \A q \in Objects : q # o => st'[q] = st[q] /\ child'[q] = child[q]
  <2>1. CASE NoSocketPair(o)
    BY <2>1 DEF NoSocketPair, Create, Holdings
  <2>2. CASE NoFork(o)
    BY <2>2 DEF NoFork, Create, Holdings
  <2>3. CASE NoFcntl(o)
    BY <2>3 DEF NoFcntl, Create, Forked, Holdings
  <2>4. CASE Ready(o)
    BY <2>4 DEF Ready, Create, Forked, Holdings
  <2>. QED
    BY <2>1, <2>2, <2>3, <2>4
<1>3. obj'[o] = "made" /\ \A q \in Objects : q # o => obj'[q] = obj[q]
  BY <1>1 DEF Holdings
<1>4. InFlight(o)' = <<>> /\ sent[o] = <<>> /\ got[o] = <<>> /\ term[o] = "none"
  <2>. DEFINE e == <<>>
  <2>1. /\ buffer[o] = e /\ flush[o] = e /\ sock[o] = e /\ left[o] = 0
        /\ sent[o] = e /\ got[o] = e /\ term[o] = "none"
    BY <1>1 DEF Data
  <2>2. e \in PieceSeqs /\ e \o e = e /\ SubSeq(e, (0 - 0) + 1, 0) = e /\ Len(e) = 0
    BY EmptySeq, SubSeqEmpty DEF PieceSeqs
  <2>. HIDE DEF e
  <2>3. InFlight(o)' = (e \o e) \o SubSeq(e, (Len(e) - 0) + 1, Len(e))
    BY <1>1, <2>1 DEF InFlight, Unwritten
  <2>4. InFlight(o)' = e
    BY <2>2, <2>3
  <2>. QED
    BY <2>1, <2>4 DEF e
<1>5. ASSUME NEW q \in Objects, q # o PROVE Apart(q)
  BY <1>1, <1>2, <1>3, <1>5 DEF Apart, Status, InFlight, Unwritten
<1>. QED
  BY <1>1, <1>2, <1>3, <1>4, <1>5, CreateData

\* The process's own flush reaches no object.
LEMMA HostFlushSteps ==
    ASSUME Data, HostFlush \/ UNCHANGED vars
    PROVE  Data' /\ \A q \in Objects : Apart(q)
<1>1. printed' \in Nat /\ UNCHANGED <<objVars, childVars, term, sock, sent, got>>
  BY DEF HostFlush, vars, Data
<1>2. UNCHANGED <<obj, st, buffer, child, inherited, flush, left, term, sock, sent, got>>
  BY <1>1 DEF objVars, childVars
<1>. QED
  BY <1>1, <1>2 DEF Data, Apart, Status, InFlight, Unwritten

\* Every step keeps Data.
LEMMA DataKept ==
    ASSUME Holdings, Data, [Next]_vars
    PROVE  Data'
<1>1. ASSUME NEW o \in Objects,
             NoSocketPair(o) \/ NoFork(o) \/ NoFcntl(o) \/ Ready(o)
      PROVE  Data'
  BY <1>1, CreateSteps
<1>2. ASSUME NEW o \in Objects, Poll(o) PROVE Data'
  BY <1>2, PollSteps, PollEndSteps DEF Poll
<1>3. ASSUME NEW o \in Objects, Deallocate(o) PROVE Data'
  BY <1>3, DeallocateSteps
<1>4. ASSUME NEW o \in Objects, Start(o) PROVE Data'
  BY <1>4, StartSteps
<1>5. ASSUME NEW o \in Objects, Write(o) PROVE Data'
  BY <1>5, WriteSteps
<1>6. ASSUME NEW o \in Objects, Exit(o) \/ \E l \in Lines : Compose(o, l) PROVE Data'
  BY <1>6, ComposeSteps
<1>7. ASSUME NEW o \in Objects, HandleTerm(o) PROVE Data'
  BY <1>7, HandleTermSteps
<1>8. ASSUME NEW o \in Objects, ChildEnds(o) PROVE Data'
  BY <1>8, ChildEndsSteps
<1>9. CASE HostFlush \/ UNCHANGED vars
  BY <1>9, HostFlushSteps
<1>. QED
  BY <1>1, <1>2, <1>3, <1>4, <1>5, <1>6, <1>7, <1>8, <1>9 DEF Next

\* Buffers, flushes and sockets hold pieces, histories lines and texts, within
\* their bounds, and an object not made yet has none of them.
THEOREM DataTyped == Spec => []Data
<1>1. Init => Data
  <2>. SUFFICES ASSUME Init PROVE Data
    OBVIOUS
  <2>. DEFINE e == <<>>
  <2>1. e \in PieceSeqs /\ e \in Seq(AllLines) /\ e \in Seq(PieceSeqs) /\ Len(e) = 0
    BY EmptySeq DEF PieceSeqs
  <2>2. /\ buffer = [o \in Objects |-> e] /\ flush = [o \in Objects |-> e]
        /\ sock = [o \in Objects |-> e] /\ sent = [o \in Objects |-> e]
        /\ got = [o \in Objects |-> e] /\ term = [o \in Objects |-> "none"]
        /\ left = [o \in Objects |-> 0] /\ inherited = [o \in Objects |-> 0]
        /\ printed = 0
    BY DEF Init
  <2>3. \A o \in Objects : obj[o] = "none" =>
            /\ buffer[o] = <<>> /\ flush[o] = <<>> /\ sock[o] = <<>>
            /\ left[o] = 0 /\ sent[o] = <<>> /\ got[o] = <<>> /\ term[o] = "none"
    BY <2>2
  <2>. HIDE DEF e
  <2>. QED
    BY <2>1, <2>2, <2>3, SizeAssumption DEF Data
<1>. QED
  BY <1>1, DataKept, Remembered, PTL DEF Spec

\* Every variable of the second generation keeps its type: a child never has
\* less than nothing to write, and the socket never holds more than its room.
THEOREM TypeCorrect == Spec => []TypeOK
<1>1. Holdings /\ Data => TypeOK
  <2>. SUFFICES ASSUME Holdings, Data PROVE TypeOK
    OBVIOUS
  <2>1. ASSUME NEW o \in Objects
        PROVE  /\ left[o] \in 0..Len(flush[o]) /\ Len(sock[o]) \in 0..Room
               /\ {buffer[o], flush[o], sock[o]} \subseteq PieceSeqs
               /\ sent[o] \in Seq(AllLines) /\ got[o] \in Seq(PieceSeqs)
    <3>1. /\ buffer[o] \in PieceSeqs /\ flush[o] \in PieceSeqs /\ sock[o] \in PieceSeqs
          /\ left[o] \in Nat /\ left[o] <= Len(flush[o]) /\ Len(sock[o]) <= Room
          /\ sent[o] \in Seq(AllLines) /\ got[o] \in Seq(PieceSeqs)
      BY DEF Data
    <3>2. Len(flush[o]) \in Nat /\ Len(sock[o]) \in Nat
      BY <3>1, PieceConcat
    <3>. QED
      BY <3>1, <3>2, SizeAssumption
  <2>. QED
    BY <2>1 DEF Holdings, Data, TypeOK, ChildStates
<1>. QED
  BY <1>1, Remembered, DataTyped, PTL

-----------------------------------------------------------------------------
(***************************************************************************)
(* The lines that popmsg returns.                                          *)
(***************************************************************************)

\* The lines sent and not yet returned.
Unread(o) == SubSeq(sent[o], Len(got[o]) + 1, Len(sent[o]))

\* What was returned are the first lines sent.
Heard(o) ==
    /\ Len(got[o]) <= Len(sent[o])
    /\ \A i \in 1..Len(got[o]) : got[o][i] = Text(sent[o][i])

\* What is on its way are the pieces of the lines unread, and those that are
\* missing were lost with the child.
OnItsWay(o) ==
    obj[o] = "made" /\ st[o] = "READY" =>
        \E rest \in PieceSeqs :
            /\ Flat(Unread(o)) = InFlight(o) \o rest
            /\ Alive(o) => rest = <<>>

Whole(o) == term[o] = "handled" \/ (Heard(o) /\ OnItsWay(o))

\* What is unread are the lines sent after those returned.
LEMMA UnreadFacts ==
    ASSUME Data, NEW o \in Objects, Heard(o)
    PROVE  /\ Len(got[o]) \in Nat /\ Len(sent[o]) \in Nat
           /\ got[o] \in Seq(PieceSeqs) /\ sent[o] \in Seq(AllLines)
           /\ Unread(o) \in Seq(AllLines)
           /\ Len(Unread(o)) = Len(sent[o]) - Len(got[o])
           /\ \A i \in 1..(Len(sent[o]) - Len(got[o])) :
                  Unread(o)[i] = sent[o][Len(got[o]) + i]
<1>. DEFINE s == sent[o]
            n == Len(s)
            g == Len(got[o])
            p == g + 1
<1>1. /\ s \in Seq(AllLines) /\ got[o] \in Seq(PieceSeqs)
      /\ n \in Nat /\ g \in Nat /\ g <= n
  BY LenProperties DEF Data, Heard
<1>. HIDE DEF s, g
<1>2. p \in 1..(n + 1) /\ p \in Int /\ n \in Int /\ p = g + 1
  BY <1>1
<1>. HIDE DEF p
<1>3. \A i \in p..n : s[i] \in AllLines
  BY <1>1, <1>2, ElementOfSeq
<1>. HIDE DEF n
<1>. DEFINE u == SubSeq(s, p, n)
<1>4. /\ u \in Seq(AllLines) /\ Len(u) = IF p <= n THEN n - p + 1 ELSE 0
      /\ \A i \in 1..(n - p + 1) : u[i] = s[p + i - 1]
  BY <1>2, <1>3, SubSeqProperties
<1>5. u = Unread(o)
  BY DEF Unread, s, n, g, p
<1>. HIDE DEF u
<1>6. Len(u) = n - g /\ \A i \in 1..(n - g) : u[i] = s[g + i]
  <2>1. Len(u) = n - g
    BY <1>1, <1>2, <1>4
  <2>2. ASSUME NEW i \in 1..(n - g) PROVE u[i] = s[g + i]
    <3>1. i \in 1..(n - p + 1) /\ p + i - 1 = g + i
      BY <1>1, <1>2
    <3>. QED
      BY <1>4, <3>1
  <2>. QED
    BY <2>1, <2>2
<1>. QED
  BY <1>1, <1>4, <1>5, <1>6 DEF s, n, g

\* The types that the lemmas below take from Data.
LEMMA TypesHere ==
    Data => \A o \in Objects :
               /\ InFlight(o) \in PieceSeqs
               /\ Heard(o) =>
                      /\ Unread(o) \in Seq(AllLines)
                      /\ Len(Unread(o)) = Len(sent[o]) - Len(got[o])
                      /\ \A i \in 1..(Len(sent[o]) - Len(got[o])) :
                             Unread(o)[i] = sent[o][Len(got[o]) + i]
BY UnwrittenType, UnreadFacts

\* The same of the next state.
LEMMA NextTypes ==
    ASSUME Data'
    PROVE  \A o \in Objects :
               /\ InFlight(o)' \in PieceSeqs
               /\ Heard(o)' =>
                      /\ Unread(o)' \in Seq(AllLines)
                      /\ Len(Unread(o)') = Len(sent'[o]) - Len(got'[o])
                      /\ \A i \in 1..(Len(sent'[o]) - Len(got'[o])) :
                             Unread(o)'[i] = sent'[o][Len(got'[o]) + i]
<1>1. (Data => \A o \in Objects :
               /\ InFlight(o) \in PieceSeqs
               /\ Heard(o) =>
                      /\ Unread(o) \in Seq(AllLines)
                      /\ Len(Unread(o)) = Len(sent[o]) - Len(got[o])
                      /\ \A i \in 1..(Len(sent[o]) - Len(got[o])) :
                             Unread(o)[i] = sent[o][Len(got[o]) + i])'
  BY TypesHere, PTL
<1>. QED
  BY <1>1

\* Passing the pieces on keeps Whole.
LEMMA WholeCarried ==
    ASSUME NEW o \in Objects, Whole(o), Carried(o),
           term[o] = "handled" => term'[o] = "handled",
           obj'[o] = "made" /\ st'[o] = "READY" =>
               obj[o] = "made" /\ st[o] = "READY" /\ (Alive(o)' => Alive(o))
    PROVE  Whole(o)'
BY DEF Whole, Heard, OnItsWay, Unread, Carried

\* Losing the end keeps Whole, since the child is dead then.
LEMMA WholeLost ==
    ASSUME Data, Data', NEW o \in Objects, Whole(o), Lost(o),
           UNCHANGED <<obj, st, term>>, ~ Alive(o)'
    PROVE  Whole(o)'
<1>. SUFFICES ASSUME term[o] # "handled" PROVE Heard(o)' /\ OnItsWay(o)'
  BY DEF Whole
<1>1. Heard(o)'
  BY DEF Whole, Heard, Lost
<1>2. OnItsWay(o)'
  <2>. SUFFICES ASSUME obj[o] = "made", st[o] = "READY"
                PROVE  \E rest \in PieceSeqs : Flat(Unread(o)') = InFlight(o)' \o rest
    BY DEF OnItsWay
  <2>1. PICK rest \in PieceSeqs : Flat(Unread(o)) = InFlight(o) \o rest
    BY DEF Whole, OnItsWay
  <2>2. PICK more \in PieceSeqs : InFlight(o) = InFlight(o)' \o more
    BY DEF Lost
  <2>3. Unread(o)' = Unread(o)
    BY DEF Unread, Lost
  <2>4. InFlight(o)' \in PieceSeqs
    BY NextTypes
  <2>5. (InFlight(o)' \o more) \o rest = InFlight(o)' \o (more \o rest)
    BY <2>4, PieceAssoc
  <2>6. more \o rest \in PieceSeqs
    BY PieceConcat
  <2>. QED
    BY <2>1, <2>2, <2>3, <2>5, <2>6
<1>. QED
  BY <1>1, <1>2

\* Adding lines to what is complete keeps Whole.
LEMMA WholeAdded ==
    ASSUME Data, Data', NEW o \in Objects, Whole(o), Added(o),
           UNCHANGED <<obj, st, term>>, Alive(o)
    PROVE  Whole(o)'
<1>. SUFFICES ASSUME term[o] # "handled" PROVE Heard(o)' /\ OnItsWay(o)'
  BY DEF Whole
<1>. DEFINE s == sent[o]
            g == got[o]
            n == Len(s)
            k == Len(g)
            u == Unread(o)
<1>0. Heard(o) /\ OnItsWay(o)
  BY DEF Whole
<1>1. PICK all \in Seq(AllLines) :
          InFlight(o)' = InFlight(o) \o Flat(all) /\ sent'[o] = s \o all
  BY DEF Added
<1>2. /\ s \in Seq(AllLines) /\ n \in Nat /\ k \in Nat /\ k <= n
      /\ u \in Seq(AllLines) /\ Len(u) = n - k
      /\ \A i \in 1..(n - k) : u[i] = s[k + i]
      /\ \A i \in 1..k : g[i] = Text(s[i])
      /\ got'[o] = g
  BY <1>0, UnreadFacts DEF Heard, Added
<1>. HIDE DEF s, g, u
<1>. DEFINE t == s \o all
            m == Len(all)
<1>3. /\ t \in Seq(AllLines) /\ Len(t) = n + m /\ m \in Nat
      /\ \A i \in 1..n : t[i] = s[i]
      /\ \A i \in (n + 1)..(n + m) : t[i] = all[i - n]
  BY <1>2, ConcatProperties
<1>4. sent'[o] = t
  BY <1>1
<1>. HIDE DEF t, n, m, k
<1>5. Heard(o)'
  <2>1. k <= n + m /\ \A i \in 1..k : g[i] = Text(t[i])
    BY <1>2, <1>3
  <2>. QED
    BY <1>2, <1>3, <1>4, <2>1 DEF Heard, k
<1>6. Unread(o)' = u \o all
  <2>. DEFINE v == Unread(o)'
              x == u \o all
  <2>1. /\ v \in Seq(AllLines) /\ Len(v) = (n + m) - k
        /\ \A i \in 1..((n + m) - k) : v[i] = t[k + i]
    <3>1. /\ Unread(o)' \in Seq(AllLines)
          /\ Len(Unread(o)') = Len(sent'[o]) - Len(got'[o])
          /\ \A i \in 1..(Len(sent'[o]) - Len(got'[o])) :
                  Unread(o)'[i] = sent'[o][Len(got'[o]) + i]
      BY <1>5, NextTypes
    <3>. QED
      BY <1>2, <1>3, <1>4, <3>1 DEF k
  <2>2. /\ x \in Seq(AllLines) /\ Len(x) = (n - k) + m
        /\ \A i \in 1..(n - k) : x[i] = u[i]
        /\ \A i \in ((n - k) + 1)..((n - k) + m) : x[i] = all[i - (n - k)]
    <3>1. /\ x \in Seq(AllLines) /\ Len(x) = Len(u) + m
          /\ \A i \in 1..(Len(u) + m) :
                 x[i] = IF i <= Len(u) THEN u[i] ELSE all[i - Len(u)]
      BY <1>2, ConcatProperties DEF m
    <3>. HIDE DEF x
    <3>2. /\ x \in Seq(AllLines) /\ Len(x) = (n - k) + m
          /\ \A i \in 1..((n - k) + m) :
                 x[i] = IF i <= n - k THEN u[i] ELSE all[i - (n - k)]
      BY <1>2, <3>1
    <3>. QED
      BY <1>2, <1>3, <3>2
  <2>. HIDE DEF v, x
  <2>3. ASSUME NEW i \in 1..Len(v) PROVE v[i] = x[i]
    <3>1. CASE i <= n - k
      <4>1. i \in 1..(n - k) /\ i \in 1..((n + m) - k) /\ k + i \in 1..n
        BY <1>2, <1>3, <2>1, <3>1
      <4>. QED
        BY <4>1, <1>2, <1>3, <2>1, <2>2
    <3>2. CASE i > n - k
      <4>1. /\ i \in ((n - k) + 1)..((n - k) + m) /\ i \in 1..((n + m) - k)
            /\ k + i \in (n + 1)..(n + m) /\ (k + i) - n = i - (n - k)
        BY <1>2, <1>3, <2>1, <3>2
      <4>2. v[i] = t[k + i]
        BY <4>1, <2>1
      <4>3. t[k + i] = all[(k + i) - n]
        BY <4>1, <1>3
      <4>4. x[i] = all[i - (n - k)]
        BY <4>1, <2>2
      <4>. QED
        BY <4>1, <4>2, <4>3, <4>4
    <3>. QED
      BY <3>1, <3>2, <1>2, <1>3, <2>1
  <2>4. v = x
    <3>1. Len(v) = Len(x)
      BY <1>2, <1>3, <2>1, <2>2
    <3>. QED
      BY <2>1, <2>2, <2>3, <3>1, SeqEqual
  <2>. QED
    BY <2>4 DEF v, x
<1>7. OnItsWay(o)'
  <2>. SUFFICES ASSUME obj[o] = "made", st[o] = "READY"
                PROVE  \E rest \in PieceSeqs :
                           Flat(Unread(o)') = InFlight(o)' \o rest /\ rest = <<>>
    BY DEF OnItsWay
  <2>1. Flat(u) = InFlight(o) \o <<>>
    BY <1>0 DEF OnItsWay, u
  <2>2. InFlight(o) \o <<>> = InFlight(o) /\ InFlight(o) \in PieceSeqs
    BY UnwrittenType, PieceConcat
  <2>3. Flat(u \o all) = Flat(u) \o Flat(all)
    BY <1>2, FlatConcat
  <2>4. Flat(Unread(o)') = InFlight(o)'
    BY <1>1, <1>6, <2>1, <2>2, <2>3
  <2>5. InFlight(o)' \o <<>> = InFlight(o)'
    <3>1. Flat(all) \in PieceSeqs
      BY FlatType
    <3>2. InFlight(o) \o Flat(all) \in PieceSeqs
      BY <2>2, <3>1, PieceConcat
    <3>. QED
      BY <1>1, <3>2, PieceConcat
  <2>6. <<>> \in PieceSeqs
    BY EmptySeq DEF PieceSeqs
  <2>. QED
    BY <2>4, <2>5, <2>6
<1>. QED
  BY <1>5, <1>7

\* Returning the first line keeps Whole: it is the first one unread.
LEMMA WholeReturned ==
    ASSUME Data, Data', NEW o \in Objects, Whole(o), Returned(o),
           obj[o] = "made", st[o] = "READY", UNCHANGED <<obj, st, term, child>>
    PROVE  Whole(o)'
<1>. SUFFICES ASSUME term[o] # "handled" PROVE Heard(o)' /\ OnItsWay(o)'
  BY DEF Whole
<1>. DEFINE s == sent[o]
            g == got[o]
            n == Len(s)
            k == Len(g)
            u == Unread(o)
            f == InFlight(o)
<1>0. Heard(o) /\ OnItsWay(o)
  BY DEF Whole
<1>1. PICK pos : /\ FirstEnd(f, pos)
                 /\ InFlight(o)' = SubSeq(f, pos + 1, Len(f))
                 /\ got'[o] = Append(g, SubSeq(f, 1, pos - 1))
  BY DEF Returned
<1>2. /\ s \in Seq(AllLines) /\ n \in Nat /\ k \in Nat /\ k <= n
      /\ g \in Seq(PieceSeqs)
      /\ u \in Seq(AllLines) /\ Len(u) = n - k
      /\ \A i \in 1..(n - k) : u[i] = s[k + i]
      /\ \A i \in 1..k : g[i] = Text(s[i])
      /\ sent'[o] = s /\ f \in PieceSeqs
  BY <1>0, UnreadFacts, UnwrittenType DEF Heard, Returned
<1>3. PICK rest \in PieceSeqs : Flat(u) = f \o rest /\ (Alive(o) => rest = <<>>)
  BY <1>0 DEF OnItsWay
<1>. HIDE DEF s, g, u, f
<1>4. /\ u # <<>> /\ SubSeq(f, 1, pos - 1) = Text(Head(u))
      /\ Flat(Tail(u)) = SubSeq(f, pos + 1, Len(f)) \o rest
  BY <1>1, <1>2, <1>3, FirstLine
<1>5. Head(u) = s[k + 1] /\ n - k > 0
  <2>1. Len(u) # 0 /\ Head(u) = u[1]
    BY <1>2, <1>4
  <2>2. 1 \in 1..(n - k)
    BY <1>2, <2>1
  <2>. QED
    BY <1>2, <2>1, <2>2
<1>. DEFINE x == SubSeq(f, 1, pos - 1)
<1>6. x \in PieceSeqs
  <2>1. Len(f) \in Nat /\ pos \in 1..Len(f)
    BY <1>1, <1>2, PieceConcat DEF FirstEnd
  <2>2. 1 \in 1..(Len(f) + 1) /\ pos - 1 \in 0..Len(f)
    BY <2>1
  <2>. QED
    BY <1>2, <2>2, PieceSub
<1>7. x = Text(s[k + 1]) /\ got'[o] = Append(g, x)
  BY <1>1, <1>4, <1>5
<1>. HIDE DEF x
<1>8. /\ Len(got'[o]) = k + 1 /\ \A i \in 1..k : got'[o][i] = g[i]
      /\ got'[o][k + 1] = x
  BY <1>2, <1>6, <1>7, AppendProperties
<1>. HIDE DEF n, k
<1>9. Heard(o)'
  <2>1. k + 1 <= n
    BY <1>2, <1>5
  <2>2. \A i \in 1..(k + 1) : got'[o][i] = Text(s[i])
    BY <1>2, <1>7, <1>8
  <2>. QED
    BY <1>2, <1>8, <2>1, <2>2 DEF Heard, n
<1>10. Unread(o)' = Tail(u)
  <2>. DEFINE v == Unread(o)'
              t == Tail(u)
  <2>1. /\ v \in Seq(AllLines) /\ Len(v) = n - (k + 1)
        /\ \A i \in 1..(n - (k + 1)) : v[i] = s[(k + 1) + i]
    BY <1>2, <1>8, <1>9, NextTypes DEF n
  <2>2. /\ t \in Seq(AllLines) /\ Len(t) = (n - k) - 1
        /\ \A i \in 1..Len(t) : t[i] = u[i + 1]
    BY <1>2, <1>4, HeadTailProperties
  <2>. HIDE DEF v, t
  <2>3. Len(v) = Len(t)
    BY <1>2, <2>1, <2>2
  <2>4. ASSUME NEW i \in 1..Len(v) PROVE v[i] = t[i]
    <3>1. /\ i \in 1..(n - (k + 1)) /\ i \in 1..Len(t) /\ i + 1 \in 1..(n - k)
          /\ (k + 1) + i = k + (i + 1)
      BY <1>2, <2>1, <2>2
    <3>. QED
      BY <3>1, <1>2, <2>1, <2>2
  <2>5. v = t
    BY <2>1, <2>2, <2>3, <2>4, SeqEqual
  <2>. QED
    BY <2>5 DEF v, t
<1>11. OnItsWay(o)'
  BY <1>1, <1>3, <1>4, <1>10 DEF OnItsWay, Alive
<1>. QED
  BY <1>9, <1>11

\* A new object is Whole.
LEMMA WholeCreated ==
    ASSUME Data, Data', NEW o \in Objects,
           InFlight(o)' = <<>>, sent'[o] = <<>>, got'[o] = <<>>
    PROVE  Whole(o)'
<1>. DEFINE e == <<>>
<1>1. /\ e \in PieceSeqs /\ e \o e = e /\ Flat(e) = e /\ Len(e) = 0
      /\ SubSeq(e, 0 + 1, 0) = e
  BY FlatEmpty, EmptySeq, SubSeqEmpty DEF PieceSeqs
<1>2. InFlight(o)' = e /\ sent'[o] = e /\ got'[o] = e
  OBVIOUS
<1>. HIDE DEF e
<1>3. Heard(o)'
  BY <1>1, <1>2 DEF Heard
<1>4. Unread(o)' = e
  BY <1>1, <1>2 DEF Unread
<1>5. OnItsWay(o)'
  BY <1>1, <1>2, <1>4 DEF OnItsWay, e
<1>. QED
  BY <1>3, <1>5 DEF Whole

\* What leaves an object alone keeps it Whole.
LEMMA WholeApart ==
    ASSUME NEW q \in Objects, Whole(q), Apart(q)
    PROVE  Whole(q)'
BY DEF Whole, Heard, OnItsWay, Unread, Alive, Apart, Status

\* Every step keeps each object Whole.
LEMMA WholeKept ==
    ASSUME Holdings, Data, [Next]_vars, NEW o \in Objects, Whole(o)
    PROVE  Whole(o)'
<1>0. Data'
  BY DataKept
<1>1. ASSUME NEW q \in Objects,
             NoSocketPair(q) \/ NoFork(q) \/ NoFcntl(q) \/ Ready(q)
      PROVE  Whole(o)'
  <2>1. CASE q = o
    <3>1. InFlight(o)' = <<>> /\ sent'[o] = <<>> /\ got'[o] = <<>>
      BY <1>1, <2>1, CreateSteps
    <3>. QED
      BY <1>0, <3>1, WholeCreated
  <2>2. CASE q # o
    BY <1>1, <2>2, CreateSteps, WholeApart
  <2>. QED
    BY <2>1, <2>2
<1>2. ASSUME NEW q \in Objects, PollData(q) \/ PollNothing(q)
      PROVE  Whole(o)'
  <2>1. CASE q = o
    <3>1. /\ obj[o] = "made" /\ st[o] = "READY" /\ UNCHANGED <<obj, st, child, term>>
          /\ Carried(o) \/ Returned(o)
      BY <1>2, <2>1, PollSteps
    <3>2. CASE Carried(o)
      BY <3>1, <3>2, WholeCarried DEF Alive
    <3>3. CASE Returned(o)
      BY <1>0, <3>1, <3>3, WholeReturned
    <3>. QED
      BY <3>1, <3>2, <3>3
  <2>2. CASE q # o
    BY <1>2, <2>2, PollSteps, WholeApart
  <2>. QED
    BY <2>1, <2>2
<1>3. ASSUME NEW q \in Objects, PollEnd(q)
      PROVE  Whole(o)'
  <2>1. CASE q = o
    <3>1. /\ Carried(o) /\ UNCHANGED <<obj, child, term>> /\ st'[o] = "CLOSED"
      BY <1>3, <2>1, PollEndSteps
    <3>. QED
      BY <3>1, WholeCarried
  <2>2. CASE q # o
    BY <1>3, <2>2, PollEndSteps, WholeApart
  <2>. QED
    BY <2>1, <2>2
<1>4. ASSUME NEW q \in Objects, Deallocate(q)
      PROVE  Whole(o)'
  <2>1. CASE q = o
    <3>1. /\ UNCHANGED <<sent, got>> /\ obj'[o] = "deleted"
          /\ (term'[o] = "handled") <=> (term[o] = "handled")
      BY <1>4, <2>1, DeallocateSteps
    <3>. QED
      BY <3>1 DEF Whole, Heard, OnItsWay
  <2>2. CASE q # o
    BY <1>4, <2>2, DeallocateSteps, WholeApart
  <2>. QED
    BY <2>1, <2>2
<1>5. ASSUME NEW q \in Objects, Start(q)
      PROVE  Whole(o)'
  <2>1. CASE q = o
    <3>1. Carried(o) /\ UNCHANGED <<obj, st, term>> /\ child[o] = "starting"
      BY <1>5, <2>1, StartSteps
    <3>. QED
      BY <3>1, WholeCarried DEF Alive
  <2>2. CASE q # o
    BY <1>5, <2>2, StartSteps, WholeApart
  <2>. QED
    BY <2>1, <2>2
<1>6. ASSUME NEW q \in Objects, Write(q)
      PROVE  Whole(o)'
  <2>1. CASE q = o
    <3>1. Carried(o) /\ UNCHANGED <<obj, st, term, child>>
      BY <1>6, <2>1, WriteSteps
    <3>. QED
      BY <3>1, WholeCarried DEF Alive
  <2>2. CASE q # o
    BY <1>6, <2>2, WriteSteps, WholeApart
  <2>. QED
    BY <2>1, <2>2
<1>7. ASSUME NEW q \in Objects, Exit(q) \/ \E l \in Lines : Compose(q, l)
      PROVE  Whole(o)'
  <2>1. CASE q = o
    <3>1. Added(o) /\ UNCHANGED <<obj, st, term>> /\ child[o] = "running"
      BY <1>7, <2>1, ComposeSteps
    <3>. QED
      BY <1>0, <3>1, WholeAdded DEF Alive
  <2>2. CASE q # o
    BY <1>7, <2>2, ComposeSteps, WholeApart
  <2>. QED
    BY <2>1, <2>2
<1>8. ASSUME NEW q \in Objects, HandleTerm(q)
      PROVE  Whole(o)'
  <2>1. CASE q = o
    BY <1>8, <2>1, HandleTermSteps DEF Whole
  <2>2. CASE q # o
    BY <1>8, <2>2, HandleTermSteps, WholeApart
  <2>. QED
    BY <2>1, <2>2
<1>9. ASSUME NEW q \in Objects, ChildEnds(q)
      PROVE  Whole(o)'
  <2>1. CASE q = o
    <3>1. Lost(o) /\ UNCHANGED <<obj, st, term>> /\ child'[o] = "dead"
      BY <1>9, <2>1, ChildEndsSteps
    <3>. QED
      BY <1>0, <3>1, WholeLost DEF Alive
  <2>2. CASE q # o
    BY <1>9, <2>2, ChildEndsSteps, WholeApart
  <2>. QED
    BY <2>1, <2>2
<1>10. CASE HostFlush \/ UNCHANGED vars
  BY <1>10, HostFlushSteps, WholeApart
<1>. QED
  BY <1>1, <1>2, <1>3, <1>4, <1>5, <1>6, <1>7, <1>8, <1>9, <1>10 DEF Next, Poll

\* popmsg returns the lines that the child wrote, whole and in order, whatever
\* their sizes and however the reads cut them (sb.cc), unless the child was
\* signalled in the middle of a flush.
THEOREM LinesAreWhole == Spec => []WholeLines
<1>. DEFINE AllWhole == \A o \in Objects : Whole(o)
<1>1. Init /\ Data => AllWhole
  <2>. SUFFICES ASSUME Init, Data, NEW o \in Objects PROVE Whole(o)
    OBVIOUS
  <2>. DEFINE e == <<>>
  <2>1. sent[o] = e /\ got[o] = e /\ st[o] # "READY" /\ Len(e) = 0
    BY EmptySeq DEF Init
  <2>. HIDE DEF e
  <2>. QED
    BY <2>1 DEF Whole, Heard, OnItsWay
<1>2. Holdings /\ Data /\ AllWhole /\ [Next]_vars => AllWhole'
  BY WholeKept
<1>3. Data /\ AllWhole => WholeLines
  <2>. SUFFICES ASSUME Data, AllWhole, NEW o \in Objects, term[o] # "handled"
                PROVE  IsPrefix(got[o], [i \in 1..Len(sent[o]) |-> Text(sent[o][i])])
    BY DEF WholeLines
  <2>. DEFINE g == got[o]
              s == sent[o]
              n == Len(s)
              k == Len(g)
              t == [i \in 1..n |-> Text(s[i])]
              a == SubSeq(g, 1, k)
              b == SubSeq(t, 1, k)
  <2>1. /\ s \in Seq(AllLines) /\ g \in Seq(PieceSeqs) /\ n \in Nat /\ k \in Nat
        /\ k <= n /\ \A i \in 1..k : g[i] = Text(s[i])
    BY LenProperties DEF Whole, Heard, Data
  <2>2. \A i \in 1..n : s[i] \in AllLines /\ Text(s[i]) \in PieceSeqs
    <3>. SUFFICES ASSUME NEW l \in AllLines PROVE Text(l) \in PieceSeqs
      BY <2>1, ElementOfSeq
    <3>. DEFINE p == Pieces(l)
    <3>1. p \in PieceSeqs /\ Len(p) \in Nat /\ Len(p) > 1
      BY PiecesType
    <3>. HIDE DEF p
    <3>2. 1 \in 1..(Len(p) + 1) /\ Len(p) - 1 \in 0..Len(p)
      BY <3>1
    <3>. QED
      BY <3>1, <3>2, PieceSub DEF Text, Front, p
  <2>3. t \in Seq(PieceSeqs) /\ Len(t) = n /\ \A i \in 1..n : t[i] = Text(s[i])
    BY <2>1, <2>2
  <2>. HIDE DEF g, s, n, t, k
  <2>4. \A i \in 1..k : g[i] \in PieceSeqs /\ t[i] \in PieceSeqs /\ t[i] = g[i]
    BY <2>1, <2>2, <2>3
  <2>5. 1 \in Int /\ k \in Int
    BY <2>1
  <2>6. /\ a \in Seq(PieceSeqs) /\ Len(a) = IF 1 <= k THEN k - 1 + 1 ELSE 0
        /\ \A i \in 1..(k - 1 + 1) : a[i] = g[1 + i - 1]
    BY <2>4, <2>5, SubSeqProperties
  <2>7. /\ b \in Seq(PieceSeqs) /\ Len(b) = IF 1 <= k THEN k - 1 + 1 ELSE 0
        /\ \A i \in 1..(k - 1 + 1) : b[i] = t[1 + i - 1]
    BY <2>4, <2>5, SubSeqProperties
  <2>. HIDE DEF a, b
  <2>8. \A i \in 1..Len(a) : a[i] = b[i]
    BY <2>1, <2>4, <2>6, <2>7
  <2>9. a = b
    BY <2>6, <2>7, <2>8, SeqEqual
  <2>. QED
    BY <2>1, <2>3, <2>9 DEF IsPrefix, a, b, g, s, n, t, k
<1>. QED
  BY <1>1, <1>2, <1>3, Remembered, DataTyped, PTL DEF Spec

-----------------------------------------------------------------------------
(***************************************************************************)
(* An object and its child are a stream of lines.                          *)
(***************************************************************************)

\* The phases in which lines can be waiting.
Flowing == {"open", "ended", "disturbed"}

\* The phase and the queue of one object.
LEMMA PhaseAt ==
    \A o \in Objects :
        /\ Phase[o] = IF obj[o] = "none" THEN "none"
                      ELSE IF obj[o] = "deleted" \/ st[o] # "READY" THEN "closed"
                      ELSE IF term[o] = "handled" THEN "disturbed"
                      ELSE IF child[o] = "dead" THEN "ended"
                      ELSE "open"
        /\ Queue[o] = IF Phase[o] \in Flowing THEN LinesIn(InFlight(o)) ELSE <<>>
BY DEF Phase, Queue, Flowing

\* The same of the next state.
LEMMA PhaseNext ==
    \A o \in Objects :
        /\ Phase'[o] = IF obj'[o] = "none" THEN "none"
                       ELSE IF obj'[o] = "deleted" \/ st'[o] # "READY" THEN "closed"
                       ELSE IF term'[o] = "handled" THEN "disturbed"
                       ELSE IF child'[o] = "dead" THEN "ended"
                       ELSE "open"
        /\ Queue'[o] = IF Phase'[o] \in Flowing THEN LinesIn(InFlight(o)') ELSE <<>>
BY DEF Phase, Queue, Flowing

\* What only o does shows at o only.
LEMMA OthersRest ==
    ASSUME NEW o \in Objects, \A q \in Objects : q # o => Apart(q)
    PROVE  /\ Phase' = [Phase EXCEPT ![o] = Phase'[o]]
           /\ Queue' = [Queue EXCEPT ![o] = Queue'[o]]
<1>1. ASSUME NEW q \in Objects, q # o
      PROVE  Phase'[q] = Phase[q] /\ Queue'[q] = Queue[q]
  <2>1. UNCHANGED <<obj[q], st[q], child[q], InFlight(q)>>
        /\ ((term'[q] = "handled") = (term[q] = "handled"))
    BY <1>1 DEF Apart, Status
  <2>2. Phase'[q] = Phase[q]
    BY <2>1, PhaseAt, PhaseNext
  <2>. QED
    BY <2>1, <2>2, PhaseAt, PhaseNext
<1>2. /\ Phase = [q \in Objects |-> Phase[q]] /\ Phase' = [q \in Objects |-> Phase'[q]]
      /\ Queue = [q \in Objects |-> Queue[q]] /\ Queue' = [q \in Objects |-> Queue'[q]]
  BY DEF Phase, Queue
<1>. QED
  BY <1>1, <1>2

\* A step without effect on phase and queue is a stutter.
LEMMA StreamSame ==
    ASSUME NEW o \in Objects, \A q \in Objects : q # o => Apart(q),
           Phase'[o] = Phase[o], Queue'[o] = Queue[o]
    PROVE  UNCHANGED Stream!vars
<1>1. /\ Phase = [q \in Objects |-> Phase[q]]
      /\ Queue = [q \in Objects |-> Queue[q]]
  BY DEF Phase, Queue
<1>. QED
  BY <1>1, OthersRest DEF Stream!vars

\* The steps of a LineStream, at one object.
LEMMA StreamStep ==
    ASSUME NEW o \in Objects, \A q \in Objects : q # o => Apart(q),
           \/ /\ Phase[o] = "none" /\ Phase'[o] \in {"open", "closed"}
              /\ Queue'[o] = Queue[o]
           \/ /\ Phase[o] = "open" /\ Phase'[o] = "open"
              /\ IsPrefix(Queue[o], Queue'[o])
           \/ /\ Phase[o] \in {"open", "ended"} /\ Phase'[o] = Phase[o]
              /\ Queue[o] # <<>> /\ Queue'[o] = Tail(Queue[o])
           \/ /\ Phase[o] = "open" /\ Phase'[o] = "ended"
              /\ IsPrefix(Queue'[o], Queue[o])
           \/ /\ Phase[o] \in Flowing /\ Phase'[o] = "closed" /\ Queue'[o] = <<>>
           \/ Phase[o] \in {"open", "disturbed"} /\ Phase'[o] = "disturbed"
    PROVE  Stream!Next
<1>. DEFINE p == Phase[o]
            q == Queue[o]
            pp == Phase'[o]
            qq == Queue'[o]
<1>1. /\ Phase' = [Phase EXCEPT ![o] = pp] /\ Queue' = [Queue EXCEPT ![o] = qq]
      /\ (pp = p => Phase' = Phase) /\ (qq = q => Queue' = Queue)
  <2>1. /\ Phase = [r \in Objects |-> Phase[r]]
        /\ Queue = [r \in Objects |-> Queue[r]]
    BY DEF Phase, Queue
  <2>. QED
    BY <2>1, OthersRest
<1>2. CASE p = "none" /\ pp \in {"open", "closed"} /\ qq = q
  <2>1. Stream!Open(o)
    BY <1>1, <1>2 DEF Stream!Open, Stream!Move
  <2>. QED
    BY <2>1 DEF Stream!Next
<1>3. CASE p = "open" /\ pp = "open" /\ IsPrefix(q, qq)
  <2>1. Stream!Write(o)
    BY <1>1, <1>3 DEF Stream!Write, Stream!OnlyQueueOf, Stream!IsPrefix, IsPrefix
  <2>. QED
    BY <2>1 DEF Stream!Next
<1>4. CASE p \in {"open", "ended"} /\ pp = p /\ q # <<>> /\ qq = Tail(q)
  <2>1. Stream!Read(o)
    BY <1>1, <1>4 DEF Stream!Read
  <2>. QED
    BY <2>1 DEF Stream!Next
<1>5. CASE p = "open" /\ pp = "ended" /\ IsPrefix(qq, q)
  <2>1. Stream!End(o)
    BY <1>1, <1>5 DEF Stream!End, Stream!Move, Stream!OnlyQueueOf, Stream!IsPrefix,
         IsPrefix
  <2>. QED
    BY <2>1 DEF Stream!Next
<1>6. CASE p \in Flowing /\ pp = "closed" /\ qq = <<>>
  <2>1. Stream!Close(o)
    BY <1>1, <1>6 DEF Stream!Close, Stream!Move, Flowing
  <2>. QED
    BY <2>1 DEF Stream!Next
<1>7. CASE p \in {"open", "disturbed"} /\ pp = "disturbed"
  <2>1. Stream!Disturb(o)
    BY <1>1, <1>7 DEF Stream!Disturb, Stream!Move, Stream!OnlyQueueOf
  <2>. QED
    BY <2>1 DEF Stream!Next
<1>. QED
  BY <1>2, <1>3, <1>4, <1>5, <1>6, <1>7

\* Passing the pieces on is a stutter, too.
LEMMA CarriedFlows ==
    ASSUME NEW o \in Objects, \A q \in Objects : q # o => Apart(q),
           Carried(o), Phase'[o] = Phase[o]
    PROVE  [Stream!Next]_(Stream!vars)
<1>1. Queue'[o] = Queue[o]
  BY PhaseAt, PhaseNext DEF Carried
<1>. QED
  BY <1>1, StreamSame

\* Every step is a step of LineStream or a stutter.
LEMMA StreamKept ==
    ASSUME Holdings, Data, [Next]_vars
    PROVE  [Stream!Next]_(Stream!vars)
<1>0. Data'
  BY DataKept
<1>1. ASSUME NEW o \in Objects,
             NoSocketPair(o) \/ NoFork(o) \/ NoFcntl(o) \/ Ready(o)
      PROVE  [Stream!Next]_(Stream!vars)
  <2>1. /\ UNCHANGED <<term, sent, got>> /\ term[o] = "none"
        /\ obj[o] = "none" /\ obj'[o] = "made"
        /\ st'[o] = "READY" => child'[o] = "starting"
        /\ InFlight(o)' = <<>>
        /\ \A q \in Objects : q # o => Apart(q)
    BY <1>1, CreateSteps
  <2>2. Phase[o] = "none" /\ Phase'[o] \in {"open", "closed"} /\ Queue[o] = <<>>
    BY <2>1, PhaseAt, PhaseNext DEF Flowing
  <2>3. LinesIn(<<>>) = <<>>
    BY LinesEmpty
  <2>4. Queue'[o] = <<>>
    BY <2>1, <2>3, PhaseNext
  <2>. QED
    BY <2>1, <2>2, <2>4, StreamStep
<1>2. ASSUME NEW o \in Objects, PollData(o) \/ PollNothing(o)
      PROVE  [Stream!Next]_(Stream!vars)
  <2>1. /\ obj[o] = "made" /\ st[o] = "READY" /\ UNCHANGED <<obj, st, child, term>>
        /\ Carried(o) \/ Returned(o)
        /\ \A q \in Objects : q # o => Apart(q)
    BY <1>2, PollSteps
  <2>2. Phase[o] \in Flowing /\ Phase'[o] = Phase[o]
    BY <2>1, PhaseAt, PhaseNext DEF Flowing
  <2>3. CASE Carried(o)
    BY <2>1, <2>2, <2>3, CarriedFlows
  <2>4. CASE Returned(o)
    <3>. DEFINE f == InFlight(o)
    <3>1. PICK pos : FirstEnd(f, pos) /\ InFlight(o)' = SubSeq(f, pos + 1, Len(f))
      BY <2>4 DEF Returned
    <3>2. f \in PieceSeqs
      BY UnwrittenType
    <3>. HIDE DEF f
    <3>3. LinesIn(f) # <<>> /\ LinesIn(SubSeq(f, pos + 1, Len(f))) = Tail(LinesIn(f))
      BY <3>1, <3>2, LinesRest
    <3>4. Queue[o] = LinesIn(f) /\ Queue'[o] = LinesIn(InFlight(o)')
      BY <2>2, PhaseAt, PhaseNext DEF f
    <3>5. Queue[o] # <<>> /\ Queue'[o] = Tail(Queue[o])
      BY <3>1, <3>3, <3>4
    <3>. QED
      BY <2>1, <2>2, <3>5, StreamStep DEF Flowing
  <2>. QED
    BY <2>1, <2>3, <2>4
<1>3. ASSUME NEW o \in Objects, PollEnd(o)
      PROVE  [Stream!Next]_(Stream!vars)
  <2>1. /\ UNCHANGED <<obj, child, term>> /\ obj[o] = "made" /\ st[o] = "READY"
        /\ st'[o] = "CLOSED" /\ child[o] = "dead"
        /\ \A q \in Objects : q # o => Apart(q)
    BY <1>3, PollEndSteps
  <2>2. Phase[o] \in Flowing /\ Phase'[o] = "closed" /\ Queue'[o] = <<>>
    BY <2>1, PhaseAt, PhaseNext DEF Flowing
  <2>. QED
    BY <2>1, <2>2, StreamStep
<1>4. ASSUME NEW o \in Objects, Deallocate(o)
      PROVE  [Stream!Next]_(Stream!vars)
  <2>1. /\ obj[o] = "made" /\ obj'[o] = "deleted"
        /\ \A q \in Objects : q # o => Apart(q)
    BY <1>4, DeallocateSteps
  <2>2. /\ Phase[o] \in Flowing \/ (Phase[o] = "closed" /\ Queue[o] = <<>>)
        /\ Phase'[o] = "closed" /\ Queue'[o] = <<>>
    BY <2>1, PhaseAt, PhaseNext DEF Flowing
  <2>. QED
    BY <2>1, <2>2, StreamStep, StreamSame
<1>5. ASSUME NEW o \in Objects, Start(o)
      PROVE  [Stream!Next]_(Stream!vars)
  <2>1. /\ Carried(o) /\ UNCHANGED <<obj, st, term>>
        /\ child[o] = "starting" /\ child'[o] = "running"
        /\ \A q \in Objects : q # o => Apart(q)
    BY <1>5, StartSteps
  <2>2. Phase'[o] = Phase[o]
    BY <2>1, PhaseAt, PhaseNext
  <2>. QED
    BY <2>1, <2>2, CarriedFlows
<1>6. ASSUME NEW o \in Objects, Write(o)
      PROVE  [Stream!Next]_(Stream!vars)
  <2>1. /\ Carried(o) /\ UNCHANGED <<obj, st, term, child>>
        /\ \A q \in Objects : q # o => Apart(q)
    BY <1>6, WriteSteps
  <2>2. Phase'[o] = Phase[o]
    BY <2>1, PhaseAt, PhaseNext
  <2>. QED
    BY <2>1, <2>2, CarriedFlows
<1>7. ASSUME NEW o \in Objects, Exit(o) \/ \E l \in Lines : Compose(o, l)
      PROVE  [Stream!Next]_(Stream!vars)
  <2>1. /\ Added(o) /\ UNCHANGED <<obj, st, term>>
        /\ child[o] = "running" /\ child'[o] \in {"running", "exiting"}
        /\ \A q \in Objects : q # o => Apart(q)
    BY <1>7, ComposeSteps
  <2>2. obj[o] # "none"
    BY <2>1 DEF Holdings
  <2>3. Phase'[o] = Phase[o] /\ Phase[o] \in {"open", "closed", "disturbed"}
    BY <2>1, <2>2, PhaseAt, PhaseNext
  <2>4. PICK all \in Seq(AllLines) : InFlight(o)' = InFlight(o) \o Flat(all)
    BY <2>1 DEF Added
  <2>5. IsPrefix(LinesIn(InFlight(o)), LinesIn(InFlight(o)'))
    <3>1. InFlight(o) \in PieceSeqs /\ Flat(all) \in PieceSeqs
      BY UnwrittenType, FlatType
    <3>. QED
      BY <2>4, <3>1, LinesGrow
  <2>6. CASE Phase[o] = "open"
    <3>1. IsPrefix(Queue[o], Queue'[o])
      BY <2>3, <2>5, <2>6, PhaseAt, PhaseNext DEF Flowing
    <3>. QED
      BY <2>1, <2>3, <2>6, <3>1, StreamStep
  <2>7. CASE Phase[o] = "closed"
    <3>1. Queue[o] = <<>> /\ Queue'[o] = <<>>
      BY <2>3, <2>7, PhaseAt, PhaseNext DEF Flowing
    <3>. QED
      BY <2>1, <2>3, <3>1, StreamSame
  <2>8. CASE Phase[o] = "disturbed"
    BY <2>1, <2>3, <2>8, StreamStep
  <2>. QED
    BY <2>3, <2>6, <2>7, <2>8
<1>8. ASSUME NEW o \in Objects, HandleTerm(o)
      PROVE  [Stream!Next]_(Stream!vars)
  <2>1. /\ UNCHANGED <<obj, st>> /\ term'[o] = "handled"
        /\ child[o] = "running" /\ child'[o] = "exiting"
        /\ \A q \in Objects : q # o => Apart(q)
    BY <1>8, HandleTermSteps
  <2>2. obj[o] # "none"
    BY <2>1 DEF Holdings
  <2>3. CASE Phase[o] = "closed"
    <3>1. Phase'[o] = "closed" /\ Queue[o] = <<>> /\ Queue'[o] = <<>>
      BY <2>1, <2>2, <2>3, PhaseAt, PhaseNext DEF Flowing
    <3>. QED
      BY <2>1, <2>3, <3>1, StreamSame
  <2>4. CASE Phase[o] # "closed"
    <3>1. Phase[o] \in {"open", "disturbed"} /\ Phase'[o] = "disturbed"
      BY <2>1, <2>2, <2>4, PhaseAt, PhaseNext
    <3>. QED
      BY <2>1, <3>1, StreamStep
  <2>. QED
    BY <2>3, <2>4
<1>9. ASSUME NEW o \in Objects, ChildEnds(o)
      PROVE  [Stream!Next]_(Stream!vars)
  <2>1. /\ Lost(o) /\ UNCHANGED <<obj, st, term>> /\ Alive(o) /\ child'[o] = "dead"
        /\ \A q \in Objects : q # o => Apart(q)
    BY <1>9, ChildEndsSteps
  <2>2. obj[o] # "none" /\ child[o] # "dead"
    BY <2>1 DEF Holdings, Alive
  <2>3. Phase[o] \in {"closed", "disturbed", "open"}
    BY <2>2, PhaseAt
  <2>4. CASE Phase[o] = "closed"
    <3>1. Phase'[o] = "closed" /\ Queue[o] = <<>> /\ Queue'[o] = <<>>
      BY <2>1, <2>2, <2>4, PhaseAt, PhaseNext DEF Flowing
    <3>. QED
      BY <2>1, <2>4, <3>1, StreamSame
  <2>5. CASE Phase[o] = "disturbed"
    <3>1. Phase'[o] = "disturbed"
      BY <2>1, <2>2, <2>5, PhaseAt, PhaseNext
    <3>. QED
      BY <2>1, <2>5, <3>1, StreamStep
  <2>6. CASE Phase[o] = "open"
    <3>1. Phase'[o] = "ended"
      BY <2>1, <2>2, <2>6, PhaseAt, PhaseNext
    <3>2. PICK rest \in PieceSeqs : InFlight(o) = InFlight(o)' \o rest
      BY <2>1 DEF Lost
    <3>3. InFlight(o)' \in PieceSeqs
      BY <1>0, NextTypes
    <3>4. IsPrefix(LinesIn(InFlight(o)'), LinesIn(InFlight(o)))
      BY <3>2, <3>3, LinesGrow
    <3>5. IsPrefix(Queue'[o], Queue[o])
      BY <2>6, <3>1, <3>4, PhaseAt, PhaseNext DEF Flowing
    <3>. QED
      BY <2>1, <2>6, <3>1, <3>5, StreamStep
  <2>. QED
    BY <2>3, <2>4, <2>5, <2>6
<1>10. CASE HostFlush \/ UNCHANGED vars
  <2>1. \A q \in Objects : Apart(q)
    BY <1>10, HostFlushSteps
  <2>2. CASE Objects = {}
    BY <2>2 DEF Stream!vars, Phase, Queue
  <2>3. CASE Objects # {}
    <3>1. PICK o \in Objects : TRUE
      BY <2>3
    <3>2. Phase'[o] = Phase[o] /\ Queue'[o] = Queue[o]
      BY <2>1, PhaseAt, PhaseNext DEF Apart, Status
    <3>. QED
      BY <2>1, <3>2, StreamSame
  <2>. QED
    BY <2>2, <2>3
<1>. QED
  BY <1>1, <1>2, <1>3, <1>4, <1>5, <1>6, <1>7, <1>8, <1>9, <1>10 DEF Next, Poll

\* For any objects, lines and sizes of reads, sockets and lines, each object with
\* its child is a stream of lines (sb.cc, sb_json.cc): what the child writes
\* arrives line by line in order, and only an end, a close or a signal loses any.
THEOREM BrowserIsStream == Spec => StreamSpec
<1>1. Init => Stream!Init
  BY DEF Init, Stream!Init, Phase, Queue
<1>2. Holdings /\ Data /\ [Next]_vars => [Stream!Next]_(Stream!vars)
  BY StreamKept
<1>. QED
  BY <1>1, <1>2, Remembered, DataTyped, PTL DEF Spec, StreamSpec, Stream!Spec

=============================================================================
