--------------------------- MODULE DiscoveryProofs ---------------------------
(***************************************************************************)
(* Proofs about Discovery for every set of names and services and every    *)
(* bound: what the page lists agrees with what Avahi has announced.        *)
(*                                                                         *)
(* ListIsRight speaks of a name when all about it has been read.  What     *)
(* leads there is Faithful: the lines about a name that are still on their *)
(* way say in turns that it comes and that it goes, the first of them what *)
(* the page does not show yet (Turns), and the last what is there (Leads). *)
(* An announced name adds to the end of the lines what the last has not    *)
(* said, and the page takes from the front what it does not show, so the   *)
(* entry that itemnew makes is never made twice.  Budget counts entries,   *)
(* lines and resolvers against the announcements.                          *)
(***************************************************************************)
EXTENDS Discovery, SequenceTheorems, FunctionTheorems, FiniteSetTheorems, TLAPS

Lines == Seq(Line)

\* Where a sequence of lines speaks of n.
Speaks(line, n) == line.signal \in {"itemnew", "itemremove"} /\ line.name = n
About(q, n)     == {k \in DOMAIN q : Speaks(q[k], n)}

Turns(q, n, shown) ==
    /\ \A k \in About(q, n) :
          (\A j \in About(q, n) : k <= j) => (q[k].signal = "itemnew" <=> ~shown)
    /\ \A j, k \in About(q, n) :
          j < k /\ (\A i \in About(q, n) : i <= j \/ k <= i) => q[j].signal # q[k].signal

Leads(q, n, shown, there) ==
    /\ \A k \in About(q, n) :
          (\A j \in About(q, n) : j <= k) => (q[k].signal = "itemnew" <=> there)
    /\ About(q, n) = {} => (shown <=> there)

Shown(n) == httpServices[n] # NoEntry
There(n) == seen \cap Of(n) # {} /\ ~Pending(n)

\* At most one service of the name is announced, and a resolver is at work for
\* that one only.
Single(n) ==
    /\ \A s, t \in seen \cap Of(n) : s = t
    /\ \A s \in Of(n) : resolving[s] > 0 => s \in seen /\ resolving[s] = 1

Faithful(n) ==
    /\ Turns(queue[Page], n, Shown(n))
    /\ loop # "ended" => Leads(queue[Page], n, Shown(n), There(n)) /\ Single(n)

\* The resolvers at work, and the lines that will make an entry.
Resolvers == {x \in Services \X (1..MaxNew) : x[2] <= resolving[x[1]]}
News(q)   == {k \in DOMAIN q : q[k].signal = "itemnew"}

Budget ==
    /\ news \in 0..MaxNew
    /\ \A s \in Services : resolving[s] <= news
    /\ IsFiniteSet(Resolvers)
    /\ counter + Cardinality(News(queue[Page])) + Cardinality(Resolvers) <= news

\* No number is given to two items.
Numbered == \A i, j \in liste : i.ref = j.ref => i = j

Streams ==
    /\ Unquotable \subseteq astray
    /\ phase[Page] = "ended" => loop = "ended"

IInv ==
    /\ TypeOK /\ Budget /\ Numbered /\ NoGhosts /\ Streams
    /\ \A n \in Names \ astray : Faithful(n)

-----------------------------------------------------------------------------
(* Lines.                                                                  *)

LEMMA LineFacts ==
    ASSUME NEW q \in Lines
    PROVE  /\ Len(q) \in Nat /\ DOMAIN q = 1..Len(q)
           /\ \A k \in DOMAIN q : k \in Nat /\ q[k] \in Line
           /\ \A k \in DOMAIN q : q[k].signal \in {"itemnew", "itemremove"} => q[k].name \in Names
<1>1. Len(q) \in Nat /\ DOMAIN q = 1..Len(q)
  BY LenProperties DEF Lines
<1>2. \A k \in DOMAIN q : q[k] \in Line
  BY <1>1, ElementOfSeq DEF Lines
<1>3. \A x \in Line : x.signal \in {"itemnew", "itemremove"} => x.name \in Names
  BY DEF Line
<1>. QED
  BY <1>1, <1>2, <1>3

LEMMA LinesAre ==
    /\ \A n \in Names : Item("itemnew", n) \in Line /\ Item("itemremove", n) \in Line
    /\ Remark("all_for_now") \in Line /\ Remark("cache_exhausted") \in Line
BY DEF Item, Remark, Line

\* After the first line is read.
LEMMA TailFacts ==
    ASSUME NEW q \in Lines, q # <<>>
    PROVE  /\ Tail(q) \in Lines /\ Head(q) = q[1] /\ 1 \in DOMAIN q
           /\ \A k \in DOMAIN Tail(q) : k + 1 \in DOMAIN q /\ Tail(q)[k] = q[k + 1]
           /\ \A k \in DOMAIN q : k = 1 \/ (k - 1 \in DOMAIN Tail(q) /\ k - 1 + 1 = k)
<1>1. Len(q) \in Nat \ {0} /\ DOMAIN q = 1..Len(q)
  BY EmptySeq, LenProperties DEF Lines
<1>2. /\ Tail(q) \in Lines /\ Head(q) = q[1] /\ Len(Tail(q)) = Len(q) - 1
      /\ \A k \in 1..Len(Tail(q)) : Tail(q)[k] = q[k + 1]
  BY <1>1 DEF Lines
<1>3. DOMAIN Tail(q) = 1..Len(Tail(q))
  BY <1>2, LenProperties DEF Lines
<1>. QED
  BY <1>1, <1>2, <1>3

LEMMA TailAbout ==
    ASSUME NEW q \in Lines, q # <<>>, NEW n
    PROVE  /\ \A k \in About(Tail(q), n) :
                 k \in Nat \ {0} /\ k + 1 \in About(q, n) /\ Tail(q)[k] = q[k + 1]
           /\ \A k \in About(q, n) : k \in Nat /\ 1 <= k
           /\ \A k \in About(q, n) : k = 1 \/ (k - 1 \in About(Tail(q), n) /\ k - 1 + 1 = k)
<1>1. /\ \A k \in DOMAIN Tail(q) : k + 1 \in DOMAIN q /\ Tail(q)[k] = q[k + 1]
      /\ \A k \in DOMAIN q : k = 1 \/ (k - 1 \in DOMAIN Tail(q) /\ k - 1 + 1 = k)
      /\ Tail(q) \in Lines
  BY TailFacts
<1>2. /\ \A k \in DOMAIN q : k \in Nat /\ 1 <= k
      /\ \A k \in DOMAIN Tail(q) : k \in Nat \ {0}
  BY <1>1, LineFacts
<1>. QED
  BY <1>1, <1>2 DEF About

\* The line that is read says what is shown from then on.
Heard(q, n, shown) == IF 1 \in About(q, n) THEN q[1].signal = "itemnew" ELSE shown

LEMMA TailTurns ==
    ASSUME NEW q \in Lines, q # <<>>, NEW n, NEW shown \in BOOLEAN, Turns(q, n, shown)
    PROVE  Turns(Tail(q), n, Heard(q, n, shown))
<1>. DEFINE A == About(q, n)
            B == About(Tail(q), n)
            t == Tail(q)
<1>1. /\ \A k \in B : k \in Nat \ {0} /\ k + 1 \in A /\ t[k] = q[k + 1]
      /\ \A k \in A : k \in Nat /\ 1 <= k
      /\ \A k \in A : k = 1 \/ (k - 1 \in B /\ k - 1 + 1 = k)
  BY TailAbout
<1>2. \A k \in A : q[k].signal \in {"itemnew", "itemremove"}
  BY DEF About, Speaks
<1>3. /\ \A k \in A : (\A j \in A : k <= j) => (q[k].signal = "itemnew" <=> ~shown)
      /\ \A j, k \in A : j < k /\ (\A i \in A : i <= j \/ k <= i) => q[j].signal # q[k].signal
  BY DEF Turns
<1>. HIDE DEF A, B, t
<1>4. ASSUME NEW k \in B, \A j \in B : k <= j
      PROVE  t[k].signal = "itemnew" <=> ~Heard(q, n, shown)
  <2>1. \A j \in A : j = 1 \/ k + 1 <= j
    BY <1>1, <1>4
  <2>2. CASE 1 \in A
    <3>1. k + 1 \in A /\ 1 < k + 1 /\ \A i \in A : i <= 1 \/ k + 1 <= i
      BY <1>1, <2>1
    <3>2. q[1].signal # q[k + 1].signal
      BY <1>3, <2>2, <3>1
    <3>. QED
      BY <1>1, <1>2, <2>2, <3>2 DEF Heard, A
  <2>3. CASE 1 \notin A
    BY <1>1, <1>3, <2>1, <2>3 DEF Heard, A
  <2>. QED
    BY <2>2, <2>3
<1>5. ASSUME NEW j \in B, NEW k \in B, j < k, \A i \in B : i <= j \/ k <= i
      PROVE  t[j].signal # t[k].signal
  <2>1. j + 1 \in A /\ k + 1 \in A /\ j + 1 < k + 1
    BY <1>1, <1>5
  <2>2. ASSUME NEW i \in A PROVE i <= j + 1 \/ k + 1 <= i
    <3>1. j \in Nat /\ k \in Nat /\ i \in Nat /\ 1 <= i /\ 1 <= j
      BY <1>1
    <3>2. CASE i = 1
      BY <3>1, <3>2
    <3>3. CASE i # 1
      <4>1. i - 1 \in B
        BY <1>1, <3>3
      <4>2. i - 1 <= j \/ k <= i - 1
        BY <1>5, <4>1
      <4>. QED
        BY <3>1, <4>2
    <3>. QED
      BY <3>2, <3>3
  <2>3. q[j + 1].signal # q[k + 1].signal
    BY <1>3, <2>1, <2>2
  <2>. QED
    BY <1>1, <2>3
<1>. QED
  BY <1>4, <1>5 DEF Turns, B, t

LEMMA TailLeads ==
    ASSUME NEW q \in Lines, q # <<>>, NEW n, NEW shown \in BOOLEAN, NEW there \in BOOLEAN,
           Leads(q, n, shown, there)
    PROVE  Leads(Tail(q), n, Heard(q, n, shown), there)
<1>. DEFINE A == About(q, n)
            B == About(Tail(q), n)
            t == Tail(q)
<1>1. /\ \A k \in B : k \in Nat \ {0} /\ k + 1 \in A /\ t[k] = q[k + 1]
      /\ \A k \in A : k \in Nat /\ 1 <= k
      /\ \A k \in A : k = 1 \/ (k - 1 \in B /\ k - 1 + 1 = k)
  BY TailAbout
<1>2. /\ \A k \in A : (\A j \in A : j <= k) => (q[k].signal = "itemnew" <=> there)
      /\ A = {} => (shown <=> there)
  BY DEF Leads
<1>. HIDE DEF A, B, t
<1>3. ASSUME NEW k \in B, \A j \in B : j <= k
      PROVE  t[k].signal = "itemnew" <=> there
  <2>1. k + 1 \in A /\ \A j \in A : j <= k + 1
    BY <1>1, <1>3
  <2>. QED
    BY <1>1, <1>2, <2>1
<1>4. ASSUME B = {} PROVE Heard(q, n, shown) <=> there
  <2>1. \A k \in A : k = 1
    BY <1>1, <1>4
  <2>. QED
    BY <1>1, <1>2, <2>1 DEF Heard, A
<1>. QED
  BY <1>3, <1>4 DEF Leads, B, t

\* A line is added.
Longer(t, q, x) ==
    /\ t \in Lines /\ Len(t) = Len(q) + 1
    /\ t[Len(q) + 1] = x /\ \A k \in 1..Len(q) : t[k] = q[k]

LEMMA AppendAbout ==
    ASSUME NEW q \in Lines, NEW x \in Line, NEW n, NEW t, Longer(t, q, x)
    PROVE  /\ t \in Lines /\ Len(q) + 1 \in Nat /\ t[Len(q) + 1] = x
           /\ \A k \in About(q, n) : k \in Nat /\ k < Len(q) + 1 /\ t[k] = q[k]
           /\ About(t, n) = About(q, n) \cup {k \in {Len(q) + 1} : Speaks(x, n)}
<1>. DEFINE m == Len(q) + 1
<1>1. Len(q) \in Nat /\ DOMAIN q = 1..Len(q)
  BY LineFacts
<1>2. /\ t \in Lines /\ Len(t) = m /\ m \in Nat
      /\ t[m] = x /\ \A k \in 1..Len(q) : t[k] = q[k]
  BY <1>1 DEF Longer
<1>3. DOMAIN t = 1..m
  BY <1>2, LineFacts
<1>4. 1..m = 1..Len(q) \cup {m} /\ \A k \in 1..Len(q) : k \in Nat /\ k < m
  BY <1>1
<1>5. About(t, n) = {k \in 1..Len(q) \cup {m} : Speaks(t[k], n)}
  BY <1>3, <1>4 DEF About
<1>6. About(q, n) = {k \in 1..Len(q) : Speaks(q[k], n)}
  BY <1>1 DEF About
<1>7. About(t, n) = About(q, n) \cup {k \in {m} : Speaks(x, n)}
  BY <1>2, <1>5, <1>6
<1>. QED
  BY <1>2, <1>4, <1>6, <1>7

\* It is about another name, or a remark.
LEMMA OtherLine ==
    ASSUME NEW q \in Lines, NEW x \in Line, NEW n, NEW shown \in BOOLEAN, NEW there \in BOOLEAN,
           NEW t, Longer(t, q, x),
           ~Speaks(x, n)
    PROVE  /\ Turns(q, n, shown) => Turns(t, n, shown)
           /\ Leads(q, n, shown, there) => Leads(t, n, shown, there)
<1>1. /\ About(t, n) = About(q, n) \cup {k \in {Len(q) + 1} : Speaks(x, n)}
      /\ \A k \in About(q, n) : k \in Nat /\ k < Len(q) + 1 /\ t[k] = q[k]
  BY AppendAbout
<1>2. About(t, n) = About(q, n)
  BY <1>1
<1>. QED
  BY <1>1, <1>2 DEF Turns, Leads

\* It says of n what was not so.
LEMMA NextLine ==
    ASSUME NEW q \in Lines, NEW x \in Line, NEW n, NEW shown \in BOOLEAN, NEW there \in BOOLEAN,
           NEW t, Longer(t, q, x),
           x.signal = (IF there THEN "itemremove" ELSE "itemnew"), x.name = n,
           Turns(q, n, shown), Leads(q, n, shown, there)
    PROVE  /\ Turns(t, n, shown)
           /\ Leads(t, n, shown, ~there)
<1>. DEFINE A == About(q, n)
            B == About(t, n)
            m == Len(q) + 1
<1>0. Speaks(x, n)
  BY DEF Speaks
<1>1. /\ m \in Nat /\ B = A \cup {m} /\ t[m] = x
      /\ \A k \in A : k \in Nat /\ k < m /\ t[k] = q[k]
  BY <1>0, AppendAbout
<1>2. \A k \in A : q[k].signal \in {"itemnew", "itemremove"}
  BY DEF About, Speaks
<1>3. /\ \A k \in A : (\A j \in A : k <= j) => (q[k].signal = "itemnew" <=> ~shown)
      /\ \A j, k \in A : j < k /\ (\A i \in A : i <= j \/ k <= i) => q[j].signal # q[k].signal
  BY DEF Turns
<1>4. /\ \A k \in A : (\A j \in A : j <= k) => (q[k].signal = "itemnew" <=> there)
      /\ A = {} => (shown <=> there)
  BY DEF Leads
<1>. HIDE DEF A, B, m
<1>5. ASSUME NEW k \in B, \A j \in B : k <= j PROVE t[k].signal = "itemnew" <=> ~shown
  <2>1. CASE k = m
    <3>1. A = {}
      BY <1>1, <1>5, <2>1
    <3>. QED
      BY <1>1, <1>4, <2>1, <3>1
  <2>2. CASE k \in A
    BY <1>1, <1>3, <1>5, <2>2
  <2>. QED
    BY <1>1, <2>1, <2>2
<1>6. ASSUME NEW j \in B, NEW k \in B, j < k, \A i \in B : i <= j \/ k <= i
      PROVE  t[j].signal # t[k].signal
  <2>1. j \in A
    BY <1>1, <1>6
  <2>2. CASE k = m
    <3>1. \A i \in A : i <= j
      BY <1>1, <1>6, <2>2
    <3>2. q[j].signal = "itemnew" <=> there
      BY <1>4, <2>1, <3>1
    <3>. QED
      BY <1>1, <1>2, <2>1, <2>2, <3>2
  <2>3. CASE k \in A
    <3>1. \A i \in A : i <= j \/ k <= i
      BY <1>1, <1>6
    <3>2. q[j].signal # q[k].signal
      BY <1>3, <1>6, <2>1, <2>3, <3>1
    <3>. QED
      BY <1>1, <2>1, <2>3, <3>2
  <2>. QED
    BY <1>1, <2>2, <2>3
<1>7. ASSUME NEW k \in B, \A j \in B : j <= k PROVE t[k].signal = "itemnew" <=> ~there
  <2>1. k = m
    BY <1>1, <1>7
  <2>. QED
    BY <1>1, <2>1
<1>8. B # {}
  BY <1>1
<1>. QED
  BY <1>5, <1>6, <1>7, <1>8 DEF Turns, Leads, B

\* What was not written any more is lost.
LEMMA CutTurns ==
    ASSUME NEW q \in Lines, NEW c \in 0..Len(q), NEW n, NEW shown, Turns(q, n, shown)
    PROVE  SubSeq(q, 1, c) \in Lines /\ Turns(SubSeq(q, 1, c), n, shown)
<1>. DEFINE t == SubSeq(q, 1, c)
<1>1. Len(q) \in Nat /\ DOMAIN q = 1..Len(q) /\ \A k \in 1..c : q[k] \in Line /\ k \in DOMAIN q
  BY LineFacts
<1>2. /\ t \in Lines /\ Len(t) = c /\ \A k \in 1..c : t[k] = q[k]
  <2>1. /\ t \in Lines /\ Len(t) = IF 1 <= c THEN c - 1 + 1 ELSE 0
        /\ \A k \in 1..c - 1 + 1 : t[k] = q[1 + k - 1]
    BY <1>1, SubSeqProperties DEF Lines
  <2>. QED
    BY <1>1, <2>1
<1>3. DOMAIN t = 1..c
  BY <1>2, LenProperties DEF Lines
<1>. DEFINE A == About(q, n)
            B == About(t, n)
<1>4. /\ \A k \in B : k \in A /\ k <= c /\ k \in Nat /\ t[k] = q[k]
      /\ \A k \in A : k \in Nat /\ (k <= c => k \in B)
  BY <1>1, <1>2, <1>3 DEF About
<1>5. /\ \A k \in A : (\A j \in A : k <= j) => (q[k].signal = "itemnew" <=> ~shown)
      /\ \A j, k \in A : j < k /\ (\A i \in A : i <= j \/ k <= i) => q[j].signal # q[k].signal
  BY DEF Turns
<1>. HIDE DEF A, B, t
<1>6. ASSUME NEW k \in B, \A j \in B : k <= j PROVE t[k].signal = "itemnew" <=> ~shown
  <2>1. \A j \in A : k <= j
    BY <1>1, <1>4, <1>6
  <2>. QED
    BY <1>4, <1>5, <2>1
<1>7. ASSUME NEW j \in B, NEW k \in B, j < k, \A i \in B : i <= j \/ k <= i
      PROVE  t[j].signal # t[k].signal
  <2>1. \A i \in A : i <= j \/ k <= i
    BY <1>1, <1>4, <1>7
  <2>. QED
    BY <1>4, <1>5, <1>7, <2>1
<1>. QED
  BY <1>2, <1>6, <1>7 DEF Turns, B, t

-----------------------------------------------------------------------------
(* Counting.                                                               *)

LEMMA NewsFacts ==
    ASSUME NEW q \in Lines
    PROVE  IsFiniteSet(News(q)) /\ Cardinality(News(q)) \in Nat
<1>1. Len(q) \in Nat /\ DOMAIN q = 1..Len(q)
  BY LineFacts
<1>2. IsFiniteSet(1..Len(q))
  BY <1>1, FS_Interval
<1>3. News(q) \in SUBSET (1..Len(q))
  BY <1>1 DEF News
<1>. QED
  BY <1>2, <1>3, FS_Subset, FS_CardinalityType

LEMMA AppendNews ==
    ASSUME NEW q \in Lines, NEW x \in Line, NEW t, Longer(t, q, x)
    PROVE  Cardinality(News(t)) =
              Cardinality(News(q)) + (IF x.signal = "itemnew" THEN 1 ELSE 0)
<1>. DEFINE m == Len(q) + 1
<1>1. Len(q) \in Nat /\ DOMAIN q = 1..Len(q)
  BY LineFacts
<1>2. t \in Lines /\ Len(t) = m /\ t[m] = x /\ \A k \in 1..Len(q) : t[k] = q[k]
  BY DEF Longer
<1>3. DOMAIN t = 1..Len(q) \cup {m} /\ m \notin 1..Len(q)
  <2>1. DOMAIN t = 1..m
    BY <1>2, LineFacts
  <2>. QED
    BY <1>1, <2>1
<1>. HIDE DEF m
<1>4. IsFiniteSet(News(q)) /\ m \notin News(q) /\ Cardinality(News(q)) \in Nat
  BY <1>1, <1>3, NewsFacts DEF News
<1>5. CASE x.signal = "itemnew"
  <2>1. News(t) = News(q) \cup {m}
    BY <1>1, <1>2, <1>3, <1>5 DEF News
  <2>. QED
    BY <1>4, <1>5, <2>1, FS_AddElement
<1>6. CASE x.signal # "itemnew"
  <2>1. News(t) = News(q)
    BY <1>1, <1>2, <1>3, <1>6 DEF News
  <2>. QED
    BY <1>4, <1>6, <2>1
<1>. QED
  BY <1>5, <1>6

LEMMA TailNews ==
    ASSUME NEW q \in Lines, q # <<>>
    PROVE  Cardinality(News(Tail(q))) + (IF q[1].signal = "itemnew" THEN 1 ELSE 0)
              = Cardinality(News(q))
<1>. DEFINE t == Tail(q)
            A == News(q) \ {1}
            B == News(t)
            f == [k \in B |-> k + 1]
<1>1. /\ t \in Lines /\ 1 \in DOMAIN q
      /\ \A k \in DOMAIN t : k + 1 \in DOMAIN q /\ t[k] = q[k + 1]
      /\ \A k \in DOMAIN q : k = 1 \/ (k - 1 \in DOMAIN t /\ k - 1 + 1 = k)
  BY TailFacts
<1>2. /\ \A k \in DOMAIN q : k \in Nat
      /\ \A k \in DOMAIN t : k \in Nat \ {0}
  <2>1. Len(q) \in Nat /\ DOMAIN q = 1..Len(q)
    BY LineFacts
  <2>2. Len(t) \in Nat /\ DOMAIN t = 1..Len(t)
    BY <1>1, LineFacts
  <2>. QED
    BY <2>1, <2>2
<1>. HIDE DEF t
<1>3. /\ \A k \in B : k \in Nat /\ k + 1 \in A
      /\ \A k \in A : k \in Nat /\ k - 1 \in B /\ k - 1 + 1 = k
  BY <1>1, <1>2 DEF News
<1>4. f \in Bijection(B, A)
  <2>. HIDE DEF A, B
  <2>1. f \in [B -> A]
    BY <1>3
  <2>2. \A j, k \in B : f[j] = f[k] => j = k
    BY <1>3
  <2>3. \A k \in A : \E j \in B : f[j] = k
    BY <1>3
  <2>. HIDE DEF f
  <2>. QED
    BY <2>1, <2>2, <2>3, Fun_IsBij
<1>5. IsFiniteSet(B) /\ IsFiniteSet(News(q)) /\ Cardinality(B) \in Nat /\ Cardinality(News(q)) \in Nat
  BY <1>1, NewsFacts
<1>6. Cardinality(A) = Cardinality(B)
  <2>. HIDE DEF A, B, f
  <2>1. ExistsBijection(B, A)
    BY <1>4 DEF ExistsBijection
  <2>. QED
    BY <1>5, <2>1, FS_Bijection
<1>7. 1 \in News(q) <=> q[1].signal = "itemnew"
  BY <1>1 DEF News
<1>8. Cardinality(A) = IF 1 \in News(q) THEN Cardinality(News(q)) - 1 ELSE Cardinality(News(q))
  BY <1>5, FS_RemoveElement
<1>. QED
  BY <1>5, <1>6, <1>7, <1>8 DEF t

LEMMA CutNews ==
    ASSUME NEW q \in Lines, NEW c \in 0..Len(q), SubSeq(q, 1, c) \in Lines
    PROVE  Cardinality(News(SubSeq(q, 1, c))) <= Cardinality(News(q))
<1>. DEFINE t == SubSeq(q, 1, c)
<1>1. Len(q) \in Nat /\ DOMAIN q = 1..Len(q) /\ \A k \in 1..c : q[k] \in Line /\ k \in DOMAIN q
  BY LineFacts
<1>2. Len(t) = c /\ \A k \in 1..c : t[k] = q[k]
  <2>1. /\ Len(t) = IF 1 <= c THEN c - 1 + 1 ELSE 0
        /\ \A k \in 1..c - 1 + 1 : t[k] = q[1 + k - 1]
    BY <1>1, SubSeqProperties
  <2>. QED
    BY <1>1, <2>1
<1>. HIDE DEF t
<1>3. DOMAIN t = 1..c
  BY <1>2, LineFacts DEF t
<1>4. News(t) \in SUBSET News(q)
  BY <1>1, <1>2, <1>3 DEF News
<1>. QED
  BY <1>4, NewsFacts, FS_Subset DEF t

\* A resolver is started, and one answers.
LEMMA ResolverStarts ==
    ASSUME TypeOK, Budget, NEW s \in Services, news < MaxNew,
           resolving' = [resolving EXCEPT ![s] = @ + 1]
    PROVE  IsFiniteSet(Resolvers') /\ Cardinality(Resolvers') = Cardinality(Resolvers) + 1
<1>. DEFINE k == resolving[s] + 1
<1>1. k \in 1..MaxNew /\ resolving[s] \in Nat
  BY NewAssumption DEF TypeOK, Budget
<1>2. \A u \in Services : resolving'[u] = IF u = s THEN k ELSE resolving[u]
  BY DEF TypeOK
<1>3. \A u \in Services : resolving[u] \in Nat
  BY NewAssumption DEF TypeOK
<1>4. <<s, k>> \notin Resolvers
  BY <1>1 DEF Resolvers
<1>5. ASSUME NEW u \in Services, NEW j \in 1..MaxNew
      PROVE  j <= resolving'[u] <=> (j <= resolving[u] \/ (u = s /\ j = k))
  BY <1>1, <1>2, <1>3
<1>6. Resolvers' = Resolvers \cup {<<s, k>>}
  <2>. HIDE DEF k
  <2>1. ASSUME NEW x \in Services \X (1..MaxNew)
        PROVE  x \in Resolvers' <=> x \in Resolvers \/ x = <<s, k>>
    BY <1>5 DEF Resolvers
  <2>2. <<s, k>> \in Services \X (1..MaxNew)
    BY <1>1
  <2>. QED
    BY <2>1, <2>2 DEF Resolvers
<1>. HIDE DEF k
<1>. QED
  BY <1>4, <1>6, FS_AddElement DEF Budget

LEMMA ResolverEnds ==
    ASSUME TypeOK, Budget, NEW s \in Services, Answered(s)
    PROVE  IsFiniteSet(Resolvers') /\ Cardinality(Resolvers') = Cardinality(Resolvers) - 1
<1>. DEFINE k == resolving[s]
<1>1. k \in 1..MaxNew
  BY NewAssumption DEF TypeOK, Answered
<1>2. \A u \in Services : resolving'[u] = IF u = s THEN k - 1 ELSE resolving[u]
  BY DEF TypeOK, Answered
<1>3. \A u \in Services : resolving[u] \in Nat
  BY NewAssumption DEF TypeOK
<1>4. <<s, k>> \in Resolvers
  BY <1>1 DEF Resolvers
<1>5. ASSUME NEW u \in Services, NEW j \in 1..MaxNew
      PROVE  j <= resolving'[u] <=> (j <= resolving[u] /\ ~(u = s /\ j = k))
  BY <1>1, <1>2, <1>3
<1>6. Resolvers' = Resolvers \ {<<s, k>>}
  <2>. HIDE DEF k
  <2>1. ASSUME NEW x \in Services \X (1..MaxNew)
        PROVE  x \in Resolvers' <=> x \in Resolvers /\ x # <<s, k>>
    BY <1>5 DEF Resolvers
  <2>. QED
    BY <2>1 DEF Resolvers
<1>. HIDE DEF k
<1>. QED
  BY <1>4, <1>6, FS_RemoveElement DEF Budget

-----------------------------------------------------------------------------
(* What the child writes.                                                  *)

LEMMA QueueTyped ==
    ASSUME TypeOK
    PROVE  queue[Page] \in Lines /\ Len(queue[Page]) \in Nat
<1>1. queue[Page] \in Lines
  BY DEF TypeOK, Lines
<1>. QED
  BY <1>1, LineFacts

LEMMA ConcatLonger ==
    ASSUME NEW q \in Lines, NEW x \in Line
    PROVE  Longer(q \o <<x>>, q, x)
<1>1. Len(q) \in Nat /\ q \in Seq(Line) /\ <<x>> \in Seq(Line) /\ Len(<<x>>) = 1 /\ <<x>>[1] = x
  BY LineFacts DEF Lines
<1>2. /\ q \o <<x>> \in Seq(Line) /\ Len(q \o <<x>>) = Len(q) + 1
      /\ \A i \in 1..(Len(q) + 1) : (q \o <<x>>)[i] = IF i <= Len(q) THEN q[i] ELSE <<x>>[i - Len(q)]
  BY <1>1, ConcatProperties
<1>. DEFINE t == q \o <<x>>
<1>. HIDE DEF t
<1>3. t[Len(q) + 1] = x
  BY <1>1, <1>2 DEF t
<1>4. \A k \in 1..Len(q) : t[k] = q[k]
  BY <1>1, <1>2 DEF t
<1>. QED
  BY <1>2, <1>3, <1>4 DEF Longer, Lines, t

LEMMA EmitIs ==
    ASSUME TypeOK, NEW lines \in Lines, Emit(lines)
    PROVE  /\ loop = "running" /\ phase' = phase
           /\ queue' \in [{Page} -> Lines]
           /\ queue'[Page] = queue[Page] \o lines
<1>1. queue \in [{Page} -> Lines]
  BY DEF TypeOK, Lines
<1>2. queue[Page] \o lines \in Lines
  BY <1>1, ConcatProperties DEF Lines
<1>3. /\ loop = "running" /\ phase' = phase
      /\ queue' = [queue EXCEPT ![Page] = queue[Page] \o lines]
  BY DEF Emit, Stream!Write
<1>. QED
  BY <1>1, <1>2, <1>3

LEMMA EmitNothing ==
    ASSUME TypeOK, Emit(<<>>)
    PROVE  loop = "running" /\ phase' = phase /\ queue' = queue
<1>1. queue \in [{Page} -> Seq(Line)]
  BY DEF TypeOK
<1>2. queue[Page] \o <<>> = queue[Page]
  BY <1>1, ConcatEmptySeq
<1>3. /\ loop = "running" /\ phase' = phase
      /\ queue' = [queue EXCEPT ![Page] = queue[Page] \o <<>>]
  BY DEF Emit, Stream!Write
<1>. QED
  BY <1>1, <1>2, <1>3

LEMMA EmitOne ==
    ASSUME TypeOK, NEW x \in Line, Emit(<<x>>)
    PROVE  /\ loop = "running" /\ phase' = phase
           /\ queue' \in [{Page} -> Lines]
           /\ Longer(queue'[Page], queue[Page], x)
<1>1. <<x>> \in Lines /\ queue[Page] \in Lines
  BY QueueTyped DEF Lines
<1>. QED
  BY <1>1, EmitIs, ConcatLonger

\* Two remarks at once.
LEMMA EmitTwo ==
    ASSUME TypeOK, NEW x \in Line, NEW y \in Line, Emit(<<x, y>>)
    PROVE  /\ loop = "running" /\ phase' = phase
           /\ queue' \in [{Page} -> Lines]
           /\ \E t \in Lines : Longer(t, queue[Page], x) /\ Longer(queue'[Page], t, y)
<1>. DEFINE q == queue[Page]
            t == q \o <<x>>
<1>0. q \in Lines /\ <<x>> \in Lines /\ <<y>> \in Lines /\ <<x, y>> \in Lines
  BY QueueTyped DEF Lines
<1>1. q \in Lines /\ <<x>> \in Lines /\ <<y>> \in Lines /\ <<x, y>> \in Lines
      /\ <<x, y>> = <<x>> \o <<y>>
  <2>. DEFINE u == <<x>>
              v == <<y>>
              w == <<x, y>>
  <2>2. /\ u \in Seq(Line) /\ v \in Seq(Line) /\ w \in Seq(Line)
        /\ Len(u) = 1 /\ Len(v) = 1 /\ Len(w) = 2
        /\ u[1] = x /\ v[1] = y /\ w[1] = x /\ w[2] = y
    OBVIOUS
  <2>. HIDE DEF u, v, w
  <2>. DEFINE z == u \o v
  <2>6. /\ z \in Seq(Line) /\ Len(z) = Len(u) + Len(v)
        /\ \A i \in 1..Len(u) + Len(v) : z[i] = IF i <= Len(u) THEN u[i] ELSE v[i - Len(u)]
    BY <2>2, ConcatProperties
  <2>. HIDE DEF z
  <2>3. /\ z \in Seq(Line) /\ Len(z) = 2
        /\ \A i \in 1..2 : z[i] = IF i <= 1 THEN u[i] ELSE v[i - 1]
    BY <2>2, <2>6
  <2>4. \A i \in 1..2 : w[i] = z[i]
    BY <2>2, <2>3
  <2>5. w = z
    BY <2>2, <2>3, <2>4, SeqEqual
  <2>1. <<x, y>> = <<x>> \o <<y>>
    BY <2>5 DEF u, v, w, z
  <2>. QED
    BY <1>0, <2>1
<1>2. /\ loop = "running" /\ phase' = phase
      /\ queue' \in [{Page} -> Lines] /\ queue'[Page] = q \o <<x, y>>
  BY <1>1, EmitIs
<1>. HIDE DEF q
<1>3. q \o (<<x>> \o <<y>>) = t \o <<y>>
  BY <1>1, ConcatAssociative DEF Lines
<1>4. t \in Lines /\ Longer(t, q, x)
  BY <1>1, ConcatLonger DEF Longer
<1>. HIDE DEF t
<1>5. Longer(t \o <<y>>, t, y)
  BY <1>4, ConcatLonger
<1>. QED
  BY <1>1, <1>2, <1>3, <1>4, <1>5 DEF q

-----------------------------------------------------------------------------
(* The child.                                                              *)

ChildTyped ==
    /\ TypeOK /\ Budget /\ Streams

LEMMA Sums ==
    ASSUME NEW e \in Nat, NEW a \in Nat, NEW b \in Nat, NEW c \in Nat, NEW d \in Nat,
           NEW m \in Nat, NEW n \in Nat,
           e + a + b <= m, c + d - n <= a + b - m
    PROVE  e + c + d <= n
OBVIOUS

\* What a step of the child has to leave: the page, and the books.
LEMMA ChildStep ==
    ASSUME ChildTyped, History, UNCHANGED pageVars,
           loop' \in {"setup", "running", "quit", "ended"},
           phase' \in [{Page} -> {"none", "open", "ended", "closed"}],
           phase'[Page] = "ended" => loop' = "ended",
           queue' \in [{Page} -> Lines],
           seen' \subseteq Services, resolving' \in [Services -> 0..MaxNew],
           news' \in 0..MaxNew, \A s \in Services : resolving'[s] <= news',
           IsFiniteSet(Resolvers'),
           Cardinality(News(queue'[Page])) + Cardinality(Resolvers') - news'
              <= Cardinality(News(queue[Page])) + Cardinality(Resolvers) - news
    PROVE  ChildTyped' /\ astray \subseteq astray'
<1>1. astray' \subseteq Names /\ astray \subseteq astray'
  BY DEF History, ChildTyped, TypeOK
<1>2. TypeOK'
  BY <1>1 DEF ChildTyped, TypeOK, Lines, pageVars
<1>3. Streams'
  BY <1>1 DEF ChildTyped, Streams
<1>4. /\ Cardinality(News(queue[Page])) \in Nat /\ Cardinality(News(queue'[Page])) \in Nat
      /\ Cardinality(Resolvers) \in Nat /\ Cardinality(Resolvers') \in Nat
  <2>1. queue[Page] \in Lines /\ queue'[Page] \in Lines
    BY QueueTyped DEF ChildTyped
  <2>. QED
    BY <2>1, NewsFacts, FS_CardinalityType DEF ChildTyped, Budget
<1>5. counter' = counter /\ counter \in Nat
  BY NewAssumption DEF pageVars, ChildTyped, TypeOK
<1>6. counter' + Cardinality(News(queue'[Page])) + Cardinality(Resolvers') <= news'
  <2>. DEFINE a == Cardinality(News(queue[Page]))
              b == Cardinality(Resolvers)
              c == Cardinality(News(queue'[Page]))
              d == Cardinality(Resolvers')
  <2>1. counter + a + b <= news /\ news \in Nat /\ news' \in Nat
    BY NewAssumption DEF ChildTyped, Budget
  <2>2. a \in Nat /\ b \in Nat /\ c \in Nat /\ d \in Nat /\ c + d - news' <= a + b - news
    BY <1>4
  <2>. HIDE DEF a, b, c, d
  <2>3. counter + c + d <= news'
    BY <1>5, <2>1, <2>2, Sums
  <2>. QED
    BY <1>5, <2>3 DEF c, d
<1>7. Budget'
  BY <1>6 DEF Budget
<1>. QED
  BY <1>1, <1>2, <1>3, <1>7 DEF ChildTyped

LEMMA ChildFacts ==
    ASSUME ChildTyped
    PROVE  /\ queue \in [{Page} -> Lines] /\ queue[Page] \in Lines
           /\ loop \in {"none", "setup", "running", "quit", "ended"}
           /\ phase \in [{Page} -> {"none", "open", "ended", "closed"}]
           /\ seen \subseteq Services /\ resolving \in [Services -> 0..MaxNew]
           /\ news \in 0..MaxNew /\ MaxNew \in Nat
           /\ \A s \in Services : resolving[s] <= news
           /\ IsFiniteSet(Resolvers)
           /\ Cardinality(Resolvers) \in Nat /\ Cardinality(News(queue[Page])) \in Nat
<1>1. queue[Page] \in Lines
  BY QueueTyped DEF ChildTyped
<1>. QED
  BY <1>1, NewsFacts, FS_CardinalityType, NewAssumption DEF ChildTyped, TypeOK, Budget, Lines

LEMMA ChildTypedNext ==
    ASSUME ChildTyped, ChildNext, History, UNCHANGED pageVars
    PROVE  ChildTyped' /\ astray \subseteq astray'
<1>1. /\ queue \in [{Page} -> Lines] /\ queue[Page] \in Lines
      /\ loop \in {"none", "setup", "running", "quit", "ended"}
      /\ phase \in [{Page} -> {"none", "open", "ended", "closed"}]
      /\ seen \subseteq Services /\ resolving \in [Services -> 0..MaxNew]
      /\ news \in 0..MaxNew /\ MaxNew \in Nat
      /\ \A s \in Services : resolving[s] <= news
      /\ IsFiniteSet(Resolvers)
      /\ Cardinality(Resolvers) \in Nat /\ Cardinality(News(queue[Page])) \in Nat
  BY ChildFacts
<1>2. phase[Page] = "ended" => loop = "ended"
  BY DEF ChildTyped, Streams
<1>3. resolving' = resolving => Resolvers' = Resolvers
  BY DEF Resolvers
<1>. DEFINE a == Cardinality(News(queue[Page]))
            b == Cardinality(Resolvers)
<1>4. CASE Fork
  <2>1. /\ loop' = IF phase'[Page] = "open" THEN "setup" ELSE "ended"
        /\ UNCHANGED <<seen, resolving, news, queue>>
        /\ \E p \in {"open", "closed"} : phase' = [phase EXCEPT ![Page] = p]
    BY <1>4 DEF Fork, Stream!Open, Stream!Move
  <2>. QED
    BY <1>1, <1>3, <2>1, ChildStep
<1>5. CASE SetUp \/ Failure
  <2>1. loop' \in {"running", "quit"} /\ UNCHANGED <<seen, resolving, news, phase, queue>>
        /\ loop # "ended"
    BY <1>5 DEF SetUp, Failure
  <2>. QED
    BY <1>1, <1>2, <1>3, <2>1, ChildStep
<1>6. CASE AllForNow
  <2>. DEFINE x == Remark("all_for_now")
              y == Remark("cache_exhausted")
  <2>1. Emit(<<x, y>>) /\ UNCHANGED <<loop, seen, resolving, news>>
    BY <1>6 DEF AllForNow
  <2>2. x \in Line /\ y \in Line /\ x.signal # "itemnew" /\ y.signal # "itemnew"
    BY LinesAre DEF Remark
  <2>. HIDE DEF x, y
  <2>3. /\ loop = "running" /\ phase' = phase /\ queue' \in [{Page} -> Lines]
        /\ \E t \in Lines : Longer(t, queue[Page], x) /\ Longer(queue'[Page], t, y)
    BY <2>1, <2>2, EmitTwo DEF ChildTyped
  <2>4. Cardinality(News(queue'[Page])) = a
    <3>1. PICK t \in Lines : Longer(t, queue[Page], x) /\ Longer(queue'[Page], t, y)
      BY <2>3
    <3>2. Cardinality(News(t)) = a + 0
      BY <1>1, <2>2, <3>1, AppendNews
    <3>3. Cardinality(News(queue'[Page])) = Cardinality(News(t)) + 0
      BY <2>2, <3>1, AppendNews
    <3>. QED
      BY <1>1, <3>2, <3>3
  <2>. QED
    BY <1>1, <1>2, <1>3, <2>1, <2>3, <2>4, ChildStep
<1>7. CASE CacheExhausted
  <2>. DEFINE x == Remark("cache_exhausted")
  <2>1. Emit(<<x>>) /\ UNCHANGED <<loop, seen, resolving, news>>
    BY <1>7 DEF CacheExhausted
  <2>2. x \in Line /\ x.signal # "itemnew"
    BY LinesAre DEF Remark
  <2>. HIDE DEF x
  <2>3. /\ loop = "running" /\ phase' = phase /\ queue' \in [{Page} -> Lines]
        /\ Longer(queue'[Page], queue[Page], x)
    BY <2>1, <2>2, EmitOne DEF ChildTyped
  <2>4. Cardinality(News(queue'[Page])) = a + 0
    BY <1>1, <2>2, <2>3, AppendNews
  <2>. QED
    BY <1>1, <1>2, <1>3, <2>1, <2>3, <2>4, ChildStep
<1>8. CASE ChildEnds
  <2>1. PICK k \in 0..Len(queue[Page]) : queue' = [queue EXCEPT ![Page] = SubSeq(queue[Page], 1, k)]
    BY <1>8 DEF ChildEnds
  <2>2. loop' = "ended" /\ UNCHANGED <<seen, resolving, news>>
        /\ phase' = [phase EXCEPT ![Page] = "ended"]
    BY <1>8 DEF ChildEnds, Stream!End, Stream!Move
  <2>3. SubSeq(queue[Page], 1, k) \in Lines
    <3>2. \A i \in 1..k : queue[Page][i] \in Line
      BY <1>1, LineFacts
    <3>. QED
      BY <3>2, SubSeqProperties DEF Lines
  <2>4. queue'[Page] = SubSeq(queue[Page], 1, k) /\ queue' \in [{Page} -> Lines]
    BY <1>1, <2>1, <2>3
  <2>5. Cardinality(News(queue'[Page])) <= a /\ Cardinality(News(queue'[Page])) \in Nat
    BY <1>1, <2>3, <2>4, CutNews, NewsFacts
  <2>. QED
    BY <1>1, <1>3, <2>2, <2>4, <2>5, ChildStep
<1>9. ASSUME NEW s \in Services, BrowserNew(s)
      PROVE  ChildTyped' /\ astray \subseteq astray'
  <2>1. /\ Emit(<<>>) /\ UNCHANGED loop /\ seen' = seen \cup {s}
        /\ news < MaxNew /\ news' = news + 1
        /\ resolving' = resolving \/ resolving' = [resolving EXCEPT ![s] = @ + 1]
    BY <1>9 DEF BrowserNew
  <2>2. loop = "running" /\ phase' = phase /\ queue' = queue
    BY <2>1, EmitNothing DEF ChildTyped
  <2>3. /\ resolving' \in [Services -> 0..MaxNew]
        /\ \A u \in Services : resolving'[u] <= news'
    <3>1. CASE resolving' = resolving
      BY <1>1, <2>1, <3>1
    <3>2. CASE resolving' = [resolving EXCEPT ![s] = @ + 1]
      BY <1>1, <2>1, <3>2
    <3>. QED
      BY <2>1, <3>1, <3>2
  <2>4. IsFiniteSet(Resolvers') /\ Cardinality(Resolvers') \in Nat
        /\ Cardinality(Resolvers') <= b + 1
    <3>1. CASE resolving' = resolving
      BY <1>1, <1>3, <3>1
    <3>2. CASE resolving' = [resolving EXCEPT ![s] = @ + 1]
      <4>1. IsFiniteSet(Resolvers') /\ Cardinality(Resolvers') = b + 1
        BY <2>1, <3>2, ResolverStarts DEF ChildTyped
      <4>. QED
        BY <1>1, <4>1
    <3>. QED
      BY <2>1, <3>1, <3>2
  <2>5. Cardinality(News(queue'[Page])) + Cardinality(Resolvers') - news' <= a + b - news
    BY <1>1, <2>1, <2>2, <2>4
  <2>6. news' \in 0..MaxNew /\ seen' \subseteq Services
    BY <1>1, <2>1
  <2>. QED
    BY <1>1, <1>2, <2>1, <2>2, <2>3, <2>4, <2>5, <2>6, ChildStep
<1>10. ASSUME NEW s \in Services, BrowserRemove(s)
       PROVE  ChildTyped' /\ astray \subseteq astray'
  <2>. DEFINE x == Item("itemremove", s.name)
  <2>1. Emit(<<x>>) /\ UNCHANGED <<loop, resolving, news>> /\ seen' \subseteq Services
    BY <1>1, <1>10 DEF BrowserRemove
  <2>2. x \in Line /\ x.signal # "itemnew"
    BY LinesAre, ServiceAssumption DEF Item
  <2>. HIDE DEF x
  <2>3. /\ loop = "running" /\ phase' = phase /\ queue' \in [{Page} -> Lines]
        /\ Longer(queue'[Page], queue[Page], x)
    BY <2>1, <2>2, EmitOne DEF ChildTyped
  <2>4. Cardinality(News(queue'[Page])) = a + 0
    BY <1>1, <2>2, <2>3, AppendNews
  <2>. QED
    BY <1>1, <1>2, <1>3, <2>1, <2>3, <2>4, ChildStep
<1>11. ASSUME NEW s \in Services, Answered(s)
       PROVE  /\ UNCHANGED <<loop, seen, news>>
              /\ resolving' \in [Services -> 0..MaxNew] /\ \A u \in Services : resolving'[u] <= news'
              /\ IsFiniteSet(Resolvers') /\ Cardinality(Resolvers') = b - 1
  <2>1. /\ UNCHANGED <<loop, seen, news>> /\ resolving[s] > 0
        /\ resolving' = [resolving EXCEPT ![s] = @ - 1]
    BY <1>11 DEF Answered
  <2>2. IsFiniteSet(Resolvers') /\ Cardinality(Resolvers') = b - 1
    BY <1>11, ResolverEnds DEF ChildTyped
  <2>3. /\ resolving' \in [Services -> 0..MaxNew]
        /\ \A u \in Services : resolving'[u] <= news'
    BY <1>1, <2>1
  <2>. QED
    BY <2>1, <2>2, <2>3
<1>12. ASSUME NEW s \in Services, ResolverFound(s)
       PROVE  ChildTyped' /\ astray \subseteq astray'
  <2>. DEFINE x == Item("itemnew", s.name)
  <2>1. Emit(<<x>>) /\ Answered(s)
    BY <1>12 DEF ResolverFound
  <2>2. x \in Line /\ x.signal = "itemnew"
    BY LinesAre, ServiceAssumption DEF Item
  <2>. HIDE DEF x
  <2>3. /\ loop = "running" /\ phase' = phase /\ queue' \in [{Page} -> Lines]
        /\ Longer(queue'[Page], queue[Page], x)
    BY <2>1, <2>2, EmitOne DEF ChildTyped
  <2>4. Cardinality(News(queue'[Page])) = a + 1
    BY <1>1, <2>2, <2>3, AppendNews
  <2>5. Cardinality(News(queue'[Page])) + Cardinality(Resolvers') - news' <= a + b - news
    BY <1>1, <1>11, <2>1, <2>4
  <2>. QED
    BY <1>1, <1>2, <1>11, <2>1, <2>3, <2>5, ChildStep
<1>13. ASSUME NEW s \in Services, ResolverFailed(s)
       PROVE  ChildTyped' /\ astray \subseteq astray'
  <2>1. Emit(<<>>) /\ Answered(s)
    BY <1>13 DEF ResolverFailed
  <2>2. loop = "running" /\ phase' = phase /\ queue' = queue
    BY <2>1, EmitNothing DEF ChildTyped
  <2>5. Cardinality(News(queue'[Page])) + Cardinality(Resolvers') - news' <= a + b - news
    BY <1>1, <1>11, <2>1, <2>2
  <2>. QED
    BY <1>1, <1>2, <1>11, <2>1, <2>2, <2>5, ChildStep
<1>. QED
  BY <1>4, <1>5, <1>6, <1>7, <1>8, <1>9, <1>10, <1>12, <1>13 DEF ChildNext

-----------------------------------------------------------------------------
(* One name, while the child works.                                        *)

\* Nothing happens that is about n.
LEMMA OthersFaithful ==
    ASSUME NEW n, Faithful(n),
           httpServices' = httpServices,
           \A s \in Of(n) : (s \in seen' <=> s \in seen) /\ resolving'[s] = resolving[s],
           loop' # "ended" => loop # "ended",
           \A shown, there \in BOOLEAN :
              /\ Turns(queue[Page], n, shown) => Turns(queue'[Page], n, shown)
              /\ Leads(queue[Page], n, shown, there) => Leads(queue'[Page], n, shown, there)
    PROVE  Faithful(n)'
<1>1. Shown(n)' = Shown(n) /\ Shown(n) \in BOOLEAN /\ There(n) \in BOOLEAN
  BY DEF Shown, There
<1>2. seen' \cap Of(n) = seen \cap Of(n)
  OBVIOUS
<1>3. Pending(n)' <=> Pending(n)
  BY DEF Pending, Of
<1>4. There(n)' = There(n)
  BY <1>2, <1>3 DEF There, Of
<1>5. Single(n) => Single(n)'
  BY <1>2 DEF Single, Of
<1>6. Turns(queue[Page], n, Shown(n)) => Turns(queue'[Page], n, Shown(n))
  BY <1>1
<1>7. Leads(queue[Page], n, Shown(n), There(n)) => Leads(queue'[Page], n, Shown(n), There(n))
  BY <1>1
<1>. QED
  BY <1>1, <1>4, <1>5, <1>6, <1>7 DEF Faithful

\* A line is written about n: it says what was not so.
LEMMA LineFaithful ==
    ASSUME NEW n, Faithful(n), loop # "ended",
           httpServices' = httpServices, queue[Page] \in Lines,
           NEW x \in Line, Longer(queue'[Page], queue[Page], x),
           x.signal = (IF There(n) THEN "itemremove" ELSE "itemnew"), x.name = n,
           There(n)' <=> ~There(n), Single(n)'
    PROVE  Faithful(n)'
<1>1. Shown(n)' = Shown(n) /\ Shown(n) \in BOOLEAN /\ There(n) \in BOOLEAN /\ There(n)' \in BOOLEAN
  BY DEF Shown, There
<1>2. Turns(queue[Page], n, Shown(n)) /\ Leads(queue[Page], n, Shown(n), There(n))
  BY DEF Faithful
<1>3. Turns(queue'[Page], n, Shown(n)) /\ Leads(queue'[Page], n, Shown(n), ~There(n))
  BY <1>1, <1>2, NextLine
<1>4. There(n)' = ~There(n)
  BY <1>1
<1>. QED
  BY <1>1, <1>3, <1>4 DEF Faithful

\* A line about something else.
LEMMA OtherLineKeeps ==
    ASSUME NEW n, queue[Page] \in Lines, NEW x \in Line, Longer(queue'[Page], queue[Page], x),
           ~Speaks(x, n)
    PROVE  \A shown, there \in BOOLEAN :
              /\ Turns(queue[Page], n, shown) => Turns(queue'[Page], n, shown)
              /\ Leads(queue[Page], n, shown, there) => Leads(queue'[Page], n, shown, there)
BY OtherLine

LEMMA RemarksSpeakOfNothing ==
    ASSUME NEW n
    PROVE  /\ ~Speaks(Remark("all_for_now"), n) /\ ~Speaks(Remark("cache_exhausted"), n)
           /\ \A m : m # n => ~Speaks(Item("itemnew", m), n) /\ ~Speaks(Item("itemremove", m), n)
BY DEF Speaks, Remark, Item

LEMMA FaithfulChild ==
    ASSUME ChildTyped, ChildNext, UNCHANGED pageVars,
           NEW n \in Names, Faithful(n), ~GoesAstray(n)
    PROVE  Faithful(n)'
<1>1. /\ queue \in [{Page} -> Lines] /\ queue[Page] \in Lines
      /\ seen \subseteq Services /\ resolving \in [Services -> 0..MaxNew]
      /\ MaxNew \in Nat
  BY ChildFacts
<1>2. httpServices' = httpServices
  BY DEF pageVars
<1>3. Of(n) \subseteq Services /\ \A s \in Services : s \in Of(n) <=> s.name = n
  BY DEF Of
<1>4. \A s \in Of(n) :
         /\ ~(/\ s \in seen' \ seen
              /\ resolving' = resolving \/ Pending(n) \/ seen \cap Of(n) # {})
         /\ ~(s \in seen \ seen' /\ Pending(n))
         /\ ~(resolving'[s] < resolving[s] /\ queue' = queue)
  BY DEF GoesAstray
<1>5. CASE Fork \/ SetUp \/ Failure
  <2>1. UNCHANGED <<seen, resolving, queue>> /\ (loop' # "ended" => loop # "ended")
    BY <1>5 DEF Fork, SetUp, Failure, Stream!Open
  <2>. QED
    BY <1>2, <2>1, OthersFaithful
<1>6. CASE AllForNow
  <2>. DEFINE x == Remark("all_for_now")
              y == Remark("cache_exhausted")
  <2>1. Emit(<<x, y>>) /\ UNCHANGED <<loop, seen, resolving>>
    BY <1>6 DEF AllForNow
  <2>2. x \in Line /\ y \in Line /\ ~Speaks(x, n) /\ ~Speaks(y, n)
    BY LinesAre, RemarksSpeakOfNothing
  <2>. HIDE DEF x, y
  <2>3. PICK t \in Lines : Longer(t, queue[Page], x) /\ Longer(queue'[Page], t, y)
    BY <2>1, <2>2, EmitTwo DEF ChildTyped
  <2>4. ASSUME NEW shown \in BOOLEAN, NEW there \in BOOLEAN
        PROVE  /\ Turns(queue[Page], n, shown) => Turns(queue'[Page], n, shown)
               /\ Leads(queue[Page], n, shown, there) => Leads(queue'[Page], n, shown, there)
    <3>1. /\ Turns(queue[Page], n, shown) => Turns(t, n, shown)
          /\ Leads(queue[Page], n, shown, there) => Leads(t, n, shown, there)
      BY <1>1, <2>2, <2>3, OtherLine
    <3>2. /\ Turns(t, n, shown) => Turns(queue'[Page], n, shown)
          /\ Leads(t, n, shown, there) => Leads(queue'[Page], n, shown, there)
      BY <2>2, <2>3, OtherLine
    <3>. QED
      BY <3>1, <3>2
  <2>. QED
    BY <1>2, <2>1, <2>4, OthersFaithful
<1>7. CASE CacheExhausted
  <2>. DEFINE x == Remark("cache_exhausted")
  <2>1. Emit(<<x>>) /\ UNCHANGED <<loop, seen, resolving>>
    BY <1>7 DEF CacheExhausted
  <2>2. x \in Line /\ ~Speaks(x, n)
    BY LinesAre, RemarksSpeakOfNothing
  <2>. HIDE DEF x
  <2>3. Longer(queue'[Page], queue[Page], x)
    BY <2>1, <2>2, EmitOne DEF ChildTyped
  <2>. QED
    BY <1>1, <1>2, <2>1, <2>2, <2>3, OtherLineKeeps, OthersFaithful
<1>8. CASE ChildEnds
  <2>1. PICK k \in 0..Len(queue[Page]) : queue' = [queue EXCEPT ![Page] = SubSeq(queue[Page], 1, k)]
    BY <1>8 DEF ChildEnds
  <2>2. loop' = "ended"
    BY <1>8 DEF ChildEnds
  <2>3. queue'[Page] = SubSeq(queue[Page], 1, k)
    BY <1>1, <2>1
  <2>4. Turns(queue'[Page], n, Shown(n))
    BY <1>1, <2>3, CutTurns DEF Faithful
  <2>5. Shown(n)' = Shown(n)
    BY <1>2 DEF Shown
  <2>. QED
    BY <2>2, <2>4, <2>5 DEF Faithful
<1>9. ASSUME NEW s \in Services, BrowserNew(s) PROVE Faithful(n)'
  <2>1. /\ Emit(<<>>) /\ UNCHANGED loop /\ s \notin seen /\ seen' = seen \cup {s}
        /\ resolving' = resolving \/ resolving' = [resolving EXCEPT ![s] = @ + 1]
    BY <1>9 DEF BrowserNew
  <2>2. loop = "running" /\ queue' = queue
    BY <2>1, EmitNothing DEF ChildTyped
  <2>3. CASE s \notin Of(n)
    <3>1. \A t \in Of(n) : (t \in seen' <=> t \in seen) /\ resolving'[t] = resolving[t]
      BY <1>1, <1>3, <2>1, <2>3
    <3>. QED
      BY <1>2, <2>1, <2>2, <3>1, OthersFaithful
  <2>4. CASE s \in Of(n)
    <3>1. /\ resolving' = [resolving EXCEPT ![s] = @ + 1]
          /\ ~Pending(n) /\ seen \cap Of(n) = {}
      BY <1>4, <2>1, <2>4
    <3>2. \A t \in Of(n) : resolving[t] = 0
      BY <1>1, <1>3, <3>1 DEF Pending
    <3>3. resolving'[s] = 1 /\ \A t \in Of(n) : t # s => resolving'[t] = 0
      BY <1>1, <1>3, <2>4, <3>1, <3>2
    <3>4. Pending(n)'
      BY <2>4, <3>3 DEF Pending, Of
    <3>5. There(n)' = FALSE /\ There(n) = FALSE
      BY <3>1, <3>4 DEF There
    <3>6. Single(n)'
      BY <2>1, <3>1, <3>3 DEF Single, Of
    <3>7. Shown(n)' = Shown(n)
      BY <1>2 DEF Shown
    <3>. QED
      BY <2>1, <2>2, <3>5, <3>6, <3>7 DEF Faithful
  <2>. QED
    BY <2>3, <2>4
<1>10. ASSUME NEW s \in Services, BrowserRemove(s) PROVE Faithful(n)'
  <2>. DEFINE x == Item("itemremove", s.name)
  <2>1. Emit(<<x>>) /\ UNCHANGED <<loop, resolving>> /\ s \in seen /\ seen' = seen \ {s}
    BY <1>10 DEF BrowserRemove
  <2>2. x \in Line /\ x.signal = "itemremove" /\ x.name = s.name
    BY LinesAre, ServiceAssumption DEF Item
  <2>3. s.name # n => ~Speaks(x, n)
    BY RemarksSpeakOfNothing
  <2>. HIDE DEF x
  <2>4. loop = "running" /\ Longer(queue'[Page], queue[Page], x)
    BY <2>1, <2>2, EmitOne DEF ChildTyped
  <2>5. CASE s \notin Of(n)
    <3>1. \A t \in Of(n) : (t \in seen' <=> t \in seen) /\ resolving'[t] = resolving[t]
      BY <2>1, <2>5
    <3>2. ~Speaks(x, n)
      BY <1>3, <2>3, <2>5
    <3>. QED
      BY <1>1, <1>2, <2>1, <2>2, <2>4, <3>1, <3>2, OtherLineKeeps, OthersFaithful
  <2>6. CASE s \in Of(n)
    <3>1. ~Pending(n)
      BY <1>4, <2>1, <2>6
    <3>2. There(n)
      BY <2>1, <2>6, <3>1 DEF There
    <3>3. Single(n)
      BY <2>4 DEF Faithful
    <3>4. seen' \cap Of(n) = {}
      BY <2>1, <2>6, <3>3 DEF Single
    <3>5. ~There(n)'
      BY <3>4 DEF There, Of
    <3>6. Single(n)'
      BY <2>1, <3>1, <3>4 DEF Single, Of, Pending
    <3>7. x.name = n
      BY <1>3, <2>2, <2>6
    <3>. QED
      BY <1>1, <1>2, <2>2, <2>4, <3>2, <3>5, <3>6, <3>7, LineFaithful
  <2>. QED
    BY <2>5, <2>6
<1>11. ASSUME NEW s \in Services, Answered(s)
       PROVE  /\ UNCHANGED <<loop, seen>> /\ resolving[s] > 0
              /\ resolving' = [resolving EXCEPT ![s] = @ - 1]
              /\ resolving'[s] < resolving[s]
              /\ \A t \in Services : t # s => resolving'[t] = resolving[t]
  <2>1. /\ UNCHANGED <<loop, seen>> /\ resolving[s] > 0
        /\ resolving' = [resolving EXCEPT ![s] = @ - 1]
    BY <1>11 DEF Answered
  <2>. QED
    BY <1>1, <2>1
<1>12. ASSUME NEW s \in Services, ResolverFound(s) PROVE Faithful(n)'
  <2>. DEFINE x == Item("itemnew", s.name)
  <2>1. Emit(<<x>>) /\ Answered(s)
    BY <1>12 DEF ResolverFound
  <2>2. x \in Line /\ x.signal = "itemnew" /\ x.name = s.name
    BY LinesAre, ServiceAssumption DEF Item
  <2>3. s.name # n => ~Speaks(x, n)
    BY RemarksSpeakOfNothing
  <2>. HIDE DEF x
  <2>4. loop = "running" /\ Longer(queue'[Page], queue[Page], x)
    BY <2>1, <2>2, EmitOne DEF ChildTyped
  <2>5. CASE s \notin Of(n)
    <3>1. \A t \in Of(n) : (t \in seen' <=> t \in seen) /\ resolving'[t] = resolving[t]
      BY <1>3, <1>11, <2>1, <2>5
    <3>2. ~Speaks(x, n)
      BY <1>3, <2>3, <2>5
    <3>. QED
      BY <1>1, <1>2, <1>11, <2>1, <2>2, <2>4, <3>1, <3>2, OtherLineKeeps, OthersFaithful
  <2>6. CASE s \in Of(n)
    <3>1. Single(n)
      BY <2>4 DEF Faithful
    <3>2. /\ resolving[s] = 1 /\ s \in seen
          /\ \A t \in Of(n) : t # s => ~(resolving[t] > 0)
      BY <1>11, <2>1, <2>6, <3>1 DEF Single
    <3>3. ~There(n)
      BY <1>11, <2>1, <2>6 DEF There, Pending
    <3>4. \A t \in Of(n) : ~(resolving'[t] > 0)
      BY <1>1, <1>3, <1>11, <2>1, <3>2
    <3>5. ~Pending(n)' /\ s \in seen' \cap Of(n)
      BY <1>11, <2>1, <2>6, <3>2, <3>4 DEF Pending, Of
    <3>6. There(n)'
      BY <3>5 DEF There, Of
    <3>7. Single(n)'
      BY <1>11, <2>1, <3>1, <3>4 DEF Single, Of
    <3>8. x.name = n
      BY <1>3, <2>2, <2>6
    <3>. QED
      BY <1>1, <1>2, <2>2, <2>4, <3>3, <3>6, <3>7, <3>8, LineFaithful
  <2>. QED
    BY <2>5, <2>6
<1>13. ASSUME NEW s \in Services, ResolverFailed(s) PROVE Faithful(n)'
  <2>1. Emit(<<>>) /\ Answered(s)
    BY <1>13 DEF ResolverFailed
  <2>2. queue' = queue
    BY <2>1, EmitNothing DEF ChildTyped
  <2>3. s \notin Of(n)
    BY <1>4, <1>11, <2>1, <2>2
  <2>4. \A t \in Of(n) : (t \in seen' <=> t \in seen) /\ resolving'[t] = resolving[t]
    BY <1>3, <1>11, <2>1, <2>3
  <2>. QED
    BY <1>2, <1>11, <2>1, <2>2, <2>4, OthersFaithful
<1>. QED
  BY <1>5, <1>6, <1>7, <1>8, <1>9, <1>10, <1>12, <1>13 DEF ChildNext

-----------------------------------------------------------------------------
(* The page.                                                               *)

PageTyped == ChildTyped /\ Numbered /\ NoGhosts

LEMMA PageFacts ==
    ASSUME PageTyped
    PROVE  /\ httpServices \in [Names -> -1..counter - 1]
           /\ liste \subseteq [ref : 0..counter - 1, name : Names]
           /\ counter \in Nat /\ MaxNew \in Nat /\ counter <= MaxNew
           /\ \A i \in liste : i.ref \in Nat /\ i.ref < counter /\ i.name \in Names
                               /\ i = [ref |-> i.ref, name |-> i.name]
           /\ \A m \in Names : httpServices[m] \in Int /\ httpServices[m] < counter
           /\ NoEntry = -1
<1>1. /\ httpServices \in [Names -> -1..counter - 1]
      /\ liste \subseteq [ref : 0..counter - 1, name : Names]
      /\ counter \in Nat /\ MaxNew \in Nat /\ counter <= MaxNew
  BY NewAssumption DEF PageTyped, ChildTyped, TypeOK
<1>2. \A i \in liste : i.ref \in Nat /\ i.ref < counter /\ i.name \in Names
                       /\ i = [ref |-> i.ref, name |-> i.name]
  <2>. SUFFICES ASSUME NEW i \in liste
                PROVE  i.ref \in Nat /\ i.ref < counter /\ i.name \in Names
                       /\ i = [ref |-> i.ref, name |-> i.name]
    OBVIOUS
  <2>1. i \in [ref : 0..counter - 1, name : Names]
    BY <1>1
  <2>2. i.ref \in 0..counter - 1 /\ i.name \in Names /\ i = [ref |-> i.ref, name |-> i.name]
    BY <2>1
  <2>. QED
    BY <1>1, <2>2
<1>3. \A m \in Names : httpServices[m] \in Int /\ httpServices[m] < counter
  BY <1>1
<1>. QED
  BY <1>1, <1>2, <1>3 DEF NoEntry

LEMMA HandleIs ==
    ASSUME NEW x \in Line, Handle(x)
    PROVE  /\ \/ x.signal = "itemnew" /\ x.name \in Names \ Unquotable /\ itemnew(x.name)
              \/ x.signal = "itemremove" /\ x.name \in Names \ Unquotable /\ itemremove(x.name)
              \/ UNCHANGED pageVars /\ \A n \in Names \ Unquotable : ~Speaks(x, n)
<1>1. x.signal \in {"itemnew", "itemremove"} => x.name \in Names
  BY DEF Line
<1>. QED
  BY <1>1 DEF Handle, Speaks

\* An entry is made: the page showed nothing of the name, or it went astray.
LEMMA EntryMade ==
    ASSUME PageTyped, NEW n \in Names, itemnew(n), astray' = astray,
           n \notin astray => ~Shown(n)
    PROVE  Numbered' /\ NoGhosts'
<1>1. /\ httpServices \in [Names -> -1..counter - 1]
      /\ counter \in Nat
      /\ \A i \in liste : i.ref \in Nat /\ i.ref < counter /\ i.name \in Names
      /\ \A m \in Names : httpServices[m] \in Int /\ httpServices[m] < counter
      /\ NoEntry = -1
  BY PageFacts
<1>. DEFINE new == [ref |-> counter, name |-> n]
<1>2. /\ \A m \in Names : httpServices'[m] = IF m = n THEN counter ELSE httpServices[m]
      /\ liste' = liste \cup {new}
  BY <1>1 DEF itemnew
<1>3. new.ref = counter /\ new.name = n
  OBVIOUS
<1>4. Numbered'
  <2>. HIDE DEF new
  <2>. QED
    BY <1>1, <1>2, <1>3 DEF PageTyped, Numbered
<1>5. ASSUME NEW m \in Names, httpServices'[m] # NoEntry
      PROVE  [ref |-> httpServices'[m], name |-> m] \in liste'
  <2>1. CASE m = n
    BY <1>2, <2>1
  <2>2. CASE m # n
    BY <1>2, <1>5, <2>2 DEF PageTyped, NoGhosts
  <2>. QED
    BY <2>1, <2>2
<1>6. ASSUME NEW i \in liste' PROVE httpServices'[i.name] = i.ref \/ i.name \in astray
  <2>1. CASE i = new
    <3>. HIDE DEF new
    <3>. QED
      BY <1>2, <1>3, <2>1
  <2>2. CASE i \in liste /\ i.name # n
    BY <1>1, <1>2, <2>2 DEF PageTyped, NoGhosts
  <2>3. CASE i \in liste /\ i.name = n
    <3>1. n \notin astray => httpServices[n] = i.ref /\ httpServices[n] = -1
      BY <1>1, <2>3 DEF PageTyped, NoGhosts, Shown
    <3>2. i.ref # -1
      BY <1>1, <2>3
    <3>. QED
      BY <2>3, <3>1, <3>2
  <2>. QED
    BY <1>2, <2>1, <2>2, <2>3
<1>. QED
  BY <1>4, <1>5, <1>6 DEF NoGhosts

\* An entry is taken away with its item, and no other entry's item.
LEMMA EntryTaken ==
    ASSUME PageTyped, NEW n \in Names, itemremove(n), astray' = astray
    PROVE  Numbered' /\ NoGhosts'
<1>1. /\ httpServices \in [Names -> -1..counter - 1]
      /\ \A i \in liste : i.ref \in Nat /\ i.name \in Names
      /\ NoEntry = -1
  BY PageFacts
<1>2. /\ \A m \in Names : httpServices'[m] = IF m = n THEN NoEntry ELSE httpServices[m]
      /\ \A i : i \in liste' <=> i \in liste /\ i.ref # httpServices[n]
  BY <1>1 DEF itemremove
<1>3. Numbered'
  BY <1>2 DEF PageTyped, Numbered
<1>4. ASSUME NEW m \in Names, httpServices'[m] # NoEntry
      PROVE  [ref |-> httpServices'[m], name |-> m] \in liste'
  <2>. DEFINE i == [ref |-> httpServices[m], name |-> m]
              j == [ref |-> httpServices[n], name |-> n]
  <2>1. m # n /\ httpServices'[m] = httpServices[m]
    BY <1>2, <1>4
  <2>2. i \in liste
    BY <1>4, <2>1 DEF PageTyped, NoGhosts
  <2>3. i.ref # httpServices[n]
    <3>. SUFFICES ASSUME httpServices[m] = httpServices[n] PROVE FALSE
      OBVIOUS
    <3>1. j \in liste
      BY <1>4, <2>1 DEF PageTyped, NoGhosts
    <3>2. i = j
      BY <2>2, <3>1 DEF PageTyped, Numbered
    <3>3. i.name = j.name
      BY <3>2
    <3>. QED
      BY <2>1, <3>3
  <2>. QED
    BY <1>2, <2>1, <2>2, <2>3
<1>5. ASSUME NEW i \in liste' PROVE httpServices'[i.name] = i.ref \/ i.name \in astray
  <2>1. i \in liste /\ i.ref # httpServices[n]
    BY <1>2
  <2>2. httpServices[i.name] = i.ref \/ i.name \in astray
    BY <2>1 DEF PageTyped, NoGhosts
  <2>3. httpServices[i.name] = i.ref => i.name # n
    BY <2>1
  <2>. QED
    BY <1>1, <1>2, <2>1, <2>2, <2>3
<1>. QED
  BY <1>3, <1>4, <1>5 DEF NoGhosts

\* A line is read.
LEMMA PollFacts ==
    ASSUME ChildTyped, Poll
    PROVE  /\ queue[Page] \in Lines /\ queue[Page] # <<>>
           /\ queue' \in [{Page} -> Lines] /\ queue'[Page] = Tail(queue[Page])
           /\ queue[Page][1] \in Line /\ Handle(queue[Page][1])
           /\ \A n : 1 \in About(queue[Page], n) <=> Speaks(queue[Page][1], n)
           /\ UNCHANGED <<loop, seen, resolving, news, phase, astray>>
<1>1. queue \in [{Page} -> Lines] /\ queue[Page] \in Lines
  BY ChildFacts
<1>2. /\ queue[Page] # <<>> /\ queue' = [queue EXCEPT ![Page] = Tail(queue[Page])]
      /\ Handle(Head(queue[Page])) /\ UNCHANGED <<phase, childVars, astray>>
  BY DEF Poll, Stream!Read
<1>3. /\ Tail(queue[Page]) \in Lines /\ Head(queue[Page]) = queue[Page][1]
      /\ 1 \in DOMAIN queue[Page]
  BY <1>1, <1>2, TailFacts
<1>4. queue[Page][1] \in Line
  BY <1>1, <1>3, LineFacts
<1>. QED
  BY <1>1, <1>2, <1>3, <1>4 DEF About, childVars

LEMMA PollFaithful ==
    ASSUME ChildTyped, Poll, NEW n \in Names \ astray, Faithful(n)
    PROVE  /\ Faithful(n)'
           /\ Speaks(queue[Page][1], n) => (queue[Page][1].signal = "itemnew" <=> ~Shown(n))
<1>. DEFINE q == queue[Page]
            x == q[1]
<1>1. /\ q \in Lines /\ q # <<>> /\ queue'[Page] = Tail(q)
      /\ x \in Line /\ Handle(x)
      /\ 1 \in About(q, n) <=> Speaks(x, n)
      /\ UNCHANGED <<loop, seen, resolving>>
  BY PollFacts
<1>2. n \in Names \ Unquotable
  BY DEF ChildTyped, Streams
<1>3. httpServices \in [Names -> -1..counter - 1] /\ counter \in Nat
  BY NewAssumption DEF ChildTyped, TypeOK
<1>4. Shown(n)' = Heard(q, n, Shown(n))
  <2>1. CASE x.signal = "itemnew" /\ itemnew(x.name)
    <3>1. \A m \in Names : httpServices'[m] = IF m = x.name THEN counter ELSE httpServices[m]
      BY <1>3, <2>1 DEF itemnew
    <3>. QED
      BY <1>1, <1>2, <1>3, <2>1, <3>1 DEF Heard, Shown, Speaks, NoEntry
  <2>2. CASE x.signal = "itemremove" /\ itemremove(x.name)
    <3>1. \A m \in Names : httpServices'[m] = IF m = x.name THEN NoEntry ELSE httpServices[m]
      BY <1>3, <2>2 DEF itemremove
    <3>. QED
      BY <1>1, <1>2, <1>3, <2>2, <3>1 DEF Heard, Shown, Speaks
  <2>3. CASE UNCHANGED pageVars /\ ~Speaks(x, n)
    BY <1>1, <2>3 DEF Heard, Shown, pageVars
  <2>. QED
    BY <1>1, <1>2, <2>1, <2>2, <2>3, HandleIs
<1>5. Shown(n) \in BOOLEAN /\ There(n) \in BOOLEAN
  BY DEF Shown, There
<1>6. There(n)' = There(n) /\ (Single(n) => Single(n)')
  BY <1>1 DEF There, Single, Pending, Of
<1>. HIDE DEF q, x
<1>7. Turns(Tail(q), n, Heard(q, n, Shown(n)))
  BY <1>1, <1>5, TailTurns DEF Faithful, q
<1>8. loop # "ended" => Leads(Tail(q), n, Heard(q, n, Shown(n)), There(n)) /\ Single(n)
  BY <1>1, <1>5, TailLeads DEF Faithful, q
<1>9. Faithful(n)'
  BY <1>1, <1>4, <1>6, <1>7, <1>8 DEF Faithful
<1>10. ASSUME Speaks(x, n) PROVE x.signal = "itemnew" <=> ~Shown(n)
  <2>1. 1 \in About(q, n) /\ \A j \in About(q, n) : 1 <= j
    <3>1. Len(q) \in Nat /\ DOMAIN q = 1..Len(q)
      BY <1>1, LineFacts
    <3>. QED
      BY <1>1, <1>10, <3>1 DEF About
  <2>. QED
    BY <2>1 DEF Faithful, Turns, q, x
<1>. QED
  BY <1>9, <1>10 DEF q, x

LEMMA PollTyped ==
    ASSUME ChildTyped, Poll
    PROVE  ChildTyped'
<1>. DEFINE q == queue[Page]
            a == Cardinality(News(q))
            c == Cardinality(News(Tail(q)))
<1>1. /\ q \in Lines /\ q # <<>>
      /\ queue' \in [{Page} -> Lines] /\ queue'[Page] = Tail(q)
      /\ q[1] \in Line /\ Handle(q[1])
      /\ UNCHANGED <<loop, seen, resolving, news, phase, astray>>
  BY PollFacts
<1>2. c + (IF q[1].signal = "itemnew" THEN 1 ELSE 0) = a /\ c \in Nat /\ a \in Nat
  <2>1. Tail(q) \in Lines
    BY <1>1, TailFacts
  <2>. QED
    BY <1>1, <2>1, TailNews, NewsFacts
<1>3. /\ news \in 0..MaxNew /\ MaxNew \in Nat /\ Cardinality(Resolvers) \in Nat
      /\ Resolvers' = Resolvers
  BY <1>1, ChildFacts DEF Resolvers
<1>4. /\ httpServices \in [Names -> -1..counter - 1]
      /\ liste \subseteq [ref : 0..counter - 1, name : Names]
      /\ counter \in Nat
      /\ counter + a + Cardinality(Resolvers) <= news
  BY NewAssumption DEF ChildTyped, TypeOK, Budget
<1>5. /\ counter' \in Nat
      /\ counter' = counter \/ (counter' = counter + 1 /\ q[1].signal = "itemnew")
      /\ httpServices' \in [Names -> -1..counter' - 1]
      /\ liste' \subseteq [ref : 0..counter' - 1, name : Names]
  <2>. HIDE DEF q
  <2>1. ASSUME NEW n \in Names, itemnew(n), q[1].signal = "itemnew"
        PROVE  /\ counter' \in Nat
               /\ counter' = counter \/ (counter' = counter + 1 /\ q[1].signal = "itemnew")
               /\ httpServices' \in [Names -> -1..counter' - 1]
               /\ liste' \subseteq [ref : 0..counter' - 1, name : Names]
    <3>1. /\ counter' = counter + 1
          /\ httpServices' = [httpServices EXCEPT ![n] = counter]
          /\ liste' = liste \cup {[ref |-> counter, name |-> n]}
      BY <2>1 DEF itemnew
    <3>2. /\ -1..counter - 1 \subseteq -1..counter' - 1 /\ counter \in -1..counter' - 1
          /\ 0..counter - 1 \subseteq 0..counter' - 1 /\ counter \in 0..counter' - 1
      BY <1>4, <3>1
    <3>3. httpServices' \in [Names -> -1..counter' - 1]
      BY <1>4, <3>1, <3>2
    <3>4. liste' \subseteq [ref : 0..counter' - 1, name : Names]
      BY <1>4, <3>1, <3>2
    <3>. QED
      BY <1>4, <2>1, <3>1, <3>3, <3>4
  <2>2. ASSUME NEW n \in Names, itemremove(n)
        PROVE  /\ counter' \in Nat
               /\ counter' = counter \/ (counter' = counter + 1 /\ q[1].signal = "itemnew")
               /\ httpServices' \in [Names -> -1..counter' - 1]
               /\ liste' \subseteq [ref : 0..counter' - 1, name : Names]
    <3>1. /\ counter' = counter
          /\ httpServices' = [httpServices EXCEPT ![n] = -1]
          /\ liste' \subseteq liste
      BY <2>2 DEF itemremove, NoEntry
    <3>2. -1 \in -1..counter - 1
      BY <1>4
    <3>3. httpServices' \in [Names -> -1..counter - 1]
      BY <1>4, <3>1, <3>2
    <3>4. liste' \subseteq [ref : 0..counter - 1, name : Names]
      BY <1>4, <3>1
    <3>. QED
      BY <1>4, <3>1, <3>3, <3>4
  <2>3. CASE UNCHANGED pageVars
    <3>1. httpServices' = httpServices /\ liste' = liste /\ counter' = counter
      BY <2>3 DEF pageVars
    <3>. QED
      BY <1>4, <3>1
  <2>. QED
    BY <1>1, <2>1, <2>2, <2>3, HandleIs
<1>6. counter' + c + Cardinality(Resolvers) <= news
  <2>. HIDE DEF a, c, q
  <2>. QED
    BY <1>2, <1>3, <1>4, <1>5
<1>7. counter' \in 0..MaxNew
  <2>. HIDE DEF a, c, q
  <2>. QED
    BY <1>2, <1>3, <1>5, <1>6
<1>8. Budget'
  BY <1>1, <1>3, <1>6 DEF ChildTyped, Budget
<1>9. TypeOK'
  BY <1>1, <1>5, <1>7 DEF ChildTyped, TypeOK, Lines
<1>10. Streams'
  BY <1>1 DEF ChildTyped, Streams
<1>. QED
  BY <1>8, <1>9, <1>10 DEF ChildTyped

-----------------------------------------------------------------------------
(* The theorems.                                                           *)

LEMMA IInvInit == Init => IInv
<1>. SUFFICES ASSUME Init PROVE IInv
  OBVIOUS
<1>1. /\ loop = "none" /\ seen = {} /\ news = 0
      /\ resolving = [s \in Services |-> 0]
      /\ phase = [o \in {Page} |-> "none"] /\ queue = [o \in {Page} |-> <<>>]
      /\ httpServices = [n \in Names |-> NoEntry] /\ liste = {} /\ counter = 0
      /\ astray = Unquotable
  BY DEF Init, ChildInit, PageInit, Stream!Init
<1>2. MaxNew \in Nat /\ Unquotable \subseteq Names
  BY NewAssumption, NameAssumption
<1>3. queue[Page] = <<>> /\ <<>> \in Seq(Line) /\ Len(queue[Page]) = 0
  BY <1>1
<1>4. queue[Page] \in Lines /\ DOMAIN queue[Page] = 1..0
  BY <1>3, LineFacts DEF Lines
<1>5. TypeOK
  <2>1. /\ loop \in {"none", "setup", "running", "quit", "ended"}
        /\ phase \in [{Page} -> {"none", "open", "ended", "closed"}]
        /\ queue \in [{Page} -> Seq(Line)]
    BY <1>1, <1>3
  <2>2. seen \subseteq Services /\ resolving \in [Services -> 0..MaxNew]
    BY <1>1, <1>2
  <2>3. /\ httpServices \in [Names -> -1..counter - 1]
        /\ liste \subseteq [ref : 0..counter - 1, name : Names]
    BY <1>1 DEF NoEntry
  <2>4. counter \in 0..MaxNew /\ astray \subseteq Names
    BY <1>1, <1>2
  <2>. QED
    BY <2>1, <2>2, <2>3, <2>4 DEF TypeOK
<1>6. Budget
  <2>1. Resolvers = {}
    BY <1>1, <1>2 DEF Resolvers
  <2>2. News(queue[Page]) = {}
    BY <1>4 DEF News
  <2>3. Cardinality({}) = 0 /\ IsFiniteSet({})
    BY FS_EmptySet
  <2>4. \A s \in Services : resolving[s] <= news
    BY <1>1
  <2>5. Cardinality(News(queue[Page])) = 0 /\ Cardinality(Resolvers) = 0 /\ IsFiniteSet(Resolvers)
    BY <2>1, <2>2, <2>3
  <2>. QED
    BY <1>1, <1>2, <2>4, <2>5 DEF Budget
<1>7. Numbered /\ NoGhosts /\ Streams
  BY <1>1 DEF Numbered, NoGhosts, Streams
<1>8. ASSUME NEW n \in Names \ astray PROVE Faithful(n)
  <2>1. About(queue[Page], n) = {}
    BY <1>4 DEF About
  <2>2. ~Shown(n) /\ ~There(n)
    BY <1>1 DEF Shown, There
  <2>3. Single(n)
    BY <1>1 DEF Single, Of
  <2>4. Turns(queue[Page], n, Shown(n))
    BY <2>1 DEF Turns
  <2>5. Leads(queue[Page], n, Shown(n), There(n))
    BY <2>1, <2>2 DEF Leads
  <2>. QED
    BY <2>3, <2>4, <2>5 DEF Faithful
<1>. QED
  BY <1>5, <1>6, <1>7, <1>8 DEF IInv

LEMMA IInvNext == IInv /\ [Next]_vars => IInv'
<1>. SUFFICES ASSUME IInv, [Next]_vars PROVE IInv'
  OBVIOUS
<1>1. PageTyped /\ ChildTyped
  BY DEF IInv, PageTyped, ChildTyped
<1>2. CASE ChildNext /\ History /\ UNCHANGED pageVars
  <2>1. ChildTyped' /\ astray \subseteq astray'
    BY <1>1, <1>2, ChildTypedNext
  <2>2. Numbered' /\ NoGhosts'
    BY <1>1, <1>2, <2>1 DEF PageTyped, Numbered, NoGhosts, pageVars
  <2>3. ASSUME NEW n \in Names \ astray' PROVE Faithful(n)'
    <3>1. n \in Names \ astray /\ ~GoesAstray(n)
      BY <1>2, <2>1, <2>3 DEF History
    <3>. QED
      BY <1>1, <1>2, <3>1, FaithfulChild DEF IInv
  <2>. QED
    BY <2>1, <2>2, <2>3 DEF IInv, ChildTyped
<1>3. CASE Poll
  <2>1. ChildTyped' /\ astray' = astray
    BY <1>1, <1>3, PollTyped, PollFacts
  <2>2. ASSUME NEW n \in Names \ astray PROVE Faithful(n)'
    BY <1>1, <1>3, PollFaithful DEF IInv
  <2>3. Numbered' /\ NoGhosts'
    <3>. DEFINE x == queue[Page][1]
    <3>1. x \in Line /\ Handle(x)
      BY <1>1, <1>3, PollFacts
    <3>2. CASE x.signal = "itemnew" /\ x.name \in Names \ Unquotable /\ itemnew(x.name)
      <4>1. x.name \notin astray => ~Shown(x.name)
        <5>1. Speaks(x, x.name)
          BY <3>2 DEF Speaks
        <5>. QED
          BY <1>1, <1>3, <3>2, <5>1, PollFaithful DEF IInv
      <4>. QED
        BY <1>1, <2>1, <3>2, <4>1, EntryMade
    <3>3. CASE x.signal = "itemremove" /\ x.name \in Names \ Unquotable /\ itemremove(x.name)
      BY <1>1, <2>1, <3>3, EntryTaken
    <3>4. CASE UNCHANGED pageVars
      BY <1>1, <2>1, <3>4 DEF PageTyped, Numbered, NoGhosts, pageVars
    <3>. QED
      BY <3>1, <3>2, <3>3, <3>4, HandleIs
  <2>. QED
    BY <2>1, <2>2, <2>3 DEF IInv, ChildTyped
<1>4. CASE StreamCloses
  <2>1. /\ phase[Page] = "ended" /\ phase' = [phase EXCEPT ![Page] = "closed"]
        /\ queue' = [queue EXCEPT ![Page] = <<>>]
        /\ UNCHANGED <<loop, seen, resolving, news, pageVars, astray>>
    BY <1>4 DEF StreamCloses, Stream!Close, Stream!Move, childVars
  <2>2. /\ queue \in [{Page} -> Lines] /\ phase \in [{Page} -> {"none", "open", "ended", "closed"}]
        /\ news \in 0..MaxNew /\ MaxNew \in Nat
        /\ Cardinality(Resolvers) \in Nat /\ Cardinality(News(queue[Page])) \in Nat
    BY <1>1, ChildFacts
  <2>3. loop = "ended"
    BY <1>1, <2>1 DEF ChildTyped, Streams
  <2>4. <<>> \in Lines /\ Len(<<>>) = 0
    BY DEF Lines
  <2>5. DOMAIN <<>> = 1..0
    BY <2>4, LineFacts
  <2>6. queue'[Page] = <<>> /\ queue' \in [{Page} -> Lines] /\ phase'[Page] = "closed"
        /\ phase' \in [{Page} -> {"none", "open", "ended", "closed"}]
    BY <2>1, <2>2, <2>4
  <2>7. TypeOK'
    BY <1>1, <2>1, <2>6 DEF ChildTyped, TypeOK, Lines, pageVars
  <2>8. Budget'
    <3>1. News(queue'[Page]) = {} /\ Resolvers' = Resolvers
      BY <2>1, <2>5, <2>6 DEF News, Resolvers
    <3>2. Cardinality(News(queue'[Page])) = 0
      BY <3>1, FS_EmptySet
    <3>3. counter \in Nat /\ counter' = counter /\ news' = news
      BY <1>1, <2>1, PageFacts DEF pageVars
    <3>. QED
      BY <1>1, <2>1, <2>2, <3>1, <3>2, <3>3 DEF ChildTyped, Budget
  <2>9. Streams'
    BY <1>1, <2>1, <2>6 DEF ChildTyped, Streams
  <2>10. Numbered' /\ NoGhosts'
    BY <1>1, <2>1 DEF PageTyped, Numbered, NoGhosts, pageVars
  <2>11. ASSUME NEW n \in Names \ astray' PROVE Faithful(n)'
    <3>1. About(queue'[Page], n) = {}
      BY <2>5, <2>6 DEF About
    <3>2. Turns(queue'[Page], n, Shown(n)')
      BY <3>1 DEF Turns
    <3>. QED
      BY <2>1, <2>3, <3>2 DEF Faithful
  <2>. QED
    BY <2>7, <2>8, <2>9, <2>10, <2>11 DEF IInv
<1>5. CASE UNCHANGED vars
  <2>1. UNCHANGED <<loop, seen, resolving, news, phase, queue, httpServices, liste, counter, astray>>
    BY <1>5 DEF vars, childVars, pageVars
  <2>2. TypeOK' /\ Numbered' /\ NoGhosts' /\ Streams'
    BY <2>1 DEF IInv, TypeOK, Numbered, NoGhosts, Streams
  <2>3. Budget'
    BY <2>1 DEF IInv, Budget, Resolvers
  <2>4. ASSUME NEW n \in Names \ astray' PROVE Faithful(n)'
    BY <2>1 DEF IInv, Faithful, Shown, There, Single, Pending, Of
  <2>. QED
    BY <2>2, <2>3, <2>4 DEF IInv
<1>. QED
  BY <1>2, <1>3, <1>4, <1>5 DEF Next

\* A name of which all has been read is shown as it is.
LEMMA IInvIsRight ==
    ASSUME IInv, NEW n \in Names, Told(n), n \notin astray
    PROVE  Right(n)
<1>. DEFINE q == queue[Page]
<1>1. /\ httpServices \in [Names -> -1..counter - 1]
      /\ \A i \in liste : i.ref \in Nat /\ i.name \in Names
                          /\ i = [ref |-> i.ref, name |-> i.name]
      /\ NoEntry = -1
  BY PageFacts DEF IInv, PageTyped, ChildTyped
<1>2. loop = "running" /\ ~Pending(n)
      /\ \A k \in 1..Len(q) :
            q[k].signal \in {"itemnew", "itemremove"} => q[k].name # n
  BY DEF Told
<1>3. About(q, n) = {}
  <2>1. DOMAIN q = 1..Len(q)
    BY QueueTyped, LineFacts DEF IInv
  <2>. QED
    BY <1>2, <2>1 DEF About, Speaks
<1>4. Shown(n) <=> There(n)
  BY <1>2, <1>3 DEF IInv, Faithful, Leads
<1>5. Shown(n) <=> seen \cap Of(n) # {}
  BY <1>2, <1>4 DEF There
<1>6. \A i \in Listed(n) : i = [ref |-> httpServices[n], name |-> n] /\ httpServices[n] # -1
  <2>. SUFFICES ASSUME NEW i \in liste, i.name = n
                PROVE  i = [ref |-> httpServices[n], name |-> n] /\ httpServices[n] # -1
    BY DEF Listed
  <2>1. httpServices[n] = i.ref
    BY DEF IInv, NoGhosts
  <2>2. i.ref # -1
    BY <1>1
  <2>. QED
    BY <1>1, <2>1, <2>2
<1>7. Shown(n) => [ref |-> httpServices[n], name |-> n] \in Listed(n)
  BY DEF IInv, NoGhosts, Shown, Listed
<1>8. Shown(n) <=> Listed(n) # {}
  BY <1>1, <1>6, <1>7 DEF Shown
<1>9. \A i, j \in Listed(n) : i = j
  BY <1>6
<1>. QED
  <2>. DEFINE k == IF Shown(n) THEN 1 ELSE 0
  <2>1. /\ k \in 0..1 /\ ((k = 1) <=> (seen \cap Of(n) # {}))
        /\ ((k = 0) <=> (Listed(n) = {}))
    BY <1>5, <1>8
  <2>. QED
    BY <1>9, <2>1 DEF Right

\* Every variable keeps its type.  What is not obvious is counter: the page makes
\* no more entries than there were announcements, since each line that makes one
\* answers a resolver, and each resolver was started by an announcement.
THEOREM TypeCorrect == Spec => []TypeOK
<1>1. IInv => TypeOK
  BY DEF IInv
<1>. QED
  BY <1>1, IInvInit, IInvNext, PTL DEF Spec

\* An entry of the page's map has its item in the list; and of every name whose
\* lines tell what is there, all having been read, the page lists exactly one item
\* if it is announced, and none if it is not.
THEOREM PageIsRight == Spec => []PageAgrees
<1>1. IInv => PageAgrees
  <2>. SUFFICES ASSUME IInv PROVE PageAgrees
    OBVIOUS
  <2>1. NoGhosts
    BY DEF IInv
  <2>2. ListIsRight
    BY IInvIsRight DEF ListIsRight
  <2>. QED
    BY <2>1, <2>2 DEF PageAgrees
<1>. QED
  BY <1>1, IInvInit, IInvNext, PTL DEF Spec

=============================================================================
