--------------------------- MODULE JQEventProofs ---------------------------
(***************************************************************************)
(* Proofs about JQEvent: every invariant of it, for every set of elements, *)
(* functions and bindings, and for calls nested to any depth.              *)
(*                                                                         *)
(* The inductive invariant IInv has two halves.  DataRight is about the    *)
(* record d: Sound(d, leaked) says of every element how its expando, its   *)
(* entry of the cache, its tables, its handle function and the browser's   *)
(* listeners go together (Mid holds also between the lines of add and      *)
(* remove, NoIdle when they have returned), and Served that the types the  *)
(* library serves with a handler of its own have it.  CallsRight is about  *)
(* the calls in progress: Callers says which call stands on which, Raised, *)
(* Heard and Twice what jQuery.event.triggered means for them, and Owed    *)
(* what is owed to the callers of ready.                                   *)
(*                                                                         *)
(* The first part of the module is about the operations on the record, the *)
(* second about the ways a stack of calls changes and, action by action,   *)
(* that CallsRight stays; the third shows the same of DataRight and draws  *)
(* the conclusions.                                                        *)
(***************************************************************************)
EXTENDS JQEvent, FiniteSetTheorems, SequenceTheorems, WellFoundedInduction, TLAPS

-----------------------------------------------------------------------------
(* The table jQuery.cache and the expandos.                                *)

IsFun(f) == f = [y \in DOMAIN f |-> f[y]]

\* The record d, the expandos and the table.
Fields(x) == x = [id |-> x.id, cache |-> x.cache, own |-> x.own, lis |-> x.lis, ns |-> x.ns]

Linked(x) ==
    /\ x.id \in [Elem -> Ids \cup {None}]
    /\ \A e \in Elem : x.id[e] # None => x.id[e] \in DOMAIN x.cache /\ x.id[e] \in {<<e, 1>>, <<e, 2>>}
    /\ \A i \in DOMAIN x.cache : i \in Ids /\ \E e \in Elem : x.id[e] = i
    /\ IsFun(x.cache)
    /\ \A i \in DOMAIN x.cache : IsFun(x.cache[i])

Kept(x) == Fields(x) /\ Linked(x)

SameRest(x, y) == y.own = x.own /\ y.lis = x.lis /\ y.ns = x.ns

LEMMA NoneIsNoId == None \notin Ids
BY EventAssumption

LEMMA HasEntryIs ==
    ASSUME NEW x, Kept(x), NEW e \in Elem
    PROVE  HasEntry(x, e) <=> x.id[e] # None
BY NoneIsNoId DEF Kept, Linked, HasEntry, Ids

LEMMA Fresh ==
    ASSUME NEW x, Kept(x), NEW e \in Elem, x.id[e] = None
    PROVE  FreshId(x, e) = <<e, 1>> /\ <<e, 1>> \notin DOMAIN x.cache /\ <<e, 1>> \in Ids
<1>1. <<e, 1>> \in Ids
  BY DEF Ids
<1>2. ASSUME <<e, 1>> \in DOMAIN x.cache PROVE FALSE
  <2>1. PICK q \in Elem : x.id[q] = <<e, 1>>
    BY <1>2 DEF Kept, Linked
  <2>2. x.id[q] \in {<<q, 1>>, <<q, 2>>}
    BY <2>1, <1>1, NoneIsNoId DEF Kept, Linked
  <2>3. q = e
    BY <2>1, <2>2
  <2>. QED
    BY <2>1, <2>3, <1>1, NoneIsNoId
<1>. QED
  BY <1>1, <1>2 DEF FreshId

LEMMA WithEntryKeeps ==
    ASSUME NEW x, Kept(x), NEW e \in Elem
    PROVE  /\ Kept(WithEntry(x, e))
           /\ SameRest(x, WithEntry(x, e))
           /\ HasEntry(WithEntry(x, e), e)
           /\ \A q \in Elem : \A n : Get(WithEntry(x, e), q, n) = Get(x, q, n)
<1>. DEFINE y == WithEntry(x, e)
<1>1. CASE x.id[e] # None
  <2>1. x.id[e] \in DOMAIN x.cache
    BY <1>1 DEF Kept, Linked
  <2>2. y = x
    BY <2>1, <1>1 DEF WithEntry, Kept, Fields, Linked
  <2>. QED
    BY <2>2, <1>1, HasEntryIs DEF SameRest
<1>2. CASE x.id[e] = None
  <2>. DEFINE i == <<e, 1>>
              none == <<>>
  <2>0. i \in Ids /\ i \notin DOMAIN x.cache /\ i # None /\ FreshId(x, e) = i
    BY <1>2, Fresh, NoneIsNoId
  <2>a. IsFun(none) /\ DOMAIN none = {}
    BY DEF IsFun
  <2>. HIDE DEF i, none
  <2>b. y = [x EXCEPT !.id = [x.id EXCEPT ![e] = i], !.cache = Assign(x.cache, i, none)]
    BY <1>2, <2>0 DEF WithEntry, none
  <2>1. /\ y.id = [x.id EXCEPT ![e] = i]
        /\ y.cache = Assign(x.cache, i, none)
        /\ Fields(y) /\ SameRest(x, y)
    BY <2>b DEF Kept, Fields, SameRest
  <2>2. /\ DOMAIN y.cache = {i} \cup DOMAIN x.cache
        /\ y.cache[i] = none
        /\ \A j \in DOMAIN x.cache : y.cache[j] = x.cache[j]
        /\ IsFun(y.cache)
    BY <2>0, <2>1 DEF Assign, IsFun
  <2>3. y.id[e] = i /\ y.id \in [Elem -> Ids \cup {None}] /\ \A q \in Elem : q # e => y.id[q] = x.id[q]
    BY <2>0, <2>1 DEF Kept, Linked
  <2>. HIDE DEF y
  <2>4. Linked(y)
    <3>1. \A q \in Elem : y.id[q] # None => y.id[q] \in DOMAIN y.cache /\ y.id[q] \in {<<q, 1>>, <<q, 2>>}
      BY <2>2, <2>3 DEF Kept, Linked, i
    <3>2. \A j \in DOMAIN y.cache : j \in Ids /\ \E q \in Elem : y.id[q] = j
      BY <1>2, <2>0, <2>2, <2>3, NoneIsNoId DEF Kept, Linked
    <3>3. \A j \in DOMAIN y.cache : IsFun(y.cache[j])
      BY <2>2, <2>a DEF Kept, Linked
    <3>. QED
      BY <2>2, <2>3, <3>1, <3>2, <3>3 DEF Linked
  <2>5. HasEntry(y, e)
    BY <2>2, <2>3 DEF HasEntry
  <2>6. ASSUME NEW q \in Elem, NEW n
        PROVE  Get(y, q, n) = Get(x, q, n)
    <3>1. CASE q = e
      BY <3>1, <1>2, <2>0, <2>a, <2>2, <2>3, NoneIsNoId DEF Get, HasEntry, Kept, Linked
    <3>2. CASE q # e
      <4>1. y.id[q] = x.id[q] /\ (x.id[q] # i)
        BY <3>2, <2>0, <2>3 DEF Kept, Linked, i
      <4>. QED
        BY <4>1, <2>2 DEF Get, HasEntry
    <3>. QED
      BY <3>1, <3>2
  <2>. QED
    BY <2>1, <2>4, <2>5, <2>6 DEF Kept, y
<1>. QED
  BY <1>1, <1>2

LEMMA PutKeeps ==
    ASSUME NEW x, Kept(x), NEW e \in Elem, NEW name, NEW v
    PROVE  /\ Kept(Put(x, e, name, v))
           /\ SameRest(x, Put(x, e, name, v))
           /\ Get(Put(x, e, name, v), e, name) = v
           /\ \A n : n # name => Get(Put(x, e, name, v), e, n) = Get(x, e, n)
           /\ \A q \in Elem : \A n : q # e => Get(Put(x, e, name, v), q, n) = Get(x, q, n)
<1>. DEFINE w == WithEntry(x, e)
            y == Put(x, e, name, v)
            i == w.id[e]
            new == Assign(w.cache[i], name, v)
<1>1. Kept(w) /\ SameRest(x, w) /\ HasEntry(w, e) /\ \A q \in Elem : \A n : Get(w, q, n) = Get(x, q, n)
  BY WithEntryKeeps
<1>2. y = [w EXCEPT !.cache = [w.cache EXCEPT ![i] = new]]
  BY DEF Put
<1>. HIDE DEF w, y, new
<1>3. i \in DOMAIN w.cache
  BY <1>1 DEF HasEntry
<1>4. /\ DOMAIN new = {name} \cup DOMAIN w.cache[i]
      /\ new[name] = v
      /\ \A n \in DOMAIN w.cache[i] : n # name => new[n] = w.cache[i][n]
      /\ IsFun(new)
  BY DEF Assign, IsFun, new
<1>5. /\ y.id = w.id /\ y.cache = [w.cache EXCEPT ![i] = new]
      /\ Fields(y) /\ SameRest(w, y)
  BY <1>1, <1>2 DEF Kept, Fields, SameRest
<1>6. /\ DOMAIN y.cache = DOMAIN w.cache
      /\ y.cache[i] = new
      /\ \A j \in DOMAIN w.cache : j # i => y.cache[j] = w.cache[j]
      /\ IsFun(y.cache)
  BY <1>3, <1>5 DEF IsFun
<1>7. Linked(y)
  BY <1>1, <1>4, <1>5, <1>6 DEF Kept, Linked
<1>8. Get(y, e, name) = v /\ \A n : n # name => Get(y, e, n) = Get(w, e, n)
  BY <1>3, <1>4, <1>5, <1>6 DEF Get, HasEntry
<1>9. ASSUME NEW q \in Elem, NEW n, q # e
      PROVE  Get(y, q, n) = Get(w, q, n)
  <2>1. w.id[q] # None => w.id[q] # i
    BY <1>1, <1>9, HasEntryIs DEF Kept, Linked
  <2>2. w.id[q] \in DOMAIN w.cache => w.id[q] # None
    BY <1>1, HasEntryIs DEF HasEntry
  <2>. QED
    BY <2>1, <2>2, <1>5, <1>6 DEF Get, HasEntry
<1>. QED
  BY <1>1, <1>5, <1>7, <1>8, <1>9 DEF Kept, SameRest, y

LEMMA DropKeeps ==
    ASSUME NEW x, Kept(x), NEW e \in Elem
    PROVE  /\ Kept(Drop(x, e))
           /\ SameRest(x, Drop(x, e))
           /\ \A n : Get(Drop(x, e), e, n) = None
           /\ \A q \in Elem : \A n : q # e => Get(Drop(x, e), q, n) = Get(x, q, n)
<1>. DEFINE y == Drop(x, e)
            i == x.id[e]
<1>0. y = [x EXCEPT !.id = [x.id EXCEPT ![e] = None], !.cache = Delete(x.cache, {i})]
  BY DEF Drop
<1>1. /\ y.id = [x.id EXCEPT ![e] = None]
      /\ y.cache = Delete(x.cache, {i})
      /\ Fields(y) /\ SameRest(x, y)
  BY <1>0 DEF Kept, Fields, SameRest
<1>2. /\ DOMAIN y.cache = DOMAIN x.cache \ {i}
      /\ \A j \in DOMAIN x.cache : j # i => y.cache[j] = x.cache[j]
      /\ IsFun(y.cache)
  BY <1>1 DEF Delete, IsFun
<1>3. y.id \in [Elem -> Ids \cup {None}] /\ y.id[e] = None /\ \A q \in Elem : q # e => y.id[q] = x.id[q]
  BY <1>1 DEF Kept, Linked
<1>. HIDE DEF y
<1>4. \A q \in Elem : q # e /\ x.id[q] # None => x.id[q] # i
  BY DEF Kept, Linked
<1>5. \A j \in DOMAIN x.cache : j \in Ids /\ j # None
  BY NoneIsNoId DEF Kept, Linked
<1>6. Linked(y)
  <2>1. \A q \in Elem : y.id[q] # None => y.id[q] \in DOMAIN y.cache /\ y.id[q] \in {<<q, 1>>, <<q, 2>>}
    BY <1>2, <1>3, <1>4 DEF Kept, Linked
  <2>2. \A j \in DOMAIN y.cache : j \in Ids /\ \E q \in Elem : y.id[q] = j
    BY <1>2, <1>3 DEF Kept, Linked
  <2>. QED
    BY <1>2, <1>3, <2>1, <2>2 DEF Kept, Linked
<1>7. \A n : Get(y, e, n) = None
  BY <1>2, <1>3, <1>5 DEF Get, HasEntry
<1>8. ASSUME NEW q \in Elem, NEW n, q # e
      PROVE  Get(y, q, n) = Get(x, q, n)
  BY <1>2, <1>3, <1>4, <1>5, <1>8 DEF Get, HasEntry
<1>. QED
  BY <1>1, <1>6, <1>7, <1>8 DEF Kept, y

\* Where only other fields differ, the table and the expandos are the same.
LEMMA SameCacheKeeps ==
    ASSUME NEW x, Kept(x), NEW y, Fields(y), y.id = x.id, y.cache = x.cache
    PROVE  /\ Kept(y)
           /\ \A q \in Elem : \A n : Get(y, q, n) = Get(x, q, n)
BY DEF Kept, Linked, Get, HasEntry

LEMMA DropNameKeeps ==
    ASSUME NEW x, Kept(x), NEW e \in Elem, NEW name
    PROVE  /\ Kept(DropName(x, e, name))
           /\ SameRest(x, DropName(x, e, name))
           /\ Get(DropName(x, e, name), e, name) = None
           /\ \A n : n # name => Get(DropName(x, e, name), e, n) = Get(x, e, n)
           /\ \A q \in Elem : \A n : q # e => Get(DropName(x, e, name), q, n) = Get(x, q, n)
<1>. DEFINE y == DropName(x, e, name)
            i == x.id[e]
            rest == Delete(x.cache[i], {name})
<1>1. CASE ~HasEntry(x, e)
  <2>1. y = x
    BY <1>1 DEF DropName
  <2>2. \A n : Get(x, e, n) = None
    BY <1>1 DEF Get
  <2>. QED
    BY <2>1, <2>2 DEF SameRest
<1>2. CASE HasEntry(x, e) /\ rest = <<>>
  <2>1. y = Drop(x, e)
    BY <1>2 DEF DropName
  <2>2. DOMAIN rest = {}
    BY <1>2
  <2>3. DOMAIN rest = DOMAIN x.cache[i] \ {name}
    BY DEF Delete
  <2>4. \A n : n # name => Get(x, e, n) = None
    BY <2>2, <2>3 DEF Get
  <2>. QED
    BY <2>1, <2>4, DropKeeps
<1>3. CASE HasEntry(x, e) /\ rest # <<>>
  <2>1. y = [x EXCEPT !.cache = [x.cache EXCEPT ![i] = rest]]
    BY <1>3 DEF DropName
  <2>2. /\ y.id = x.id /\ y.cache = [x.cache EXCEPT ![i] = rest]
        /\ Fields(y) /\ SameRest(x, y)
    BY <2>1 DEF Kept, Fields, SameRest
  <2>3. /\ DOMAIN rest = DOMAIN x.cache[i] \ {name}
        /\ \A n \in DOMAIN rest : rest[n] = x.cache[i][n]
        /\ IsFun(rest)
    BY DEF Delete, IsFun
  <2>4. i \in DOMAIN x.cache
    BY <1>3 DEF HasEntry
  <2>. HIDE DEF y, rest
  <2>5. /\ DOMAIN y.cache = DOMAIN x.cache
        /\ y.cache[i] = rest
        /\ \A j \in DOMAIN x.cache : j # i => y.cache[j] = x.cache[j]
        /\ IsFun(y.cache)
    BY <2>2, <2>4 DEF IsFun
  <2>6. Linked(y)
    BY <2>2, <2>3, <2>5 DEF Kept, Linked
  <2>7. Get(y, e, name) = None /\ \A n : n # name => Get(y, e, n) = Get(x, e, n)
    BY <2>2, <2>3, <2>4, <2>5 DEF Get, HasEntry
  <2>8. ASSUME NEW q \in Elem, NEW n, q # e
        PROVE  Get(y, q, n) = Get(x, q, n)
    <3>1. x.id[q] # None => x.id[q] # i
      BY <2>8, <2>4 DEF Kept, Linked
    <3>2. x.id[q] \in DOMAIN x.cache => x.id[q] # None
      BY HasEntryIs DEF HasEntry
    <3>. QED
      BY <3>1, <3>2, <2>2, <2>5 DEF Get, HasEntry
  <2>. QED
    BY <2>2, <2>6, <2>7, <2>8 DEF Kept, y
<1>. QED
  BY <1>1, <1>2, <1>3

-----------------------------------------------------------------------------
(* Tables and maps from types to tables.                                   *)

TableIn(m, t) == IF t \in DOMAIN m THEN m[t] ELSE <<>>
Bound(m, t) == DOMAIN TableIn(m, t)

LEMMA TablesAre ==
    ASSUME NEW k
    PROVE  k \in Tables <=> IsFun(k) /\ DOMAIN k \subseteq Handlers /\ \A f \in DOMAIN k : k[f] \in Kinds
<1>1. k \in Tables <=> \E fs \in SUBSET Handlers : k \in [fs -> Kinds]
  BY DEF Tables
<1>2. ASSUME NEW fs \in SUBSET Handlers, k \in [fs -> Kinds]
      PROVE  IsFun(k) /\ DOMAIN k \subseteq Handlers /\ \A f \in DOMAIN k : k[f] \in Kinds
  BY <1>2 DEF IsFun
<1>3. ASSUME IsFun(k), DOMAIN k \subseteq Handlers, \A f \in DOMAIN k : k[f] \in Kinds
      PROVE  k \in [DOMAIN k -> Kinds]
  BY <1>3 DEF IsFun
<1>. QED
  BY <1>1, <1>2, <1>3

LEMMA MapsAre ==
    ASSUME NEW m
    PROVE  IsEventMap(m) <=> IsFun(m) /\ DOMAIN m \subseteq Types /\ \A t \in DOMAIN m : m[t] \in Tables
<1>1. IsEventMap(m) <=> \E ts \in SUBSET Types : m \in [ts -> Tables]
  BY DEF IsEventMap
<1>2. ASSUME NEW ts \in SUBSET Types, m \in [ts -> Tables]
      PROVE  IsFun(m) /\ DOMAIN m \subseteq Types /\ \A t \in DOMAIN m : m[t] \in Tables
  BY <1>2 DEF IsFun
<1>3. ASSUME IsFun(m), DOMAIN m \subseteq Types, \A t \in DOMAIN m : m[t] \in Tables
      PROVE  m \in [DOMAIN m -> Tables]
  BY <1>3 DEF IsFun
<1>. QED
  BY <1>1, <1>2, <1>3

LEMMA Empty ==
    /\ DOMAIN <<>> = {} /\ IsFun(<<>>)
    /\ <<>> \in Tables /\ IsEventMap(<<>>)
    /\ \A k : IsFun(k) => (k = <<>> <=> DOMAIN k = {})
<1>1. DOMAIN <<>> = {} /\ IsFun(<<>>)
  BY DEF IsFun
<1>2. ASSUME NEW k, IsFun(k), DOMAIN k = {}
      PROVE  k = <<>>
  BY <1>2 DEF IsFun
<1>3. <<>> \in Tables
  BY <1>1, TablesAre
<1>4. IsEventMap(<<>>)
  BY <1>1, MapsAre
<1>. QED
  BY <1>1, <1>2, <1>3, <1>4

LEMMA AssignIs ==
    ASSUME NEW m, NEW t, NEW v
    PROVE  /\ IsFun(Assign(m, t, v))
           /\ DOMAIN Assign(m, t, v) = DOMAIN m \cup {t}
           /\ Assign(m, t, v)[t] = v
           /\ \A u \in DOMAIN m : u # t => Assign(m, t, v)[u] = m[u]
BY DEF Assign, IsFun

LEMMA DeleteIs ==
    ASSUME NEW m, NEW ts
    PROVE  /\ IsFun(Delete(m, ts))
           /\ DOMAIN Delete(m, ts) = DOMAIN m \ ts
           /\ \A u \in DOMAIN m \ ts : Delete(m, ts)[u] = m[u]
BY DEF Delete, IsFun

LEMMA TableInIs ==
    ASSUME NEW m, IsEventMap(m), NEW t
    PROVE  TableIn(m, t) \in Tables
BY MapsAre, Empty DEF TableIn

LEMMA AssignMap ==
    ASSUME NEW m, IsEventMap(m), NEW t \in Types, NEW k \in Tables
    PROVE  IsEventMap(Assign(m, t, k))
<1>. DEFINE n == Assign(m, t, k)
<1>1. IsFun(n) /\ DOMAIN n = DOMAIN m \cup {t} /\ n[t] = k /\ \A u \in DOMAIN m : u # t => n[u] = m[u]
  BY DEF Assign, IsFun
<1>. HIDE DEF n
<1>2. DOMAIN n \subseteq Types /\ \A u \in DOMAIN n : n[u] \in Tables
  BY <1>1, MapsAre
<1>3. IsEventMap(n)
  BY <1>1, <1>2, MapsAre
<1>. QED
  BY <1>3 DEF n

LEMMA DeleteMap ==
    ASSUME NEW m, IsEventMap(m), NEW ts
    PROVE  IsEventMap(Delete(m, ts))
<1>. DEFINE n == Delete(m, ts)
<1>1. IsFun(n) /\ DOMAIN n = DOMAIN m \ ts /\ \A u \in DOMAIN m \ ts : n[u] = m[u]
  BY DeleteIs
<1>. HIDE DEF n
<1>2. DOMAIN n \subseteq Types /\ \A u \in DOMAIN n : n[u] \in Tables
  BY <1>1, MapsAre
<1>3. IsEventMap(n)
  BY <1>1, <1>2, MapsAre
<1>. QED
  BY <1>3 DEF n

LEMMA AssignTable ==
    ASSUME NEW k \in Tables, NEW f \in Handlers, NEW kind \in Kinds
    PROVE  Assign(k, f, kind) \in Tables
<1>. DEFINE n == Assign(k, f, kind)
<1>1. IsFun(n) /\ DOMAIN n = DOMAIN k \cup {f} /\ n[f] = kind /\ \A u \in DOMAIN k : u # f => n[u] = k[u]
  BY DEF Assign, IsFun
<1>. HIDE DEF n
<1>2. DOMAIN n \subseteq Handlers /\ \A u \in DOMAIN n : n[u] \in Kinds
  BY <1>1, TablesAre
<1>3. n \in Tables
  BY <1>1, <1>2, TablesAre
<1>. QED
  BY <1>3 DEF n

LEMMA DeleteTable ==
    ASSUME NEW k \in Tables, NEW fs
    PROVE  Delete(k, fs) \in Tables
<1>. DEFINE n == Delete(k, fs)
<1>1. IsFun(n) /\ DOMAIN n = DOMAIN k \ fs /\ \A u \in DOMAIN k \ fs : n[u] = k[u]
  BY DeleteIs
<1>. HIDE DEF n
<1>2. DOMAIN n \subseteq Handlers /\ \A u \in DOMAIN n : n[u] \in Kinds
  BY <1>1, TablesAre
<1>3. n \in Tables
  BY <1>1, <1>2, TablesAre
<1>. QED
  BY <1>3 DEF n

LEMMA NoneIsNoMap ==
    ASSUME NEW m, IsEventMap(m)
    PROVE  m # None
BY EventAssumption

LEMMA TableOf ==
    ASSUME NEW x, NEW e, NEW t
    PROVE  Table(x, e, t) = TableIn(Events(x, e), t)
BY DEF Table, TableIn

-----------------------------------------------------------------------------
(* What is right about the record of the data, given which elements L have *)
(* left a handle behind.                                                   *)

Mine(L, e) == <<e, IF e \in L THEN 2 ELSE 1>>
Left(e) == <<e, 1>>

HandleRight(x, L, e) ==
    /\ Get(x, e, "handle") \in {None, Mine(L, e)}
    /\ (Get(x, e, "handle") = None <=> Get(x, e, "events") = None)
    /\ \A h \in Handles : h[1] = e =>
         /\ (h \in DOMAIN x.own <=> (Get(x, e, "handle") = h \/ (e \in L /\ h = Left(e))))
         /\ h \in DOMAIN x.own => x.own[h] = e

ListenersRight(x, L, e) ==
    /\ \A t : <<e, t, Mine(L, e)>> \in x.lis <=> t \in DOMAIN Events(x, e) \ {"enter"}
    /\ \A l \in x.lis : l[1] = e => l[3] = Mine(L, e) \/ (e \in L /\ l[3] = Left(e))

\* The library's own handlers are where the library puts them, live has no
\* one-shot form, and what has run is spent in no table but that of mouseover.
TableRight(e, t, k) ==
    /\ k \in Tables
    /\ t = "liveclick" => e = doc
    /\ \A f \in DOMAIN k :
         /\ f = "live" => e = doc /\ t = "click"
         /\ f = "within" => t = "over"
         /\ t = "liveclick" => k[f] = "plain"
         /\ t # "over" => k[f] # "spent"

MapRight(e, m) == IsEventMap(m) /\ \A t \in DOMAIN m : TableRight(e, t, m[t])

EventsRight(x, e) == Get(x, e, "events") # None => MapRight(e, Get(x, e, "events"))

Right(x, L, e) == HandleRight(x, L, e) /\ ListenersRight(x, L, e) /\ EventsRight(x, e)

Whole(x) ==
    /\ IsFun(x.own) /\ DOMAIN x.own \subseteq Handles
    /\ x.lis \subseteq Elem \X Types \X Handles
    /\ x.ns \in [Fn -> BOOLEAN]

\* This holds also between the steps of add and remove.
Mid(x, L) == Kept(x) /\ Whole(x) /\ \A e \in Elem : Right(x, L, e)

\* This holds when they have returned.
\* No library handler without its use, no live type without registrations.
NoIdle(m) ==
    /\ "live" \in Bound(m, "click") => Bound(m, "liveclick") # {}
    /\ "within" \in Bound(m, "over") => "enter" \in DOMAIN m
    /\ "liveclick" \in DOMAIN m => Bound(m, "liveclick") # {}

Sound(x, L) ==
    /\ Mid(x, L)
    /\ \A e \in Elem :
         /\ NoIdle(Events(x, e))
         /\ Get(x, e, "events") # None => Events(x, e) # <<>>

\* What y changes of x belongs to e.
OnlyAt(x, y, e) ==
    /\ \A q \in Elem : q # e => \A n : Get(y, q, n) = Get(x, q, n)
    /\ \A h \in Handles : h[1] # e =>
         /\ (h \in DOMAIN y.own <=> h \in DOMAIN x.own)
         /\ h \in DOMAIN x.own => y.own[h] = x.own[h]
    /\ \A l : l[1] # e => (l \in y.lis <=> l \in x.lis)

LEMMA OthersRight ==
    ASSUME NEW x, NEW L, NEW e \in Elem, Mid(x, L), NEW y, OnlyAt(x, y, e), NEW q \in Elem, q # e
    PROVE  Right(y, L, q)
<1>1. Get(y, q, "handle") = Get(x, q, "handle") /\ Get(y, q, "events") = Get(x, q, "events")
  BY DEF OnlyAt
<1>2. Events(y, q) = Events(x, q)
  BY <1>1 DEF Events
<1>3. HandleRight(y, L, q)
  <2>1. HandleRight(x, L, q)
    BY DEF Mid, Right
  <2>2. ASSUME NEW h \in Handles, h[1] = q
        PROVE  /\ h \in DOMAIN y.own <=> (Get(y, q, "handle") = h \/ (q \in L /\ h = Left(q)))
               /\ h \in DOMAIN y.own => y.own[h] = q
    <3>1. (h \in DOMAIN y.own <=> h \in DOMAIN x.own) /\ (h \in DOMAIN x.own => y.own[h] = x.own[h])
      BY <2>2 DEF OnlyAt
    <3>. QED
      BY <3>1, <2>1, <2>2, <1>1 DEF HandleRight
  <2>. QED
    BY <1>1, <2>1, <2>2 DEF HandleRight
<1>4. ListenersRight(y, L, q)
  <2>1. ASSUME NEW t PROVE <<q, t, Mine(L, q)>> \in y.lis <=> <<q, t, Mine(L, q)>> \in x.lis
    BY DEF OnlyAt
  <2>2. \A l \in y.lis : l[1] = q => l \in x.lis
    BY DEF OnlyAt
  <2>. QED
    BY <1>2, <2>1, <2>2 DEF Mid, Right, ListenersRight
<1>5. EventsRight(y, q)
  BY <1>1 DEF Mid, Right, EventsRight
<1>. QED
  BY <1>3, <1>4, <1>5 DEF Right

LEMMA MidAt ==
    ASSUME NEW x, NEW L, NEW e \in Elem, Mid(x, L), NEW y, OnlyAt(x, y, e),
           Kept(y), Whole(y), Right(y, L, e)
    PROVE  Mid(y, L)
<1>1. ASSUME NEW q \in Elem PROVE Right(y, L, q)
  BY OthersRight
<1>. QED
  BY <1>1 DEF Mid

LEMMA OnlyAtTwice ==
    ASSUME NEW x, NEW e, NEW y, NEW z, OnlyAt(x, y, e), OnlyAt(y, z, e)
    PROVE  OnlyAt(x, z, e)
<1>1. ASSUME NEW q \in Elem, q # e
      PROVE  \A n : Get(z, q, n) = Get(x, q, n)
  BY <1>1 DEF OnlyAt
<1>2. ASSUME NEW h \in Handles, h[1] # e
      PROVE  (h \in DOMAIN z.own <=> h \in DOMAIN x.own) /\ (h \in DOMAIN x.own => z.own[h] = x.own[h])
  <2>1. (h \in DOMAIN z.own <=> h \in DOMAIN y.own) /\ (h \in DOMAIN y.own => z.own[h] = y.own[h])
    BY <1>2 DEF OnlyAt
  <2>2. (h \in DOMAIN y.own <=> h \in DOMAIN x.own) /\ (h \in DOMAIN x.own => y.own[h] = x.own[h])
    BY <1>2 DEF OnlyAt
  <2>. QED
    BY <2>1, <2>2
<1>3. ASSUME NEW l, l[1] # e
      PROVE  l \in z.lis <=> l \in x.lis
  BY <1>3 DEF OnlyAt
<1>. QED
  BY <1>1, <1>2, <1>3 DEF OnlyAt

LEMMA MapRightAssign ==
    ASSUME NEW e, NEW m, MapRight(e, m), NEW t \in Types, NEW k, TableRight(e, t, k)
    PROVE  MapRight(e, Assign(m, t, k))
<1>. DEFINE n == Assign(m, t, k)
<1>1. DOMAIN n = DOMAIN m \cup {t} /\ n[t] = k /\ \A u \in DOMAIN m : u # t => n[u] = m[u]
  BY DEF Assign
<1>2. IsEventMap(n)
  BY AssignMap DEF MapRight, TableRight
<1>. HIDE DEF n
<1>3. ASSUME NEW u \in DOMAIN n
      PROVE  TableRight(e, u, n[u])
  <2>1. CASE u = t
    BY <2>1, <1>1
  <2>2. CASE u # t
    BY <2>2, <1>1, <1>3 DEF MapRight
  <2>. QED
    BY <2>1, <2>2
<1>4. MapRight(e, n)
  BY <1>2, <1>3 DEF MapRight
<1>. QED
  BY <1>4 DEF n

LEMMA MapRightDelete ==
    ASSUME NEW e, NEW m, MapRight(e, m), NEW ts
    PROVE  MapRight(e, Delete(m, ts))
<1>. DEFINE n == Delete(m, ts)
<1>1. DOMAIN n = DOMAIN m \ ts /\ \A u \in DOMAIN m \ ts : n[u] = m[u]
  BY DEF Delete
<1>2. IsEventMap(n)
  BY DeleteMap DEF MapRight
<1>. HIDE DEF n
<1>3. \A u \in DOMAIN n : TableRight(e, u, n[u])
  BY <1>1 DEF MapRight
<1>4. MapRight(e, n)
  BY <1>2, <1>3 DEF MapRight
<1>. QED
  BY <1>4 DEF n

LEMMA TableInRight ==
    ASSUME NEW e, NEW m, MapRight(e, m), NEW t, t = "liveclick" => e = doc
    PROVE  TableRight(e, t, TableIn(m, t))
<1>1. CASE t \in DOMAIN m
  BY <1>1 DEF TableIn, MapRight
<1>2. CASE t \notin DOMAIN m
  <2>. DEFINE none == <<>>
  <2>1. TableIn(m, t) = none /\ none \in Tables /\ DOMAIN none = {}
    BY <1>2, Empty DEF TableIn
  <2>. HIDE DEF none
  <2>. QED
    BY <2>1 DEF TableRight
<1>. QED
  BY <1>1, <1>2

\* A handler of the page may be added to any table, one of the library to its own.
MayAdd(e, t, f, kind) ==
    /\ f \in Handlers /\ kind \in Kinds
    /\ t = "liveclick" => e = doc
    /\ f = "live" => e = doc /\ t = "click"
    /\ f = "within" => t = "over"
    /\ t = "liveclick" => kind = "plain"
    /\ t # "over" => kind # "spent"

LEMMA TableRightAssign ==
    ASSUME NEW e, NEW t, NEW k, TableRight(e, t, k), NEW f, NEW kind, MayAdd(e, t, f, kind)
    PROVE  TableRight(e, t, Assign(k, f, kind))
<1>. DEFINE n == Assign(k, f, kind)
<1>1. DOMAIN n = DOMAIN k \cup {f} /\ n[f] = kind /\ \A u \in DOMAIN k : u # f => n[u] = k[u]
  BY DEF Assign
<1>2. n \in Tables
  BY AssignTable DEF TableRight, MayAdd
<1>. HIDE DEF n
<1>3. TableRight(e, t, n)
  BY <1>1, <1>2 DEF TableRight, MayAdd
<1>. QED
  BY <1>3 DEF n

LEMMA TableRightDelete ==
    ASSUME NEW e, NEW t, NEW k, TableRight(e, t, k), NEW fs
    PROVE  TableRight(e, t, Delete(k, fs))
<1>. DEFINE n == Delete(k, fs)
<1>1. DOMAIN n = DOMAIN k \ fs /\ \A u \in DOMAIN k \ fs : n[u] = k[u]
  BY DEF Delete
<1>2. n \in Tables
  BY DeleteTable DEF TableRight
<1>. HIDE DEF n
<1>3. TableRight(e, t, n)
  BY <1>1, <1>2 DEF TableRight
<1>. QED
  BY <1>3 DEF n

-----------------------------------------------------------------------------
(* One element gets another map.                                           *)

LEMMA EventsIs ==
    ASSUME NEW x, NEW e
    PROVE  /\ Get(x, e, "events") # None => Events(x, e) = Get(x, e, "events")
           /\ Get(x, e, "events") = None => Events(x, e) = <<>>
BY DEF Events

LEMMA EventsRightIs ==
    ASSUME NEW x, NEW L, Mid(x, L), NEW e \in Elem
    PROVE  MapRight(e, Events(x, e))
<1>1. CASE Get(x, e, "events") # None
  BY <1>1, EventsIs DEF Mid, Right, EventsRight
<1>2. CASE Get(x, e, "events") = None
  <2>. DEFINE none == <<>>
  <2>1. Events(x, e) = none /\ IsEventMap(none) /\ DOMAIN none = {}
    BY <1>2, Empty, EventsIs
  <2>. HIDE DEF none
  <2>. QED
    BY <2>1 DEF MapRight
<1>. QED
  BY <1>1, <1>2

LEMMA SetMap ==
    ASSUME NEW x, NEW L, Mid(x, L), NEW e \in Elem, Get(x, e, "events") # None,
           NEW y, Kept(y), Whole(y), y.own = x.own,
           \A q \in Elem : \A n : q # e => Get(y, q, n) = Get(x, q, n),
           Get(y, e, "handle") = Get(x, e, "handle"),
           NEW m, Get(y, e, "events") = m, MapRight(e, m),
           \A l : l[1] # e => (l \in y.lis <=> l \in x.lis),
           \A t : <<e, t, Mine(L, e)>> \in y.lis <=> t \in DOMAIN m \ {"enter"},
           \A l \in y.lis : l[1] = e => l[3] = Mine(L, e) \/ l \in x.lis
    PROVE  Mid(y, L) /\ OnlyAt(x, y, e) /\ Events(y, e) = m
<1>1. m # None
  BY NoneIsNoMap DEF MapRight
<1>2. Events(y, e) = m
  BY <1>1, EventsIs
<1>3. OnlyAt(x, y, e)
  BY DEF OnlyAt
<1>4. HandleRight(y, L, e)
  BY <1>1 DEF Mid, Right, HandleRight
<1>5. ListenersRight(y, L, e)
  BY <1>2 DEF Mid, Right, ListenersRight
<1>6. EventsRight(y, e)
  BY DEF EventsRight
<1>. QED
  BY <1>2, <1>3, <1>4, <1>5, <1>6, MidAt DEF Right

\* From x to y the map of e becomes m, and nothing else but listeners changes.
Goes(x, y, L, e, m) ==
    /\ Mid(y, L) /\ OnlyAt(x, y, e)
    /\ Get(y, e, "events") = m /\ Events(y, e) = m /\ m # None
    /\ Get(y, e, "handle") = Get(x, e, "handle")
    /\ y.own = x.own /\ y.ns = x.ns

LEMMA GoesTwice ==
    ASSUME NEW x, NEW y, NEW z, NEW L, NEW e, NEW m, NEW n, Goes(x, y, L, e, m), Goes(y, z, L, e, n)
    PROVE  Goes(x, z, L, e, n)
BY OnlyAtTwice DEF Goes

LEMMA HandleIsMine ==
    ASSUME NEW x, NEW L, Mid(x, L), NEW e \in Elem, Get(x, e, "events") # None
    PROVE  Get(x, e, "handle") = Mine(L, e) /\ Mine(L, e) \in Handles /\ Mine(L, e)[1] = e
BY DEF Mid, Right, HandleRight, Mine, Handles

LEMMA SetTableGoes ==
    ASSUME NEW x, NEW L, Mid(x, L), NEW e \in Elem, Get(x, e, "events") # None,
           NEW t \in Types, t \in DOMAIN Events(x, e) \/ t = "enter",
           NEW k, TableRight(e, t, k)
    PROVE  Goes(x, SetTable(x, e, t, k), L, e, Assign(Events(x, e), t, k))
<1>. DEFINE m == Assign(Events(x, e), t, k)
            y == SetTable(x, e, t, k)
<1>1. y = Put(x, e, "events", m)
  BY DEF SetTable
<1>2. /\ Kept(y) /\ SameRest(x, y)
      /\ Get(y, e, "events") = m
      /\ Get(y, e, "handle") = Get(x, e, "handle")
      /\ \A q \in Elem : \A n : q # e => Get(y, q, n) = Get(x, q, n)
  BY <1>1, PutKeeps DEF Mid
<1>3. MapRight(e, m)
  BY EventsRightIs, MapRightAssign
<1>4. DOMAIN m = DOMAIN Events(x, e) \cup {t}
  BY DEF Assign
<1>. HIDE DEF m, y
<1>5. y.own = x.own /\ y.lis = x.lis /\ y.ns = x.ns
  BY <1>2 DEF SameRest
<1>6. Whole(y)
  BY <1>5 DEF Mid, Whole
<1>7. \A u : <<e, u, Mine(L, e)>> \in y.lis <=> u \in DOMAIN m \ {"enter"}
  BY <1>4, <1>5 DEF Mid, Right, ListenersRight
<1>8. Mid(y, L) /\ OnlyAt(x, y, e) /\ Events(y, e) = m
  BY <1>2, <1>3, <1>5, <1>6, <1>7, SetMap
<1>9. m # None
  BY <1>3, NoneIsNoMap DEF MapRight
<1>10. Goes(x, y, L, e, m)
  BY <1>2, <1>5, <1>8, <1>9 DEF Goes
<1>. QED
  BY <1>10 DEF m, y

AddedTo(m, t, f, kind) == Assign(m, t, Assign(TableIn(m, t), f, kind))

LEMMA AddToGoes ==
    ASSUME NEW x, NEW L, Mid(x, L), NEW e \in Elem, Get(x, e, "events") # None,
           NEW t \in Types, t # "enter", NEW f, NEW kind, MayAdd(e, t, f, kind)
    PROVE  Goes(x, AddTo(x, e, t, f, kind), L, e, AddedTo(Events(x, e), t, f, kind))
<1>. DEFINE k == Assign(TableIn(Events(x, e), t), f, kind)
            m == Assign(Events(x, e), t, k)
            z == AddTo(x, e, t, f, kind)
            w == [x EXCEPT !.lis = x.lis \cup {<<e, t, Get(x, e, "handle")>>}]
<1>1. TableRight(e, t, k)
  BY EventsRightIs, TableInRight, TableRightAssign DEF MayAdd
<1>2. Goes(x, z, L, e, m)
  <2>1. CASE t \in DOMAIN Events(x, e)
    <3>1. z = SetTable(x, e, t, k)
      BY <2>1, TableOf DEF AddTo
    <3>. QED
      BY <3>1, <2>1, <1>1, SetTableGoes
  <2>2. CASE t \notin DOMAIN Events(x, e)
    <3>1. /\ w.id = x.id /\ w.cache = x.cache /\ w.own = x.own /\ w.ns = x.ns
          /\ w.lis = x.lis \cup {<<e, t, Get(x, e, "handle")>>}
          /\ Fields(w)
      BY DEF Mid, Kept, Fields
    <3>2. Kept(w) /\ \A q \in Elem : \A n : Get(w, q, n) = Get(x, q, n)
      BY <3>1, SameCacheKeeps DEF Mid
    <3>3. Events(w, e) = Events(x, e)
      BY <3>2 DEF Events
    <3>4. z = SetTable(w, e, t, k)
      BY <2>2, <3>3, TableOf DEF AddTo
    <3>5. z = Put(w, e, "events", m)
      BY <3>3, <3>4 DEF SetTable
    <3>. HIDE DEF w
    <3>6. /\ Kept(z) /\ SameRest(w, z)
          /\ Get(z, e, "events") = m
          /\ Get(z, e, "handle") = Get(x, e, "handle")
          /\ \A q \in Elem : \A n : q # e => Get(z, q, n) = Get(x, q, n)
      BY <3>2, <3>5, PutKeeps
    <3>7. MapRight(e, m)
      BY <1>1, EventsRightIs, MapRightAssign
    <3>8. DOMAIN m = DOMAIN Events(x, e) \cup {t}
      BY DEF Assign
    <3>. HIDE DEF m, z, k
    <3>9. Get(x, e, "handle") = Mine(L, e) /\ Mine(L, e) \in Handles
      BY HandleIsMine
    <3>10. z.own = x.own /\ z.lis = x.lis \cup {<<e, t, Mine(L, e)>>} /\ z.ns = x.ns
      BY <3>1, <3>6, <3>9 DEF SameRest
    <3>11. Whole(z)
      BY <3>9, <3>10 DEF Mid, Whole
    <3>12. \A u : <<e, u, Mine(L, e)>> \in z.lis <=> u \in DOMAIN m \ {"enter"}
      BY <3>8, <3>10 DEF Mid, Right, ListenersRight
    <3>13. \A l : l[1] # e => (l \in z.lis <=> l \in x.lis)
      BY <3>10
    <3>14. \A l \in z.lis : l[1] = e => l[3] = Mine(L, e) \/ l \in x.lis
      BY <3>10
    <3>15. Mid(z, L) /\ OnlyAt(x, z, e) /\ Events(z, e) = m
      BY <3>6, <3>7, <3>10, <3>11, <3>12, <3>13, <3>14, SetMap
    <3>16. m # None
      BY <3>7, NoneIsNoMap DEF MapRight
    <3>. QED
      BY <3>6, <3>10, <3>15, <3>16 DEF Goes
  <2>. QED
    BY <2>1, <2>2
<1>. QED
  BY <1>2 DEF AddedTo

LEMMA DropTableGoes ==
    ASSUME NEW x, NEW L, Mid(x, L), NEW e \in Elem, Get(x, e, "events") # None, NEW t
    PROVE  Goes(x, DropTable(x, e, t), L, e, Delete(Events(x, e), {t}))
<1>. DEFINE m == Delete(Events(x, e), {t})
            z == DropTable(x, e, t)
            w == [x EXCEPT !.lis = x.lis \ {<<e, t, Get(x, e, "handle")>>}]
<1>1. /\ w.id = x.id /\ w.cache = x.cache /\ w.own = x.own /\ w.ns = x.ns
      /\ w.lis = x.lis \ {<<e, t, Get(x, e, "handle")>>}
      /\ Fields(w)
  BY DEF Mid, Kept, Fields
<1>2. Kept(w) /\ \A q \in Elem : \A n : Get(w, q, n) = Get(x, q, n)
  BY <1>1, SameCacheKeeps DEF Mid
<1>5. z = Put(w, e, "events", m)
  BY DEF DropTable
<1>. HIDE DEF w
<1>6. /\ Kept(z) /\ SameRest(w, z)
      /\ Get(z, e, "events") = m
      /\ Get(z, e, "handle") = Get(x, e, "handle")
      /\ \A q \in Elem : \A n : q # e => Get(z, q, n) = Get(x, q, n)
  BY <1>2, <1>5, PutKeeps
<1>7. MapRight(e, m)
  BY EventsRightIs, MapRightDelete
<1>8. DOMAIN m = DOMAIN Events(x, e) \ {t}
  BY DEF Delete
<1>. HIDE DEF m, z
<1>9. Get(x, e, "handle") = Mine(L, e) /\ Mine(L, e) \in Handles
  BY HandleIsMine
<1>10. z.own = x.own /\ z.lis = x.lis \ {<<e, t, Mine(L, e)>>} /\ z.ns = x.ns
  BY <1>1, <1>6, <1>9 DEF SameRest
<1>11. Whole(z)
  BY <1>10 DEF Mid, Whole
<1>12. \A u : <<e, u, Mine(L, e)>> \in z.lis <=> u \in DOMAIN m \ {"enter"}
  BY <1>8, <1>10 DEF Mid, Right, ListenersRight
<1>13. \A l : l[1] # e => (l \in z.lis <=> l \in x.lis)
  BY <1>10
<1>14. \A l \in z.lis : l[1] = e => l[3] = Mine(L, e) \/ l \in x.lis
  BY <1>10
<1>15. Mid(z, L) /\ OnlyAt(x, z, e) /\ Events(z, e) = m
  BY <1>6, <1>7, <1>10, <1>11, <1>12, <1>13, <1>14, SetMap
<1>16. m # None
  BY <1>7, NoneIsNoMap DEF MapRight
<1>17. Goes(x, z, L, e, m)
  BY <1>6, <1>10, <1>15, <1>16 DEF Goes
<1>. QED
  BY <1>17 DEF m, z

-----------------------------------------------------------------------------
(* remove, as it changes the map of an element.                            *)

TakenFrom(m, t, fs, stale) ==
    LET k == Delete(TableIn(m, t), fs)
    IN  IF t \notin DOMAIN m THEN m
        ELSE IF k = <<>> /\ ~stale THEN Delete(Assign(m, t, k), {t})
        ELSE Assign(m, t, k)

Stripped(m, t, fs) == Assign(m, t, Delete(TableIn(m, t), fs))

LiveIsOver(m, t, fs, named) == t = "liveclick" /\ named /\ Bound(m, t) \subseteq fs
EnterIsOver(m, t, fs, stale) == t = "enter" /\ ~stale /\ Bound(m, t) \subseteq fs

TypeTaken(m, t, fs, stale, named) ==
    IF t \notin DOMAIN m THEN m
    ELSE IF LiveIsOver(m, t, fs, named)
    THEN TakenFrom(TakenFrom(Stripped(m, t, fs), "click", {"live"}, FALSE), t, fs, stale)
    ELSE IF EnterIsOver(m, t, fs, stale)
    THEN TakenFrom(TakenFrom(Stripped(m, t, fs), "over", {"within"}, FALSE), t, fs, stale)
    ELSE TakenFrom(m, t, fs, stale)

LEMMA GoesNowhere ==
    ASSUME NEW x, NEW L, Mid(x, L), NEW e, Get(x, e, "events") # None
    PROVE  Goes(x, x, L, e, Events(x, e))
BY EventsIs DEF Goes, OnlyAt

LEMMA MapOfGoes ==
    ASSUME NEW x, NEW y, NEW L, NEW e \in Elem, NEW m, Goes(x, y, L, e, m)
    PROVE  /\ Mid(y, L) /\ Get(y, e, "events") # None /\ Events(y, e) = m
           /\ MapRight(e, m) /\ IsEventMap(m) /\ IsFun(m) /\ DOMAIN m \subseteq Types
<1>1. Mid(y, L) /\ Get(y, e, "events") # None /\ Events(y, e) = m
  BY DEF Goes
<1>2. MapRight(e, m)
  BY <1>1, EventsRightIs
<1>3. IsEventMap(m)
  BY <1>2 DEF MapRight
<1>. QED
  BY <1>1, <1>2, <1>3, MapsAre

LEMMA DeletedIsEmpty ==
    ASSUME NEW k \in Tables, NEW fs
    PROVE  Delete(k, fs) = <<>> <=> DOMAIN k \subseteq fs
<1>. DEFINE n == Delete(k, fs)
            none == <<>>
<1>1. IsFun(n) /\ DOMAIN n = DOMAIN k \ fs
  BY DEF Delete, IsFun
<1>2. n = none <=> DOMAIN n = {}
  BY <1>1, Empty
<1>. HIDE DEF n, none
<1>3. n = none <=> DOMAIN k \subseteq fs
  BY <1>1, <1>2
<1>. QED
  BY <1>3 DEF n, none

LEMMA StripGoes ==
    ASSUME NEW x, NEW L, Mid(x, L), NEW e \in Elem, Get(x, e, "events") # None,
           NEW t \in DOMAIN Events(x, e), NEW fs
    PROVE  /\ Goes(x, Strip(x, e, t, fs), L, e, Stripped(Events(x, e), t, fs))
           /\ Table(Strip(x, e, t, fs), e, t) = Delete(TableIn(Events(x, e), t), fs)
           /\ Table(Strip(x, e, t, fs), e, t) = <<>> <=> Bound(Events(x, e), t) \subseteq fs
<1>. DEFINE m == Events(x, e)
            k == Delete(TableIn(m, t), fs)
            y == Strip(x, e, t, fs)
<1>0. Goes(x, x, L, e, m)
  BY GoesNowhere
<1>1. MapRight(e, m) /\ IsEventMap(m) /\ t \in Types
  BY <1>0, MapOfGoes
<1>2. y = SetTable(x, e, t, k)
  BY TableOf DEF Strip
<1>3. TableRight(e, t, TableIn(m, t))
  BY <1>1 DEF TableIn, MapRight
<1>4. TableRight(e, t, k)
  BY <1>3, TableRightDelete
<1>5. Goes(x, y, L, e, Stripped(m, t, fs))
  BY <1>1, <1>2, <1>4, SetTableGoes DEF Stripped
<1>6. Events(y, e) = Stripped(m, t, fs)
  BY <1>5 DEF Goes
<1>7. t \in DOMAIN Stripped(m, t, fs) /\ Stripped(m, t, fs)[t] = k
  BY DEF Stripped, Assign
<1>8. Table(y, e, t) = k
  BY <1>6, <1>7 DEF Table
<1>9. TableIn(m, t) \in Tables
  BY <1>3 DEF TableRight
<1>. QED
  BY <1>5, <1>8, <1>9, DeletedIsEmpty DEF Bound

LEMMA RemoveFromGoes ==
    ASSUME NEW x, NEW L, Mid(x, L), NEW e \in Elem, Get(x, e, "events") # None,
           NEW t, NEW fs, NEW stale
    PROVE  Goes(x, RemoveFrom(x, e, t, fs, stale), L, e, TakenFrom(Events(x, e), t, fs, stale))
<1>. DEFINE m == Events(x, e)
            y == Strip(x, e, t, fs)
            z == RemoveFrom(x, e, t, fs, stale)
            k == Delete(TableIn(m, t), fs)
<1>1. CASE t \notin DOMAIN m
  BY <1>1, GoesNowhere DEF RemoveFrom, TakenFrom
<1>2. CASE t \in DOMAIN m
  <2>1. Goes(x, y, L, e, Stripped(m, t, fs)) /\ Table(y, e, t) = k
    BY <1>2, StripGoes
  <2>2. CASE k = <<>> /\ ~stale
    <3>1. z = DropTable(y, e, t)
      BY <1>2, <2>1, <2>2 DEF RemoveFrom
    <3>2. Mid(y, L) /\ Get(y, e, "events") # None /\ Events(y, e) = Stripped(m, t, fs)
      BY <2>1, MapOfGoes
    <3>3. Goes(y, z, L, e, Delete(Stripped(m, t, fs), {t}))
      BY <3>1, <3>2, DropTableGoes
    <3>4. TakenFrom(m, t, fs, stale) = Delete(Stripped(m, t, fs), {t})
      BY <1>2, <2>2 DEF TakenFrom, Stripped
    <3>. QED
      BY <2>1, <3>3, <3>4, GoesTwice
  <2>3. CASE ~(k = <<>> /\ ~stale)
    <3>1. z = y
      BY <1>2, <2>1, <2>3 DEF RemoveFrom
    <3>2. TakenFrom(m, t, fs, stale) = Stripped(m, t, fs)
      BY <1>2, <2>3 DEF TakenFrom, Stripped
    <3>. QED
      BY <2>1, <3>1, <3>2
  <2>. QED
    BY <2>2, <2>3
<1>. QED
  BY <1>1, <1>2

LEMMA RemoveTypeGoes ==
    ASSUME NEW x, NEW L, Mid(x, L), NEW e \in Elem, Get(x, e, "events") # None,
           NEW t, NEW fs, NEW stale, NEW named
    PROVE  Goes(x, RemoveType(x, e, t, fs, stale, named), L, e, TypeTaken(Events(x, e), t, fs, stale, named))
<1>. DEFINE m == Events(x, e)
            y == Strip(x, e, t, fs)
            z == RemoveType(x, e, t, fs, stale, named)
            n == TypeTaken(m, t, fs, stale, named)
<1>1. CASE t \notin DOMAIN m
  BY <1>1, GoesNowhere DEF RemoveType, TypeTaken
<1>2. ASSUME t \in DOMAIN m, NEW u, NEW f,
             z = RemoveFrom(RemoveFrom(y, e, u, {f}, FALSE), e, t, fs, stale),
             n = TakenFrom(TakenFrom(Stripped(m, t, fs), u, {f}, FALSE), t, fs, stale)
      PROVE  Goes(x, z, L, e, n)
  <2>. DEFINE w == RemoveFrom(y, e, u, {f}, FALSE)
              o == TakenFrom(Stripped(m, t, fs), u, {f}, FALSE)
  <2>1. Goes(x, y, L, e, Stripped(m, t, fs))
    BY <1>2, StripGoes
  <2>2. Mid(y, L) /\ Get(y, e, "events") # None /\ Events(y, e) = Stripped(m, t, fs)
    BY <2>1, MapOfGoes
  <2>3. Goes(y, w, L, e, o)
    BY <2>2, RemoveFromGoes
  <2>4. Mid(w, L) /\ Get(w, e, "events") # None /\ Events(w, e) = o
    BY <2>3, MapOfGoes
  <2>5. Goes(w, RemoveFrom(w, e, t, fs, stale), L, e, TakenFrom(o, t, fs, stale))
    BY <2>4, RemoveFromGoes
  <2>. HIDE DEF w, o, y, m
  <2>6. Goes(x, RemoveFrom(w, e, t, fs, stale), L, e, TakenFrom(o, t, fs, stale))
    BY <2>1, <2>3, <2>5, GoesTwice
  <2>. QED
    BY <2>6, <1>2 DEF w, o
<1>3. CASE t \in DOMAIN m /\ LiveIsOver(m, t, fs, named)
  <2>0. Table(y, e, t) = <<>>
    BY <1>3, StripGoes DEF LiveIsOver
  <2>1. z = RemoveFrom(RemoveFrom(y, e, "click", {"live"}, FALSE), e, t, fs, stale)
    BY <1>3, <2>0 DEF RemoveType, LiveIsOver
  <2>2. n = TakenFrom(TakenFrom(Stripped(m, t, fs), "click", {"live"}, FALSE), t, fs, stale)
    BY <1>3 DEF TypeTaken
  <2>. QED
    BY <1>2, <1>3, <2>1, <2>2
<1>4. CASE t \in DOMAIN m /\ ~LiveIsOver(m, t, fs, named) /\ EnterIsOver(m, t, fs, stale)
  <2>0. Table(y, e, t) = <<>>
    BY <1>4, StripGoes DEF EnterIsOver
  <2>1. z = RemoveFrom(RemoveFrom(y, e, "over", {"within"}, FALSE), e, t, fs, stale)
    BY <1>4, <2>0 DEF RemoveType, LiveIsOver, EnterIsOver
  <2>2. n = TakenFrom(TakenFrom(Stripped(m, t, fs), "over", {"within"}, FALSE), t, fs, stale)
    BY <1>4 DEF TypeTaken
  <2>. QED
    BY <1>2, <1>4, <2>1, <2>2
<1>5. CASE t \in DOMAIN m /\ ~LiveIsOver(m, t, fs, named) /\ ~EnterIsOver(m, t, fs, stale)
  <2>1. z = RemoveFrom(x, e, t, fs, stale)
    BY <1>5, StripGoes DEF RemoveType, LiveIsOver, EnterIsOver
  <2>2. n = TakenFrom(m, t, fs, stale)
    BY <1>5 DEF TypeTaken
  <2>. QED
    BY <2>1, <2>2, RemoveFromGoes
<1>. QED
  BY <1>1, <1>3, <1>4, <1>5

\* What it does to the table of each type.
Takes(m, n, t, fs, stale) ==
    /\ IsEventMap(n)
    /\ \A u : u # t => (u \in DOMAIN n <=> u \in DOMAIN m) /\ Bound(n, u) = Bound(m, u)
    /\ Bound(n, t) = Bound(m, t) \ fs
    /\ t \in DOMAIN n <=> t \in DOMAIN m /\ (stale \/ ~(Bound(m, t) \subseteq fs))

LEMMA TakenFromIs ==
    ASSUME NEW m, IsEventMap(m), NEW t, NEW fs, NEW stale
    PROVE  Takes(m, TakenFrom(m, t, fs, stale), t, fs, stale)
<1>. DEFINE k == Delete(TableIn(m, t), fs)
            n == TakenFrom(m, t, fs, stale)
            none == <<>>
<1>1. TableIn(m, t) \in Tables
  BY TableInIs
<1>2. /\ k = none <=> Bound(m, t) \subseteq fs
      /\ k \in Tables
      /\ DOMAIN k = Bound(m, t) \ fs
  BY <1>1, DeletedIsEmpty, DeleteTable DEF Bound, Delete
<1>3. DOMAIN none = {}
  BY Empty
<1>4. \A o, u : Bound(o, u) = IF u \in DOMAIN o THEN DOMAIN o[u] ELSE {}
  <2>1. \A o, u : TableIn(o, u) = IF u \in DOMAIN o THEN o[u] ELSE none
    BY DEF TableIn
  <2>. HIDE DEF none
  <2>. QED
    BY <1>3, <2>1 DEF Bound
<1>5. n = IF t \notin DOMAIN m THEN m
          ELSE IF k = none /\ ~stale THEN Delete(Assign(m, t, k), {t})
          ELSE Assign(m, t, k)
  BY DEF TakenFrom
<1>. HIDE DEF k, n, none
<1>6. CASE t \notin DOMAIN m
  BY <1>4, <1>5, <1>6 DEF n, Takes
<1>7. CASE t \in DOMAIN m
  <2>. DEFINE o == Assign(m, t, k)
  <2>1. IsEventMap(o) /\ DOMAIN o = DOMAIN m /\ o[t] = k /\ \A u \in DOMAIN m : u # t => o[u] = m[u]
    <3>1. t \in Types
      BY <1>7, MapsAre
    <3>2. IsEventMap(o)
      BY <1>2, <3>1, AssignMap
    <3>. QED
      BY <1>7, <3>2 DEF Assign
  <2>. HIDE DEF o
  <2>2. CASE k = none /\ ~stale
    <3>1. n = Delete(o, {t})
      BY <1>5, <1>7, <2>2 DEF o
    <3>2. DOMAIN n = DOMAIN m \ {t} /\ \A u \in DOMAIN m : u # t => n[u] = m[u]
      BY <2>1, <3>1 DEF Delete
    <3>3. IsEventMap(n)
      BY <2>1, <3>1, DeleteMap
    <3>4. \A u : u # t => (u \in DOMAIN n <=> u \in DOMAIN m) /\ Bound(n, u) = Bound(m, u)
      BY <1>4, <3>2
    <3>5. Bound(n, t) = {}
      BY <1>4, <3>2
    <3>. QED
      BY <1>2, <1>7, <2>2, <3>2, <3>3, <3>4, <3>5 DEF n, Takes
  <2>3. CASE ~(k = none /\ ~stale)
    <3>1. n = o
      BY <1>5, <1>7, <2>3 DEF o
    <3>2. \A u : u # t => (u \in DOMAIN n <=> u \in DOMAIN m) /\ Bound(n, u) = Bound(m, u)
      BY <1>4, <2>1, <3>1
    <3>3. Bound(n, t) = Bound(m, t) \ fs
      BY <1>2, <1>4, <1>7, <2>1, <3>1
    <3>. QED
      BY <1>2, <1>7, <2>1, <2>3, <3>1, <3>2, <3>3 DEF n, Takes
  <2>. QED
    BY <2>2, <2>3
<1>. QED
  BY <1>6, <1>7

LEMMA StrippedIs ==
    ASSUME NEW m, IsEventMap(m), NEW t \in DOMAIN m, NEW fs
    PROVE  LET n == Stripped(m, t, fs)
           IN  /\ IsEventMap(n)
               /\ \A u : u # t => (u \in DOMAIN n <=> u \in DOMAIN m) /\ Bound(n, u) = Bound(m, u)
               /\ Bound(n, t) = Bound(m, t) \ fs
               /\ t \in DOMAIN n
<1>1. TakenFrom(m, t, fs, TRUE) = Stripped(m, t, fs)
  BY DEF TakenFrom, Stripped
<1>2. Takes(m, TakenFrom(m, t, fs, TRUE), t, fs, TRUE)
  BY TakenFromIs
<1>. QED
  BY <1>1, <1>2 DEF Takes

\* u is the type whose library handler f the teardown of t removes.
Teardown(m, t, fs, stale, named, u, f) ==
    /\ t \in DOMAIN m
    /\ \/ LiveIsOver(m, t, fs, named) /\ u = "click" /\ f = "live"
       \/ EnterIsOver(m, t, fs, stale) /\ u = "over" /\ f = "within"

TakesType(m, n, t, fs, stale, named) ==
    /\ IsEventMap(n)
    /\ Bound(n, t) = Bound(m, t) \ fs
    /\ t \in DOMAIN n <=> t \in DOMAIN m /\ (stale \/ ~(Bound(m, t) \subseteq fs))
    /\ \A u, f : Teardown(m, t, fs, stale, named, u, f) => Bound(n, u) = Bound(m, u) \ {f}
    /\ \A u : u # t /\ ~(\E f : Teardown(m, t, fs, stale, named, u, f)) =>
         (u \in DOMAIN n <=> u \in DOMAIN m) /\ Bound(n, u) = Bound(m, u)

LEMMA TypeTakenIs ==
    ASSUME NEW m, IsEventMap(m), NEW t, NEW fs, NEW stale, NEW named
    PROVE  TakesType(m, TypeTaken(m, t, fs, stale, named), t, fs, stale, named)
<1>. DEFINE n == TypeTaken(m, t, fs, stale, named)
            a == Stripped(m, t, fs)
<1>1. CASE t \notin DOMAIN m
  <2>1. n = m /\ Bound(m, t) = {} /\ \A u, f : ~Teardown(m, t, fs, stale, named, u, f)
    BY <1>1, Empty DEF TypeTaken, Bound, TableIn, Teardown
  <2>. QED
    BY <2>1, <1>1 DEF TakesType
<1>2. ASSUME t \in DOMAIN m, NEW v, NEW g, v # t, Bound(m, t) \subseteq fs,
             n = TakenFrom(TakenFrom(a, v, {g}, FALSE), t, fs, stale),
             \A u, f : Teardown(m, t, fs, stale, named, u, f) <=> u = v /\ f = g
      PROVE  TakesType(m, n, t, fs, stale, named)
  <2>. DEFINE b == TakenFrom(a, v, {g}, FALSE)
  <2>1. /\ IsEventMap(a)
        /\ \A u : u # t => (u \in DOMAIN a <=> u \in DOMAIN m) /\ Bound(a, u) = Bound(m, u)
        /\ Bound(a, t) = Bound(m, t) \ fs
        /\ t \in DOMAIN a
    BY <1>2, StrippedIs
  <2>. HIDE DEF a
  <2>2. Takes(a, b, v, {g}, FALSE)
    BY <2>1, TakenFromIs
  <2>. HIDE DEF b
  <2>3. Takes(b, n, t, fs, stale)
    <3>1. n = TakenFrom(b, t, fs, stale)
      BY <1>2 DEF b
    <3>2. IsEventMap(b)
      BY <2>2 DEF Takes
    <3>. QED
      BY <3>1, <3>2, TakenFromIs
  <2>. HIDE DEF n
  <2>4. Bound(b, t) = Bound(m, t) \ fs /\ t \in DOMAIN b
    BY <1>2, <2>1, <2>2 DEF Takes
  <2>5. Bound(n, t) = Bound(m, t) \ fs /\ (t \in DOMAIN n <=> t \in DOMAIN m /\ (stale \/ ~(Bound(m, t) \subseteq fs)))
    BY <1>2, <2>3, <2>4 DEF Takes
  <2>6. Bound(n, v) = Bound(m, v) \ {g}
    BY <1>2, <2>1, <2>2, <2>3 DEF Takes
  <2>7. ASSUME NEW u, u # t, u # v
        PROVE  (u \in DOMAIN n <=> u \in DOMAIN m) /\ Bound(n, u) = Bound(m, u)
    BY <2>7, <2>1, <2>2, <2>3 DEF Takes
  <2>8. IsEventMap(n)
    BY <2>3 DEF Takes
  <2>9. ASSUME NEW u, u # t, ~(\E f : Teardown(m, t, fs, stale, named, u, f))
        PROVE  (u \in DOMAIN n <=> u \in DOMAIN m) /\ Bound(n, u) = Bound(m, u)
    BY <1>2, <2>7, <2>9
  <2>10. ASSUME NEW u, NEW f, Teardown(m, t, fs, stale, named, u, f)
         PROVE  Bound(n, u) = Bound(m, u) \ {f}
    <3>1. u = v /\ f = g
      BY <1>2, <2>10
    <3>. QED
      BY <3>1, <2>6
  <2>. QED
    BY <1>2, <2>5, <2>8, <2>9, <2>10 DEF TakesType
<1>3. CASE t \in DOMAIN m /\ LiveIsOver(m, t, fs, named)
  <2>1. n = TakenFrom(TakenFrom(a, "click", {"live"}, FALSE), t, fs, stale)
    BY <1>3 DEF TypeTaken
  <2>2. \A u, f : Teardown(m, t, fs, stale, named, u, f) <=> u = "click" /\ f = "live"
    BY <1>3 DEF Teardown, LiveIsOver, EnterIsOver
  <2>3. "click" # t /\ Bound(m, t) \subseteq fs
    BY <1>3 DEF LiveIsOver
  <2>. HIDE DEF n, a
  <2>4. TakesType(m, n, t, fs, stale, named)
    BY <1>2, <1>3, <2>1, <2>2, <2>3
  <2>. QED
    BY <2>4 DEF n
<1>4. CASE t \in DOMAIN m /\ ~LiveIsOver(m, t, fs, named) /\ EnterIsOver(m, t, fs, stale)
  <2>1. n = TakenFrom(TakenFrom(a, "over", {"within"}, FALSE), t, fs, stale)
    BY <1>4 DEF TypeTaken
  <2>2. \A u, f : Teardown(m, t, fs, stale, named, u, f) <=> u = "over" /\ f = "within"
    BY <1>4 DEF Teardown
  <2>3. "over" # t /\ Bound(m, t) \subseteq fs
    BY <1>4 DEF EnterIsOver
  <2>. HIDE DEF n, a
  <2>4. TakesType(m, n, t, fs, stale, named)
    BY <1>2, <1>4, <2>1, <2>2, <2>3
  <2>. QED
    BY <2>4 DEF n
<1>5. CASE t \in DOMAIN m /\ ~LiveIsOver(m, t, fs, named) /\ ~EnterIsOver(m, t, fs, stale)
  <2>1. n = TakenFrom(m, t, fs, stale)
    BY <1>5 DEF TypeTaken
  <2>2. \A u, f : ~Teardown(m, t, fs, stale, named, u, f)
    BY <1>5 DEF Teardown
  <2>. HIDE DEF n
  <2>3. Takes(m, n, t, fs, stale)
    BY <2>1, TakenFromIs
  <2>. QED
    BY <2>2, <2>3 DEF n, Takes, TakesType
<1>. QED
  BY <1>1, <1>3, <1>4, <1>5

MayTake(t, fs, stale, named) == t = "liveclick" => ~stale /\ (named \/ fs = {})

LEMMA NoIdleTaken ==
    ASSUME NEW m, NoIdle(m), NEW n, NEW t, NEW fs, NEW stale, NEW named,
           TakesType(m, n, t, fs, stale, named), MayTake(t, fs, stale, named)
    PROVE  NoIdle(n)
<1>. DEFINE Tear(u, f) == Teardown(m, t, fs, stale, named, u, f)
<1>1. \A u : Bound(n, u) \subseteq Bound(m, u)
  BY DEF TakesType
<1>2. Bound(m, "liveclick") # {} => "liveclick" \in DOMAIN m
  BY Empty DEF Bound, TableIn
<1>3. CASE t = "liveclick"
  <2>1. CASE Bound(m, t) \subseteq fs
    <3>1. ~stale /\ t \notin DOMAIN n
      BY <1>3, <2>1 DEF TakesType, MayTake
    <3>2. "live" \notin Bound(n, "click")
      <4>1. CASE t \in DOMAIN m
        <5>1. named
          BY <1>3, <2>1, <4>1 DEF NoIdle, MayTake
        <5>2. Teardown(m, t, fs, stale, named, "click", "live")
          BY <1>3, <2>1, <4>1, <5>1 DEF Teardown, LiveIsOver
        <5>. QED
          BY <5>2 DEF TakesType
      <4>2. CASE t \notin DOMAIN m
        BY <1>1, <1>2, <1>3, <4>2 DEF NoIdle
      <4>. QED
        BY <4>1, <4>2
    <3>3. \A u : u # t /\ u # "click" =>
             (u \in DOMAIN n <=> u \in DOMAIN m) /\ Bound(n, u) = Bound(m, u)
      BY <1>3 DEF TakesType, Teardown, EnterIsOver
    <3>. QED
      BY <1>3, <3>1, <3>2, <3>3 DEF NoIdle
  <2>2. CASE ~(Bound(m, t) \subseteq fs)
    <3>1. Bound(n, t) # {}
      BY <2>2 DEF TakesType
    <3>2. \A u : u # t => (u \in DOMAIN n <=> u \in DOMAIN m) /\ Bound(n, u) = Bound(m, u)
      BY <1>3, <2>2 DEF TakesType, Teardown, EnterIsOver, LiveIsOver
    <3>. QED
      BY <1>3, <3>1, <3>2 DEF NoIdle
  <2>. QED
    BY <2>1, <2>2
<1>4. CASE t # "liveclick"
  <2>1. /\ "liveclick" \in DOMAIN n <=> "liveclick" \in DOMAIN m
        /\ Bound(n, "liveclick") = Bound(m, "liveclick")
    BY <1>4 DEF TakesType, Teardown
  <2>2. ASSUME "within" \in Bound(n, "over") PROVE "enter" \in DOMAIN n
    <3>1. "enter" \in DOMAIN m
      BY <1>1, <2>2 DEF NoIdle
    <3>2. CASE t # "enter"
      BY <3>1, <3>2 DEF TakesType, Teardown
    <3>3. CASE t = "enter" /\ ~stale /\ Bound(m, t) \subseteq fs
      <4>1. Teardown(m, t, fs, stale, named, "over", "within")
        BY <3>1, <3>3 DEF Teardown, EnterIsOver
      <4>. QED
        BY <2>2, <4>1 DEF TakesType
    <3>4. CASE t = "enter" /\ (stale \/ ~(Bound(m, t) \subseteq fs))
      BY <3>1, <3>4 DEF TakesType
    <3>. QED
      BY <3>2, <3>3, <3>4
  <2>. QED
    BY <1>1, <2>1, <2>2 DEF NoIdle
<1>. QED
  BY <1>3, <1>4

\* What the page still needs of the library stays.
SparesEnter(m, n) ==
    "enter" \in DOMAIN n =>
        "enter" \in DOMAIN m /\ ("within" \in Bound(m, "over") => "within" \in Bound(n, "over"))
SparesLive(m, n) ==
    Bound(n, "liveclick") # {} =>
        Bound(m, "liveclick") # {} /\ ("live" \in Bound(m, "click") => "live" \in Bound(n, "click"))

LEMMA NeedsTaken ==
    ASSUME NEW m, NEW n, NEW t, NEW fs, NEW stale, NEW named, TakesType(m, n, t, fs, stale, named)
    PROVE  /\ "enter" \in DOMAIN n => "enter" \in DOMAIN m
           /\ Bound(n, "liveclick") # {} => Bound(m, "liveclick") # {}
           /\ ~(t = "over" /\ "within" \in fs) => SparesEnter(m, n)
           /\ ~(t = "click" /\ "live" \in fs) => SparesLive(m, n)
<1>1. \A u : Bound(n, u) \subseteq Bound(m, u)
  BY DEF TakesType
<1>2. ASSUME "enter" \in DOMAIN n
      PROVE  /\ "enter" \in DOMAIN m
             /\ "within" \in Bound(m, "over") /\ ~(t = "over" /\ "within" \in fs) =>
                  "within" \in Bound(n, "over")
  <2>1. "enter" \in DOMAIN m
    BY <1>2 DEF TakesType, Teardown
  <2>2. ~\E f : Teardown(m, t, fs, stale, named, "over", f)
    BY <1>2 DEF TakesType, Teardown, EnterIsOver
  <2>3. CASE t = "over"
    BY <2>1, <2>3 DEF TakesType
  <2>4. CASE t # "over"
    BY <2>1, <2>2, <2>4 DEF TakesType
  <2>. QED
    BY <2>3, <2>4
<1>3. ASSUME Bound(n, "liveclick") # {}
      PROVE  "live" \in Bound(m, "click") /\ ~(t = "click" /\ "live" \in fs) => "live" \in Bound(n, "click")
  <2>1. ~\E f : Teardown(m, t, fs, stale, named, "click", f)
    BY <1>3 DEF TakesType, Teardown, LiveIsOver
  <2>2. CASE t = "click"
    BY <2>2 DEF TakesType
  <2>3. CASE t # "click"
    BY <2>1, <2>3 DEF TakesType
  <2>. QED
    BY <2>2, <2>3
<1>. QED
  BY <1>1, <1>2, <1>3 DEF SparesEnter, SparesLive

-----------------------------------------------------------------------------
(* The operations of the library on the record.                            *)

\* Only entries for other names, or empty ones, may differ.
LEMMA SameData ==
    ASSUME NEW x, NEW L, Mid(x, L), NEW y, Kept(y), Whole(y), y.own = x.own, y.lis = x.lis,
           \A q \in Elem : /\ Get(y, q, "events") = Get(x, q, "events")
                          /\ Get(y, q, "handle") = Get(x, q, "handle")
    PROVE  /\ Mid(y, L) /\ \A q \in Elem : Events(y, q) = Events(x, q)
           /\ Sound(x, L) => Sound(y, L)
<1>1. \A q \in Elem : Events(y, q) = Events(x, q)
  BY DEF Events
<1>3. \A q \in Elem : Right(y, L, q)
  <2>1. ASSUME NEW q \in Elem PROVE HandleRight(y, L, q)
    BY DEF Mid, Right, HandleRight
  <2>2. ASSUME NEW q \in Elem PROVE ListenersRight(y, L, q)
    BY <1>1 DEF Mid, Right, ListenersRight
  <2>3. ASSUME NEW q \in Elem PROVE EventsRight(y, q)
    BY DEF Mid, Right, EventsRight
  <2>. QED
    BY <2>1, <2>2, <2>3 DEF Right
<1>. QED
  BY <1>1, <1>3 DEF Mid, Sound

LEMMA CleanupKeeps ==
    ASSUME NEW x, NEW L, Mid(x, L), NEW e \in Elem
    PROVE  /\ Mid(Cleanup(x, e), L) /\ OnlyAt(x, Cleanup(x, e), e)
           /\ Cleanup(x, e).ns = x.ns
           /\ Events(Cleanup(x, e), e) = Events(x, e)
           /\ Get(Cleanup(x, e), e, "events") # None =>
                Get(x, e, "events") # None /\ Events(x, e) # <<>>
<1>. DEFINE y == Cleanup(x, e)
            h == Get(x, e, "handle")
            none == <<>>
<1>1. CASE Events(x, e) # none \/ Get(x, e, "events") = None
  <2>1. y = x
    BY <1>1 DEF Cleanup
  <2>2. OnlyAt(x, x, e)
    BY DEF OnlyAt
  <2>. QED
    BY <1>1, <2>1, <2>2
<1>2. CASE Events(x, e) = none /\ Get(x, e, "events") # None
  <2>. DEFINE w == [x EXCEPT !.own = Delete(x.own, {h})]
              v == DropName(w, e, "events")
  <2>1. h = Mine(L, e) /\ h # None /\ h \in Handles /\ h[1] = e
    BY <1>2, HandleIsMine DEF Mid, Right, HandleRight
  <2>2. y = DropName(v, e, "handle")
    BY <1>2, <2>1 DEF Cleanup
  <2>3. /\ w.id = x.id /\ w.cache = x.cache /\ w.lis = x.lis /\ w.ns = x.ns
        /\ w.own = Delete(x.own, {h})
        /\ Fields(w)
    BY DEF Mid, Kept, Fields
  <2>4. Kept(w) /\ \A q \in Elem : \A n : Get(w, q, n) = Get(x, q, n)
    BY <2>3, SameCacheKeeps DEF Mid
  <2>. HIDE DEF w
  <2>5. /\ Kept(v) /\ SameRest(w, v) /\ Get(v, e, "events") = None
        /\ \A q \in Elem : \A n : q # e => Get(v, q, n) = Get(x, q, n)
    BY <2>4, DropNameKeeps
  <2>. HIDE DEF v
  <2>6. /\ Kept(y) /\ SameRest(v, y) /\ Get(y, e, "events") = None /\ Get(y, e, "handle") = None
        /\ \A q \in Elem : \A n : q # e => Get(y, q, n) = Get(x, q, n)
    BY <2>2, <2>5, DropNameKeeps
  <2>. HIDE DEF y
  <2>7. y.lis = x.lis /\ y.ns = x.ns /\ y.own = Delete(x.own, {h})
    BY <2>3, <2>5, <2>6 DEF SameRest
  <2>8. /\ IsFun(y.own) /\ DOMAIN y.own = DOMAIN x.own \ {h}
        /\ \A g \in DOMAIN x.own : g # h => y.own[g] = x.own[g]
    BY <2>7 DEF Delete, IsFun
  <2>9. OnlyAt(x, y, e)
    BY <2>1, <2>6, <2>7, <2>8 DEF OnlyAt
  <2>10. Whole(y)
    BY <2>7, <2>8 DEF Mid, Whole
  <2>11. Events(y, e) = none
    BY <2>6, EventsIs
  <2>12. HandleRight(y, L, e)
    <3>1. Mine(L, e) # Left(e) <=> e \in L
      BY DEF Mine, Left
    <3>2. HandleRight(x, L, e)
      BY DEF Mid, Right
    <3>3. ASSUME NEW g \in Handles, g[1] = e
          PROVE  /\ (g \in DOMAIN y.own <=> (e \in L /\ g = Left(e)))
                 /\ g \in DOMAIN y.own => y.own[g] = e
      BY <2>1, <2>8, <3>1, <3>2, <3>3 DEF HandleRight
    <3>4. \A g \in Handles : g # None
      BY EventAssumption
    <3>. QED
      BY <2>6, <3>3, <3>4 DEF HandleRight
  <2>13. ListenersRight(y, L, e)
    BY <1>2, <2>7, <2>11 DEF Mid, Right, ListenersRight
  <2>14. EventsRight(y, e)
    BY <2>6 DEF EventsRight
  <2>15. Mid(y, L)
    BY <2>6, <2>9, <2>10, <2>12, <2>13, <2>14, MidAt DEF Right
  <2>. QED
    BY <1>2, <2>6, <2>7, <2>9, <2>11, <2>15 DEF y
<1>. QED
  BY <1>1, <1>2

LEMMA OnlyAtEvents ==
    ASSUME NEW x, NEW y, NEW e, OnlyAt(x, y, e), NEW q \in Elem, q # e
    PROVE  Events(y, q) = Events(x, q) /\ Get(y, q, "events") = Get(x, q, "events")
BY DEF OnlyAt, Events

LEMMA EmptyBounds ==
    /\ NoIdle(<<>>)
    /\ \A t : t \notin DOMAIN <<>> /\ Bound(<<>>, t) = {}
<1>. DEFINE none == <<>>
<1>1. DOMAIN none = {}
  BY Empty
<1>2. \A t : TableIn(none, t) = none
  BY <1>1 DEF TableIn
<1>. HIDE DEF none
<1>3. NoIdle(none) /\ \A t : t \notin DOMAIN none /\ Bound(none, t) = {}
  BY <1>1, <1>2 DEF NoIdle, Bound
<1>. QED
  BY <1>3 DEF none

\* A step of remove at e, and the whole of it.
Takes1(x, y, L, e, t, fs, stale, named) ==
    /\ Mid(y, L) /\ OnlyAt(x, y, e) /\ y.ns = x.ns
    /\ Get(x, e, "events") = None => Get(y, e, "events") = None
    /\ TakesType(Events(x, e), Events(y, e), t, fs, stale, named)

LEMMA TypeRemoved ==
    ASSUME NEW x, NEW L, Mid(x, L), NEW e \in Elem, NEW t, NEW fs, NEW stale, NEW named
    PROVE  Takes1(x, RemoveType(x, e, t, fs, stale, named), L, e, t, fs, stale, named)
<1>. DEFINE m == Events(x, e)
            y == RemoveType(x, e, t, fs, stale, named)
<1>1. IsEventMap(m)
  BY EventsRightIs DEF MapRight
<1>2. TakesType(m, TypeTaken(m, t, fs, stale, named), t, fs, stale, named)
  BY <1>1, TypeTakenIs
<1>3. CASE Get(x, e, "events") # None
  <2>1. Goes(x, y, L, e, TypeTaken(m, t, fs, stale, named))
    BY <1>3, RemoveTypeGoes
  <2>. QED
    BY <1>2, <1>3, <2>1 DEF Takes1, Goes
<1>4. CASE Get(x, e, "events") = None
  <2>1. t \notin DOMAIN m
    BY <1>4, EventsIs, EmptyBounds
  <2>2. y = x /\ TypeTaken(m, t, fs, stale, named) = m
    BY <2>1 DEF RemoveType, TypeTaken
  <2>3. OnlyAt(x, x, e)
    BY DEF OnlyAt
  <2>. QED
    BY <1>2, <1>4, <2>2, <2>3 DEF Takes1
<1>. QED
  BY <1>3, <1>4

\* What an operation at e does to a sound record, if it binds nothing.
Lessens(x, y, L, e) ==
    /\ Sound(y, L) /\ OnlyAt(x, y, e) /\ y.ns = x.ns
    /\ Get(x, e, "events") = None => Get(y, e, "events") = None
    /\ "enter" \in DOMAIN Events(y, e) => "enter" \in DOMAIN Events(x, e)

LEMMA LessensTwice ==
    ASSUME NEW x, NEW y, NEW z, NEW L, NEW e, Lessens(x, y, L, e), Lessens(y, z, L, e)
    PROVE  Lessens(x, z, L, e)
BY OnlyAtTwice DEF Lessens

LEMMA CleanupLessens ==
    ASSUME NEW x, NEW L, Sound(x, L), NEW e \in Elem, NEW y, Mid(y, L), OnlyAt(x, y, e), y.ns = x.ns,
           Get(x, e, "events") = None => Get(y, e, "events") = None, NoIdle(Events(y, e)),
           "enter" \in DOMAIN Events(y, e) => "enter" \in DOMAIN Events(x, e)
    PROVE  Lessens(x, Cleanup(y, e), L, e) /\ Events(Cleanup(y, e), e) = Events(y, e)
<1>. DEFINE z == Cleanup(y, e)
<1>1. /\ Mid(z, L) /\ OnlyAt(y, z, e) /\ z.ns = y.ns /\ Events(z, e) = Events(y, e)
      /\ Get(z, e, "events") # None => Get(y, e, "events") # None /\ Events(y, e) # <<>>
  BY CleanupKeeps
<1>. HIDE DEF z
<1>2. OnlyAt(x, z, e)
  BY <1>1, OnlyAtTwice
<1>3. \A q \in Elem : q # e => Events(z, q) = Events(x, q) /\ Get(z, q, "events") = Get(x, q, "events")
  BY <1>2, OnlyAtEvents
<1>4. Sound(z, L)
  BY <1>1, <1>3 DEF Sound
<1>. QED
  BY <1>1, <1>2, <1>4 DEF Lessens, z

LEMMA WithEntrySame ==
    ASSUME NEW x, NEW L, Mid(x, L), NEW e \in Elem
    PROVE  LET w == WithEntry(x, e)
           IN  /\ Mid(w, L) /\ (Sound(x, L) => Sound(w, L)) /\ OnlyAt(x, w, e) /\ SameRest(x, w)
               /\ \A q \in Elem : Events(w, q) = Events(x, q) /\ \A n : Get(w, q, n) = Get(x, q, n)
<1>. DEFINE w == WithEntry(x, e)
<1>1. Kept(w) /\ SameRest(x, w) /\ \A q \in Elem : \A n : Get(w, q, n) = Get(x, q, n)
  BY WithEntryKeeps DEF Mid
<1>. HIDE DEF w
<1>2. /\ Mid(w, L) /\ (Sound(x, L) => Sound(w, L))
      /\ \A q \in Elem : Events(w, q) = Events(x, q)
  <2>1. Whole(w)
    BY <1>1 DEF Mid, Whole, SameRest
  <2>. QED
    BY <1>1, <2>1, SameData DEF SameRest
<1>3. OnlyAt(x, w, e)
  BY <1>1 DEF OnlyAt, SameRest
<1>. QED
  BY <1>1, <1>2, <1>3 DEF w

LEMMA RemoveLessens ==
    ASSUME NEW x, NEW L, Sound(x, L), NEW e \in Elem, NEW t, NEW fs, NEW named,
           MayTake(t, fs, FALSE, named)
    PROVE  /\ Lessens(x, remove(x, e, t, fs, named), L, e)
           /\ TakesType(Events(x, e), Events(remove(x, e, t, fs, named), e), t, fs, FALSE, named)
<1>. DEFINE w == WithEntry(x, e)
            y == RemoveType(w, e, t, fs, FALSE, named)
<1>1. Mid(w, L) /\ OnlyAt(x, w, e) /\ w.ns = x.ns /\ Events(w, e) = Events(x, e)
      /\ Get(w, e, "events") = Get(x, e, "events")
  BY WithEntrySame DEF Sound, SameRest
<1>. HIDE DEF w
<1>2. Takes1(w, y, L, e, t, fs, FALSE, named)
  BY <1>1, TypeRemoved
<1>3. remove(x, e, t, fs, named) = Cleanup(y, e)
  BY DEF remove, w
<1>. HIDE DEF y
<1>4. /\ Mid(y, L) /\ OnlyAt(x, y, e) /\ y.ns = x.ns
      /\ Get(x, e, "events") = None => Get(y, e, "events") = None
      /\ TakesType(Events(x, e), Events(y, e), t, fs, FALSE, named)
  BY <1>1, <1>2, OnlyAtTwice DEF Takes1
<1>5. NoIdle(Events(y, e))
  BY <1>4, NoIdleTaken DEF Sound
<1>6. "enter" \in DOMAIN Events(y, e) => "enter" \in DOMAIN Events(x, e)
  BY <1>4, NeedsTaken
<1>. QED
  BY <1>3, <1>4, <1>5, <1>6, CleanupLessens

LEMMA RemoveBothLessens ==
    ASSUME NEW x, NEW L, Sound(x, L), NEW e \in Elem, NEW t1, NEW t2, NEW f \in Fn,
           "liveclick" \notin {t1, t2}
    PROVE  LET z == RemoveBoth(x, e, t1, t2, f)
           IN  /\ Lessens(x, z, L, e)
               /\ SparesEnter(Events(x, e), Events(z, e)) /\ SparesLive(Events(x, e), Events(z, e))
<1>. DEFINE w == WithEntry(x, e)
            y == RemoveType(w, e, t1, {f}, FALSE, FALSE)
            stale == Table(y, e, t1) # <<>>
            v == RemoveType(y, e, t2, {f}, stale, FALSE)
            z == RemoveBoth(x, e, t1, t2, f)
<1>1. Mid(w, L) /\ OnlyAt(x, w, e) /\ w.ns = x.ns /\ Events(w, e) = Events(x, e)
      /\ Get(w, e, "events") = Get(x, e, "events")
  BY WithEntrySame DEF Sound, SameRest
<1>2. z = Cleanup(v, e)
  BY DEF RemoveBoth
<1>. HIDE DEF w, stale, z
<1>3. Takes1(w, y, L, e, t1, {f}, FALSE, FALSE)
  BY <1>1, TypeRemoved
<1>. HIDE DEF y
<1>4. Mid(y, L)
  BY <1>3 DEF Takes1
<1>5. Takes1(y, v, L, e, t2, {f}, stale, FALSE)
  BY <1>4, TypeRemoved
<1>. HIDE DEF v
<1>6. NoIdle(Events(y, e))
  <2>1. MayTake(t1, {f}, FALSE, FALSE)
    BY DEF MayTake
  <2>2. NoIdle(Events(w, e)) /\ TakesType(Events(w, e), Events(y, e), t1, {f}, FALSE, FALSE)
    BY <1>1, <1>3 DEF Sound, Takes1
  <2>. QED
    BY <2>1, <2>2, NoIdleTaken
<1>7. NoIdle(Events(v, e))
  <2>1. MayTake(t2, {f}, stale, FALSE)
    BY DEF MayTake
  <2>2. TakesType(Events(y, e), Events(v, e), t2, {f}, stale, FALSE)
    BY <1>5 DEF Takes1
  <2>. QED
    BY <1>6, <2>1, <2>2, NoIdleTaken
<1>8. /\ Mid(v, L) /\ OnlyAt(x, v, e) /\ v.ns = x.ns
      /\ Get(x, e, "events") = None => Get(v, e, "events") = None
  <2>1. OnlyAt(x, y, e)
    BY <1>1, <1>3, OnlyAtTwice DEF Takes1
  <2>. QED
    BY <1>1, <1>3, <1>5, <2>1, OnlyAtTwice DEF Takes1
<1>10. "within" \notin {f} /\ "live" \notin {f}
  BY EventAssumption
<1>11. SparesEnter(Events(w, e), Events(y, e)) /\ SparesLive(Events(w, e), Events(y, e))
  BY <1>3, <1>10, NeedsTaken DEF Takes1
<1>12. SparesEnter(Events(y, e), Events(v, e)) /\ SparesLive(Events(y, e), Events(v, e))
  BY <1>5, <1>10, NeedsTaken DEF Takes1
<1>13. SparesEnter(Events(x, e), Events(v, e)) /\ SparesLive(Events(x, e), Events(v, e))
  BY <1>1, <1>11, <1>12 DEF SparesEnter, SparesLive
<1>14. Lessens(x, z, L, e) /\ Events(z, e) = Events(v, e)
  BY <1>2, <1>7, <1>8, <1>13, CleanupLessens DEF SparesEnter
<1>. QED
  BY <1>13, <1>14 DEF z

LEMMA RemoveIfLessens ==
    ASSUME NEW x, NEW L, Sound(x, L), NEW e \in Elem, NEW t
    PROVE  Lessens(x, RemoveIf(x, e, t), L, e)
<1>1. CASE t \in DOMAIN Events(x, e)
  <2>1. t = "liveclick" => Matching(x, e, t, FALSE) = {}
    BY DEF Matching, Named
  <2>2. MayTake(t, Matching(x, e, t, FALSE), FALSE, FALSE)
    BY <2>1 DEF MayTake
  <2>. QED
    BY <1>1, <2>2, RemoveLessens DEF RemoveIf
<1>2. CASE t \notin DOMAIN Events(x, e)
  BY <1>2 DEF RemoveIf, Lessens, OnlyAt
<1>. QED
  BY <1>1, <1>2

LEMMA RemoveAllLessens ==
    ASSUME NEW x, NEW L, Sound(x, L), NEW e \in Elem
    PROVE  Lessens(x, RemoveAll(x, e), L, e)
<1>. DEFINE w == WithEntry(x, e)
            a == RemoveIf(w, e, "ready")
            b == RemoveIf(a, e, "enter")
            c == RemoveIf(b, e, "over")
            f == RemoveIf(c, e, "liveclick")
            g == RemoveIf(f, e, "click")
<1>1. Lessens(x, w, L, e)
  BY WithEntrySame DEF Sound, Lessens, SameRest
<1>2. RemoveAll(x, e) = g
  BY DEF RemoveAll
<1>. HIDE DEF w
<1>3. Lessens(w, a, L, e)
  BY <1>1, RemoveIfLessens DEF Lessens
<1>. HIDE DEF a
<1>4. Lessens(a, b, L, e)
  BY <1>3, RemoveIfLessens DEF Lessens
<1>. HIDE DEF b
<1>5. Lessens(b, c, L, e)
  BY <1>4, RemoveIfLessens DEF Lessens
<1>. HIDE DEF c
<1>6. Lessens(c, f, L, e)
  BY <1>5, RemoveIfLessens DEF Lessens
<1>. HIDE DEF f
<1>7. Lessens(f, g, L, e)
  BY <1>6, RemoveIfLessens DEF Lessens
<1>. HIDE DEF g
<1>. QED
  BY <1>1, <1>2, <1>3, <1>4, <1>5, <1>6, <1>7, LessensTwice

LEMMA PrepareKeeps ==
    ASSUME NEW x, NEW L, Mid(x, L), NEW e \in Elem
    PROVE  /\ Mid(Prepare(x, e), L) /\ OnlyAt(x, Prepare(x, e), e)
           /\ Get(Prepare(x, e), e, "events") # None
           /\ Events(Prepare(x, e), e) = Events(x, e)
<1>. DEFINE none == <<>>
            y == IF Get(x, e, "events") = None THEN Put(x, e, "events", none) ELSE x
            h == IF Get(y, e, "handle") = None THEN FreshHandle(y, e) ELSE Get(y, e, "handle")
            w == Put(y, e, "handle", h)
            z == Prepare(x, e)
<1>1. /\ Kept(y) /\ SameRest(x, y)
      /\ Get(y, e, "events") = (IF Get(x, e, "events") = None THEN none ELSE Get(x, e, "events"))
      /\ Get(y, e, "handle") = Get(x, e, "handle")
      /\ \A q \in Elem : \A n : q # e => Get(y, q, n) = Get(x, q, n)
  BY PutKeeps DEF Mid, SameRest
<1>. HIDE DEF y
<1>2. HandleRight(x, L, e) /\ Mine(L, e) \in Handles /\ Mine(L, e)[1] = e /\ Mine(L, e) # None
  <2>1. HandleRight(x, L, e)
    BY DEF Mid, Right
  <2>2. Mine(L, e) \in Handles /\ Mine(L, e)[1] = e
    BY DEF Mine, Handles
  <2>. QED
    BY <2>1, <2>2, EventAssumption
<1>3. h = Mine(L, e)
  <2>1. CASE Get(x, e, "handle") # None
    BY <1>1, <1>2, <2>1 DEF HandleRight
  <2>2. CASE Get(x, e, "handle") = None
    <3>1. Left(e) \in Handles /\ Left(e)[1] = e /\ Left(e) # None
      <4>1. Left(e) \in Handles /\ Left(e)[1] = e
        BY DEF Left, Handles
      <4>. QED
        BY <4>1, EventAssumption
    <3>2. Left(e) \in DOMAIN x.own <=> e \in L
      BY <1>2, <2>2, <3>1 DEF HandleRight
    <3>3. h = FreshHandle(y, e)
      BY <1>1, <2>2
    <3>4. FreshHandle(y, e) = IF Left(e) \in DOMAIN x.own THEN <<e, 2>> ELSE <<e, 1>>
      BY <1>1 DEF FreshHandle, Left, SameRest
    <3>. QED
      BY <3>2, <3>3, <3>4 DEF Mine
  <2>. QED
    BY <2>1, <2>2
<1>. HIDE DEF h
<1>4. /\ Kept(w) /\ SameRest(x, w)
      /\ Get(w, e, "events") = Get(y, e, "events")
      /\ Get(w, e, "handle") = h
      /\ \A q \in Elem : \A n : q # e => Get(w, q, n) = Get(x, q, n)
  BY <1>1, PutKeeps DEF SameRest
<1>5. z = [w EXCEPT !.own = Assign(w.own, h, e)]
  BY DEF Prepare, y, h, w
<1>. HIDE DEF w, z
<1>6. /\ z.id = w.id /\ z.cache = w.cache /\ z.lis = x.lis /\ z.ns = x.ns
      /\ z.own = Assign(x.own, h, e)
      /\ Fields(z)
  BY <1>4, <1>5 DEF Kept, Fields, SameRest
<1>7. Kept(z) /\ \A q \in Elem : \A n : Get(z, q, n) = Get(w, q, n)
  BY <1>4, <1>6, SameCacheKeeps
<1>8. /\ IsFun(z.own) /\ DOMAIN z.own = DOMAIN x.own \cup {h} /\ z.own[h] = e
      /\ \A g \in DOMAIN x.own : g # h => z.own[g] = x.own[g]
  BY <1>6 DEF Assign, IsFun
<1>9. Whole(z)
  BY <1>2, <1>3, <1>6, <1>8 DEF Mid, Whole
<1>10. OnlyAt(x, z, e)
  BY <1>2, <1>3, <1>4, <1>6, <1>7, <1>8 DEF OnlyAt
<1>11. Get(z, e, "events") = (IF Get(x, e, "events") = None THEN none ELSE Get(x, e, "events"))
       /\ Get(z, e, "handle") = Mine(L, e)
  BY <1>1, <1>3, <1>4, <1>7
<1>12. none # None /\ MapRight(e, none)
  <2>1. IsEventMap(none) /\ DOMAIN none = {}
    BY Empty
  <2>. HIDE DEF none
  <2>. QED
    BY <2>1, NoneIsNoMap DEF MapRight
<1>13. Events(z, e) = Events(x, e) /\ Get(z, e, "events") # None
  BY <1>11, <1>12, EventsIs
<1>14. HandleRight(z, L, e)
  <2>1. ASSUME NEW g \in Handles, g[1] = e
        PROVE  /\ (g \in DOMAIN z.own <=> (Mine(L, e) = g \/ (e \in L /\ g = Left(e))))
               /\ g \in DOMAIN z.own => z.own[g] = e
    <3>1. g = h => g \in DOMAIN z.own /\ z.own[g] = e
      BY <1>8
    <3>2. g # h => (g \in DOMAIN z.own <=> g \in DOMAIN x.own) /\ (g \in DOMAIN x.own => z.own[g] = x.own[g])
      BY <1>8
    <3>3. Get(x, e, "handle") = g => g = h
      BY <1>2, <1>3, <2>1, EventAssumption DEF HandleRight
    <3>. QED
      BY <1>2, <1>3, <2>1, <3>1, <3>2, <3>3 DEF HandleRight
  <2>. QED
    BY <1>2, <1>11, <1>13, <2>1 DEF HandleRight
<1>15. ListenersRight(z, L, e)
  BY <1>6, <1>13 DEF Mid, Right, ListenersRight
<1>16. EventsRight(z, e)
  BY <1>11, <1>12 DEF Mid, Right, EventsRight
<1>17. Mid(z, L)
  BY <1>7, <1>9, <1>10, <1>14, <1>15, <1>16, MidAt DEF Right
<1>. QED
  BY <1>10, <1>13, <1>17 DEF z

LEMMA MarkKeeps ==
    ASSUME NEW x, NEW L, Mid(x, L), NEW f, NEW kind, NEW ns \in BOOLEAN
    PROVE  LET y == Mark(x, f, kind, ns)
           IN  /\ Mid(y, L) /\ \A e : OnlyAt(x, y, e)
               /\ \A q \in Elem : Events(y, q) = Events(x, q) /\ \A n : Get(y, q, n) = Get(x, q, n)
<1>. DEFINE y == Mark(x, f, kind, ns)
<1>1. CASE kind = "plain" /\ f \in Fn
  <2>1. y = [x EXCEPT !.ns = [x.ns EXCEPT ![f] = ns]]
    BY <1>1 DEF Mark
  <2>2. /\ y.id = x.id /\ y.cache = x.cache /\ y.lis = x.lis /\ y.own = x.own
        /\ y.ns = [x.ns EXCEPT ![f] = ns]
        /\ Fields(y)
    BY <2>1 DEF Mid, Kept, Fields
  <2>. HIDE DEF y
  <2>3. Kept(y) /\ \A q \in Elem : \A n : Get(y, q, n) = Get(x, q, n)
    BY <2>2, SameCacheKeeps DEF Mid
  <2>4. Whole(y)
    BY <2>2 DEF Mid, Whole
  <2>5. Mid(y, L) /\ \A q \in Elem : Events(y, q) = Events(x, q)
    BY <2>2, <2>3, <2>4, SameData
  <2>6. \A e : OnlyAt(x, y, e)
    BY <2>2, <2>3 DEF OnlyAt
  <2>. QED
    BY <2>3, <2>5, <2>6 DEF y
<1>2. CASE ~(kind = "plain" /\ f \in Fn)
  <2>1. y = x
    BY <1>2 DEF Mark
  <2>. QED
    BY <2>1 DEF OnlyAt
<1>. QED
  BY <1>1, <1>2

\* The map n has what m has, and the handler f in the table of t.
AddsTo(m, n, t, f) ==
    /\ IsEventMap(n) /\ DOMAIN n = DOMAIN m \cup {t}
    /\ \A u : u # t => Bound(n, u) = Bound(m, u)
    /\ Bound(n, t) = Bound(m, t) \cup {f}

LEMMA AddedToIs ==
    ASSUME NEW m, IsEventMap(m), NEW t \in Types, NEW f \in Handlers, NEW kind \in Kinds
    PROVE  AddsTo(m, AddedTo(m, t, f, kind), t, f)
<1>. DEFINE k == Assign(TableIn(m, t), f, kind)
            n == AddedTo(m, t, f, kind)
            none == <<>>
<1>1. k \in Tables /\ DOMAIN k = Bound(m, t) \cup {f}
  BY TableInIs, AssignTable DEF Assign, Bound
<1>2. n = Assign(m, t, k)
  BY DEF AddedTo
<1>. HIDE DEF k
<1>3. IsEventMap(n) /\ DOMAIN n = DOMAIN m \cup {t} /\ n[t] = k /\ \A u \in DOMAIN m : u # t => n[u] = m[u]
  BY <1>1, <1>2, AssignMap DEF Assign
<1>4. \A o, u : Bound(o, u) = DOMAIN (IF u \in DOMAIN o THEN o[u] ELSE none)
  BY DEF Bound, TableIn
<1>. HIDE DEF n, none
<1>5. \A u : u # t => Bound(n, u) = Bound(m, u)
  BY <1>3, <1>4
<1>6. Bound(n, t) = DOMAIN k
  BY <1>3, <1>4
<1>. QED
  BY <1>1, <1>3, <1>5, <1>6 DEF n, AddsTo

\* What a binding needs of the library is there, or was missing already.
HasEnter(m, n) ==
    "enter" \in DOMAIN n =>
        "within" \in Bound(n, "over") \/ ("enter" \in DOMAIN m /\ "within" \notin Bound(m, "over"))
HasLive(m, n) ==
    Bound(n, "liveclick") # {} =>
        "live" \in Bound(n, "click") \/ (Bound(m, "liveclick") # {} /\ "live" \notin Bound(m, "click"))

\* The map n after a binding.
Binds(m, n, t) ==
    /\ NoIdle(n) /\ DOMAIN n # {}
    /\ HasEnter(m, n) /\ HasLive(m, n)
    /\ t = "liveclick" => "live" \in Bound(n, "click")

LEMMA BoundEmpty ==
    ASSUME NEW m, NEW t, t \notin DOMAIN m
    PROVE  Bound(m, t) = {}
BY Empty DEF Bound, TableIn

LEMMA BindsOther ==
    ASSUME NEW m, IsEventMap(m), NoIdle(m), NEW t \in Types, t # "liveclick", t # "enter" \/ t \in DOMAIN m,
           NEW f \in Fn, NEW kind \in Kinds
    PROVE  Binds(m, AddedTo(m, t, f, kind), t)
<1>. DEFINE n == AddedTo(m, t, f, kind)
<1>1. f \in Handlers /\ f # "live" /\ f # "within"
  BY EventAssumption DEF Handlers
<1>2. AddsTo(m, n, t, f)
  BY <1>1, AddedToIs
<1>. HIDE DEF n
<1>3. Binds(m, n, t)
  BY <1>1, <1>2 DEF AddsTo, Binds, NoIdle, HasEnter, HasLive
<1>. QED
  BY <1>3 DEF n

LEMMA BindsLive ==
    ASSUME NEW m, IsEventMap(m), NoIdle(m), NEW f \in Fn, NEW kind \in Kinds
    PROVE  Binds(m, AddedTo(AddedTo(m, "click", "live", "plain"), "liveclick", f, kind), "liveclick")
<1>. DEFINE c == "click"
            l == "live"
            p == "plain"
            t == "liveclick"
            o == AddedTo(m, c, l, p)
            n == AddedTo(o, t, f, kind)
<1>1. f \in Handlers /\ l \in Handlers /\ f # "live" /\ f # "within"
  BY EventAssumption DEF Handlers
<1>2. c \in Types /\ p \in Kinds /\ t \in Types
  BY DEF Types, Kinds
<1>3. c = "click" /\ l = "live" /\ t = "liveclick"
  OBVIOUS
<1>. HIDE DEF c, l, p, t
<1>4. AddsTo(m, o, c, l)
  BY <1>1, <1>2, AddedToIs
<1>5. IsEventMap(o)
  BY <1>4 DEF AddsTo
<1>. HIDE DEF o
<1>6. AddsTo(o, n, t, f)
  BY <1>1, <1>2, <1>5, AddedToIs
<1>. HIDE DEF n
<1>7. Binds(m, n, t)
  BY <1>1, <1>3, <1>4, <1>6 DEF AddsTo, Binds, NoIdle, HasEnter, HasLive
<1>. QED
  BY <1>7 DEF n, o, c, l, p, t

LEMMA BindsEnter ==
    ASSUME NEW m, IsEventMap(m), NoIdle(m), "enter" \notin DOMAIN m, NEW f \in Fn, NEW kind \in Kinds
    PROVE  Binds(m, AddedTo(AddedTo(Assign(m, "enter", <<>>), "over", "within", "plain"), "enter", f, kind), "enter")
<1>. DEFINE none == <<>>
            c == "over"
            l == "within"
            p == "plain"
            t == "enter"
            a == Assign(m, t, none)
            o == AddedTo(a, c, l, p)
            n == AddedTo(o, t, f, kind)
<1>1. f \in Handlers /\ l \in Handlers /\ f # "live" /\ f # "within"
  BY EventAssumption DEF Handlers
<1>2. c \in Types /\ p \in Kinds /\ t \in Types
  BY DEF Types, Kinds
<1>3. c = "over" /\ l = "within" /\ t = "enter"
  OBVIOUS
<1>4. none \in Tables
  BY Empty
<1>. HIDE DEF none, c, l, p, t
<1>5. IsEventMap(a)
  BY <1>2, <1>4, AssignMap
<1>6. /\ DOMAIN a = DOMAIN m \cup {t}
      /\ \A u : u # t => Bound(a, u) = Bound(m, u)
  BY DEF Assign, Bound, TableIn
<1>. HIDE DEF a
<1>7. AddsTo(a, o, c, l)
  BY <1>1, <1>2, <1>5, AddedToIs
<1>8. IsEventMap(o)
  BY <1>7 DEF AddsTo
<1>. HIDE DEF o
<1>9. AddsTo(o, n, t, f)
  BY <1>1, <1>2, <1>8, AddedToIs
<1>. HIDE DEF n
<1>10. Binds(m, n, t)
  BY <1>1, <1>3, <1>6, <1>7, <1>9 DEF AddsTo, Binds, NoIdle, HasEnter, HasLive
<1>. QED
  BY <1>10 DEF n, o, a, c, l, p, t, none

\* What a binding at e does to the record.
Adds(x, z, L, e, t) == Sound(z, L) /\ OnlyAt(x, z, e) /\ Binds(Events(x, e), Events(z, e), t)

LEMMA AddBinds ==
    ASSUME NEW x, NEW L, Sound(x, L), NEW e \in Elem, NEW t \in Types, NEW f \in Fn,
           NEW kind \in {"plain", "one"}, NEW ns \in BOOLEAN,
           t = "liveclick" => e = doc /\ kind = "plain"
    PROVE  Adds(x, add(x, e, t, f, kind, ns), L, e, t)
<1>. DEFINE m == Events(x, e)
            k == IF t = "liveclick" THEN "live" ELSE kind
            w == Prepare(x, e)
            y == Mark(w, f, k, ns)
            z == add(x, e, t, f, kind, ns)
<1>1. Mid(w, L) /\ OnlyAt(x, w, e) /\ Get(w, e, "events") # None /\ Events(w, e) = m
  BY PrepareKeeps DEF Sound
<1>. HIDE DEF w
<1>2. Mid(y, L) /\ OnlyAt(w, y, e) /\ Get(y, e, "events") # None /\ Events(y, e) = m
  BY <1>1, MarkKeeps
<1>3. z = CASE t = "liveclick" -> AddTo(AddTo(y, e, "click", "live", "plain"), e, t, f, kind)
            [] t = "enter" ->
                 LET v == IF t \in DOMAIN Events(y, e) THEN y
                          ELSE AddTo(SetTable(y, e, t, <<>>), e, "over", "within", "plain")
                 IN  SetTable(v, e, t, Assign(Table(v, e, t), f, kind))
            [] OTHER -> AddTo(y, e, t, f, kind)
  BY DEF add, w
<1>. HIDE DEF y, z, k
<1>4. IsEventMap(m) /\ NoIdle(m) /\ MapRight(e, m)
  BY EventsRightIs DEF Sound, MapRight
<1>. HIDE DEF m
<1>5. kind \in Kinds /\ f \in Handlers /\ f # "live" /\ f # "within" /\ "live" \in Handlers /\ "within" \in Handlers
  BY EventAssumption DEF Kinds, Handlers
<1>6. MayAdd(e, t, f, kind)
  BY <1>5 DEF MayAdd
<1>7. ASSUME NEW n, Goes(y, z, L, e, n), Binds(m, n, t)
      PROVE  Adds(x, z, L, e, t)
  <2>1. OnlyAt(x, z, e) /\ Mid(z, L) /\ Events(z, e) = n
    <3>1. OnlyAt(x, y, e)
      BY <1>1, <1>2, OnlyAtTwice
    <3>. QED
      BY <1>7, <3>1, OnlyAtTwice DEF Goes
  <2>2. \A q \in Elem : q # e => Events(z, q) = Events(x, q) /\ Get(z, q, "events") = Get(x, q, "events")
    BY <2>1, OnlyAtEvents
  <2>3. n # <<>>
    BY <1>7, Empty DEF Binds
  <2>4. Sound(z, L)
    BY <1>7, <2>1, <2>2, <2>3 DEF Sound, Binds
  <2>. QED
    BY <1>7, <2>1, <2>4 DEF Adds, m
<1>8. CASE t = "liveclick"
  <2>. DEFINE v == AddTo(y, e, "click", "live", "plain")
              o == AddedTo(m, "click", "live", "plain")
  <2>1. MayAdd(e, "click", "live", "plain")
    BY <1>5, <1>8 DEF MayAdd, Kinds
  <2>2. Goes(y, v, L, e, o)
    BY <1>2, <2>1, AddToGoes DEF Types
  <2>3. z = AddTo(v, e, t, f, kind)
    BY <1>3, <1>8
  <2>4. Mid(v, L) /\ Get(v, e, "events") # None /\ Events(v, e) = o
    BY <2>2, MapOfGoes
  <2>. HIDE DEF v
  <2>5. Goes(v, z, L, e, AddedTo(o, t, f, kind))
    BY <1>6, <1>8, <2>3, <2>4, AddToGoes
  <2>6. Goes(y, z, L, e, AddedTo(o, t, f, kind))
    BY <2>2, <2>5, GoesTwice
  <2>7. Binds(m, AddedTo(o, t, f, kind), t)
    BY <1>4, <1>5, <1>8, BindsLive
  <2>. QED
    BY <1>7, <2>6, <2>7 DEF z
<1>9. CASE t = "enter" /\ t \in DOMAIN m
  <2>1. z = SetTable(y, e, t, Assign(TableIn(m, t), f, kind))
    BY <1>2, <1>3, <1>9, TableOf
  <2>2. TableRight(e, t, Assign(TableIn(m, t), f, kind))
    BY <1>4, <1>6, <1>9, TableInRight, TableRightAssign
  <2>3. Goes(y, z, L, e, AddedTo(m, t, f, kind))
    BY <1>2, <1>9, <2>1, <2>2, SetTableGoes DEF AddedTo
  <2>4. Binds(m, AddedTo(m, t, f, kind), t)
    BY <1>4, <1>5, <1>9, BindsOther
  <2>. QED
    BY <1>7, <2>3, <2>4 DEF z
<1>10. CASE t = "enter" /\ t \notin DOMAIN m
  <2>. DEFINE none == <<>>
              u == SetTable(y, e, t, none)
              v == AddTo(u, e, "over", "within", "plain")
              a == Assign(m, t, none)
              o == AddedTo(a, "over", "within", "plain")
  <2>1. z = SetTable(v, e, t, Assign(TableIn(Events(v, e), t), f, kind))
    BY <1>2, <1>3, <1>10, TableOf
  <2>2. TableRight(e, t, none)
    <3>1. none \in Tables /\ DOMAIN none = {}
      BY Empty
    <3>. HIDE DEF none
    <3>. QED
      BY <1>10, <3>1 DEF TableRight
  <2>3. Goes(y, u, L, e, a)
    BY <1>2, <1>10, <2>2, SetTableGoes
  <2>4. Mid(u, L) /\ Get(u, e, "events") # None /\ Events(u, e) = a
    BY <2>3, MapOfGoes
  <2>5. MayAdd(e, "over", "within", "plain")
    BY <1>5 DEF MayAdd, Kinds
  <2>. HIDE DEF u, a
  <2>6. Goes(u, v, L, e, o)
    BY <2>4, <2>5, AddToGoes DEF Types
  <2>7. Mid(v, L) /\ Get(v, e, "events") # None /\ Events(v, e) = o /\ MapRight(e, o)
    BY <2>6, MapOfGoes
  <2>. HIDE DEF v, o
  <2>8. TableRight(e, t, Assign(TableIn(o, t), f, kind))
    BY <1>6, <1>10, <2>7, TableInRight, TableRightAssign
  <2>9. Goes(v, z, L, e, AddedTo(o, t, f, kind))
    BY <1>10, <2>1, <2>7, <2>8, SetTableGoes DEF AddedTo
  <2>10. Goes(y, z, L, e, AddedTo(o, t, f, kind))
    BY <2>3, <2>6, <2>9, GoesTwice
  <2>11. Binds(m, AddedTo(o, t, f, kind), t)
    BY <1>4, <1>5, <1>10, BindsEnter DEF o, a
  <2>. QED
    BY <1>7, <2>10, <2>11 DEF z
<1>11. CASE t # "liveclick" /\ t # "enter"
  <2>1. z = AddTo(y, e, t, f, kind)
    BY <1>3, <1>11
  <2>2. Goes(y, z, L, e, AddedTo(m, t, f, kind))
    BY <1>2, <1>6, <1>11, <2>1, AddToGoes
  <2>3. Binds(m, AddedTo(m, t, f, kind), t)
    BY <1>4, <1>5, <1>11, BindsOther
  <2>. QED
    BY <1>7, <2>2, <2>3 DEF z
<1>. QED
  BY <1>8, <1>9, <1>10, <1>11

-----------------------------------------------------------------------------
(* The stack of the calls in progress.                                     *)

EventObjects == [type : PageTypes, ns : BOOLEAN, target : Elem,
                 stop : BOOLEAN, prevent : BOOLEAN, now : BOOLEAN]

Paths == Seq(Elem) \ {<<>>}

TriggerFrames == [k : {"trigger"}, e : Elem, ev : EventObjects, at : {"handle", "native", "bubble"},
                  bubbling : BOOLEAN, again : BOOLEAN]
NativeFrames == [k : {"native"}, path : Paths, called : SUBSET Handles, ev : EventObjects, page : BOOLEAN]
\* withinElement changes the type of the event of a loop over mouseover.
HandleFrames == {w \in [k : {"handle"}, e : Elem, t : Types, todo : SUBSET Handlers,
                        dead : BOOLEAN, all : BOOLEAN, ev : EventObjects] :
                    w.t = "over" \/ w.t = w.ev.type}
LiveFrames == [k : {"live"}, todo : SUBSET Handlers]
GlobalFrames == [k : {"global"}, todo : SUBSET Elem, ev : EventObjects]
UnloadFrames == [k : {"unload"}, todo : SUBSET Elem]
ReadyFrames == [k : {"ready"}, todo : Nat]
PageFrames == [k : {"page"}]

Frame == TriggerFrames \cup NativeFrames \cup HandleFrames \cup LiveFrames
         \cup GlobalFrames \cup UnloadFrames \cup ReadyFrames \cup PageFrames

IsStack(s) == s \in Seq(Frame)

\* Who calls whom: handle is called by a trigger, by the browser, or by
\* withinElement, which is a handler of mouseover; liveHandler is a handler; and the
\* loops that run alone are at the bottom.
Callers(s) ==
    \A i \in 1..Len(s) :
        /\ s[i].k = "handle" =>
             /\ i > 1
             /\ s[i - 1].k \in {"trigger", "native"} \/ (s[i - 1].k = "handle" /\ s[i - 1].t = "over")
        /\ s[i].k = "live" => i > 1 /\ s[i - 1].k = "handle"
        /\ s[i].k \in {"global", "unload", "ready"} => i = 1

NativeAt(s, i) == s[i].k = "trigger" /\ i < Len(s) /\ s[i + 1].k = "native"

\* While the flag up is set, a trigger is in its native phase or has just left it.
Raised(s, up) ==
    up => \E i \in 1..Len(s) :
            s[i].k = "trigger" /\ s[i].at = "bubble" /\ (NativeAt(s, i) \/ i = Len(s))

\* In the native phase of a trigger the flag is up, unless there was another trigger.
Heard(s, up) ==
    \A i \in 1..Len(s) : NativeAt(s, i) /\ ~s[i].again =>
        up /\ \A j \in 1..Len(s) : j > i => s[j].k # "trigger"

Twice(s) ==
    \A i \in 1..Len(s) : NativeAt(s, i) /\ i + 2 <= Len(s) /\ s[i + 2].k = "handle" => s[i].again

\* What is owed to the callers of ready: the rest of the loop, or the list.
Owed(s, m) ==
    IF Len(s) > 0 /\ s[1].k = "ready" THEN m.is /\ m.owed = s[1].todo ELSE m.owed = m.list

Shape(s, up, m) == Callers(s) /\ Raised(s, up) /\ Heard(s, up) /\ Twice(s) /\ Owed(s, m)

LEMMA StackIs ==
    ASSUME NEW s, IsStack(s)
    PROVE  /\ Len(s) \in Nat /\ DOMAIN s = 1..Len(s)
           /\ \A i \in 1..Len(s) : s[i] \in Frame
           /\ s = <<>> <=> Len(s) = 0
BY LenProperties, ElementOfSeq, EmptySeq DEF IsStack

\* The three ways a stack changes at its end.
Pushed(s, t, g) ==
    /\ IsStack(t) /\ Len(t) = Len(s) + 1
    /\ \A i \in 1..Len(s) : t[i] = s[i]
    /\ t[Len(s) + 1] = g
CutTo(s, t, n) ==
    /\ IsStack(t) /\ Len(t) = n
    /\ \A i \in 1..n : t[i] = s[i]
Replaced(s, t, g) ==
    /\ IsStack(t) /\ Len(s) > 0 /\ Len(t) = Len(s)
    /\ \A i \in 1..(Len(s) - 1) : t[i] = s[i]
    /\ t[Len(s)] = g

LEMMA PushIs ==
    ASSUME NEW s, IsStack(s), NEW g \in Frame
    PROVE  Pushed(s, Push(s, g), g)
BY AppendProperties, LenProperties DEF Push, Pushed, IsStack

LEMMA CutIs ==
    ASSUME NEW s, IsStack(s), NEW n \in 0..Len(s)
    PROVE  CutTo(s, SubSeq(s, 1, n), n)
<1>1. Len(s) \in Nat /\ n \in Nat /\ n <= Len(s)
  BY StackIs
<1>2. \A i \in 1..n : s[i] \in Frame
  BY <1>1, StackIs
<1>3. SubSeq(s, 1, n) \in Seq(Frame) /\ Len(SubSeq(s, 1, n)) = n /\ \A i \in 1..n : SubSeq(s, 1, n)[i] = s[i]
  BY <1>1, <1>2, SubSeqProperties DEF IsStack
<1>. QED
  BY <1>3 DEF CutTo, IsStack

LEMMA FrontIs ==
    ASSUME NEW s, IsStack(s), s # <<>>
    PROVE  CutTo(s, Front(s), Len(s) - 1) /\ Len(s) - 1 \in 0..Len(s)
<1>1. Len(s) \in Nat /\ Len(s) # 0
  BY StackIs
<1>2. Len(s) - 1 \in 0..Len(s)
  BY <1>1
<1>. QED
  BY <1>2, CutIs DEF Front

LEMMA ReplaceIs ==
    ASSUME NEW s, IsStack(s), s # <<>>, NEW g \in Frame
    PROVE  Replaced(s, Append(Front(s), g), g)
<1>. DEFINE u == Front(s)
            t == Append(u, g)
<1>1. Len(s) \in Nat /\ Len(s) # 0
  BY StackIs
<1>2. CutTo(s, u, Len(s) - 1)
  BY FrontIs
<1>. HIDE DEF u
<1>3. IsStack(u) /\ Len(u) = Len(s) - 1 /\ \A i \in 1..Len(u) : u[i] = s[i]
  BY <1>2 DEF CutTo
<1>4. Pushed(u, t, g)
  BY <1>3, PushIs DEF Push
<1>. HIDE DEF t
<1>5. IsStack(t) /\ Len(t) = Len(s) /\ t[Len(s)] = g
  BY <1>1, <1>3, <1>4 DEF Pushed
<1>6. \A i \in 1..(Len(s) - 1) : t[i] = s[i]
  BY <1>1, <1>3, <1>4 DEF Pushed
<1>7. Replaced(s, t, g)
  BY <1>1, <1>5, <1>6 DEF Replaced
<1>. QED
  BY <1>7 DEF t, u

\* Frames that differ in nothing that matters for the shape.
Alike(f, g) ==
    /\ f.k = g.k
    /\ f.k = "trigger" => f.at = g.at /\ f.again = g.again
    /\ f.k = "handle" => f.t = g.t
    /\ f.k = "ready" => f.todo = g.todo

LEMMA AlikeKeeps ==
    ASSUME NEW s, NEW t, NEW up, NEW m, Len(s) \in Nat, Len(t) = Len(s),
           \A i \in 1..Len(s) : Alike(s[i], t[i]), Shape(s, up, m)
    PROVE  Shape(t, up, m)
<1>1. Callers(t)
  BY DEF Shape, Callers, Alike
<1>2. \A i \in 1..Len(s) : NativeAt(s, i) <=> NativeAt(t, i)
  BY DEF NativeAt, Alike
<1>3. Raised(t, up)
  BY <1>2 DEF Shape, Raised, Alike
<1>4. Heard(t, up)
  BY <1>2 DEF Shape, Heard, Alike, NativeAt
<1>5. Twice(t)
  BY <1>2 DEF Shape, Twice, Alike, NativeAt
<1>6. Owed(t, m)
  BY DEF Shape, Owed, Alike
<1>. QED
  BY <1>1, <1>3, <1>4, <1>5, <1>6 DEF Shape

\* Calls that end, up to the n-th: no other dispatch is left than one called by
\* the last that stays.
LEMMA CutKeeps ==
    ASSUME NEW s, NEW t, NEW up, NEW m, Len(s) \in Nat, Shape(s, up, m),
           NEW n \in 0..Len(s), CutTo(s, t, n),
           up => s[Len(s)].k # "trigger",
           \A j \in 1..Len(s) : j > n + 1 => s[j].k # "native",
           n = 0 => s[1].k # "ready" \/ Len(s) = 0
    PROVE  Shape(t, up, m)
<1>0. Len(t) = n /\ \A i \in 1..n : t[i] = s[i]
  BY DEF CutTo
<1>1. Callers(t)
  BY <1>0 DEF Shape, Callers
<1>2. \A i \in 1..n : NativeAt(t, i) => NativeAt(s, i)
  BY <1>0 DEF NativeAt
<1>3. Raised(t, up)
  <2>1. CASE ~up
    BY <2>1 DEF Raised
  <2>2. CASE up
    <3>1. PICK i \in 1..Len(s) : s[i].k = "trigger" /\ s[i].at = "bubble" /\ (NativeAt(s, i) \/ i = Len(s))
      BY <2>2 DEF Shape, Raised
    <3>2. i < Len(s) /\ s[i + 1].k = "native"
      BY <2>2, <3>1 DEF NativeAt
    <3>3. i <= n
      BY <3>2
    <3>4. i = n \/ NativeAt(t, i)
      BY <1>0, <3>1, <3>2, <3>3 DEF NativeAt
    <3>. QED
      BY <1>0, <3>1, <3>3, <3>4 DEF Raised
  <2>. QED
    BY <2>1, <2>2
<1>4. Heard(t, up)
  BY <1>0, <1>2 DEF Shape, Heard
<1>5. Twice(t)
  BY <1>0, <1>2 DEF Shape, Twice
<1>6. Owed(t, m)
  BY <1>0 DEF Shape, Owed
<1>. QED
  BY <1>1, <1>3, <1>4, <1>5, <1>6 DEF Shape

\* A call that begins.
LEMMA PushKeeps ==
    ASSUME NEW s, NEW t, NEW up, NEW m, Len(s) \in Nat, Shape(s, up, m), NEW g, Pushed(s, t, g),
           Len(s) > 0 /\ s[Len(s)].k = "trigger" => g.k # "native" /\ (up => s[Len(s)].at # "bubble"),
           Len(s) = 0 => g.k # "ready",
           g.k \in {"global", "unload", "ready"} => Len(s) = 0,
           g.k = "trigger" => \A i \in 1..Len(s) : NativeAt(s, i) => s[i].again,
           g.k = "live" => Len(s) > 0 /\ s[Len(s)].k = "handle",
           g.k = "handle" =>
             /\ Len(s) > 0
             /\ \/ s[Len(s)].k = "trigger"
                \/ s[Len(s)].k = "native" /\ ~up
                \/ s[Len(s)].k = "handle" /\ s[Len(s)].t = "over"
    PROVE  Shape(t, up, m)
<1>. DEFINE n == Len(s)
<1>0. Len(t) = n + 1 /\ (\A i \in 1..n : t[i] = s[i]) /\ t[n + 1] = g
  BY DEF Pushed
<1>1. Callers(t)
  <2>1. ASSUME NEW i \in 1..(n + 1), i <= n
        PROVE  /\ t[i] = s[i] /\ i \in 1..n
               /\ i > 1 => t[i - 1] = s[i - 1]
    BY <1>0, <2>1
  <2>2. n > 0 => t[n] = s[n]
    BY <1>0
  <2>3. ASSUME NEW i \in 1..(n + 1)
        PROVE  /\ t[i].k = "handle" =>
                    /\ i > 1
                    /\ t[i - 1].k \in {"trigger", "native"} \/ (t[i - 1].k = "handle" /\ t[i - 1].t = "over")
               /\ t[i].k = "live" => i > 1 /\ t[i - 1].k = "handle"
               /\ t[i].k \in {"global", "unload", "ready"} => i = 1
    <3>1. CASE i <= n
      BY <2>1, <3>1 DEF Shape, Callers
    <3>2. CASE i = n + 1
      BY <1>0, <2>2, <3>2
    <3>. QED
      BY <3>1, <3>2
  <2>. QED
    BY <1>0, <2>3 DEF Callers
<1>2. ASSUME NEW i \in 1..(n + 1), NativeAt(t, i)
      PROVE  i \in 1..n /\ NativeAt(s, i) /\ i < n
  BY <1>0, <1>2 DEF NativeAt
<1>3. Raised(t, up)
  <2>1. CASE ~up
    BY <2>1 DEF Raised
  <2>2. CASE up
    <3>1. PICK i \in 1..n : s[i].k = "trigger" /\ s[i].at = "bubble" /\ (NativeAt(s, i) \/ i = n)
      BY <2>2 DEF Shape, Raised
    <3>2. NativeAt(s, i)
      BY <2>2, <3>1
    <3>3. NativeAt(t, i)
      BY <1>0, <3>2 DEF NativeAt
    <3>. QED
      BY <1>0, <3>1, <3>3 DEF Raised
  <2>. QED
    BY <2>1, <2>2
<1>4. Heard(t, up)
  <2>1. ASSUME NEW i \in 1..(n + 1), NativeAt(t, i), ~t[i].again
        PROVE  up /\ \A j \in 1..(n + 1) : j > i => t[j].k # "trigger"
    <3>1. i \in 1..n /\ NativeAt(s, i) /\ ~s[i].again
      BY <1>0, <1>2, <2>1
    <3>2. up /\ \A j \in 1..n : j > i => s[j].k # "trigger"
      BY <3>1 DEF Shape, Heard
    <3>3. g.k # "trigger"
      BY <3>1
    <3>. QED
      BY <1>0, <3>2, <3>3
  <2>. QED
    BY <1>0, <2>1 DEF Heard
<1>5. Twice(t)
  <2>1. ASSUME NEW i \in 1..(n + 1), NativeAt(t, i), i + 2 <= n + 1, t[i + 2].k = "handle"
        PROVE  t[i].again
    <3>1. i \in 1..n /\ NativeAt(s, i) /\ i < n /\ t[i] = s[i]
      BY <1>0, <1>2, <2>1
    <3>2. CASE i + 2 <= n
      BY <1>0, <2>1, <3>1, <3>2 DEF Shape, Twice
    <3>3. CASE i + 2 = n + 1
      <4>1. g.k = "handle" /\ s[n].k = "native" /\ n = i + 1
        BY <1>0, <2>1, <3>1, <3>3 DEF NativeAt
      <4>2. ~up
        BY <4>1
      <4>. QED
        BY <3>1, <4>2 DEF Shape, Heard
    <3>. QED
      BY <2>1, <3>1, <3>2, <3>3
  <2>. QED
    BY <1>0, <2>1 DEF Twice
<1>6. Owed(t, m)
  BY <1>0 DEF Shape, Owed
<1>. QED
  BY <1>1, <1>3, <1>4, <1>5, <1>6 DEF Shape

\* A trigger at the end of the stack goes on, from a place where the flag does not
\* depend on it.
LEMMA TriggerKeeps ==
    ASSUME NEW s, NEW t, NEW up, NEW m, Len(s) \in Nat, Shape(s, up, m), NEW g, Replaced(s, t, g),
           s[Len(s)].k = "trigger", g.k = "trigger", up => s[Len(s)].at # "bubble"
    PROVE  Shape(t, up, m)
<1>. DEFINE n == Len(s)
<1>0. Len(t) = n /\ n > 0 /\ (\A i \in 1..(n - 1) : t[i] = s[i]) /\ t[n] = g
  BY DEF Replaced
<1>1. Callers(t)
  BY <1>0 DEF Shape, Callers
<1>2. \A i \in 1..n : NativeAt(t, i) <=> NativeAt(s, i)
  BY <1>0 DEF NativeAt
<1>3. Raised(t, up)
  <2>1. CASE ~up
    BY <2>1 DEF Raised
  <2>2. CASE up
    <3>1. PICK i \in 1..n : s[i].k = "trigger" /\ s[i].at = "bubble" /\ (NativeAt(s, i) \/ i = n)
      BY <2>2 DEF Shape, Raised
    <3>2. NativeAt(t, i) /\ t[i] = s[i]
      BY <1>0, <1>2, <2>2, <3>1 DEF NativeAt
    <3>. QED
      BY <1>0, <3>1, <3>2 DEF Raised
  <2>. QED
    BY <2>1, <2>2
<1>4. Heard(t, up)
  <2>1. ASSUME NEW i \in 1..n, NativeAt(t, i)
        PROVE  t[i].again
    BY <1>0, <1>2, <2>1 DEF Shape, Heard, NativeAt
  <2>. QED
    BY <1>0, <2>1 DEF Heard
<1>5. Twice(t)
  BY <1>0, <1>2 DEF Shape, Twice, NativeAt
<1>6. Owed(t, m)
  BY <1>0 DEF Shape, Owed
<1>. QED
  BY <1>1, <1>3, <1>4, <1>5, <1>6 DEF Shape

\* The flag is cleared at the end of a trigger.
LEMMA LowerKeeps ==
    ASSUME NEW s, NEW up, NEW m, Len(s) \in Nat, Len(s) > 0, Shape(s, up, m), s[Len(s)].k = "trigger"
    PROVE  Shape(s, FALSE, m)
<1>. DEFINE down == FALSE
<1>1. Raised(s, down)
  BY DEF Raised
<1>2. Heard(s, down)
  BY DEF Shape, Heard, NativeAt
<1>. QED
  BY <1>1, <1>2 DEF Shape

\* The native phase begins: the flag is set and the browser dispatches.
LEMMA RaiseKeeps ==
    ASSUME NEW s, NEW t, NEW up, NEW m, Len(s) \in Nat, Len(s) > 0, Shape(s, up, m), NEW g, Pushed(s, t, g),
           s[Len(s)].k = "trigger", s[Len(s)].at = "bubble", g.k = "native"
    PROVE  Shape(t, TRUE, m)
<1>. DEFINE n == Len(s)
            raised == TRUE
<1>0. Len(t) = n + 1 /\ (\A i \in 1..n : t[i] = s[i]) /\ t[n + 1] = g
  BY DEF Pushed
<1>1. Callers(t)
  <2>1. ASSUME NEW i \in 1..n
        PROVE  t[i] = s[i] /\ (i > 1 => t[i - 1] = s[i - 1])
    BY <1>0
  <2>. QED
    BY <1>0, <2>1 DEF Shape, Callers
<1>2. ASSUME NEW i \in 1..(n + 1), NativeAt(t, i)
      PROVE  i = n \/ (i \in 1..n /\ i + 1 < n /\ NativeAt(s, i) /\ t[i] = s[i] /\ s[i].again)
  BY <1>0, <1>2 DEF NativeAt, Shape, Heard
<1>3. Raised(t, raised)
  BY <1>0 DEF Raised, NativeAt
<1>4. Heard(t, raised)
  BY <1>0, <1>2 DEF Heard
<1>5. Twice(t)
  <2>1. ASSUME NEW i \in 1..(n + 1), NativeAt(t, i), i + 2 <= n + 1, t[i + 2].k = "handle"
        PROVE  t[i].again
    BY <1>0, <1>2, <2>1
  <2>. QED
    BY <1>0, <2>1 DEF Twice
<1>6. Owed(t, m)
  BY <1>0 DEF Shape, Owed
<1>. QED
  BY <1>1, <1>3, <1>4, <1>5, <1>6 DEF Shape

\* Outside of any call, and with one alone.
LEMMA EmptyShape ==
    ASSUME NEW s, Len(s) = 0, NEW up \in BOOLEAN, NEW m
    PROVE  Shape(s, up, m) <=> ~up /\ m.owed = m.list
BY DEF Shape, Callers, Raised, Heard, Twice, Owed

LEMMA SingleShape ==
    ASSUME NEW s, Len(s) = 1, NEW up \in BOOLEAN, NEW m, s[1].k \notin {"handle", "live"},
           ~up, Owed(s, m)
    PROVE  Shape(s, up, m)
BY DEF Shape, Callers, Raised, Heard, Twice, NativeAt

-----------------------------------------------------------------------------
(* The frames the steps make.                                              *)

LEMMA FrameIs ==
    ASSUME NEW w \in Frame
    PROVE  /\ w.k = "trigger" => w \in TriggerFrames
           /\ w.k = "native" => w \in NativeFrames
           /\ w.k = "handle" => w \in HandleFrames
           /\ w.k = "live" => w \in LiveFrames
           /\ w.k = "global" => w \in GlobalFrames
           /\ w.k = "unload" => w \in UnloadFrames
           /\ w.k = "ready" => w \in ReadyFrames
           /\ w.k = "page" => w \in PageFrames
           /\ w.k \in {"trigger", "native", "handle", "live", "global", "unload", "ready", "page"}
BY DEF Frame, TriggerFrames, NativeFrames, HandleFrames, LiveFrames, GlobalFrames, UnloadFrames,
       ReadyFrames, PageFrames

LEMMA EventIs ==
    ASSUME NEW type \in PageTypes, NEW ns \in BOOLEAN, NEW target \in Elem, NEW quiet \in BOOLEAN
    PROVE  LET ev == Event(type, ns, target, quiet)
           IN  /\ ev \in EventObjects /\ ev.type = type /\ ev.ns = ns /\ ev.target = target
               /\ [ev EXCEPT !.stop = TRUE] \in EventObjects
BY DEF Event, EventObjects

LEMMA TriggerFrameIs ==
    ASSUME NEW e \in Elem, NEW ev \in EventObjects
    PROVE  TriggerFrame(e, ev) \in Frame /\ TriggerFrame(e, ev).k = "trigger"
BY DEF TriggerFrame, TriggerFrames, Frame

LEMMA PathIs ==
    ASSUME NEW e \in Elem
    PROVE  PathFrom(e) \in Paths
<1>1. doc \in Elem
  BY EventAssumption
<1>2. <<e>> \in Seq(Elem) /\ <<e, doc>> \in Seq(Elem)
  BY <1>1
<1>3. <<e>> # <<>> /\ <<e, doc>> # <<>>
  OBVIOUS
<1>. QED
  BY <1>2, <1>3 DEF PathFrom, Paths

LEMMA NativeFrameIs ==
    ASSUME NEW path \in Paths, NEW ev \in EventObjects, NEW page \in BOOLEAN
    PROVE  NativeFrame(path, ev, page) \in Frame /\ NativeFrame(path, ev, page).k = "native"
BY DEF NativeFrame, NativeFrames, Frame

\* The tables hold handlers.
Tabled(x) == \A e \in Elem : \A t \in Types : DOMAIN Table(x, e, t) \subseteq Handlers

LEMMA HandleFrameIs ==
    ASSUME NEW x, Tabled(x), NEW e \in Elem, NEW ev \in EventObjects
    PROVE  HandleFrame(x, e, ev) \in Frame /\ HandleFrame(x, e, ev).k = "handle"
<1>1. ev.type \in Types /\ [ev EXCEPT !.ns = FALSE] \in EventObjects /\ ev.ns \in BOOLEAN
  BY DEF EventObjects, PageTypes
<1>2. [ev EXCEPT !.ns = FALSE].type = ev.type
  BY DEF EventObjects
<1>3. DOMAIN Table(x, e, ev.type) \subseteq Handlers
  BY <1>1 DEF Tabled
<1>4. HandleFrame(x, e, ev) \in HandleFrames
  BY <1>1, <1>2, <1>3 DEF HandleFrame, HandleFrames
<1>. QED
  BY <1>4 DEF Frame, HandleFrame

LEMMA LiveFrameIs ==
    ASSUME NEW x, Tabled(x)
    PROVE  LiveFrame(x) \in Frame /\ LiveFrame(x).k = "live"
<1>1. DOMAIN Table(x, doc, "liveclick") \subseteq Handlers
  BY EventAssumption DEF Tabled, Types
<1>. QED
  BY <1>1 DEF LiveFrame, LiveFrames, Frame

LEMMA PageFrameIs == PageFrame \in Frame /\ PageFrame.k = "page"
BY DEF PageFrame, PageFrames, Frame

LEMMA DeadenedKeeps ==
    ASSUME NEW s, IsStack(s), NEW up, NEW m, NEW x
    PROVE  /\ IsStack(Deadened(s, x)) /\ Len(Deadened(s, x)) = Len(s)
           /\ \A i \in 1..Len(s) : Alike(s[i], Deadened(s, x)[i])
           /\ Shape(s, up, m) => Shape(Deadened(s, x), up, m)
<1>. DEFINE t == Deadened(s, x)
<1>1. Len(s) \in Nat /\ DOMAIN s = 1..Len(s) /\ \A i \in 1..Len(s) : s[i] \in Frame
  BY StackIs
<1>2. ASSUME NEW i \in 1..Len(s)
      PROVE  t[i] \in Frame /\ Alike(s[i], t[i])
  <2>1. t[i] = IF s[i].k = "handle" /\ s[i].t \notin DOMAIN Events(x, s[i].e)
               THEN [s[i] EXCEPT !.dead = TRUE] ELSE s[i]
    BY <1>1 DEF Deadened
  <2>2. s[i].k = "handle" => s[i] \in HandleFrames
    BY <1>1, FrameIs
  <2>3. ASSUME NEW w \in HandleFrames
        PROVE  [w EXCEPT !.dead = TRUE] \in HandleFrames /\ Alike(w, [w EXCEPT !.dead = TRUE])
    BY DEF HandleFrames, Alike
  <2>4. Alike(s[i], s[i])
    BY DEF Alike
  <2>5. HandleFrames \subseteq Frame
    BY DEF Frame
  <2>. QED
    BY <1>1, <2>1, <2>2, <2>3, <2>4, <2>5
<1>3. DOMAIN t = 1..Len(s)
  BY <1>1 DEF Deadened
<1>4. t \in [1..Len(s) -> Frame]
  <2>1. t = [i \in 1..Len(s) |-> t[i]]
    BY <1>1 DEF Deadened
  <2>. HIDE DEF t
  <2>. QED
    BY <1>2, <2>1
<1>. HIDE DEF t
<1>5. t \in Seq(Frame)
  BY <1>1, <1>4, SeqDef
<1>6. Len(t) \in Nat /\ DOMAIN t = 1..Len(t)
  BY <1>5, LenProperties
<1>7. Len(t) = Len(s)
  BY <1>1, <1>3, <1>6
<1>8. Shape(s, up, m) => Shape(t, up, m)
  BY <1>1, <1>2, <1>7, AlikeKeeps
<1>. QED
  BY <1>2, <1>5, <1>7, <1>8 DEF t, IsStack

\* The last frame goes on and nothing changes in the shape.
LEMMA SwapKeeps ==
    ASSUME NEW s, IsStack(s), s # <<>>, NEW up, NEW m, Shape(s, up, m),
           NEW g \in Frame, Alike(s[Len(s)], g)
    PROVE  Replaced(s, Append(Front(s), g), g) /\ Shape(Append(Front(s), g), up, m)
<1>. DEFINE t == Append(Front(s), g)
<1>1. Replaced(s, t, g)
  BY ReplaceIs
<1>. HIDE DEF t
<1>2. Len(s) \in Nat
  BY StackIs
<1>3. ASSUME NEW i \in 1..Len(s)
      PROVE  Alike(s[i], t[i])
  <2>1. CASE i = Len(s)
    BY <1>1, <2>1 DEF Replaced
  <2>2. CASE i # Len(s)
    BY <1>1, <1>2, <2>2 DEF Replaced, Alike
  <2>. QED
    BY <2>1, <2>2
<1>4. Shape(t, up, m)
  BY <1>1, <1>2, <1>3, AlikeKeeps DEF Replaced
<1>. QED
  BY <1>1, <1>4 DEF t

LEMMA ReplacedIs ==
    ASSUME NEW s, IsStack(s), NEW t, NEW g, Replaced(s, t, g)
    PROVE  IsStack(t) /\ t # <<>> /\ Len(t) = Len(s) /\ Len(s) \in Nat /\ Len(s) > 0 /\ t[Len(t)] = g
<1>1. IsStack(t) /\ Len(t) = Len(s) /\ Len(s) > 0 /\ t[Len(t)] = g
  BY DEF Replaced
<1>2. Len(s) \in Nat /\ t # <<>>
  BY <1>1, StackIs
<1>. QED
  BY <1>1, <1>2

\* A page function begins, above whatever has called it.
LEMMA PageKeeps ==
    ASSUME NEW s, IsStack(s), NEW up, NEW m, Shape(s, up, m), Len(s) > 0 => s[Len(s)].k # "trigger"
    PROVE  IsStack(Push(s, PageFrame)) /\ Shape(Push(s, PageFrame), up, m)
<1>1. Len(s) \in Nat
  BY StackIs
<1>2. Pushed(s, Push(s, PageFrame), PageFrame)
  BY PushIs, PageFrameIs
<1>3. Shape(Push(s, PageFrame), up, m)
  BY <1>1, <1>2, PageFrameIs, PushKeeps
<1>. QED
  BY <1>2, <1>3 DEF Pushed

\* The last call, or the last two, end.
LEMMA EndKeeps ==
    ASSUME NEW s, IsStack(s), s # <<>>, NEW up, NEW m, Shape(s, up, m),
           up => s[Len(s)].k # "trigger",
           Len(s) = 1 => s[1].k # "ready"
    PROVE  /\ IsStack(Front(s)) /\ Shape(Front(s), up, m) /\ Len(Front(s)) = Len(s) - 1
           /\ \A i \in 1..(Len(s) - 1) : Front(s)[i] = s[i]
<1>1. Len(s) \in Nat /\ Len(s) > 0
  BY StackIs
<1>2. CutTo(s, Front(s), Len(s) - 1)
  BY FrontIs
<1>3. IsStack(Front(s)) /\ Len(Front(s)) = Len(s) - 1 /\ \A i \in 1..(Len(s) - 1) : Front(s)[i] = s[i]
  BY <1>2 DEF CutTo
<1>4. Shape(Front(s), up, m)
  <2>. DEFINE n == Len(s) - 1
  <2>1. n \in 0..Len(s) /\ n + 1 = Len(s)
    BY <1>1
  <2>2. CutTo(s, Front(s), n)
    BY <1>2
  <2>3. n = 0 => Len(s) = 1
    BY <1>1
  <2>. HIDE DEF n
  <2>4. \A j \in 1..Len(s) : j > n + 1 => s[j].k # "native"
    BY <1>1, <2>1
  <2>. QED
    BY <1>1, <2>1, <2>2, <2>3, <2>4, CutKeeps
<1>. QED
  BY <1>3, <1>4

LEMMA FrontOfAppend ==
    ASSUME NEW s, IsStack(s), NEW g
    PROVE  Front(Append(s, g)) = s /\ Last(Append(s, g)) = g /\ Append(s, g) # <<>>
<1>. DEFINE S == Frame \cup {g}
            t == Append(s, g)
<1>1. s \in Seq(S) /\ g \in S
  BY SeqMonotonic DEF IsStack
<1>. HIDE DEF S
<1>2. t \in Seq(S) /\ Len(t) = Len(s) + 1 /\ t[Len(t)] = g /\ \A i \in 1..Len(s) : t[i] = s[i]
  BY <1>1, AppendProperties
<1>3. Len(s) \in Nat
  BY StackIs
<1>. HIDE DEF t
<1>4. \A i \in 1..Len(s) : t[i] \in S
  BY <1>1, <1>2, ElementOfSeq
<1>5. Len(t) - 1 = Len(s)
  BY <1>2, <1>3
<1>. DEFINE u == SubSeq(t, 1, Len(s))
<1>6. u \in Seq(S) /\ Len(u) = Len(s) /\ \A i \in 1..Len(s) : u[i] = t[i]
  BY <1>2, <1>3, <1>4, SubSeqProperties
<1>. HIDE DEF u
<1>7. u = s
  BY <1>1, <1>2, <1>6, SeqEqual
<1>8. t # <<>>
  BY <1>2, <1>3, EmptySeq
<1>. QED
  BY <1>2, <1>5, <1>7, <1>8 DEF t, u, Front, Last

-----------------------------------------------------------------------------
(* The steps.                                                              *)

DomRight(m) == m \in [is : BOOLEAN, list : 0..MaxReady, owed : 0..MaxReady]

CallsRight ==
    /\ IsStack(stack) /\ Shape(stack, triggered, dom)
    /\ triggered \in BOOLEAN
    /\ DomRight(dom)

LEMMA CallsStep ==
    ASSUME CallsRight, NEW t, IsStack(t), NEW up \in BOOLEAN, Shape(t, up, dom),
           stack' = t, triggered' = up, dom' = dom
    PROVE  CallsRight'
BY DEF CallsRight

LEMMA TopIs ==
    ASSUME IsStack(stack), NEW kind, OnTop(kind)
    PROVE  /\ stack # <<>> /\ Len(stack) \in Nat /\ Len(stack) > 0
           /\ Top = stack[Len(stack)] /\ Top \in Frame /\ Top.k = kind
<1>1. stack # <<>> /\ Top = stack[Len(stack)] /\ Top.k = kind
  BY DEF OnTop, CalledBy, Top, Last
<1>2. Len(stack) \in Nat /\ Len(stack) > 0
  BY <1>1, StackIs
<1>. QED
  BY <1>1, <1>2, StackIs

LEMMA PageRunsIs ==
    ASSUME IsStack(stack), PageRuns
    PROVE  Len(stack) > 0 => stack[Len(stack)].k = "page"
<1>1. CASE stack = <<>>
  BY <1>1, StackIs
<1>2. CASE OnTop("page")
  BY <1>2, TopIs
<1>. QED
  BY <1>1, <1>2 DEF PageRuns

LEMMA InNativeIs ==
    ASSUME NEW i
    PROVE  InNative(i) <=> NativeAt(stack, i)
BY DEF InNative, NativeAt

\* The page changes the tables.
LEMMA ChangedCalls ==
    ASSUME CallsRight, NEW x, Changed(x), UNCHANGED <<triggered, dom>>
    PROVE  CallsRight'
<1>1. IsStack(Deadened(stack, x)) /\ Shape(Deadened(stack, x), triggered, dom)
  BY DeadenedKeeps DEF CallsRight
<1>2. stack' = Deadened(stack, x)
  BY DEF Changed
<1>. QED
  BY <1>1, <1>2, CallsStep DEF CallsRight

LEMMA NotedKeeps ==
    ASSUME CallsRight
    PROVE  /\ IsStack(Noted) /\ Len(Noted) = Len(stack) /\ Shape(Noted, triggered, dom)
           /\ \A i \in 1..Len(stack) : Noted[i].k = stack[i].k
           /\ \A i \in 1..Len(stack) : NativeAt(Noted, i) => Noted[i].again
<1>. DEFINE t == Noted
            n == Len(stack)
<1>1. Len(stack) \in Nat /\ DOMAIN stack = 1..Len(stack) /\ \A i \in 1..Len(stack) : stack[i] \in Frame
  BY StackIs DEF CallsRight
<1>2. ASSUME NEW i \in 1..n
      PROVE  /\ t[i] \in Frame /\ t[i].k = stack[i].k
             /\ t[i].k = "trigger" => t[i].at = stack[i].at
             /\ t[i].k = "handle" => t[i].t = stack[i].t
             /\ t[i].k = "ready" => t[i].todo = stack[i].todo
             /\ NativeAt(stack, i) => t[i].again
  <2>1. t[i] = IF NativeAt(stack, i) THEN [stack[i] EXCEPT !.again = TRUE] ELSE stack[i]
    BY <1>1, InNativeIs DEF Noted
  <2>2. NativeAt(stack, i) => stack[i] \in TriggerFrames
    BY <1>1, FrameIs DEF NativeAt
  <2>3. ASSUME NEW w \in TriggerFrames
        PROVE  LET v == [w EXCEPT !.again = TRUE]
               IN  v \in TriggerFrames /\ v.k = w.k /\ v.at = w.at /\ v.again /\ v.k = "trigger"
    BY DEF TriggerFrames
  <2>4. TriggerFrames \subseteq Frame
    BY DEF Frame
  <2>5. CASE NativeAt(stack, i)
    BY <2>1, <2>2, <2>3, <2>4, <2>5
  <2>6. CASE ~NativeAt(stack, i)
    BY <1>1, <2>1, <2>6
  <2>. QED
    BY <2>5, <2>6
<1>3. DOMAIN t = 1..n
  BY <1>1 DEF Noted
<1>4. t \in [1..n -> Frame]
  <2>1. t = [i \in 1..n |-> t[i]]
    BY <1>1 DEF Noted
  <2>. HIDE DEF t
  <2>. QED
    BY <1>2, <2>1
<1>. HIDE DEF t
<1>5. t \in Seq(Frame)
  BY <1>1, <1>4, SeqDef
<1>6. Len(t) \in Nat /\ DOMAIN t = 1..Len(t)
  BY <1>5, LenProperties
<1>7. Len(t) = n
  BY <1>1, <1>3, <1>6
<1>8. \A i \in 1..n : NativeAt(t, i) <=> NativeAt(stack, i)
  BY <1>1, <1>2, <1>7 DEF NativeAt
<1>9. \A i \in 1..n : NativeAt(t, i) => t[i].again
  BY <1>2, <1>8
<1>10. Callers(t)
  BY <1>1, <1>2, <1>7 DEF CallsRight, Shape, Callers
<1>11. Raised(t, triggered)
  BY <1>1, <1>2, <1>7, <1>8 DEF CallsRight, Shape, Raised
<1>12. Heard(t, triggered)
  BY <1>7, <1>9 DEF Heard
<1>13. Twice(t)
  BY <1>7, <1>9 DEF Twice
<1>14. Owed(t, dom)
  BY <1>1, <1>2, <1>7 DEF CallsRight, Shape, Owed
<1>15. Shape(t, triggered, dom)
  BY <1>10, <1>11, <1>12, <1>13, <1>14 DEF Shape
<1>. QED
  BY <1>2, <1>5, <1>7, <1>9, <1>15 DEF t, IsStack

LEMMA TriggerCalls ==
    ASSUME CallsRight, NEW tr \in Triggers, Trigger(tr)
    PROVE  CallsRight'
<1>. DEFINE g == TriggerFrame(tr.e, Event(tr.t, tr.ns, tr.e, tr.quiet))
            s == Noted
            t == Push(s, g)
<1>1. tr.e \in Elem /\ tr.t \in PageTypes /\ tr.ns \in BOOLEAN /\ tr.quiet \in BOOLEAN
  BY EventAssumption
<1>2. g \in Frame /\ g.k = "trigger"
  <2>1. Event(tr.t, tr.ns, tr.e, tr.quiet) \in EventObjects
    BY <1>1, EventIs
  <2>. QED
    BY <1>1, <2>1, TriggerFrameIs
<1>3. PageRuns /\ stack' = t /\ triggered' = triggered /\ dom' = dom
  BY DEF Trigger
<1>. HIDE DEF g
<1>4. /\ IsStack(s) /\ Len(s) = Len(stack) /\ Shape(s, triggered, dom)
      /\ \A i \in 1..Len(stack) : s[i].k = stack[i].k
      /\ \A i \in 1..Len(stack) : NativeAt(s, i) => s[i].again
  BY NotedKeeps
<1>. HIDE DEF s
<1>5. Len(s) \in Nat
  BY <1>4, StackIs
<1>6. Len(s) > 0 => s[Len(s)].k = "page"
  BY <1>3, <1>4, <1>5, PageRunsIs DEF CallsRight
<1>7. Pushed(s, t, g)
  BY <1>2, <1>4, PushIs
<1>. HIDE DEF t
<1>8. Shape(t, triggered, dom)
  BY <1>2, <1>4, <1>5, <1>6, <1>7, PushKeeps
<1>. QED
  BY <1>3, <1>7, <1>8, CallsStep DEF Pushed, CallsRight

\* A call from outside of any other.
LEMMA AloneCalls ==
    ASSUME CallsRight, stack = <<>>, NEW g \in Frame, g.k \notin {"handle", "live", "ready"},
           stack' = <<g>>, UNCHANGED <<triggered, dom>>
    PROVE  CallsRight'
<1>. DEFINE t == <<g>>
<1>1. t \in Seq(Frame) /\ Len(t) = 1 /\ t[1] = g
  OBVIOUS
<1>2. Len(stack) = 0
  OBVIOUS
<1>3. ~triggered /\ dom.owed = dom.list
  BY <1>2, EmptyShape DEF CallsRight
<1>. HIDE DEF t
<1>4. Owed(t, dom)
  BY <1>1, <1>3 DEF Owed
<1>5. Shape(t, triggered, dom)
  BY <1>1, <1>3, <1>4, SingleShape DEF CallsRight
<1>. QED
  BY <1>1, <1>5, CallsStep DEF t, CallsRight, IsStack

LEMMA TriggerGlobalCalls ==
    ASSUME CallsRight, NEW type \in Globals, TriggerGlobal(type)
    PROVE  CallsRight'
<1>. DEFINE g == GlobalFrame(type)
<1>1. type \in PageTypes /\ doc \in Elem
  BY EventAssumption
<1>2. [Event(type, FALSE, doc, FALSE) EXCEPT !.stop = TRUE] \in EventObjects
  BY <1>1, EventIs
<1>3. g \in Frame /\ g.k = "global"
  BY <1>2 DEF GlobalFrame, GlobalFrames, Frame
<1>4. stack = <<>> /\ stack' = <<g>> /\ UNCHANGED <<triggered, dom>>
  BY DEF TriggerGlobal
<1>. HIDE DEF g
<1>. QED
  BY <1>3, <1>4, AloneCalls

LEMMA UserEventCalls ==
    ASSUME CallsRight, NEW u \in Inputs, UserEvent(u)
    PROVE  CallsRight'
<1>. DEFINE g == NativeFrame(PathFrom(u.e), Event(u.t, FALSE, u.e, FALSE), FALSE)
<1>1. u.e \in Elem /\ u.t \in PageTypes
  BY EventAssumption
<1>2. Event(u.t, FALSE, u.e, FALSE) \in EventObjects /\ PathFrom(u.e) \in Paths
  BY <1>1, EventIs, PathIs
<1>3. g \in Frame /\ g.k = "native"
  BY <1>2, NativeFrameIs
<1>. HIDE DEF g
<1>4. stack = <<>> /\ stack' = Push(stack, g) /\ UNCHANGED <<triggered, dom>>
  BY DEF UserEvent, g
<1>5. stack' = <<g>>
  BY <1>4 DEF Push
<1>. QED
  BY <1>3, <1>4, <1>5, AloneCalls

LEMMA UnloadCalls ==
    ASSUME CallsRight, Unload
    PROVE  CallsRight'
<1>1. UnloadFrame \in Frame /\ UnloadFrame.k = "unload"
  BY DEF UnloadFrame, UnloadFrames, Frame
<1>2. stack = <<>> /\ stack' = <<UnloadFrame>> /\ UNCHANGED <<triggered, dom>>
  BY DEF Unload
<1>. QED
  BY <1>1, <1>2, AloneCalls

\* ready.
LEMMA DomIs ==
    ASSUME NEW m, DomRight(m)
    PROVE  /\ m.is \in BOOLEAN /\ m.list \in Nat /\ m.list <= MaxReady /\ m.owed \in Nat /\ m.owed <= MaxReady
           /\ m = [is |-> m.is, list |-> m.list, owed |-> m.owed]
<1>1. MaxReady \in Nat
  BY EventAssumption
<1>2. m.is \in BOOLEAN /\ m.list \in 0..MaxReady /\ m.owed \in 0..MaxReady
  BY DEF DomRight
<1>3. m = [is |-> m.is, list |-> m.list, owed |-> m.owed]
  BY DEF DomRight
<1>. QED
  BY <1>1, <1>2, <1>3

OneMore(m) == [m EXCEPT !.list = m.list + 1, !.owed = m.owed + 1]

LEMMA MoreIsOwed ==
    ASSUME NEW m, DomRight(m), m.list < MaxReady, m.owed = m.list, NEW n, n = OneMore(m)
    PROVE  DomRight(n) /\ n.list = m.list + 1 /\ n.owed = m.owed + 1
<1>1. MaxReady \in Nat
  BY EventAssumption
<1>2. /\ m.is \in BOOLEAN /\ m.list \in Nat
      /\ m = [is |-> m.is, list |-> m.list, owed |-> m.owed]
  BY DomIs
<1>. DEFINE b == m.is
            l == m.list + 1
            o == m.owed + 1
<1>3. n = [is |-> b, list |-> l, owed |-> o]
  BY <1>2 DEF OneMore
<1>4. b \in BOOLEAN /\ l \in 0..MaxReady /\ o \in 0..MaxReady
  BY <1>1, <1>2
<1>. HIDE DEF b, l, o
<1>5. DomRight(n) /\ n.list = l /\ n.owed = o
  BY <1>3, <1>4 DEF DomRight
<1>. QED
  BY <1>5 DEF l, o

LEMMA DocumentIs ==
    ASSUME NEW m, DomRight(m), NEW n, n = [m EXCEPT !.is = TRUE]
    PROVE  DomRight(n) /\ n.is /\ n.owed = m.owed /\ n.list = m.list /\ m.list \in Nat
<1>1. /\ m.list \in Nat /\ m.list <= MaxReady /\ m.owed \in Nat /\ m.owed <= MaxReady
      /\ m = [is |-> m.is, list |-> m.list, owed |-> m.owed]
  BY DomIs
<1>2. n = [is |-> TRUE, list |-> m.list, owed |-> m.owed]
  BY <1>1
<1>3. m.list \in 0..MaxReady /\ m.owed \in 0..MaxReady
  BY DEF DomRight
<1>. QED
  BY <1>1, <1>2, <1>3 DEF DomRight

LEMMA ReadyCalls ==
    ASSUME CallsRight, Ready
    PROVE  CallsRight'
<1>1. ~dom.is /\ dom.list < MaxReady /\ UNCHANGED <<stack, triggered>>
      /\ dom' = [dom EXCEPT !.list = dom.list + 1, !.owed = dom.owed + 1]
  BY DEF Ready
<1>2. dom.owed = dom.list /\ ~(Len(stack) > 0 /\ stack[1].k = "ready")
  BY <1>1 DEF CallsRight, Shape, Owed
<1>3. DomRight(dom') /\ dom'.list = dom.list + 1 /\ dom'.owed = dom.owed + 1
  <2>1. DomRight(dom)
    BY DEF CallsRight
  <2>. QED
    BY <1>1, <1>2, <2>1, MoreIsOwed DEF OneMore
<1>4. Owed(stack, dom')
  BY <1>2, <1>3 DEF Owed
<1>5. Shape(stack, triggered, dom')
  BY <1>4 DEF CallsRight, Shape
<1>. QED
  BY <1>1, <1>3, <1>5 DEF CallsRight

LEMMA DocumentReadyCalls ==
    ASSUME CallsRight, DocumentReady
    PROVE  CallsRight'
<1>. DEFINE g == ReadyFrame(dom.list)
            t == <<g>>
<1>1. stack = <<>> /\ dom' = [dom EXCEPT !.is = TRUE] /\ stack' = t /\ UNCHANGED triggered
  BY DEF DocumentReady
<1>2. DomRight(dom') /\ dom'.is /\ dom'.owed = dom.owed /\ dom.list \in Nat
  <2>1. DomRight(dom)
    BY DEF CallsRight
  <2>. QED
    BY <1>1, <2>1, DocumentIs
<1>3. ~triggered /\ dom.owed = dom.list
  BY <1>1, EmptyShape DEF CallsRight
<1>4. g \in Frame /\ g.k = "ready" /\ g.todo = dom.list
  BY <1>2 DEF ReadyFrame, ReadyFrames, Frame
<1>. HIDE DEF g
<1>5. t \in Seq(Frame) /\ Len(t) = 1 /\ t[1] = g
  BY <1>4
<1>. HIDE DEF t
<1>6. Owed(t, dom')
  BY <1>2, <1>3, <1>4, <1>5 DEF Owed
<1>7. Shape(t, triggered, dom')
  BY <1>3, <1>4, <1>5, <1>6, SingleShape DEF CallsRight
<1>. QED
  BY <1>1, <1>2, <1>5, <1>7 DEF CallsRight, IsStack

\* The end of the stack of a step.
LEMMA TriggerHandlersCalls ==
    ASSUME CallsRight, Tabled(WithEntry(d, Top.e)), TriggerHandlers
    PROVE  CallsRight'
<1>. DEFINE x == WithEntry(d, Top.e)
            at == IF Top.bubbling \/ Top.ev.ns THEN "bubble" ELSE "native"
            g == [Top EXCEPT !.at = at]
            s == SetTop(g)
            h == HandleFrame(x, Top.e, Top.ev)
            t == Push(s, h)
<1>1. OnTop("trigger") /\ Top.at = "handle" /\ UNCHANGED <<triggered, dom>>
  BY DEF TriggerHandlers
<1>2. stack' = s \/ (stack' = t /\ ~triggered)
  BY DEF TriggerHandlers
<1>3. /\ stack # <<>> /\ Len(stack) \in Nat /\ Len(stack) > 0
      /\ Top = stack[Len(stack)] /\ Top \in Frame /\ Top.k = "trigger"
  BY <1>1, TopIs DEF CallsRight
<1>4. Top \in TriggerFrames
  BY <1>3, FrameIs
<1>5. Top.e \in Elem /\ Top.ev \in EventObjects
  BY <1>4 DEF TriggerFrames
<1>6. g \in TriggerFrames /\ g.k = "trigger"
  BY <1>4 DEF TriggerFrames
<1>7. h \in Frame /\ h.k = "handle"
  BY <1>5, HandleFrameIs
<1>. HIDE DEF g, h
<1>8. g \in Frame
  BY <1>6 DEF Frame
<1>9. Replaced(stack, s, g)
  BY <1>3, <1>8, ReplaceIs DEF CallsRight, SetTop
<1>. HIDE DEF s
<1>10. Shape(s, triggered, dom)
  BY <1>1, <1>3, <1>6, <1>9, TriggerKeeps DEF CallsRight
<1>11. IsStack(s) /\ Len(s) \in Nat /\ Len(s) > 0 /\ s[Len(s)] = g
  BY <1>9, ReplacedIs DEF CallsRight
<1>12. CASE stack' = s
  BY <1>1, <1>10, <1>11, <1>12, CallsStep DEF CallsRight
<1>13. CASE stack' = t /\ ~triggered
  <2>1. Pushed(s, t, h)
    BY <1>7, <1>11, PushIs
  <2>. HIDE DEF t
  <2>2. Shape(t, triggered, dom)
    BY <1>6, <1>7, <1>10, <1>11, <1>13, <2>1, PushKeeps
  <2>. QED
    BY <1>1, <1>13, <2>1, <2>2, CallsStep DEF Pushed, CallsRight
<1>. QED
  BY <1>2, <1>12, <1>13

LEMMA TriggerMethodCalls ==
    ASSUME CallsRight, TriggerMethod
    PROVE  CallsRight'
<1>. DEFINE g == [Top EXCEPT !.at = "bubble"]
            s == SetTop(g)
            h == NativeFrame(PathFrom(Top.e), Event(Top.ev.type, FALSE, Top.e, FALSE), TRUE)
            t == Push(s, h)
            up == TRUE
<1>1. OnTop("trigger") /\ Top.at = "native" /\ UNCHANGED dom
  BY DEF TriggerMethod
<1>2. (stack' = s /\ triggered' = triggered) \/ (stack' = t /\ triggered' = up)
  BY DEF TriggerMethod
<1>3. /\ stack # <<>> /\ Len(stack) \in Nat /\ Len(stack) > 0
      /\ Top = stack[Len(stack)] /\ Top \in Frame /\ Top.k = "trigger"
  BY <1>1, TopIs DEF CallsRight
<1>4. Top \in TriggerFrames
  BY <1>3, FrameIs
<1>5. Top.e \in Elem /\ Top.ev.type \in PageTypes
  BY <1>4 DEF TriggerFrames, EventObjects
<1>6. g \in TriggerFrames /\ g.k = "trigger" /\ g.at = "bubble"
  BY <1>4 DEF TriggerFrames
<1>7. h \in Frame /\ h.k = "native"
  <2>1. Event(Top.ev.type, FALSE, Top.e, FALSE) \in EventObjects /\ PathFrom(Top.e) \in Paths
    BY <1>5, EventIs, PathIs
  <2>. QED
    BY <2>1, NativeFrameIs
<1>. HIDE DEF g, h
<1>8. g \in Frame
  BY <1>6 DEF Frame
<1>9. Replaced(stack, s, g)
  BY <1>3, <1>8, ReplaceIs DEF CallsRight, SetTop
<1>. HIDE DEF s
<1>10. Shape(s, triggered, dom)
  BY <1>1, <1>3, <1>6, <1>9, TriggerKeeps DEF CallsRight
<1>11. IsStack(s) /\ Len(s) \in Nat /\ Len(s) > 0 /\ s[Len(s)] = g
  BY <1>9, ReplacedIs DEF CallsRight
<1>12. CASE stack' = s /\ triggered' = triggered
  BY <1>1, <1>10, <1>11, <1>12, CallsStep DEF CallsRight
<1>13. CASE stack' = t /\ triggered' = up
  <2>1. Pushed(s, t, h)
    BY <1>7, <1>11, PushIs
  <2>. HIDE DEF t
  <2>2. Shape(t, up, dom)
    BY <1>6, <1>7, <1>10, <1>11, <2>1, RaiseKeeps
  <2>3. IsStack(t) /\ up \in BOOLEAN
    BY <2>1 DEF Pushed
  <2>. HIDE DEF up
  <2>. QED
    BY <1>1, <1>13, <2>2, <2>3, CallsStep
<1>. QED
  BY <1>2, <1>12, <1>13

LEMMA LastIs ==
    ASSUME NEW s, IsStack(s), s # <<>>
    PROVE  Len(s) \in Nat /\ Len(s) > 0 /\ Last(s) = s[Len(s)] /\ Last(s) \in Frame
BY StackIs DEF Last

LEMMA EndedKeeps ==
    ASSUME NEW s, IsStack(s), NEW up, NEW m, Shape(s, up, m), NEW ev \in EventObjects
    PROVE  IsStack(Ended(s, ev)) /\ Shape(Ended(s, ev), up, m)
<1>1. CASE ~CalledBy("global", s)
  BY <1>1 DEF Ended
<1>2. CASE CalledBy("global", s)
  <2>. DEFINE g == [Last(s) EXCEPT !.ev = ev]
              t == Append(Front(s), g)
  <2>1. s # <<>> /\ Last(s).k = "global"
    BY <1>2 DEF CalledBy
  <2>2. Last(s) = s[Len(s)] /\ Last(s) \in GlobalFrames
    BY <2>1, LastIs, FrameIs
  <2>3. g \in GlobalFrames /\ Alike(s[Len(s)], g)
    BY <2>2 DEF GlobalFrames, Alike
  <2>4. g \in Frame
    BY <2>3 DEF Frame
  <2>5. Ended(s, ev) = t
    BY <1>2 DEF Ended
  <2>. HIDE DEF g
  <2>6. Replaced(s, t, g) /\ Shape(t, up, m)
    BY <2>1, <2>3, <2>4, SwapKeeps
  <2>. QED
    BY <2>5, <2>6 DEF Replaced
<1>. QED
  BY <1>1, <1>2

LEMMA TriggerParentCalls ==
    ASSUME CallsRight, TriggerParent
    PROVE  CallsRight'
<1>. DEFINE g == [Top EXCEPT !.at = "handle", !.e = doc, !.bubbling = TRUE]
            s == SetTop(g)
            u == Front(stack)
            t == Ended(u, Top.ev)
            up == FALSE
<1>1. OnTop("trigger") /\ UNCHANGED dom /\ triggered' = up
  BY DEF TriggerParent
<1>2. stack' = t \/ stack' = s
  BY DEF TriggerParent
<1>3. /\ stack # <<>> /\ Len(stack) \in Nat /\ Len(stack) > 0
      /\ Top = stack[Len(stack)] /\ Top \in Frame /\ Top.k = "trigger"
  BY <1>1, TopIs DEF CallsRight
<1>4. Top \in TriggerFrames
  BY <1>3, FrameIs
<1>5. Top.ev \in EventObjects /\ doc \in Elem
  BY <1>4, EventAssumption DEF TriggerFrames
<1>6. g \in TriggerFrames /\ g.k = "trigger"
  BY <1>4, <1>5 DEF TriggerFrames
<1>7. g \in Frame
  BY <1>6 DEF Frame
<1>8. Shape(stack, up, dom)
  BY <1>3, LowerKeeps DEF CallsRight
<1>9. up \in BOOLEAN /\ ~up
  OBVIOUS
<1>. HIDE DEF g, up
<1>10. CASE stack' = s
  <2>1. Replaced(stack, s, g)
    BY <1>3, <1>7, ReplaceIs DEF CallsRight, SetTop
  <2>. HIDE DEF s
  <2>2. Shape(s, up, dom)
    BY <1>3, <1>6, <1>8, <1>9, <2>1, TriggerKeeps
  <2>3. IsStack(s)
    BY <2>1 DEF Replaced
  <2>. QED
    BY <1>1, <1>9, <1>10, <2>2, <2>3, CallsStep
<1>11. CASE stack' = t
  <2>1. IsStack(u) /\ Shape(u, up, dom)
    BY <1>3, <1>8, <1>9, EndKeeps DEF CallsRight
  <2>. HIDE DEF u
  <2>2. IsStack(t) /\ Shape(t, up, dom)
    BY <1>5, <2>1, EndedKeeps
  <2>. QED
    BY <1>1, <1>9, <1>11, <2>2, CallsStep
<1>. QED
  BY <1>2, <1>10, <1>11

\* The last frame goes on, and may call a function of the page.
LEMMA SwapCalls ==
    ASSUME CallsRight, stack # <<>>, NEW g \in Frame, Alike(stack[Len(stack)], g),
           stack' = SetTop(g), UNCHANGED <<triggered, dom>>
    PROVE  CallsRight'
<1>. DEFINE s == SetTop(g)
<1>1. Replaced(stack, s, g) /\ Shape(s, triggered, dom)
  BY SwapKeeps DEF CallsRight, SetTop
<1>. HIDE DEF s
<1>2. IsStack(s) /\ stack' = s
  BY <1>1 DEF Replaced, s
<1>. QED
  BY <1>1, <1>2, CallsStep DEF CallsRight

LEMMA SwapPageCalls ==
    ASSUME CallsRight, stack # <<>>, NEW g \in Frame, Alike(stack[Len(stack)], g), g.k # "trigger",
           stack' = Push(SetTop(g), PageFrame), UNCHANGED <<triggered, dom>>
    PROVE  CallsRight'
<1>. DEFINE s == SetTop(g)
            t == Push(s, PageFrame)
<1>1. Replaced(stack, s, g) /\ Shape(s, triggered, dom)
  BY SwapKeeps DEF CallsRight, SetTop
<1>. HIDE DEF s
<1>2. IsStack(s) /\ Len(s) > 0 /\ s[Len(s)] = g
  BY <1>1, ReplacedIs DEF CallsRight
<1>3. IsStack(t) /\ Shape(t, triggered, dom)
  BY <1>1, <1>2, PageKeeps
<1>4. stack' = t
  BY DEF s
<1>. HIDE DEF t
<1>. QED
  BY <1>3, <1>4, CallsStep DEF CallsRight

LEMMA EndCalls ==
    ASSUME CallsRight, stack # <<>>, stack[Len(stack)].k \notin {"trigger", "ready"},
           stack' = Front(stack), UNCHANGED <<triggered, dom>>
    PROVE  CallsRight'
<1>1. IsStack(Front(stack)) /\ Shape(Front(stack), triggered, dom)
  BY EndKeeps DEF CallsRight
<1>. QED
  BY <1>1, CallsStep DEF CallsRight

\* A loop at the bottom of the stack is alone when it is at the top.
LEMMA BottomIs ==
    ASSUME CallsRight, NEW kind \in {"global", "unload", "ready"}, OnTop(kind)
    PROVE  /\ Len(stack) = 1 /\ stack[1] = Top /\ Top.k = kind /\ Top \in Frame /\ stack # <<>>
           /\ ~triggered
           /\ kind # "ready" => dom.owed = dom.list
           /\ kind = "ready" => dom.is /\ dom.owed = Top.todo
<1>1. /\ stack # <<>> /\ Len(stack) \in Nat /\ Len(stack) > 0
      /\ Top = stack[Len(stack)] /\ Top \in Frame /\ Top.k = kind
  BY TopIs DEF CallsRight
<1>2. Len(stack) = 1
  BY <1>1 DEF CallsRight, Shape, Callers
<1>3. ~triggered
  BY <1>1, <1>2 DEF CallsRight, Shape, Raised
<1>4. Owed(stack, dom)
  BY DEF CallsRight, Shape
<1>. QED
  BY <1>1, <1>2, <1>3, <1>4 DEF Owed

LEMMA GlobalNextCalls ==
    ASSUME CallsRight, NEW e \in Elem, GlobalNext(e)
    PROVE  CallsRight'
<1>. DEFINE g == [Top EXCEPT !.todo = Top.todo \ {e}]
            s == SetTop(g)
            h == TriggerFrame(e, [Top.ev EXCEPT !.target = e])
            t == Push(s, h)
<1>1. OnTop("global") /\ UNCHANGED <<triggered, dom>>
  BY DEF GlobalNext
<1>2. stack' = s \/ stack' = t
  BY DEF GlobalNext
<1>3. Len(stack) = 1 /\ stack[1] = Top /\ Top.k = "global" /\ Top \in Frame /\ stack # <<>>
  BY <1>1, BottomIs
<1>4. Top \in GlobalFrames
  BY <1>3, FrameIs
<1>5. g \in GlobalFrames /\ Alike(Top, g) /\ g.k = "global"
  BY <1>4 DEF GlobalFrames, Alike
<1>6. h \in Frame /\ h.k = "trigger"
  <2>1. [Top.ev EXCEPT !.target = e] \in EventObjects
    BY <1>4 DEF GlobalFrames, EventObjects
  <2>. QED
    BY <2>1, TriggerFrameIs
<1>. HIDE DEF g, h
<1>7. g \in Frame
  BY <1>5 DEF Frame
<1>8. CASE stack' = s
  BY <1>1, <1>3, <1>5, <1>7, <1>8, SwapCalls
<1>9. CASE stack' = t
  <2>1. Replaced(stack, s, g) /\ Shape(s, triggered, dom)
    BY <1>3, <1>5, <1>7, SwapKeeps DEF CallsRight, SetTop
  <2>. HIDE DEF s
  <2>2. IsStack(s) /\ Len(s) = 1 /\ s[1] = g
    BY <1>3, <2>1, ReplacedIs DEF CallsRight
  <2>3. Pushed(s, t, h)
    BY <1>6, <2>2, PushIs
  <2>. HIDE DEF t
  <2>4. \A i \in 1..Len(s) : ~NativeAt(s, i)
    BY <2>2 DEF NativeAt
  <2>5. Shape(t, triggered, dom)
    BY <1>5, <1>6, <2>1, <2>2, <2>3, <2>4, PushKeeps
  <2>. QED
    BY <1>1, <1>9, <2>3, <2>5, CallsStep DEF Pushed, CallsRight
<1>. QED
  BY <1>2, <1>8, <1>9

LEMMA GlobalEndsCalls ==
    ASSUME CallsRight, GlobalEnds
    PROVE  CallsRight'
<1>1. OnTop("global") /\ stack' = Front(stack) /\ UNCHANGED <<triggered, dom>>
  BY DEF GlobalEnds
<1>2. Len(stack) = 1 /\ stack[1].k = "global" /\ stack # <<>>
  BY <1>1, BottomIs
<1>. QED
  BY <1>1, <1>2, EndCalls

LEMMA UnloadNextCalls ==
    ASSUME CallsRight, NEW e \in Elem, UnloadNext(e)
    PROVE  CallsRight'
<1>. DEFINE g == [Top EXCEPT !.todo = Top.todo \ {e}]
<1>1. OnTop("unload") /\ stack' = SetTop(g) /\ UNCHANGED <<triggered, dom>>
  BY DEF UnloadNext
<1>2. Len(stack) = 1 /\ stack[1] = Top /\ Top.k = "unload" /\ Top \in Frame /\ stack # <<>>
  BY <1>1, BottomIs
<1>3. Top \in UnloadFrames
  BY <1>2, FrameIs
<1>4. g \in UnloadFrames /\ Alike(Top, g)
  BY <1>3 DEF UnloadFrames, Alike
<1>5. g \in Frame
  BY <1>4 DEF Frame
<1>. HIDE DEF g
<1>. QED
  BY <1>1, <1>2, <1>4, <1>5, SwapCalls

\* No call is left.
LEMMA NothingCalls ==
    ASSUME CallsRight, ~triggered, DomRight(dom'), dom'.owed = dom'.list, stack' = <<>>, UNCHANGED triggered
    PROVE  CallsRight'
<1>. DEFINE t == <<>>
<1>1. t \in Seq(Frame) /\ Len(t) = 0
  OBVIOUS
<1>. HIDE DEF t
<1>2. Shape(t, triggered, dom')
  BY <1>1, EmptyShape DEF CallsRight
<1>3. stack' = t
  BY DEF t
<1>. QED
  BY <1>1, <1>2, <1>3 DEF CallsRight, IsStack

LEMMA UnloadEndsCalls ==
    ASSUME CallsRight, UnloadEnds
    PROVE  CallsRight'
<1>1. OnTop("unload") /\ stack' = <<>> /\ UNCHANGED <<triggered, dom>>
  BY DEF UnloadEnds
<1>2. ~triggered /\ dom.owed = dom.list
  BY <1>1, BottomIs
<1>. QED
  BY <1>1, <1>2, NothingCalls DEF CallsRight

LEMMA LessIsOwed ==
    ASSUME NEW m, DomRight(m), m.owed > 0, NEW n, n = [m EXCEPT !.owed = m.owed - 1]
    PROVE  DomRight(n) /\ n.is = m.is /\ n.list = m.list /\ n.owed = m.owed - 1
<1>1. MaxReady \in Nat
  BY EventAssumption
<1>. DEFINE o == m.owed - 1
<1>2. o \in 0..MaxReady
  BY <1>1, DomIs
<1>. HIDE DEF o
<1>3. n = [m EXCEPT !.owed = o]
  BY DEF o
<1>. QED
  BY <1>2, <1>3 DEF DomRight, o

LEMMA ReadyNextCalls ==
    ASSUME CallsRight, ReadyNext
    PROVE  CallsRight'
<1>. DEFINE g == [Top EXCEPT !.todo = Top.todo - 1]
            s == SetTop(g)
            t == Push(s, PageFrame)
<1>1. OnTop("ready") /\ Top.todo > 0 /\ UNCHANGED triggered
      /\ dom' = [dom EXCEPT !.owed = dom.owed - 1]
  BY DEF ReadyNext
<1>2. stack' = t
  BY DEF ReadyNext
<1>3. /\ Len(stack) = 1 /\ stack[1] = Top /\ Top.k = "ready" /\ Top \in Frame /\ stack # <<>>
      /\ ~triggered /\ dom.is /\ dom.owed = Top.todo
  BY <1>1, BottomIs
<1>4. DomRight(dom') /\ dom'.is = dom.is /\ dom'.owed = dom.owed - 1
  <2>1. DomRight(dom) /\ dom.owed > 0
    BY <1>1, <1>3 DEF CallsRight
  <2>. QED
    BY <1>1, <2>1, LessIsOwed
<1>5. Top \in ReadyFrames
  BY <1>3, FrameIs
<1>6. g \in ReadyFrames /\ g.k = "ready" /\ g.todo = Top.todo - 1
  BY <1>1, <1>5 DEF ReadyFrames
<1>. HIDE DEF g
<1>7. g \in Frame
  BY <1>6 DEF Frame
<1>8. Replaced(stack, s, g)
  BY <1>3, <1>7, ReplaceIs DEF CallsRight, SetTop
<1>. HIDE DEF s
<1>9. IsStack(s) /\ Len(s) = 1 /\ s[1] = g
  BY <1>3, <1>8, ReplacedIs DEF CallsRight
<1>10. Owed(s, dom')
  BY <1>3, <1>4, <1>6, <1>9 DEF Owed
<1>11. Shape(s, triggered, dom')
  BY <1>3, <1>6, <1>9, <1>10, SingleShape DEF CallsRight
<1>12. IsStack(t) /\ Shape(t, triggered, dom')
  BY <1>6, <1>9, <1>11, PageKeeps
<1>. HIDE DEF t
<1>. QED
  BY <1>1, <1>2, <1>4, <1>12 DEF CallsRight

LEMMA ListDropped ==
    ASSUME NEW m, DomRight(m), NEW n, n = [m EXCEPT !.list = 0]
    PROVE  DomRight(n) /\ n.list = 0 /\ n.owed = m.owed
<1>1. 0 \in 0..MaxReady
  BY EventAssumption
<1>. QED
  BY <1>1 DEF DomRight

LEMMA ReadyEndsCalls ==
    ASSUME CallsRight, ReadyEnds
    PROVE  CallsRight'
<1>. DEFINE g == TriggerFrame(doc, Event("ready", FALSE, doc, TRUE))
            t == <<g>>
<1>1. OnTop("ready") /\ Top.todo = 0 /\ UNCHANGED triggered /\ dom' = [dom EXCEPT !.list = 0]
  BY DEF ReadyEnds
<1>2. stack' = t
  BY DEF ReadyEnds
<1>3. ~triggered /\ dom.owed = Top.todo
  BY <1>1, BottomIs
<1>4. DomRight(dom') /\ dom'.list = 0 /\ dom'.owed = 0
  <2>1. DomRight(dom)
    BY DEF CallsRight
  <2>. QED
    BY <1>1, <1>3, <2>1, ListDropped
<1>5. g \in Frame /\ g.k = "trigger"
  <2>1. doc \in Elem /\ "ready" \in PageTypes
    BY EventAssumption DEF PageTypes, Types
  <2>2. Event("ready", FALSE, doc, TRUE) \in EventObjects
    BY <2>1, EventIs
  <2>. QED
    BY <2>1, <2>2, TriggerFrameIs
<1>. HIDE DEF g
<1>6. t \in Seq(Frame) /\ Len(t) = 1 /\ t[1] = g
  BY <1>5
<1>. HIDE DEF t
<1>7. Owed(t, dom')
  BY <1>4, <1>5, <1>6 DEF Owed
<1>8. Shape(t, triggered, dom')
  BY <1>3, <1>5, <1>6, <1>7, SingleShape DEF CallsRight
<1>. QED
  BY <1>1, <1>2, <1>4, <1>6, <1>8 DEF CallsRight, IsStack

LEMMA PageListenerCalls ==
    ASSUME CallsRight, PageListener
    PROVE  CallsRight'
<1>. DEFINE g == [Top EXCEPT !.page = FALSE]
<1>1. OnTop("native") /\ stack' = Push(SetTop(g), PageFrame) /\ UNCHANGED <<triggered, dom>>
  BY DEF PageListener
<1>2. stack # <<>> /\ Top = stack[Len(stack)] /\ Top \in Frame /\ Top.k = "native"
  BY <1>1, TopIs DEF CallsRight
<1>3. Top \in NativeFrames
  BY <1>2, FrameIs
<1>4. g \in NativeFrames /\ Alike(Top, g) /\ g.k # "trigger"
  BY <1>3 DEF NativeFrames, Alike
<1>5. g \in Frame
  BY <1>4 DEF Frame
<1>. HIDE DEF g
<1>. QED
  BY <1>1, <1>2, <1>4, <1>5, SwapPageCalls

LEMMA SettledKeeps ==
    ASSUME NEW s, IsStack(s), s # <<>>, NEW up, NEW m, Shape(s, up, m), s[Len(s)].k = "native"
    PROVE  IsStack(Settled(s)) /\ Shape(Settled(s), up, m)
<1>1. Settled(s) = Front(s) \/ Settled(s) = s
  BY DEF Settled
<1>2. IsStack(Front(s)) /\ Shape(Front(s), up, m)
  BY EndKeeps
<1>. QED
  BY <1>1, <1>2

\* The owner of a handle function that listens is an element.
Owned(x) == \A l \in x.lis : l[3] \in Handles /\ x.own[l[3]] \in Elem

LEMMA DispatchCalls ==
    ASSUME CallsRight, Tabled(d), Owned(d), Dispatch
    PROVE  CallsRight'
<1>. DEFINE e == Head(Top.path)
            rest == IF Top.ev.stop THEN <<>> ELSE Tail(Top.path)
            none == {}
            g == [Top EXCEPT !.path = rest, !.called = none, !.page = FALSE]
            f(h) == [Top EXCEPT !.called = Top.called \cup {h}, !.page = FALSE]
            s(h) == SetTop(f(h))
            w(h) == HandleFrame(d, d.own[h], fix(Top.ev))
<1>1. OnTop("native") /\ UNCHANGED <<triggered, dom>>
  BY DEF Dispatch
<1>2. \/ stack' = Settled(SetTop(g))
      \/ ~triggered /\ \E h \in Handles : <<e, Top.ev.type, h>> \in d.lis /\ stack' = Push(s(h), w(h))
  BY DEF Dispatch
<1>3. /\ stack # <<>> /\ Len(stack) \in Nat /\ Len(stack) > 0
      /\ Top = stack[Len(stack)] /\ Top \in Frame /\ Top.k = "native"
  BY <1>1, TopIs DEF CallsRight
<1>4. Top \in NativeFrames
  BY <1>3, FrameIs
<1>5. CASE stack' = Settled(SetTop(g))
  <2>1. g.k = "native" /\ ~g.page /\ g.path = rest
    BY <1>4 DEF NativeFrames
  <2>2. CASE rest = <<>>
    <3>1. IsStack(Front(stack)) /\ Shape(Front(stack), triggered, dom)
      BY <1>3, EndKeeps DEF CallsRight
    <3>2. Settled(SetTop(g)) = Front(stack)
      <4>. HIDE DEF g
      <4>1. Front(SetTop(g)) = Front(stack) /\ Last(SetTop(g)) = g
        BY <3>1, FrontOfAppend DEF SetTop
      <4>. QED
        BY <2>1, <2>2, <4>1 DEF Settled
    <3>. QED
      BY <1>1, <1>5, <3>1, <3>2, CallsStep DEF CallsRight
  <2>3. CASE rest # <<>>
    <3>1. Top.path \in Seq(Elem) /\ Top.path # <<>>
      BY <1>4 DEF NativeFrames, Paths
    <3>2. rest \in Paths
      BY <2>3, <3>1, HeadTailProperties DEF Paths
    <3>. HIDE DEF rest
    <3>3. g \in NativeFrames /\ Alike(Top, g)
      BY <1>4, <3>2 DEF NativeFrames, Alike
    <3>4. g \in Frame
      BY <3>3 DEF Frame
    <3>. HIDE DEF g
    <3>. DEFINE t == SetTop(g)
    <3>5. Replaced(stack, t, g) /\ Shape(t, triggered, dom)
      BY <1>3, <3>3, <3>4, SwapKeeps DEF CallsRight, SetTop
    <3>. HIDE DEF t
    <3>6. IsStack(t) /\ t # <<>> /\ t[Len(t)].k = "native"
      BY <2>1, <3>5, ReplacedIs DEF CallsRight
    <3>7. IsStack(Settled(t)) /\ Shape(Settled(t), triggered, dom) /\ stack' = Settled(t)
      BY <1>5, <3>5, <3>6, SettledKeeps DEF t
    <3>. QED
      BY <1>1, <3>7, CallsStep DEF CallsRight
  <2>. QED
    BY <2>2, <2>3
<1>6. ASSUME ~triggered, NEW h \in Handles, <<e, Top.ev.type, h>> \in d.lis, stack' = Push(s(h), w(h))
      PROVE  CallsRight'
  <2>. DEFINE o == f(h)
              u == s(h)
              v == w(h)
              t == Push(u, v)
  <2>1. d.own[h] \in Elem
    <3>. DEFINE l == <<e, Top.ev.type, h>>
    <3>1. l \in d.lis /\ l[3] = h
      BY <1>6
    <3>. HIDE DEF l
    <3>. QED
      BY <3>1 DEF Owned
  <2>2. fix(Top.ev) \in EventObjects
    BY <1>4 DEF fix, NativeFrames, EventObjects
  <2>3. v \in Frame /\ v.k = "handle"
    BY <2>1, <2>2, HandleFrameIs
  <2>4. o \in NativeFrames /\ Alike(Top, o) /\ o.k = "native"
    BY <1>4 DEF NativeFrames, Alike
  <2>5. o \in Frame
    BY <2>4 DEF Frame
  <2>6. u = SetTop(o) /\ stack' = t
    BY <1>6
  <2>. HIDE DEF o, u, v, f, s, w
  <2>7. Replaced(stack, u, o) /\ Shape(u, triggered, dom)
    BY <1>3, <2>4, <2>5, <2>6, SwapKeeps DEF CallsRight, SetTop
  <2>8. IsStack(u) /\ Len(u) \in Nat /\ Len(u) > 0 /\ u[Len(u)] = o
    BY <2>7, ReplacedIs DEF CallsRight
  <2>9. Pushed(u, t, v)
    BY <2>3, <2>8, PushIs
  <2>. HIDE DEF t
  <2>10. Shape(t, triggered, dom)
    BY <1>6, <2>3, <2>4, <2>7, <2>8, <2>9, PushKeeps
  <2>. QED
    BY <1>1, <2>6, <2>9, <2>10, CallsStep DEF Pushed, CallsRight
<1>. QED
  BY <1>2, <1>5, <1>6

\* The loop of handle.
LEMMA WithoutIs ==
    ASSUME CallsRight, NEW f, OnTop("handle")
    PROVE  /\ Replaced(stack, Without(f), [Top EXCEPT !.todo = Top.todo \ {f}])
           /\ Shape(Without(f), triggered, dom) /\ IsStack(Without(f)) /\ Len(Without(f)) = Len(stack)
           /\ Len(stack) \in Nat /\ Len(stack) > 0 /\ stack # <<>>
           /\ Top \in HandleFrames /\ Top = stack[Len(stack)] /\ Top.k = "handle"
           /\ Without(f)[Len(stack)].k = "handle" /\ Without(f)[Len(stack)].t = Top.t
<1>. DEFINE g == [Top EXCEPT !.todo = Top.todo \ {f}]
            s == Without(f)
<1>1. stack # <<>> /\ Top = stack[Len(stack)] /\ Top \in Frame /\ Top.k = "handle"
  BY TopIs DEF CallsRight
<1>2. Top \in HandleFrames
  BY <1>1, FrameIs
<1>3. g \in HandleFrames /\ Alike(Top, g) /\ g.k = "handle" /\ g.t = Top.t
  BY <1>2 DEF HandleFrames, Alike
<1>4. g \in Frame
  BY <1>3 DEF Frame
<1>5. s = SetTop(g)
  BY DEF Without
<1>. HIDE DEF g, s
<1>6. Replaced(stack, s, g) /\ Shape(s, triggered, dom)
  BY <1>1, <1>3, <1>4, <1>5, SwapKeeps DEF CallsRight, SetTop
<1>7. IsStack(s) /\ Len(s) = Len(stack) /\ Len(stack) \in Nat /\ Len(stack) > 0 /\ s[Len(s)] = g
  BY <1>6, ReplacedIs DEF CallsRight
<1>. QED
  BY <1>1, <1>2, <1>3, <1>6, <1>7 DEF g, s

LEMMA PassOverCalls ==
    ASSUME CallsRight, NEW f, PassOver(f)
    PROVE  CallsRight'
<1>1. OnTop("handle") /\ stack' = Without(f) /\ UNCHANGED <<triggered, dom>>
  BY DEF PassOver, NextIs
<1>. QED
  BY <1>1, WithoutIs, CallsStep DEF CallsRight

LEMMA RunFunctionCalls ==
    ASSUME CallsRight, NEW f, RunFunction(f)
    PROVE  CallsRight'
<1>. DEFINE s == Without(f)
<1>1. OnTop("handle") /\ UNCHANGED <<triggered, dom>>
  BY DEF RunFunction, NextIs
<1>2. stack' = Push(Deadened(s, d'), PageFrame)
  BY DEF RunFunction
<1>3. Shape(s, triggered, dom) /\ IsStack(s) /\ Len(s) = Len(stack) /\ Len(s) \in Nat /\ Len(s) > 0
      /\ s[Len(s)].k = "handle"
  BY <1>1, WithoutIs
<1>. HIDE DEF s
<1>4. ASSUME NEW x
      PROVE  IsStack(Push(Deadened(s, x), PageFrame)) /\ Shape(Push(Deadened(s, x), PageFrame), triggered, dom)
  <2>. DEFINE u == Deadened(s, x)
  <2>1. /\ IsStack(u) /\ Shape(u, triggered, dom) /\ Len(u) = Len(s)
        /\ \A i \in 1..Len(s) : Alike(s[i], u[i])
    BY <1>3, DeadenedKeeps
  <2>. HIDE DEF u
  <2>2. u[Len(u)].k # "trigger"
    BY <1>3, <2>1 DEF Alike
  <2>3. IsStack(Push(u, PageFrame)) /\ Shape(Push(u, PageFrame), triggered, dom)
    BY <2>1, <2>2, PageKeeps
  <2>. QED
    BY <2>3 DEF u
<1>. DEFINE t == Push(Deadened(s, d'), PageFrame)
<1>5. IsStack(t) /\ Shape(t, triggered, dom)
  BY <1>4
<1>. HIDE DEF t
<1>6. stack' = t
  BY <1>2 DEF t
<1>. QED
  BY <1>1, <1>5, <1>6, CallsStep DEF CallsRight

LEMMA RunLiveCalls ==
    ASSUME CallsRight, Tabled(d), RunLive
    PROVE  CallsRight'
<1>. DEFINE l == "live"
            s == Without(l)
            h == LiveFrame(d)
            t == Push(s, h)
<1>1. OnTop("handle") /\ UNCHANGED <<triggered, dom>>
  BY DEF RunLive
<1>2. stack' = s \/ stack' = t
  BY DEF RunLive
<1>. HIDE DEF l
<1>3. Shape(s, triggered, dom) /\ IsStack(s) /\ Len(s) = Len(stack) /\ Len(s) \in Nat /\ Len(s) > 0
      /\ s[Len(s)].k = "handle"
  BY <1>1, WithoutIs
<1>4. h \in Frame /\ h.k = "live"
  BY LiveFrameIs
<1>. HIDE DEF s, h
<1>5. Pushed(s, t, h)
  BY <1>3, <1>4, PushIs
<1>. HIDE DEF t
<1>6. Shape(t, triggered, dom)
  BY <1>3, <1>4, <1>5, PushKeeps
<1>. QED
  BY <1>1, <1>2, <1>3, <1>5, <1>6, CallsStep DEF Pushed, CallsRight

\* withinElement is a handler of mouseover.
OverOnly(x) == \A e \in Elem : \A t \in Types : "within" \in DOMAIN Table(x, e, t) => t = "over"

LEMMA RunWithinCalls ==
    ASSUME CallsRight, Tabled(d), OverOnly(d), NEW outside, RunWithin(outside)
    PROVE  CallsRight'
<1>. DEFINE l == "within"
            s == Without(l)
            h == HandleFrame(d, Top.e, [Top.ev EXCEPT !.type = "enter"])
            t == Push(s, h)
<1>1. OnTop("handle") /\ l \in DOMAIN Table(d, Top.e, Top.t) /\ UNCHANGED <<triggered, dom>>
  BY DEF RunWithin, Present
<1>2. stack' = s \/ stack' = t
  BY DEF RunWithin
<1>3. Top \in HandleFrames
  BY <1>1, WithoutIs
<1>4. Top.t = "over" /\ Top.e \in Elem
  BY <1>1, <1>3 DEF HandleFrames, OverOnly
<1>5. h \in Frame /\ h.k = "handle"
  <2>1. [Top.ev EXCEPT !.type = "enter"] \in EventObjects
    BY <1>3 DEF HandleFrames, EventObjects, PageTypes, Types
  <2>. QED
    BY <1>4, <2>1, HandleFrameIs
<1>. HIDE DEF l, h
<1>6. Shape(s, triggered, dom) /\ IsStack(s) /\ Len(s) = Len(stack) /\ Len(s) \in Nat /\ Len(s) > 0
      /\ s[Len(s)].k = "handle" /\ s[Len(s)].t = "over"
  BY <1>1, <1>4, WithoutIs
<1>. HIDE DEF s
<1>7. Pushed(s, t, h)
  BY <1>5, <1>6, PushIs
<1>. HIDE DEF t
<1>8. Shape(t, triggered, dom)
  BY <1>5, <1>6, <1>7, PushKeeps
<1>. QED
  BY <1>1, <1>2, <1>6, <1>7, <1>8, CallsStep DEF Pushed, CallsRight

LEMMA HandleEndsCalls ==
    ASSUME CallsRight, HandleEnds
    PROVE  CallsRight'
<1>. DEFINE s == Front(stack)
            below == Last(s)
            g == [below EXCEPT !.ev = [below.ev EXCEPT !.stop = below.ev.stop \/ Top.ev.stop]]
            h == [below EXCEPT !.ev = Top.ev]
<1>1. OnTop("handle") /\ UNCHANGED <<triggered, dom>>
  BY DEF HandleEnds
<1>2. IF below.k = "native"
      THEN stack' = Settled(Append(Front(s), g))
      ELSE stack' = Append(Front(s), h)
  BY DEF HandleEnds
<1>3. /\ stack # <<>> /\ Len(stack) \in Nat /\ Len(stack) > 0
      /\ Top = stack[Len(stack)] /\ Top \in Frame /\ Top.k = "handle"
  BY <1>1, TopIs DEF CallsRight
<1>4. Top.ev \in EventObjects
  BY <1>3, FrameIs DEF HandleFrames
<1>5. /\ IsStack(s) /\ Shape(s, triggered, dom) /\ Len(s) = Len(stack) - 1
      /\ \A i \in 1..(Len(stack) - 1) : s[i] = stack[i]
  BY <1>3, EndKeeps DEF CallsRight
<1>. HIDE DEF s
<1>6. Len(s) > 0 /\ (s[Len(s)].k \in {"trigger", "native"} \/ (s[Len(s)].k = "handle" /\ s[Len(s)].t = "over"))
  BY <1>3, <1>5 DEF CallsRight, Shape, Callers
<1>7. s # <<>> /\ below = s[Len(s)] /\ below \in Frame
  BY <1>5, <1>6, StackIs, LastIs
<1>. HIDE DEF below
<1>8. CASE below.k = "native"
  <2>. DEFINE t == Append(Front(s), g)
  <2>1. below \in NativeFrames
    BY <1>7, <1>8, FrameIs
  <2>2. g \in NativeFrames /\ Alike(below, g) /\ g.k = "native"
    <3>. DEFINE stop == below.ev.stop \/ Top.ev.stop
    <3>1. stop \in BOOLEAN
      BY <1>4, <2>1 DEF NativeFrames, EventObjects
    <3>. HIDE DEF stop
    <3>. DEFINE ev == [below.ev EXCEPT !.stop = stop]
    <3>2. ev \in EventObjects
      BY <2>1, <3>1 DEF NativeFrames, EventObjects
    <3>3. g = [below EXCEPT !.ev = ev]
      BY DEF stop
    <3>. HIDE DEF ev, g
    <3>. QED
      BY <2>1, <3>2, <3>3 DEF NativeFrames, Alike
  <2>3. g \in Frame
    BY <2>2 DEF Frame
  <2>. HIDE DEF g
  <2>4. Replaced(s, t, g) /\ Shape(t, triggered, dom)
    BY <1>5, <1>7, <2>2, <2>3, SwapKeeps
  <2>5. stack' = Settled(t)
    BY <1>2, <1>8
  <2>. HIDE DEF t
  <2>6. IsStack(t) /\ t # <<>> /\ t[Len(t)].k = "native"
    BY <1>5, <2>2, <2>4, ReplacedIs
  <2>7. IsStack(Settled(t)) /\ Shape(Settled(t), triggered, dom)
    BY <2>4, <2>6, SettledKeeps
  <2>. QED
    BY <1>1, <2>5, <2>7, CallsStep DEF CallsRight
<1>9. CASE below.k # "native"
  <2>. DEFINE t == Append(Front(s), h)
  <2>1. below \in TriggerFrames \/ (below \in HandleFrames /\ below.t = "over")
    BY <1>6, <1>7, <1>9, FrameIs
  <2>2. h \in Frame /\ Alike(below, h)
    <3>1. CASE below \in TriggerFrames
      <4>1. h \in TriggerFrames /\ Alike(below, h)
        BY <1>4, <3>1 DEF TriggerFrames, Alike
      <4>. QED
        BY <4>1 DEF Frame
    <3>2. CASE below \in HandleFrames /\ below.t = "over"
      <4>1. h \in HandleFrames /\ Alike(below, h)
        BY <1>4, <3>2 DEF HandleFrames, Alike
      <4>. QED
        BY <4>1 DEF Frame
    <3>. QED
      BY <2>1, <3>1, <3>2
  <2>. HIDE DEF h
  <2>3. Replaced(s, t, h) /\ Shape(t, triggered, dom)
    BY <1>5, <1>7, <2>2, SwapKeeps
  <2>4. stack' = t
    BY <1>2, <1>9
  <2>. QED
    BY <1>1, <2>3, <2>4, CallsStep DEF CallsRight, Replaced
<1>. QED
  BY <1>8, <1>9

LEMMA LiveRunsCalls ==
    ASSUME CallsRight, NEW f, LiveRuns(f)
    PROVE  CallsRight'
<1>. DEFINE g == [Top EXCEPT !.todo = Top.todo \ {f}]
<1>1. OnTop("live") /\ stack' = Push(SetTop(g), PageFrame) /\ UNCHANGED <<triggered, dom>>
  BY DEF LiveRuns
<1>2. stack # <<>> /\ Top = stack[Len(stack)] /\ Top \in Frame /\ Top.k = "live"
  BY <1>1, TopIs DEF CallsRight
<1>3. Top \in LiveFrames
  BY <1>2, FrameIs
<1>4. g \in LiveFrames /\ Alike(Top, g) /\ g.k # "trigger"
  BY <1>3 DEF LiveFrames, Alike
<1>5. g \in Frame
  BY <1>4 DEF Frame
<1>. HIDE DEF g
<1>. QED
  BY <1>1, <1>2, <1>4, <1>5, SwapPageCalls

LEMMA LiveEndsCalls ==
    ASSUME CallsRight, LiveEnds
    PROVE  CallsRight'
<1>1. OnTop("live") /\ stack' = Front(stack) /\ UNCHANGED <<triggered, dom>>
  BY DEF LiveEnds
<1>2. stack # <<>> /\ stack[Len(stack)].k = "live"
  BY <1>1, TopIs DEF CallsRight
<1>. QED
  BY <1>1, <1>2, EndCalls

\* What a handler answers changes its event object.
LEMMA AnswerKeeps ==
    ASSUME NEW s, IsStack(s), s # <<>>, Last(s).k = "handle", NEW up, NEW m, Shape(s, up, m)
    PROVE  /\ IsStack(Refused(s)) /\ Shape(Refused(s), up, m)
           /\ LET t == Append(Front(s), [Last(s) EXCEPT !.ev.stop = TRUE, !.ev.now = TRUE])
              IN  IsStack(t) /\ Shape(t, up, m)
<1>1. Last(s) = s[Len(s)] /\ Last(s) \in HandleFrames
  BY LastIs, FrameIs
<1>2. ASSUME NEW ev \in EventObjects, ev.type = Last(s).ev.type
      PROVE  LET t == Append(Front(s), [Last(s) EXCEPT !.ev = ev])
             IN  IsStack(t) /\ Shape(t, up, m)
  <2>. DEFINE w == Last(s)
              g == [w EXCEPT !.ev = ev]
              t == Append(Front(s), g)
  <2>1. w \in HandleFrames /\ ev.type = w.ev.type /\ w = s[Len(s)]
    BY <1>1, <1>2
  <2>. HIDE DEF w
  <2>2. g \in HandleFrames /\ Alike(w, g)
    BY <2>1 DEF HandleFrames, Alike
  <2>3. g \in Frame
    BY <2>2 DEF Frame
  <2>. HIDE DEF g
  <2>4. Replaced(s, t, g) /\ Shape(t, up, m)
    BY <2>1, <2>2, <2>3, SwapKeeps
  <2>5. IsStack(t) /\ Shape(t, up, m)
    BY <2>4 DEF Replaced
  <2>. QED
    BY <2>5 DEF g, w
<1>. DEFINE o == Last(s).ev
            refused == [o EXCEPT !.stop = TRUE, !.prevent = TRUE]
            stopped == [o EXCEPT !.stop = TRUE, !.now = TRUE]
<1>3. o \in EventObjects
  BY <1>1 DEF HandleFrames
<1>4. /\ refused \in EventObjects /\ refused.type = o.type
      /\ stopped \in EventObjects /\ stopped.type = o.type
  BY <1>3 DEF EventObjects
<1>5. Refused(s) = Append(Front(s), [Last(s) EXCEPT !.ev = refused])
  BY <1>1 DEF Refused, HandleFrames, EventObjects
<1>6. [Last(s) EXCEPT !.ev.stop = TRUE, !.ev.now = TRUE] = [Last(s) EXCEPT !.ev = stopped]
  BY <1>1 DEF HandleFrames, EventObjects
<1>. HIDE DEF refused, stopped
<1>. QED
  BY <1>2, <1>4, <1>5, <1>6

LEMMA ReturnCalls ==
    ASSUME CallsRight, NEW ret \in {"none", "false", "immediate"}, Return(ret)
    PROVE  CallsRight'
<1>. DEFINE s == Front(stack)
            u == Front(s)
            n == Append(Front(s), [Last(s) EXCEPT !.ev.stop = TRUE, !.ev.now = TRUE])
<1>1. OnTop("page") /\ UNCHANGED <<triggered, dom>>
  BY DEF Return
<1>2. stack' = CASE ret = "false" /\ CalledBy("live", s) -> Refused(u)
                 [] ret = "false" /\ CalledBy("handle", s) -> Refused(s)
                 [] ret = "immediate" /\ CalledBy("handle", s) -> n
                 [] OTHER -> s
  BY DEF Return
<1>3. /\ stack # <<>> /\ Len(stack) \in Nat /\ Len(stack) > 0
      /\ Top = stack[Len(stack)] /\ Top.k = "page"
  BY <1>1, TopIs DEF CallsRight
<1>4. /\ IsStack(s) /\ Shape(s, triggered, dom) /\ Len(s) = Len(stack) - 1
      /\ \A i \in 1..(Len(stack) - 1) : s[i] = stack[i]
  BY <1>3, EndKeeps DEF CallsRight
<1>. HIDE DEF s
<1>5. CASE ret = "false" /\ CalledBy("live", s)
  <2>1. s # <<>> /\ Last(s).k = "live" /\ Last(s) = s[Len(s)] /\ Len(s) \in Nat /\ Len(s) > 0
    BY <1>4, <1>5, LastIs DEF CalledBy
  <2>2. Len(s) > 1 /\ s[Len(s) - 1].k = "handle"
    BY <1>4, <2>1 DEF Shape, Callers
  <2>3. /\ IsStack(u) /\ Shape(u, triggered, dom) /\ Len(u) = Len(s) - 1
        /\ \A i \in 1..(Len(s) - 1) : u[i] = s[i]
    BY <1>4, <2>1, EndKeeps
  <2>. HIDE DEF u
  <2>4. u # <<>> /\ u[Len(u)].k = "handle"
    BY <2>1, <2>2, <2>3, StackIs
  <2>5. Last(u).k = "handle"
    BY <2>4 DEF Last
  <2>6. IsStack(Refused(u)) /\ Shape(Refused(u), triggered, dom)
    BY <2>3, <2>4, <2>5, AnswerKeeps
  <2>7. ~CalledBy("handle", s)
    BY <2>1 DEF CalledBy
  <2>8. stack' = Refused(u)
    BY <1>2, <1>5, <2>7
  <2>. QED
    BY <1>1, <2>6, <2>8, CallsStep DEF CallsRight
<1>6. CASE CalledBy("handle", s)
  <2>1. s # <<>> /\ Last(s).k = "handle"
    BY <1>6 DEF CalledBy
  <2>2. /\ IsStack(Refused(s)) /\ Shape(Refused(s), triggered, dom)
        /\ IsStack(n) /\ Shape(n, triggered, dom)
    BY <1>4, <2>1, AnswerKeeps
  <2>3. ~CalledBy("live", s)
    BY <2>1 DEF CalledBy
  <2>4. stack' = Refused(s) \/ stack' = n \/ stack' = s
    BY <1>2, <1>6, <2>3
  <2>. HIDE DEF n
  <2>. QED
    BY <1>1, <1>4, <2>2, <2>4, CallsStep DEF CallsRight
<1>7. CASE ~(ret = "false" /\ CalledBy("live", s)) /\ ~CalledBy("handle", s)
  <2>1. stack' = s
    BY <1>2, <1>7
  <2>. QED
    BY <1>1, <1>4, <2>1, CallsStep DEF CallsRight
<1>. QED
  BY <1>5, <1>6, <1>7

-----------------------------------------------------------------------------
(* An exception.                                                           *)

LEMMA NatOrder ==
    ASSUME NEW R, R = {p \in Nat \X Nat : p[1] < p[2]}
    PROVE  IsWellFoundedOn(R, Nat)
<1>1. R = OpToRel(<, Nat)
  BY DEF OpToRel
<1>. QED
  BY <1>1, NatLessThanWellFounded

\* Every set of frames of a stack has a last one.
LEMMA MaxIs ==
    ASSUME NEW n \in Nat, NEW T, T \subseteq 1..n, T # {}
    PROVE  Max(T) \in T /\ \A m \in T : m <= Max(T)
<1>. DEFINE U == {k \in Nat : n - k \in T}
<1>1. PICK R : R = {p \in Nat \X Nat : p[1] < p[2]}
  OBVIOUS
<1>2. IsWellFoundedOn(R, Nat)
  BY <1>1, NatOrder
<1>3. U \subseteq Nat /\ U # {}
  <2>1. PICK t \in T : TRUE
    OBVIOUS
  <2>2. n - t \in Nat /\ n - (n - t) = t
    OBVIOUS
  <2>3. n - t \in U
    BY <2>2
  <2>. QED
    BY <2>3
<1>4. PICK k \in U : \A j \in U : ~ (<<j, k>> \in R)
  BY <1>2, <1>3, WFMin
<1>5. \A i, j \in Nat : i < j => <<i, j>> \in R
  BY <1>1
<1>6. ASSUME NEW j \in U
      PROVE  k <= j
  <2>. HIDE DEF U
  <2>1. k \in Nat /\ j \in Nat
    BY <1>3
  <2>2. ~ (j < k)
    BY <1>4, <1>5, <2>1
  <2>. QED
    BY <2>1, <2>2
<1>7. \A t \in T : n - t \in U
  OBVIOUS
<1>8. n - k \in T /\ \A t \in T : n - k >= t
  BY <1>6, <1>7
<1>9. \E x \in T : \A y \in T : x >= y
  BY <1>8
<1>10. Max(T) \in T /\ \A y \in T : Max(T) >= y
  BY <1>9 DEF Max
<1>. QED
  BY <1>10

LEMMA NothingOwed ==
    ASSUME NEW m, DomRight(m), NEW n, n = [m EXCEPT !.list = 0, !.owed = 0]
    PROVE  DomRight(n) /\ n.list = 0 /\ n.owed = 0
<1>1. 0 \in 0..MaxReady
  BY EventAssumption
<1>. QED
  BY <1>1 DEF DomRight

LEMMA ThrowCalls ==
    ASSUME CallsRight, Throw
    PROVE  CallsRight'
<1>. DEFINE native == {i \in DOMAIN stack : stack[i].k = "native"}
            k == Max(native)
            s == SubSeq(stack, 1, k)
<1>1. /\ OnTop("page") /\ UNCHANGED triggered
      /\ stack' = IF native = {} THEN <<>> ELSE Settled(s)
      /\ dom' = IF native = {} /\ stack[1].k = "ready" THEN [dom EXCEPT !.list = 0, !.owed = 0] ELSE dom
  BY DEF Throw
<1>2. /\ stack # <<>> /\ Len(stack) \in Nat /\ Len(stack) > 0
      /\ Top = stack[Len(stack)] /\ Top.k = "page"
  BY <1>1, TopIs DEF CallsRight
<1>3. native = {i \in 1..Len(stack) : stack[i].k = "native"}
  BY StackIs DEF CallsRight
<1>. HIDE DEF native
<1>4. CASE native = {}
  <2>1. ~triggered
    BY <1>2, <1>3, <1>4 DEF CallsRight, Shape, Raised, NativeAt
  <2>2. DomRight(dom') /\ dom'.owed = dom'.list
    <3>1. CASE stack[1].k = "ready"
      <4>1. DomRight(dom) /\ dom' = [dom EXCEPT !.list = 0, !.owed = 0]
        BY <1>1, <1>4, <3>1 DEF CallsRight
      <4>. QED
        BY <4>1, NothingOwed
    <3>2. CASE stack[1].k # "ready"
      BY <1>1, <3>2 DEF CallsRight, Shape, Owed
    <3>. QED
      BY <3>1, <3>2
  <2>3. stack' = <<>>
    BY <1>1, <1>4
  <2>. QED
    BY <1>1, <2>1, <2>2, <2>3, NothingCalls
<1>5. CASE native # {}
  <2>1. k \in native /\ \A i \in native : i <= k
    BY <1>2, <1>3, <1>5, MaxIs
  <2>2. k \in 1..Len(stack) /\ stack[k].k = "native"
    BY <1>3, <2>1
  <2>. HIDE DEF k
  <2>3. CutTo(stack, s, k) /\ k \in 0..Len(stack)
    BY <1>2, <2>2, CutIs DEF CallsRight
  <2>. HIDE DEF s
  <2>4. \A i \in 1..Len(stack) : i > k + 1 => stack[i].k # "native"
    BY <1>2, <1>3, <2>1, <2>2
  <2>5. Shape(s, triggered, dom)
    BY <1>2, <2>2, <2>3, <2>4, CutKeeps DEF CallsRight
  <2>6. IsStack(s) /\ Len(s) = k /\ s[k] = stack[k]
    BY <2>2, <2>3 DEF CutTo
  <2>7. s # <<>>
    BY <2>2, <2>6, StackIs
  <2>8. IsStack(Settled(s)) /\ Shape(Settled(s), triggered, dom)
    BY <2>2, <2>5, <2>6, <2>7, SettledKeeps
  <2>9. stack' = Settled(s) /\ dom' = dom
    BY <1>1, <1>5
  <2>. QED
    BY <1>1, <2>8, <2>9, CallsStep DEF CallsRight
<1>. QED
  BY <1>4, <1>5

-----------------------------------------------------------------------------
(* The data and the steps.                                                 *)

\* A type has the library's handler it needs, unless the page took it.
Served(x, c) ==
    /\ \A e \in Elem : "enter" \in DOMAIN Events(x, e) =>
         <<e, "over">> \in c \/ "within" \in Bound(Events(x, e), "over")
    /\ Bound(Events(x, doc), "liveclick") # {} =>
         <<doc, "click">> \in c \/ "live" \in Bound(Events(x, doc), "click")

DataRight ==
    /\ Sound(d, leaked)
    /\ Served(d, cut)
    /\ \A e \in untouched : Get(d, e, "events") = None
    /\ attached \in SUBSET Elem /\ untouched \in SUBSET Elem /\ leaked \in SUBSET Elem

LEMMA SoundTables ==
    ASSUME NEW x, NEW L, Sound(x, L)
    PROVE  Tabled(x) /\ OverOnly(x)
<1>1. ASSUME NEW e \in Elem, NEW t \in Types
      PROVE  DOMAIN Table(x, e, t) \subseteq Handlers /\ ("within" \in DOMAIN Table(x, e, t) => t = "over")
  <2>1. Table(x, e, t) = TableIn(Events(x, e), t)
    BY TableOf
  <2>2. MapRight(e, Events(x, e))
    BY EventsRightIs DEF Sound
  <2>3. CASE t \in DOMAIN Events(x, e)
    <3>1. TableRight(e, t, Table(x, e, t))
      BY <2>1, <2>2, <2>3 DEF MapRight, TableIn
    <3>. QED
      BY <3>1, TablesAre DEF TableRight
  <2>4. CASE t \notin DOMAIN Events(x, e)
    <3>1. DOMAIN Table(x, e, t) = {}
      BY <2>1, <2>4, Empty DEF TableIn
    <3>. QED
      BY <3>1
  <2>. QED
    BY <2>3, <2>4
<1>. QED
  BY <1>1 DEF Tabled, OverOnly

LEMMA SoundOwners ==
    ASSUME NEW x, NEW L, Sound(x, L)
    PROVE  Owned(x)
<1>1. ASSUME NEW l \in x.lis
      PROVE  l[3] \in Handles /\ x.own[l[3]] \in Elem
  <2>1. PICK e \in Elem, t \in Types, h \in Handles : l = <<e, t, h>>
    BY DEF Sound, Mid, Whole
  <2>2. HandleRight(x, L, e) /\ ListenersRight(x, L, e)
    BY DEF Sound, Mid, Right
  <2>3. l[1] = e /\ l[3] = h
    BY <2>1
  <2>4. h = Mine(L, e) \/ (e \in L /\ h = Left(e))
    BY <2>2, <2>3 DEF ListenersRight
  <2>5. h[1] = e
    BY <2>4 DEF Mine, Left
  <2>6. CASE h = Mine(L, e)
    <3>1. t \in DOMAIN Events(x, e)
      BY <2>1, <2>2, <2>6 DEF ListenersRight
    <3>2. Get(x, e, "events") # None
      BY <3>1, EventsIs, Empty
    <3>3. Get(x, e, "handle") = h
      BY <2>2, <2>6, <3>2 DEF HandleRight
    <3>4. h \in DOMAIN x.own /\ x.own[h] = e
      BY <2>2, <2>5, <3>3 DEF HandleRight
    <3>. QED
      BY <2>3, <3>4
  <2>7. CASE e \in L /\ h = Left(e)
    <3>1. h \in DOMAIN x.own /\ x.own[h] = e
      BY <2>2, <2>5, <2>7 DEF HandleRight
    <3>. QED
      BY <2>3, <3>1
  <2>. QED
    BY <2>4, <2>6, <2>7
<1>. QED
  BY <1>1 DEF Owned

\* Where y has less than it needs, x had already less, or the page took it.
NeedsMet(x, y, e, c) ==
    /\ "enter" \in DOMAIN Events(y, e) /\ "within" \notin Bound(Events(y, e), "over") =>
         /\ "enter" \in DOMAIN Events(x, e)
         /\ <<e, "over">> \in c \/ "within" \notin Bound(Events(x, e), "over")
    /\ e = doc /\ Bound(Events(y, e), "liveclick") # {} /\ "live" \notin Bound(Events(y, e), "click") =>
         \/ <<doc, "click">> \in c
         \/ Bound(Events(x, e), "liveclick") # {} /\ "live" \notin Bound(Events(x, e), "click")

\* c has what c0 has, but for what a call of live has put back.
CutIsIn(c0, c, y, e) ==
    \A p \in c0 : p \in c \/ (p = <<doc, "click">> /\ e = doc /\ "live" \in Bound(Events(y, e), "click"))

LEMMA ServedStep ==
    ASSUME NEW x, NEW y, NEW e \in Elem, OnlyAt(x, y, e), NEW c0, NEW c, Served(x, c0),
           NeedsMet(x, y, e, c), CutIsIn(c0, c, y, e)
    PROVE  Served(y, c)
<1>1. \A q \in Elem : q # e => Events(y, q) = Events(x, q)
  BY OnlyAtEvents
<1>2. doc \in Elem
  BY EventAssumption
<1>3. \A q : <<q, "over">> \in c0 => <<q, "over">> \in c
  <2>1. \A q : <<q, "over">> # <<doc, "click">>
    OBVIOUS
  <2>. QED
    BY <2>1 DEF CutIsIn
<1>4. ASSUME NEW q \in Elem, "enter" \in DOMAIN Events(y, q)
      PROVE  <<q, "over">> \in c \/ "within" \in Bound(Events(y, q), "over")
  <2>1. CASE q # e
    BY <1>1, <1>3, <1>4, <2>1 DEF Served
  <2>2. CASE q = e
    BY <1>3, <1>4, <2>2 DEF Served, NeedsMet
  <2>. QED
    BY <2>1, <2>2
<1>5. ASSUME Bound(Events(y, doc), "liveclick") # {}
      PROVE  <<doc, "click">> \in c \/ "live" \in Bound(Events(y, doc), "click")
  <2>1. CASE doc # e
    BY <1>1, <1>2, <1>5, <2>1 DEF Served, CutIsIn
  <2>2. CASE doc = e
    BY <1>5, <2>2 DEF Served, NeedsMet, CutIsIn
  <2>. QED
    BY <2>1, <2>2
<1>. QED
  BY <1>4, <1>5 DEF Served

LEMMA CutNowKeeps ==
    ASSUME NEW y, d' = y, NEW c, Served(y, c),
           \A q \in Elem : "enter" \in DOMAIN Events(y, q) /\ "within" \notin Bound(Events(y, q), "over") =>
                             "enter" \in DOMAIN Events(d, q)
    PROVE  Served(y, CutNow(c))
<1>1. ASSUME NEW q \in Elem, <<q, "over">> \in c, "enter" \in DOMAIN Events(y, q), "enter" \in DOMAIN Events(d, q)
      PROVE  <<q, "over">> \in CutNow(c)
  <2>. DEFINE p == <<q, "over">>
  <2>1. p \in c /\ p[1] = q /\ p[2] = "over"
    BY <1>1
  <2>. HIDE DEF p
  <2>2. p \in CutNow(c)
    BY <1>1, <2>1 DEF CutNow
  <2>. QED
    BY <2>2 DEF p
<1>2. ASSUME <<doc, "click">> \in c, Bound(Events(y, doc), "liveclick") # {}
      PROVE  <<doc, "click">> \in CutNow(c)
  <2>1. Table(y, doc, "liveclick") # <<>>
    BY <1>2, TableOf, Empty DEF Bound
  <2>. QED
    BY <1>2, <2>1 DEF CutNow
<1>. QED
  BY <1>1, <1>2 DEF Served

\* A call of the page at e.
LEMMA DataStep ==
    ASSUME DataRight, NEW y, d' = y, NEW e \in Elem, OnlyAt(d, y, e), NEW L \in SUBSET Elem, Sound(y, L),
           NEW c, NeedsMet(d, y, e, c), CutIsIn(cut, c, y, e),
           cut' = CutNow(c), leaked' = L, attached' \in SUBSET Elem, untouched' \in SUBSET Elem,
           \A q \in untouched' : Get(y, q, "events") = None
    PROVE  DataRight'
<1>1. Served(y, c)
  BY ServedStep DEF DataRight
<1>2. \A q \in Elem : "enter" \in DOMAIN Events(y, q) /\ "within" \notin Bound(Events(y, q), "over") =>
                        "enter" \in DOMAIN Events(d, q)
  BY OnlyAtEvents DEF NeedsMet
<1>3. Served(y, CutNow(c))
  BY <1>1, <1>2, CutNowKeeps
<1>. HIDE DEF CutNow
<1>. QED
  BY <1>3 DEF DataRight

\* What Touch leaves.
LEMMA TouchKeeps ==
    ASSUME DataRight, NEW y, NEW e \in Elem, OnlyAt(d, y, e), Touch(e)
    PROVE  untouched' \in SUBSET Elem /\ \A q \in untouched' : Get(y, q, "events") = None
<1>1. untouched' = untouched \ {e}
  BY DEF Touch
<1>. QED
  BY <1>1 DEF DataRight, OnlyAt

LEMMA NeedsMetBy ==
    ASSUME NEW x, NEW y, NEW e, NEW c
    PROVE  /\ HasEnter(Events(x, e), Events(y, e)) /\ HasLive(Events(x, e), Events(y, e)) => NeedsMet(x, y, e, c)
           /\ SparesEnter(Events(x, e), Events(y, e)) /\ SparesLive(Events(x, e), Events(y, e)) => NeedsMet(x, y, e, c)
BY DEF HasEnter, HasLive, SparesEnter, SparesLive, NeedsMet

LEMMA BindData ==
    ASSUME DataRight, NEW b \in Bindings, Bind(b)
    PROVE  DataRight'
<1>. DEFINE y == add(d, b.e, b.t, b.f, b.kind, b.ns)
<1>1. /\ b.e \in Elem /\ b.t \in Types /\ b.f \in Fn /\ b.kind \in {"plain", "one"} /\ b.ns \in BOOLEAN
      /\ b.t # "liveclick"
  BY EventAssumption DEF Bind
<1>2. d' = y /\ Touch(b.e) /\ cut' = CutNow(cut) /\ leaked' = leaked /\ attached' = attached
  BY DEF Bind, Changed
<1>3. Adds(d, y, leaked, b.e, b.t)
  BY <1>1, AddBinds DEF DataRight
<1>. HIDE DEF y
<1>4. Sound(y, leaked) /\ OnlyAt(d, y, b.e) /\ NeedsMet(d, y, b.e, cut)
  BY <1>3, NeedsMetBy DEF Adds, Binds
<1>5. CutIsIn(cut, cut, y, b.e)
  BY DEF CutIsIn
<1>6. untouched' \in SUBSET Elem /\ \A q \in untouched' : Get(y, q, "events") = None
  BY <1>1, <1>2, <1>4, TouchKeeps
<1>. QED
  BY <1>1, <1>2, <1>4, <1>5, <1>6, DataStep DEF DataRight

LEMMA LiveData ==
    ASSUME DataRight, NEW b \in Bindings, Live(b)
    PROVE  DataRight'
<1>. DEFINE t == "liveclick"
            y == add(d, doc, b.t, b.f, b.kind, TRUE)
            c == cut \ {<<doc, "click">>}
<1>1. doc \in Elem /\ b.t = t /\ b.f \in Fn /\ b.kind = "plain"
  BY EventAssumption DEF Live
<1>2. d' = y /\ Touch(doc) /\ cut' = CutNow(c) /\ leaked' = leaked /\ attached' = attached
  BY DEF Live, Changed
<1>3. Adds(d, y, leaked, doc, b.t)
  <2>1. b.kind \in {"plain", "one"} /\ b.t \in Types
    BY <1>1 DEF Types
  <2>. QED
    BY <1>1, <2>1, AddBinds DEF DataRight
<1>. HIDE DEF y
<1>4. Sound(y, leaked) /\ OnlyAt(d, y, doc) /\ NeedsMet(d, y, doc, c) /\ "live" \in Bound(Events(y, doc), "click")
  BY <1>1, <1>3, NeedsMetBy DEF Adds, Binds
<1>5. CutIsIn(cut, c, y, doc)
  BY <1>4 DEF CutIsIn
<1>. HIDE DEF c
<1>6. untouched' \in SUBSET Elem /\ \A q \in untouched' : Get(y, q, "events") = None
  BY <1>1, <1>2, <1>4, TouchKeeps
<1>. QED
  BY <1>1, <1>2, <1>4, <1>5, <1>6, DataStep DEF DataRight

\* A call at e that only takes handlers away.
LEMMA LessData ==
    ASSUME DataRight, NEW y, d' = y, NEW e \in Elem, Lessens(d, y, leaked, e),
           NEW c, cut \subseteq c, NeedsMet(d, y, e, c), cut' = CutNow(c),
           untouched' \in SUBSET untouched, UNCHANGED <<leaked, attached>>
    PROVE  DataRight'
<1>1. Sound(y, leaked) /\ OnlyAt(d, y, e)
  BY DEF Lessens
<1>2. CutIsIn(cut, c, y, e)
  BY DEF CutIsIn
<1>3. untouched' \in SUBSET Elem /\ \A q \in untouched' : Get(y, q, "events") = None
  BY DEF DataRight, Lessens, OnlyAt
<1>. QED
  BY <1>1, <1>2, <1>3, DataStep DEF DataRight

LEMMA UnbindData ==
    ASSUME DataRight, NEW b \in Bindings, Unbind(b) \/ Die(b)
    PROVE  DataRight'
<1>1. b.e \in Elem /\ b.f \in Fn /\ doc \in Elem /\ (b.t = "liveclick" => b.e = doc)
  BY EventAssumption
<1>. DEFINE fs == {b.f}
            named == b.t = "liveclick"
            y == remove(d, b.e, b.t, fs, named)
<1>2. named \in BOOLEAN
  OBVIOUS
<1>3. /\ d' = y /\ Touch(b.e) /\ cut' = CutNow(cut) /\ UNCHANGED <<leaked, attached>>
  <2>1. CASE Unbind(b)
    <3>1. ~named
      BY <2>1 DEF Unbind
    <3>2. named = FALSE
      BY <3>1
    <3>. QED
      BY <2>1, <3>2 DEF Unbind, Changed
  <2>2. CASE Die(b)
    <3>1. named = TRUE /\ b.e = doc
      BY <1>1, <2>2 DEF Die
    <3>. QED
      BY <2>2, <3>1 DEF Die, Changed
  <2>. QED
    BY <2>1, <2>2
<1>4. MayTake(b.t, fs, FALSE, named)
  BY DEF MayTake
<1>5. "within" \notin fs /\ "live" \notin fs
  BY <1>1, EventAssumption
<1>. HIDE DEF fs, named
<1>6. Lessens(d, y, leaked, b.e) /\ TakesType(Events(d, b.e), Events(y, b.e), b.t, fs, FALSE, named)
  BY <1>1, <1>4, RemoveLessens DEF DataRight
<1>. HIDE DEF y
<1>7. SparesEnter(Events(d, b.e), Events(y, b.e)) /\ SparesLive(Events(d, b.e), Events(y, b.e))
  BY <1>5, <1>6, NeedsTaken
<1>8. NeedsMet(d, y, b.e, cut)
  BY <1>7, NeedsMetBy
<1>9. untouched' \in SUBSET untouched
  BY <1>3 DEF Touch
<1>. QED
  BY <1>1, <1>3, <1>6, <1>8, <1>9, LessData

LEMMA UnbindTypeData ==
    ASSUME DataRight, NEW e \in Elem, NEW t, NEW ns \in BOOLEAN, UnbindType(e, t, ns)
    PROVE  DataRight'
<1>. DEFINE fs == Matching(d, e, t, ns)
            none == FALSE
            y == remove(d, e, t, fs, none)
            c == IF ns THEN cut ELSE cut \cup {<<e, t>>}
<1>1. d' = y /\ Touch(e) /\ cut' = CutNow(c) /\ UNCHANGED <<leaked, attached>> /\ t # "liveclick"
  BY DEF UnbindType, Changed
<1>2. MayTake(t, fs, FALSE, none)
  BY <1>1 DEF MayTake
<1>3. ns => "within" \notin fs /\ "live" \notin fs
  BY <1>1, EventAssumption DEF Matching, Named
<1>. HIDE DEF fs, none
<1>4. Lessens(d, y, leaked, e) /\ TakesType(Events(d, e), Events(y, e), t, fs, FALSE, none)
  BY <1>2, RemoveLessens DEF DataRight
<1>. HIDE DEF y
<1>5. /\ "enter" \in DOMAIN Events(y, e) => "enter" \in DOMAIN Events(d, e)
      /\ Bound(Events(y, e), "liveclick") # {} => Bound(Events(d, e), "liveclick") # {}
      /\ ~(t = "over" /\ "within" \in fs) => SparesEnter(Events(d, e), Events(y, e))
      /\ ~(t = "click" /\ "live" \in fs) => SparesLive(Events(d, e), Events(y, e))
  BY <1>4, NeedsTaken
<1>6. CASE ns
  <2>1. NeedsMet(d, y, e, c)
    BY <1>3, <1>5, <1>6, NeedsMetBy
  <2>. QED
    BY <1>1, <1>4, <1>6, <2>1, LessData DEF Touch
<1>7. CASE ~ns
  <2>1. NeedsMet(d, y, e, c)
    BY <1>5, <1>7 DEF NeedsMet, SparesEnter, SparesLive
  <2>2. cut \subseteq c /\ untouched' \in SUBSET untouched
    BY <1>1, <1>7 DEF Touch
  <2>. HIDE DEF c
  <2>. QED
    BY <1>1, <1>4, <2>1, <2>2, LessData
<1>. QED
  BY <1>6, <1>7

LEMMA UnbindBothData ==
    ASSUME DataRight, NEW e \in Elem, NEW t1, NEW t2, NEW f \in Fn, UnbindBoth(e, t1, t2, f)
    PROVE  DataRight'
<1>. DEFINE y == RemoveBoth(d, e, t1, t2, f)
<1>1. d' = y /\ Touch(e) /\ cut' = CutNow(cut) /\ UNCHANGED <<leaked, attached>> /\ "liveclick" \notin {t1, t2}
  BY DEF UnbindBoth, Changed
<1>2. /\ Lessens(d, y, leaked, e)
      /\ SparesEnter(Events(d, e), Events(y, e)) /\ SparesLive(Events(d, e), Events(y, e))
  BY <1>1, RemoveBothLessens DEF DataRight
<1>. HIDE DEF y
<1>3. NeedsMet(d, y, e, cut)
  BY <1>2, NeedsMetBy
<1>4. untouched' \in SUBSET untouched
  BY <1>1 DEF Touch
<1>. QED
  BY <1>1, <1>2, <1>3, <1>4, LessData

LEMMA AllTaken ==
    ASSUME DataRight, NEW e \in Elem
    PROVE  Lessens(d, RemoveAll(d, e), leaked, e)
           /\ NeedsMet(d, RemoveAll(d, e), e, cut \cup {<<e, "click">>, <<e, "over">>})
<1>1. Lessens(d, RemoveAll(d, e), leaked, e)
  BY RemoveAllLessens DEF DataRight
<1>. QED
  BY <1>1 DEF Lessens, NeedsMet

LEMMA UnbindAllData ==
    ASSUME DataRight, NEW e \in Elem, UnbindAll(e)
    PROVE  DataRight'
<1>. DEFINE y == RemoveAll(d, e)
            c == cut \cup {<<e, "click">>, <<e, "over">>}
<1>1. d' = y /\ Touch(e) /\ cut' = CutNow(c) /\ UNCHANGED <<leaked, attached>>
  BY DEF UnbindAll, Changed
<1>2. Lessens(d, y, leaked, e) /\ NeedsMet(d, y, e, c)
  BY AllTaken
<1>3. untouched' \in SUBSET untouched /\ cut \subseteq c
  BY <1>1 DEF Touch
<1>. HIDE DEF y, c
<1>. QED
  BY <1>1, <1>2, <1>3, LessData

\* Who has left a handle behind once the data of e are dropped.
LeftBy(x, L, e) == IF Get(x, e, "events") # None THEN L \cup {e} ELSE L

LEMMA DropElement ==
    ASSUME NEW x, NEW L, Sound(x, L), NEW e \in Elem, Get(x, e, "events") # None => e \notin L
    PROVE  /\ Sound(Drop(x, e), LeftBy(x, L, e)) /\ OnlyAt(x, Drop(x, e), e)
           /\ \A n : Get(Drop(x, e), e, n) = None
<1>. DEFINE y == Drop(x, e)
            M == LeftBy(x, L, e)
<1>1. /\ Kept(y) /\ SameRest(x, y) /\ \A n : Get(y, e, n) = None
      /\ \A q \in Elem : \A n : q # e => Get(y, q, n) = Get(x, q, n)
  BY DropKeeps DEF Sound, Mid
<1>2. \A q : q # e => (q \in M <=> q \in L)
  BY DEF LeftBy
<1>. HIDE DEF y
<1>3. y.own = x.own /\ y.lis = x.lis /\ y.ns = x.ns
  BY <1>1 DEF SameRest
<1>4. OnlyAt(x, y, e)
  BY <1>1, <1>3 DEF OnlyAt
<1>5. Events(y, e) = <<>> /\ \A t : t \notin DOMAIN Events(y, e)
  BY <1>1, EventsIs, Empty
<1>6. HandleRight(x, L, e) /\ ListenersRight(x, L, e)
  BY DEF Sound, Mid, Right
<1>7. Right(y, M, e)
  <2>1. CASE Get(x, e, "events") # None
    <3>1. e \notin L /\ e \in M /\ Get(x, e, "handle") = Left(e)
      BY <1>6, <2>1 DEF HandleRight, LeftBy, Mine, Left
    <3>2. Mine(L, e) = Left(e) /\ Mine(M, e) # Left(e)
      BY <3>1 DEF Mine, Left
    <3>. HIDE DEF M
    <3>3. HandleRight(y, M, e)
      <4>1. None \notin Handles
        BY EventAssumption
      <4>2. ASSUME NEW h \in Handles, h[1] = e
            PROVE  /\ (h \in DOMAIN y.own <=> (Get(y, e, "handle") = h \/ (e \in M /\ h = Left(e))))
                   /\ h \in DOMAIN y.own => y.own[h] = e
        BY <1>1, <1>3, <1>6, <3>1, <4>1, <4>2 DEF HandleRight
      <4>. QED
        BY <1>1, <4>2 DEF HandleRight
    <3>4. ListenersRight(y, M, e)
      <4>1. ASSUME NEW t
            PROVE  <<e, t, Mine(M, e)>> \notin y.lis
        BY <1>3, <1>6, <3>1, <3>2 DEF ListenersRight
      <4>. QED
        BY <1>3, <1>5, <1>6, <3>1, <3>2, <4>1 DEF ListenersRight
    <3>. QED
      BY <1>1, <3>3, <3>4 DEF Right, EventsRight
  <2>2. CASE Get(x, e, "events") = None
    <3>1. M = L
      BY <2>2 DEF LeftBy
    <3>2. Get(x, e, "handle") = None /\ Events(x, e) = <<>>
      BY <1>6, <2>2, EventsIs DEF HandleRight
    <3>3. Events(x, e) = Events(y, e)
      BY <1>5, <3>2
    <3>. HIDE DEF M
    <3>4. HandleRight(y, L, e)
      BY <1>1, <1>3, <1>6, <3>2, <2>2 DEF HandleRight
    <3>5. ListenersRight(y, L, e)
      BY <1>3, <1>6, <3>3 DEF ListenersRight
    <3>. QED
      BY <1>1, <3>1, <3>4, <3>5 DEF Right, EventsRight
  <2>. QED
    BY <2>1, <2>2
<1>. HIDE DEF M
<1>8. ASSUME NEW q \in Elem, q # e
      PROVE  Right(y, M, q)
  <2>1. Right(y, L, q)
    BY <1>4, <1>8, OthersRight DEF Sound
  <2>2. Mine(M, q) = Mine(L, q) /\ (q \in M <=> q \in L)
    BY <1>2, <1>8 DEF Mine
  <2>3. HandleRight(y, M, q)
    BY <2>1, <2>2 DEF Right, HandleRight
  <2>4. ListenersRight(y, M, q)
    BY <2>1, <2>2 DEF Right, ListenersRight
  <2>. QED
    BY <2>1, <2>3, <2>4 DEF Right
<1>9. Whole(y)
  BY <1>3 DEF Sound, Mid, Whole
<1>10. Mid(y, M)
  BY <1>1, <1>7, <1>8, <1>9 DEF Mid
<1>11. NoIdle(Events(y, e))
  BY <1>5, EmptyBounds
<1>12. Sound(y, M)
  BY <1>1, <1>4, <1>10, <1>11, OnlyAtEvents DEF Sound
<1>. QED
  BY <1>1, <1>4, <1>12 DEF y, M

LEMMA RemoveElementData ==
    ASSUME DataRight, NEW e \in Elem, RemoveElement(e)
    PROVE  DataRight'
<1>. DEFINE x == RemoveAll(d, e)
            y == Drop(x, e)
            M == LeftBy(x, leaked, e)
<1>1. /\ d' = y /\ attached' = attached \ {e} /\ untouched' = untouched \cup {e}
      /\ leaked' = M /\ cut' = CutNow(cut)
      /\ Get(x, e, "events") # None => e \notin leaked
  BY DEF RemoveElement, Changed, LeftBy
<1>2. Sound(x, leaked) /\ OnlyAt(d, x, e)
  BY RemoveAllLessens DEF DataRight, Lessens
<1>. HIDE DEF x
<1>3. Sound(y, M) /\ OnlyAt(x, y, e) /\ \A n : Get(y, e, n) = None
  BY <1>1, <1>2, DropElement
<1>4. M \in SUBSET Elem
  BY DEF LeftBy, DataRight
<1>. HIDE DEF y, M
<1>5. OnlyAt(d, y, e)
  BY <1>2, <1>3, OnlyAtTwice
<1>6. Events(y, e) = <<>>
  BY <1>3, EventsIs
<1>7. NeedsMet(d, y, e, cut) /\ CutIsIn(cut, cut, y, e)
  BY <1>6, EmptyBounds DEF NeedsMet, CutIsIn
<1>8. \A q \in untouched' : Get(y, q, "events") = None
  BY <1>1, <1>3, <1>5 DEF DataRight, OnlyAt
<1>9. attached' \in SUBSET Elem /\ untouched' \in SUBSET Elem
  BY <1>1 DEF DataRight
<1>. QED
  BY <1>1, <1>3, <1>4, <1>5, <1>7, <1>8, <1>9, DataStep

\* A step that leaves the record as it is, but for entries that no call reads.
LEMMA SameStep ==
    ASSUME DataRight, NEW y, d' = y, Kept(y), SameRest(d, y),
           \A q \in Elem : /\ Get(y, q, "events") = Get(d, q, "events")
                          /\ Get(y, q, "handle") = Get(d, q, "handle"),
           UNCHANGED <<attached, leaked, cut>>, untouched' \in SUBSET untouched
    PROVE  DataRight'
<1>1. y.own = d.own /\ y.lis = d.lis /\ Whole(y)
  BY DEF SameRest, DataRight, Sound, Mid, Whole
<1>2. Sound(y, leaked) /\ \A q \in Elem : Events(y, q) = Events(d, q)
  BY <1>1, SameData DEF DataRight, Sound
<1>3. doc \in Elem
  BY EventAssumption
<1>4. Served(y, cut)
  BY <1>2, <1>3 DEF DataRight, Served
<1>. QED
  BY <1>2, <1>4 DEF DataRight

LEMMA StillStep ==
    ASSUME DataRight, UNCHANGED <<d, attached, leaked, cut>>, untouched' \in SUBSET untouched
    PROVE  DataRight'
BY DEF DataRight

LEMMA EntryStep ==
    ASSUME DataRight, NEW e \in Elem, d' = WithEntry(d, e), UNCHANGED <<attached, ghosts>>
    PROVE  DataRight'
<1>. DEFINE y == WithEntry(d, e)
<1>1. Kept(y) /\ SameRest(d, y) /\ \A q \in Elem : \A n : Get(y, q, n) = Get(d, q, n)
  BY WithEntryKeeps DEF DataRight, Sound, Mid
<1>. HIDE DEF y
<1>. QED
  BY <1>1, SameStep DEF y, ghosts

LEMMA TriggerHandlersData ==
    ASSUME DataRight, CallsRight, TriggerHandlers
    PROVE  DataRight'
<1>1. OnTop("trigger") /\ d' = WithEntry(d, Top.e) /\ UNCHANGED <<attached, ghosts>>
  BY DEF TriggerHandlers
<1>2. Top \in TriggerFrames
  BY <1>1, TopIs, FrameIs DEF CallsRight
<1>3. Top.e \in Elem
  BY <1>2 DEF TriggerFrames
<1>. QED
  BY <1>1, <1>3, EntryStep

LEMMA DispatchData ==
    ASSUME DataRight, Dispatch
    PROVE  DataRight'
<1>1. UNCHANGED <<attached, ghosts>>
  BY DEF Dispatch
<1>2. d' = d \/ \E h : <<Head(Top.path), Top.ev.type, h>> \in d.lis /\ d' = WithEntry(d, d.own[h])
  BY DEF Dispatch
<1>3. CASE d' = d
  BY <1>1, <1>3, StillStep DEF ghosts
<1>4. ASSUME NEW h, <<Head(Top.path), Top.ev.type, h>> \in d.lis, d' = WithEntry(d, d.own[h])
      PROVE  DataRight'
  <2>1. Owned(d)
    BY SoundOwners DEF DataRight
  <2>. DEFINE l == <<Head(Top.path), Top.ev.type, h>>
  <2>2. l \in d.lis /\ l[3] = h
    BY <1>4
  <2>. HIDE DEF l
  <2>3. d.own[h] \in Elem
    BY <2>1, <2>2 DEF Owned
  <2>. QED
    BY <1>1, <1>4, <2>3, EntryStep
<1>. QED
  BY <1>2, <1>3, <1>4

LEMMA RunLiveData ==
    ASSUME DataRight, CallsRight, RunLive
    PROVE  DataRight'
<1>. DEFINE e == Top.ev.target
            z == 0
            y == Put(d, e, "closest", z)
<1>1. OnTop("handle") /\ (d' = d \/ d' = y) /\ UNCHANGED <<attached, ghosts>>
  BY DEF RunLive, closest
<1>2. Top \in HandleFrames
  BY <1>1, TopIs, FrameIs DEF CallsRight
<1>3. e \in Elem
  BY <1>2 DEF HandleFrames, EventObjects
<1>4. CASE d' = d
  BY <1>1, <1>4, StillStep DEF ghosts
<1>5. CASE d' = y
  <2>. HIDE DEF e, z
  <2>1. /\ Kept(y) /\ SameRest(d, y)
        /\ \A n : n # "closest" => Get(y, e, n) = Get(d, e, n)
        /\ \A q \in Elem : \A n : q # e => Get(y, q, n) = Get(d, q, n)
    BY <1>3, PutKeeps DEF DataRight, Sound, Mid
  <2>. HIDE DEF y
  <2>2. \A q \in Elem : /\ Get(y, q, "events") = Get(d, q, "events")
                       /\ Get(y, q, "handle") = Get(d, q, "handle")
    BY <2>1
  <2>. QED
    BY <1>1, <1>5, <2>1, <2>2, SameStep DEF ghosts
<1>. QED
  BY <1>1, <1>4, <1>5

\* A handler of one that is still bound after it unbound itself: the type of its
\* event was changed by withinElement.
SpentAt(x, e, f) == SetTable(x, e, "over", [Table(x, e, "over") EXCEPT ![f] = "spent"])

LEMMA SpentKeeps ==
    ASSUME NEW x, NEW L, Sound(x, L), NEW e \in Elem, NEW f \in Fn, f \in Bound(Events(x, e), "over")
    PROVE  /\ Sound(SpentAt(x, e, f), L) /\ OnlyAt(x, SpentAt(x, e, f), e)
           /\ DOMAIN Events(SpentAt(x, e, f), e) = DOMAIN Events(x, e)
           /\ \A u : Bound(Events(SpentAt(x, e, f), e), u) = Bound(Events(x, e), u)
           /\ Get(x, e, "events") # None
<1>. DEFINE t == "over"
            m == Events(x, e)
            k == [Table(x, e, t) EXCEPT ![f] = "spent"]
            y == SpentAt(x, e, f)
            n == Assign(m, t, k)
<1>1. MapRight(e, m) /\ t \in Types
  BY EventsRightIs DEF Sound, Types
<1>2. t \in DOMAIN m /\ Get(x, e, "events") # None
  BY BoundEmpty, EventsIs, EmptyBounds
<1>3. Table(x, e, t) = TableIn(m, t)
  BY TableOf
<1>4. TableRight(e, t, TableIn(m, t)) /\ TableIn(m, t) \in Tables
  BY <1>1, <1>2 DEF MapRight, TableIn, TableRight
<1>5. k = Assign(TableIn(m, t), f, "spent") /\ DOMAIN k = Bound(m, t)
  <2>1. f \in DOMAIN TableIn(m, t) /\ IsFun(TableIn(m, t))
    BY <1>4, TablesAre DEF Bound
  <2>. QED
    BY <1>3, <2>1 DEF Assign, IsFun, Bound
<1>6. MayAdd(e, t, f, "spent")
  BY EventAssumption DEF MayAdd, Handlers, Kinds
<1>7. TableRight(e, t, k)
  BY <1>4, <1>5, <1>6, TableRightAssign
<1>8. y = SetTable(x, e, t, k)
  BY DEF SpentAt
<1>9. Goes(x, y, L, e, n)
  BY <1>1, <1>2, <1>7, <1>8, SetTableGoes DEF Sound
<1>. HIDE DEF y
<1>10. /\ DOMAIN n = DOMAIN m /\ n[t] = k
       /\ \A u \in DOMAIN m : u # t => n[u] = m[u]
  BY <1>2 DEF Assign
<1>. HIDE DEF k, n, m, t
<1>11. \A u : Bound(n, u) = Bound(m, u)
  <2>1. ASSUME NEW u, u \in DOMAIN m
        PROVE  Bound(n, u) = Bound(m, u)
    BY <1>5, <1>10, <2>1 DEF Bound, TableIn
  <2>2. ASSUME NEW u, u \notin DOMAIN m
        PROVE  Bound(n, u) = Bound(m, u)
    BY <1>10, <2>2, BoundEmpty
  <2>. QED
    BY <2>1, <2>2
<1>12. Mid(y, L) /\ OnlyAt(x, y, e) /\ Events(y, e) = n
  BY <1>9 DEF Goes
<1>13. n # <<>> /\ NoIdle(n)
  <2>1. n # <<>>
    BY <1>2, <1>10, Empty
  <2>2. NoIdle(m)
    BY DEF Sound, m
  <2>. QED
    BY <1>10, <1>11, <2>1, <2>2 DEF NoIdle
<1>14. Sound(y, L)
  BY <1>12, <1>13, OnlyAtEvents DEF Sound
<1>. QED
  BY <1>2, <1>10, <1>11, <1>12, <1>14 DEF y, m

LEMMA RunFunctionData ==
    ASSUME DataRight, CallsRight, NEW f \in Fn, RunFunction(f)
    PROVE  DataRight'
<1>. DEFINE e == Top.e
            t == Top.t
            fs == {f}
            none == FALSE
            type == Top.ev.type
            x == remove(d, e, type, fs, none)
<1>1. /\ OnTop("handle") /\ UNCHANGED <<attached, ghosts>>
      /\ \/ d' = d
         \/ d' = IF f \in DOMAIN Table(x, e, t)
                 THEN SetTable(x, e, t, [Table(x, e, t) EXCEPT ![f] = "spent"]) ELSE x
  BY DEF RunFunction, NextIs
<1>2. Top \in HandleFrames
  BY <1>1, TopIs, FrameIs DEF CallsRight
<1>3. e \in Elem /\ type \in PageTypes /\ (t = "over" \/ t = type)
  BY <1>2 DEF HandleFrames, EventObjects
<1>4. MayTake(type, fs, FALSE, none) /\ "within" \notin fs /\ "live" \notin fs
  BY <1>3, EventAssumption DEF MayTake, PageTypes
<1>5. f \in fs
  OBVIOUS
<1>. HIDE DEF e, t, fs, none, type
<1>6. Lessens(d, x, leaked, e) /\ TakesType(Events(d, e), Events(x, e), type, fs, FALSE, none)
  BY <1>3, <1>4, RemoveLessens DEF DataRight
<1>. HIDE DEF x
<1>7. SparesEnter(Events(d, e), Events(x, e)) /\ SparesLive(Events(d, e), Events(x, e))
  BY <1>4, <1>6, NeedsTaken
<1>8. ASSUME NEW y, d' = y, Sound(y, leaked), OnlyAt(x, y, e),
             DOMAIN Events(y, e) = DOMAIN Events(x, e),
             \A u : Bound(Events(y, e), u) = Bound(Events(x, e), u),
             y = x \/ Get(x, e, "events") # None
      PROVE  DataRight'
  <2>1. OnlyAt(d, y, e)
    BY <1>6, <1>8, OnlyAtTwice DEF Lessens
  <2>2. SparesEnter(Events(d, e), Events(y, e)) /\ SparesLive(Events(d, e), Events(y, e))
    BY <1>7, <1>8 DEF SparesEnter, SparesLive
  <2>3. NeedsMet(d, y, e, cut) /\ CutIsIn(cut, cut, y, e)
    BY <2>2, NeedsMetBy DEF CutIsIn
  <2>4. Served(y, cut)
    BY <1>3, <2>1, <2>3, ServedStep DEF DataRight
  <2>5. ASSUME NEW q \in untouched
        PROVE  Get(y, q, "events") = None
    <3>1. q \in Elem /\ Get(d, q, "events") = None
      BY DEF DataRight
    <3>2. CASE q # e
      BY <2>1, <3>1, <3>2 DEF OnlyAt
    <3>3. CASE q = e
      BY <1>6, <1>8, <3>1, <3>3 DEF Lessens
    <3>. QED
      BY <3>2, <3>3
  <2>. QED
    BY <1>1, <1>8, <2>4, <2>5 DEF DataRight, ghosts
<1>9. CASE d' = d
  BY <1>1, <1>9, StillStep DEF ghosts
<1>10. CASE d' = x
  <2>1. OnlyAt(x, x, e) /\ Sound(x, leaked)
    BY <1>6 DEF OnlyAt, Lessens
  <2>. QED
    BY <1>8, <1>10, <2>1
<1>11. CASE f \in DOMAIN Table(x, e, t) /\ d' = SetTable(x, e, t, [Table(x, e, t) EXCEPT ![f] = "spent"])
  <2>1. f \in Bound(Events(x, e), t)
    BY <1>11, TableOf DEF Bound
  <2>2. t = "over"
    BY <1>3, <1>5, <1>6, <2>1 DEF TakesType
  <2>. DEFINE y == SpentAt(x, e, f)
  <2>3. d' = y
    BY <1>11, <2>2 DEF SpentAt
  <2>4. Sound(x, leaked)
    BY <1>6 DEF Lessens
  <2>5. /\ Sound(y, leaked) /\ OnlyAt(x, y, e)
        /\ DOMAIN Events(y, e) = DOMAIN Events(x, e)
        /\ \A u : Bound(Events(y, e), u) = Bound(Events(x, e), u)
        /\ Get(x, e, "events") # None
    BY <1>3, <2>1, <2>2, <2>4, SpentKeeps
  <2>. HIDE DEF y
  <2>. QED
    BY <1>8, <2>3, <2>5
<1>. QED
  BY <1>1, <1>9, <1>10, <1>11

LEMMA UnloadNextData ==
    ASSUME DataRight, NEW e \in Elem, UnloadNext(e)
    PROVE  DataRight'
<1>. DEFINE h == Get(d, e, "handle")
<1>1. UNCHANGED <<attached, untouched, leaked>>
  BY DEF UnloadNext
<1>2. CASE h = None
  BY <1>1, <1>2, StillStep DEF UnloadNext
<1>3. CASE h # None
  <2>1. HandleRight(d, leaked, e)
    BY DEF DataRight, Sound, Mid, Right
  <2>2. h = Mine(leaked, e) /\ h \in Handles /\ h[1] = e
    BY <1>3, <2>1 DEF HandleRight, Mine, Handles
  <2>3. d.own[h] = e
    BY <2>1, <2>2 DEF HandleRight
  <2>. DEFINE y == RemoveAll(d, e)
              c == cut \cup {<<e, "click">>, <<e, "over">>}
  <2>4. d' = y /\ cut' = CutNow(c)
    BY <1>3, <2>3 DEF UnloadNext
  <2>5. Lessens(d, y, leaked, e) /\ NeedsMet(d, y, e, c)
    BY AllTaken
  <2>6. cut \subseteq c
    OBVIOUS
  <2>. HIDE DEF y, c
  <2>. QED
    BY <1>1, <2>4, <2>5, <2>6, LessData
<1>. QED
  BY <1>2, <1>3

-----------------------------------------------------------------------------
(* The inductive invariant.                                                *)

IInv == DataRight /\ CallsRight

LEMMA InitData == ASSUME Init PROVE DataRight
<1>. DEFINE none == <<>>
            free == [e \in Elem |-> None]
            marks == [f \in Fn |-> FALSE]
            x == [id |-> free, cache |-> none, own |-> none, lis |-> {}, ns |-> marks]
<1>1. d = x /\ attached = Elem /\ untouched = {} /\ leaked = {} /\ cut = {}
  BY DEF Init, NoData
<1>2. DOMAIN none = {} /\ IsFun(none)
  BY Empty
<1>3. free \in [Elem -> Ids \cup {None}] /\ (\A e \in Elem : free[e] = None) /\ marks \in [Fn -> BOOLEAN]
  OBVIOUS
<1>. HIDE DEF none, free, marks
<1>4. x.id = free /\ x.cache = none /\ x.own = none /\ x.lis = {} /\ x.ns = marks /\ Fields(x)
  BY DEF Fields
<1>. HIDE DEF x
<1>5. Linked(x)
  BY <1>2, <1>3, <1>4 DEF Linked
<1>6. Kept(x) /\ Whole(x)
  BY <1>2, <1>3, <1>4, <1>5 DEF Kept, Whole
<1>7. \A e, n : Get(x, e, n) = None
  BY <1>2, <1>4 DEF Get, HasEntry
<1>8. \A e : Events(x, e) = <<>> /\ DOMAIN Events(x, e) = {}
  BY <1>7, EventsIs, Empty
<1>9. \A e \in Elem : HandleRight(x, {}, e)
  <2>1. None \notin Handles
    BY EventAssumption
  <2>. QED
    BY <1>2, <1>4, <1>7, <2>1 DEF HandleRight
<1>10. \A e \in Elem : ListenersRight(x, {}, e)
  BY <1>4, <1>8 DEF ListenersRight
<1>11. \A e \in Elem : EventsRight(x, e)
  BY <1>7 DEF EventsRight
<1>12. Mid(x, {})
  BY <1>6, <1>9, <1>10, <1>11 DEF Mid, Right
<1>13. \A e : NoIdle(Events(x, e))
  BY <1>8, EmptyBounds
<1>14. Sound(x, {})
  BY <1>7, <1>12, <1>13 DEF Sound
<1>15. Served(x, {})
  <2>1. \A e, t : Bound(Events(x, e), t) = {}
    BY <1>8, BoundEmpty
  <2>. QED
    BY <1>8, <2>1 DEF Served
<1>. QED
  BY <1>1, <1>14, <1>15 DEF DataRight

LEMMA InitCalls == ASSUME Init PROVE CallsRight
<1>. DEFINE none == <<>>
            m == [is |-> FALSE, list |-> 0, owed |-> 0]
<1>1. stack = none /\ triggered = FALSE /\ dom = m
  BY DEF Init
<1>2. none \in Seq(Frame) /\ Len(none) = 0
  OBVIOUS
<1>3. m.owed = m.list /\ DomRight(m)
  BY EventAssumption DEF DomRight
<1>. HIDE DEF none, m
<1>4. Shape(none, FALSE, m)
  BY <1>2, <1>3, EmptyShape
<1>. QED
  BY <1>1, <1>2, <1>3, <1>4 DEF CallsRight, IsStack

LEMMA TriggerData ==
    ASSUME DataRight, NEW tr, Trigger(tr)
    PROVE  DataRight'
BY StillStep DEF Trigger, Touch

LEMMA AppendData ==
    ASSUME DataRight, NEW e \in Elem, AppendElement(e)
    PROVE  DataRight'
<1>1. /\ UNCHANGED <<d, leaked, cut>> /\ attached' = attached \cup {e} /\ untouched' = untouched \ {e}
  BY DEF AppendElement, Touch
<1>. QED
  BY <1>1 DEF DataRight

LEMMA AppendCalls ==
    ASSUME CallsRight, NEW e, AppendElement(e)
    PROVE  CallsRight'
BY DEF AppendElement, CallsRight

\* What is done to the record in a call of the page leaves the calls in order.
LEMMA PageData ==
    ASSUME DataRight, CallsRight, PageCalls
    PROVE  DataRight' /\ CallsRight'
<1>1. ASSUME NEW b \in Bindings, Bind(b)
      PROVE  DataRight' /\ CallsRight'
  BY <1>1, BindData, ChangedCalls DEF Bind
<1>2. ASSUME NEW b \in Bindings, Unbind(b)
      PROVE  DataRight' /\ CallsRight'
  BY <1>2, UnbindData, ChangedCalls DEF Unbind
<1>3. ASSUME NEW b \in Bindings, Live(b)
      PROVE  DataRight' /\ CallsRight'
  BY <1>3, LiveData, ChangedCalls DEF Live
<1>4. ASSUME NEW b \in Bindings, Die(b)
      PROVE  DataRight' /\ CallsRight'
  BY <1>4, UnbindData, ChangedCalls DEF Die
<1>5. ASSUME NEW b \in Bindings, NEW ns \in BOOLEAN, NEW t, UnbindType(b.e, t, ns)
      PROVE  DataRight' /\ CallsRight'
  <2>1. b.e \in Elem
    BY EventAssumption
  <2>2. DataRight'
    BY <1>5, <2>1, UnbindTypeData
  <2>3. CallsRight'
    BY <1>5, ChangedCalls DEF UnbindType
  <2>. QED
    BY <2>2, <2>3
<1>6. ASSUME NEW b1 \in Bindings, NEW b2 \in Bindings, UnbindBoth(b1.e, b1.t, b2.t, b1.f)
      PROVE  DataRight' /\ CallsRight'
  <2>1. b1.e \in Elem /\ b1.f \in Fn
    BY EventAssumption
  <2>2. DataRight'
    BY <1>6, <2>1, UnbindBothData
  <2>3. CallsRight'
    BY <1>6, ChangedCalls DEF UnbindBoth
  <2>. QED
    BY <2>2, <2>3
<1>7. ASSUME NEW e \in Elem, UnbindAll(e)
      PROVE  DataRight' /\ CallsRight'
  BY <1>7, UnbindAllData, ChangedCalls DEF UnbindAll
<1>8. ASSUME NEW e \in Elem, RemoveElement(e)
      PROVE  DataRight' /\ CallsRight'
  BY <1>8, RemoveElementData, ChangedCalls DEF RemoveElement
<1>9. ASSUME NEW e \in Elem, AppendElement(e)
      PROVE  DataRight' /\ CallsRight'
  BY <1>9, AppendData, AppendCalls
<1>10. ASSUME NEW tr \in Triggers, Trigger(tr)
      PROVE  DataRight' /\ CallsRight'
  BY <1>10, TriggerData, TriggerCalls
<1>11. ASSUME NEW t \in Globals, TriggerGlobal(t)
      PROVE  DataRight' /\ CallsRight'
  <2>1. DataRight'
    BY <1>11, StillStep DEF TriggerGlobal, ghosts
  <2>2. CallsRight'
    BY <1>11, TriggerGlobalCalls
  <2>. QED
    BY <2>1, <2>2
<1>. QED
  BY <1>1, <1>2, <1>3, <1>4, <1>5, <1>6, <1>7, <1>8, <1>9, <1>10, <1>11 DEF PageCalls

LEMMA HandlersKeep ==
    ASSUME DataRight, CallsRight, TriggerHandlers
    PROVE  DataRight' /\ CallsRight'
<1>1. OnTop("trigger")
  BY DEF TriggerHandlers
<1>2. Top \in TriggerFrames
  BY <1>1, TopIs, FrameIs DEF CallsRight
<1>3. Top.e \in Elem
  BY <1>2 DEF TriggerFrames
<1>4. Sound(WithEntry(d, Top.e), leaked)
  BY <1>3, WithEntrySame DEF DataRight, Sound
<1>5. Tabled(WithEntry(d, Top.e))
  BY <1>4, SoundTables
<1>. QED
  BY <1>5, TriggerHandlersData, TriggerHandlersCalls

LEMMA StepsKeep ==
    ASSUME DataRight, CallsRight, Steps
    PROVE  DataRight' /\ CallsRight'
<1>. DEFINE Still == UNCHANGED <<d, attached, untouched, leaked, cut>>
<1>1. Tabled(d) /\ OverOnly(d) /\ Owned(d)
  BY SoundTables, SoundOwners DEF DataRight
<1>2. CASE TriggerHandlers
  BY <1>2, HandlersKeep
<1>3. CASE Dispatch
  BY <1>1, <1>3, DispatchData, DispatchCalls
<1>4. CASE RunLive
  BY <1>1, <1>4, RunLiveData, RunLiveCalls
<1>5. ASSUME NEW f \in Fn, RunFunction(f)
      PROVE  DataRight' /\ CallsRight'
  BY <1>5, RunFunctionData, RunFunctionCalls
<1>6. ASSUME NEW e \in Elem, UnloadNext(e)
      PROVE  DataRight' /\ CallsRight'
  BY <1>6, UnloadNextData, UnloadNextCalls
<1>7. ASSUME Still
      PROVE  DataRight'
  BY <1>7, StillStep
<1>8. CASE TriggerMethod
  <2>1. Still
    BY <1>8 DEF TriggerMethod, ghosts
  <2>. QED
    BY <1>7, <1>8, <2>1, TriggerMethodCalls
<1>9. CASE TriggerParent
  <2>1. Still
    BY <1>9 DEF TriggerParent, ghosts
  <2>. QED
    BY <1>7, <1>9, <2>1, TriggerParentCalls
<1>10. CASE GlobalEnds
  <2>1. Still
    BY <1>10 DEF GlobalEnds, ghosts
  <2>. QED
    BY <1>7, <1>10, <2>1, GlobalEndsCalls
<1>11. ASSUME NEW e \in Elem, GlobalNext(e)
      PROVE  DataRight' /\ CallsRight'
  <2>1. Still
    BY <1>11 DEF GlobalNext, ghosts
  <2>. QED
    BY <1>7, <1>11, <2>1, GlobalNextCalls
<1>12. CASE UnloadEnds
  <2>1. Still
    BY <1>12 DEF UnloadEnds, ghosts
  <2>. QED
    BY <1>7, <1>12, <2>1, UnloadEndsCalls
<1>13. CASE ReadyNext
  <2>1. Still
    BY <1>13 DEF ReadyNext, ghosts
  <2>. QED
    BY <1>7, <1>13, <2>1, ReadyNextCalls
<1>14. CASE ReadyEnds
  <2>1. Still
    BY <1>14 DEF ReadyEnds, ghosts
  <2>. QED
    BY <1>7, <1>14, <2>1, ReadyEndsCalls
<1>15. CASE PageListener
  <2>1. Still
    BY <1>15 DEF PageListener, ghosts
  <2>. QED
    BY <1>7, <1>15, <2>1, PageListenerCalls
<1>16. ASSUME NEW f, PassOver(f)
      PROVE  DataRight' /\ CallsRight'
  <2>1. Still
    BY <1>16 DEF PassOver, ghosts
  <2>. QED
    BY <1>7, <1>16, <2>1, PassOverCalls
<1>17. ASSUME NEW f \in Fn, LiveRuns(f)
      PROVE  DataRight' /\ CallsRight'
  <2>1. Still
    BY <1>17 DEF LiveRuns, ghosts
  <2>. QED
    BY <1>7, <1>17, <2>1, LiveRunsCalls
<1>18. CASE LiveEnds
  <2>1. Still
    BY <1>18 DEF LiveEnds, ghosts
  <2>. QED
    BY <1>7, <1>18, <2>1, LiveEndsCalls
<1>19. CASE HandleEnds
  <2>1. Still
    BY <1>19 DEF HandleEnds, ghosts
  <2>. QED
    BY <1>7, <1>19, <2>1, HandleEndsCalls
<1>20. ASSUME NEW outside, RunWithin(outside)
      PROVE  DataRight' /\ CallsRight'
  <2>1. Still
    BY <1>20 DEF RunWithin, ghosts
  <2>. QED
    BY <1>1, <1>7, <1>20, <2>1, RunWithinCalls
<1>21. ASSUME NEW ret \in {"none", "false", "immediate"}, Return(ret)
      PROVE  DataRight' /\ CallsRight'
  <2>1. Still
    BY <1>21 DEF Return, ghosts
  <2>. QED
    BY <1>7, <1>21, <2>1, ReturnCalls
<1>22. CASE Throw
  <2>1. Still
    BY <1>22 DEF Throw, ghosts
  <2>. QED
    BY <1>7, <1>22, <2>1, ThrowCalls
<1>. QED
  BY <1>2, <1>3, <1>4, <1>5, <1>6, <1>8, <1>9, <1>10, <1>11, <1>12, <1>13, <1>14, <1>15, <1>16,
     <1>17, <1>18, <1>19, <1>20, <1>21, <1>22 DEF Steps

LEMMA NextKeeps ==
    ASSUME IInv, [Next]_vars
    PROVE  IInv'
<1>1. DataRight /\ CallsRight
  BY DEF IInv
<1>2. CASE PageCalls
  BY <1>1, <1>2, PageData DEF IInv
<1>3. CASE Steps
  BY <1>1, <1>3, StepsKeep DEF IInv
<1>4. ASSUME NEW u \in Inputs, UserEvent(u)
      PROVE  IInv'
  <2>1. DataRight'
    BY <1>1, <1>4, StillStep DEF UserEvent, ghosts
  <2>. QED
    BY <1>1, <1>4, <2>1, UserEventCalls DEF IInv
<1>5. CASE Ready
  <2>1. DataRight'
    BY <1>1, <1>5, StillStep DEF Ready, ghosts
  <2>. QED
    BY <1>1, <1>5, <2>1, ReadyCalls DEF IInv
<1>6. CASE DocumentReady
  <2>1. DataRight'
    BY <1>1, <1>6, StillStep DEF DocumentReady, ghosts
  <2>. QED
    BY <1>1, <1>6, <2>1, DocumentReadyCalls DEF IInv
<1>7. CASE Unload
  <2>1. DataRight'
    BY <1>1, <1>7, StillStep DEF Unload, ghosts
  <2>. QED
    BY <1>1, <1>7, <2>1, UnloadCalls DEF IInv
<1>8. CASE UNCHANGED vars
  <2>1. DataRight'
    BY <1>1, <1>8, StillStep DEF vars
  <2>2. CallsRight'
    BY <1>1, <1>8 DEF vars, CallsRight
  <2>. QED
    BY <2>1, <2>2 DEF IInv
<1>. QED
  BY <1>2, <1>3, <1>4, <1>5, <1>6, <1>7, <1>8 DEF Next

\* The tables, the handle functions, the listeners and the calls in progress agree
\* with each other in every reachable state.
THEOREM Agreement == Spec => []IInv
<1>1. Init => IInv
  BY InitData, InitCalls DEF IInv
<1>2. IInv /\ [Next]_vars => IInv'
  BY NextKeeps
<1>. QED
  BY <1>1, <1>2, PTL DEF Spec

-----------------------------------------------------------------------------
(* What it implies.                                                        *)

LEMMA TablesTyped ==
    ASSUME DataRight, NEW e \in Elem, NEW t \in DOMAIN Events(d, e)
    PROVE  /\ t \in Types /\ Table(d, e, t) \in Tables /\ IsFun(Table(d, e, t))
           /\ TableRight(e, t, Table(d, e, t))
<1>1. MapRight(e, Events(d, e))
  BY EventsRightIs DEF DataRight, Sound
<1>2. Table(d, e, t) = Events(d, e)[t]
  BY DEF Table
<1>3. t \in Types /\ TableRight(e, t, Table(d, e, t))
  BY <1>1, <1>2, MapsAre DEF MapRight
<1>4. Table(d, e, t) \in Tables
  BY <1>3 DEF TableRight
<1>. QED
  BY <1>3, <1>4, TablesAre DEF IsFun

LEMMA InvType == ASSUME IInv PROVE TypeOK
<1>1. DataRight /\ CallsRight
  BY DEF IInv
<1>2. Linked(d) /\ Whole(d) /\ \A e \in Elem : HandleRight(d, leaked, e)
  BY <1>1 DEF DataRight, Sound, Mid, Kept, Right
<1>3. d.id \in [Elem -> Ids \cup {None}] /\ DOMAIN d.cache \subseteq Ids
  BY <1>2 DEF Linked
<1>4. d.own \in [DOMAIN d.own -> Elem] /\ DOMAIN d.own \subseteq Handles
  <2>1. \A h \in DOMAIN d.own : h \in Handles /\ h[1] \in Elem /\ d.own[h] = h[1]
    BY <1>2 DEF Whole, HandleRight, Handles
  <2>2. d.own = [h \in DOMAIN d.own |-> d.own[h]]
    BY <1>2 DEF Whole, IsFun
  <2>. QED
    BY <2>1, <2>2
<1>5. ASSUME NEW e \in Elem, NEW t \in DOMAIN Events(d, e)
      PROVE  t \in Types /\ Table(d, e, t) \in [DOMAIN Table(d, e, t) -> Kinds]
  <2>. DEFINE k == Table(d, e, t)
  <2>1. t \in Types /\ k \in Tables /\ IsFun(k)
    BY <1>1, TablesTyped
  <2>. HIDE DEF k
  <2>2. \A f \in DOMAIN k : k[f] \in Kinds
    BY <2>1, TablesAre
  <2>3. k \in [DOMAIN k -> Kinds]
    BY <2>1, <2>2 DEF IsFun
  <2>. QED
    BY <2>1, <2>3 DEF k
<1>6. attached \in SUBSET Elem /\ untouched \in SUBSET Elem /\ leaked \in SUBSET Elem
  BY <1>1 DEF DataRight
<1>7. ASSUME NEW i \in DOMAIN stack
      PROVE  stack[i].k \in {"trigger", "native", "handle", "live", "global", "unload", "ready", "page"}
  <2>1. stack[i] \in Frame
    BY <1>1, StackIs DEF CallsRight
  <2>. QED
    BY <2>1, FrameIs
<1>8. triggered \in BOOLEAN /\ dom \in [is : BOOLEAN, list : 0..MaxReady, owed : 0..MaxReady]
  BY <1>1 DEF CallsRight, DomRight
<1>. QED
  BY <1>3, <1>4, <1>5, <1>6, <1>7, <1>8 DEF TypeOK

LEMMA InvListeners == ASSUME IInv PROVE ListenersMatchTables
<1>1. Whole(d) /\ \A e \in Elem : HandleRight(d, leaked, e) /\ ListenersRight(d, leaked, e)
  BY DEF IInv, DataRight, Sound, Mid, Right
<1>2. None \notin Handles
  BY EventAssumption
<1>3. ASSUME NEW l \in d.lis
      PROVE  l \in Elem \X Types \X Handles
  BY <1>1 DEF Whole
<1>4. ASSUME NEW e \in Elem, Get(d, e, "handle") = None
      PROVE  DOMAIN Events(d, e) = {}
  BY <1>1, <1>4, EventsIs, Empty DEF HandleRight
<1>5. ASSUME NEW e \in Elem, NEW l \in d.lis, l[1] = e, l[3] = Mine(leaked, e)
      PROVE  l[2] \in DOMAIN Events(d, e) \ {"enter"}
  <2>1. l = <<e, l[2], Mine(leaked, e)>>
    BY <1>3, <1>5
  <2>. QED
    BY <1>1, <2>1 DEF ListenersRight
<1>6. ASSUME NEW e \in Elem
      PROVE  {l[2] : l \in {m \in d.lis : m[1] = e /\ m[3] = Get(d, e, "handle")}}
               = DOMAIN Events(d, e) \ {"enter"}
  <2>. DEFINE h == Get(d, e, "handle")
  <2>1. CASE h = None
    BY <1>2, <1>3, <1>4, <2>1
  <2>2. CASE h # None
    <3>1. h = Mine(leaked, e)
      BY <1>1, <2>2 DEF HandleRight
    <3>2. ASSUME NEW t \in DOMAIN Events(d, e) \ {"enter"}
          PROVE  \E l \in d.lis : l[1] = e /\ l[3] = h /\ l[2] = t
      <4>. DEFINE l == <<e, t, Mine(leaked, e)>>
      <4>1. l \in d.lis
        BY <1>1 DEF ListenersRight
      <4>. QED
        BY <3>1, <4>1
    <3>. QED
      BY <1>5, <3>1, <3>2
  <2>. QED
    BY <2>1, <2>2
<1>7. ASSUME NEW e \in Elem, Get(d, e, "handle") # None
      PROVE  d.own[Get(d, e, "handle")] = e
  <2>1. Get(d, e, "handle") = Mine(leaked, e)
    BY <1>1, <1>7 DEF HandleRight
  <2>2. Mine(leaked, e) \in Handles /\ Mine(leaked, e)[1] = e
    BY DEF Mine, Handles
  <2>. QED
    BY <1>1, <2>1, <2>2 DEF HandleRight
<1>8. ASSUME NEW e \in Elem, e \notin leaked, NEW l \in d.lis, l[1] = e
      PROVE  l[3] = Get(d, e, "handle")
  <2>1. l[3] = Mine(leaked, e)
    BY <1>1, <1>8 DEF ListenersRight
  <2>2. DOMAIN Events(d, e) # {}
    BY <1>5, <1>8, <2>1
  <2>. QED
    BY <1>1, <1>4, <2>1, <2>2 DEF HandleRight
<1>. QED
  BY <1>6, <1>7, <1>8 DEF ListenersMatchTables

LEMMA InvServed == ASSUME IInv PROVE ServedByLibrary
<1>1. Served(d, cut) /\ \A e \in Elem : NoIdle(Events(d, e)) /\ MapRight(e, Events(d, e))
  BY EventsRightIs DEF IInv, DataRight, Sound
<1>2. doc \in Elem
  BY EventAssumption
<1>3. \A e, t : DOMAIN Table(d, e, t) = Bound(Events(d, e), t)
  BY TableOf DEF Bound
<1>4. Table(d, doc, "liveclick") # <<>> <=> Bound(Events(d, doc), "liveclick") # {}
  <2>1. IsFun(Table(d, doc, "liveclick"))
    BY <1>1, <1>2, TableOf, TableInIs, TablesAre DEF MapRight, IsFun
  <2>. QED
    BY <1>3, <2>1, Empty
<1>. QED
  BY <1>1, <1>2, <1>3, <1>4 DEF ServedByLibrary, Served, NoIdle

LEMMA InvOneShot == ASSUME IInv PROVE OneShotOnce
<1>1. ASSUME NEW e \in Elem, NEW t \in DOMAIN Events(d, e), t # "over", NEW f \in DOMAIN Table(d, e, t)
      PROVE  Table(d, e, t)[f] # "spent"
  BY <1>1, TablesTyped DEF IInv, TableRight
<1>. QED
  BY <1>1 DEF OneShotOnce

LEMMA InvDeaf == ASSUME IInv PROVE DeafInTime
<1>1. Raised(stack, triggered) /\ Twice(stack) /\ DOMAIN stack = 1..Len(stack)
  BY StackIs DEF IInv, CallsRight, Shape
<1>2. NotTwice
  BY <1>1, InNativeIs DEF NotTwice, Twice
<1>3. FlagDown
  BY <1>1 DEF FlagDown, Raised
<1>. QED
  BY <1>2, <1>3 DEF DeafInTime

LEMMA InvReady == ASSUME IInv PROVE ReadyRuns
<1>1. ASSUME stack = <<>> PROVE dom.owed = dom.list
  <2>1. Len(stack) = 0
    BY <1>1
  <2>. QED
    BY <2>1, EmptyShape DEF IInv, CallsRight
<1>. QED
  BY <1>1 DEF ReadyRuns

LEMMA InvOrphans == ASSUME IInv PROVE NoOrphans
<1>1. Linked(d)
  BY DEF IInv, DataRight, Sound, Mid, Kept
<1>2. ASSUME NEW i \in DOMAIN d.cache
      PROVE  Cardinality({e \in Elem : d.id[e] = i}) = 1
  <2>1. PICK e \in Elem : d.id[e] = i
    BY <1>1 DEF Linked
  <2>2. i # None
    BY <1>1, NoneIsNoId DEF Linked
  <2>3. ASSUME NEW q \in Elem, d.id[q] = i
        PROVE  q = e
    BY <1>1, <2>1, <2>2, <2>3 DEF Linked
  <2>4. {q \in Elem : d.id[q] = i} = {e}
    BY <2>1, <2>3
  <2>. QED
    BY <2>4, FS_Singleton
<1>. QED
  BY <1>2 DEF NoOrphans, EveryEntryIsReached

LEMMA InvFree == ASSUME IInv PROVE RemovedIsFree
<1>1. ListenersMatchTables
  BY InvListeners
<1>2. \A e \in untouched : e \in Elem /\ Get(d, e, "events") = None
  BY DEF IInv, DataRight
<1>3. \A e \in untouched : Get(d, e, "handle") = None
  BY <1>2 DEF IInv, DataRight, Sound, Mid, Right, HandleRight
<1>4. \A l \in d.lis : l[3] \in Handles /\ None \notin Handles
  BY EventAssumption DEF IInv, DataRight, Sound, Mid, Whole
<1>5. ASSUME NEW e \in untouched \ leaked, NEW l \in d.lis, l[1] = e
      PROVE  FALSE
  <2>1. l[3] = Get(d, e, "handle")
    BY <1>1, <1>2, <1>5 DEF ListenersMatchTables
  <2>. QED
    BY <1>3, <1>4, <2>1
<1>. QED
  BY <1>2, <1>3, <1>5 DEF RemovedIsFree

\* The variables have their types, in every reachable state: no key of the cache
\* but an identifier, no table but for a type of event, no frame of an unknown
\* kind, and every handle function knows its element (handle.elem).
THEOREM TypeCorrect == Spec => []TypeOK
BY Agreement, InvType, PTL

\* jQuery.cache keeps nothing that no element leads to, and remove(), in whatever
\* handler it is called, leaves no handler, handle function or listener of the
\* element behind, but for what has a namespace.
THEOREM NoLeaks == Spec => []NothingLeaks
<1>1. IInv => NothingLeaks
  BY InvOrphans, InvFree DEF NothingLeaks
<1>. QED
  BY Agreement, <1>1, PTL

\* The browser listens for exactly the types of which there is a table, through
\* the handle function of that element, after any sequence of add and remove,
\* nested in handlers or not.
THEOREM ListenersRightly == Spec => []ListenersMatchTables
BY Agreement, InvListeners, PTL

\* liveHandler is bound exactly as long as live needs it, and withinElement as
\* long as mouseenter does (the setup and teardown of the special types), unless
\* the page unbinds it by a call that names no function.
THEOREM AlwaysServed == Spec => []ServedByLibrary
BY Agreement, InvServed, PTL

\* A handler of one is unbound when it runs, also through withinElement, which
\* changes the type of the event it unbinds itself from; but for mouseover.
THEOREM OnceOnly == Spec => []OneShotOnce
BY Agreement, InvOneShot, PTL

\* jQuery.event.triggered keeps the handlers from running a second time in the
\* native phase of a trigger, and is up at no other time, also after a handler has
\* thrown.
THEOREM DeafOnlyThen == Spec => []DeafInTime
BY Agreement, InvDeaf, PTL

\* Every function given to ready before the document is ready runs, or waits in
\* readyList, also one given while the list is worked off.
THEOREM ReadyIsKept == Spec => []ReadyRuns
BY Agreement, InvReady, PTL
=============================================================================
