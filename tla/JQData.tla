------------------------------- MODULE JQData -------------------------------
(***************************************************************************)
(* jQuery.data and jQuery.removeData: what the library keeps about an      *)
(* element is not on the element but in one global table, jQuery.cache,    *)
(* under an identifier which the element carries in a property (the        *)
(* expando).  The operators work on a record d with                        *)
(*   d.id[e]    the expando of element e, None when it has none,           *)
(*   d.cache    jQuery.cache: a function from identifiers in use to        *)
(*              entries, an entry being a function from names to values.   *)
(* The record may have further fields, which the operators keep.           *)
(*                                                                         *)
(* uuid only grows in the code.  Identifiers are compared for nothing but  *)
(* equality, so each element has two of its own, and takes the one that is *)
(* neither an expando nor a key of the table.                              *)
(***************************************************************************)
EXTENDS FiniteSets

CONSTANTS Elem,  \* the elements of the page
          None   \* no value

ASSUME ElemAssumption == IsFiniteSet(Elem)

Ids == Elem \X {1, 2}

\* The assignment f[x] = v, whether or not f has an x, and delete f[x].
Assign(f, x, v) == [y \in DOMAIN f \cup {x} |-> IF y = x THEN v ELSE f[y]]
Delete(f, xs) == [y \in DOMAIN f \ xs |-> f[y]]

NoData == [id |-> [e \in Elem |-> None], cache |-> <<>>]

FreshId(d, e) == IF <<e, 1>> \in DOMAIN d.cache THEN <<e, 2>> ELSE <<e, 1>>

\* data(e, name): even a reader gives the element an expando and an entry.
WithEntry(d, e) ==
    LET i == IF d.id[e] = None THEN FreshId(d, e) ELSE d.id[e]
    IN  [d EXCEPT !.id[e] = i,
                  !.cache = IF i \in DOMAIN @ THEN @ ELSE Assign(@, i, <<>>)]

HasEntry(d, e) == d.id[e] \in DOMAIN d.cache

\* What data(e, name) returns, None for undefined.
Get(d, e, name) ==
    IF HasEntry(d, e) /\ name \in DOMAIN d.cache[d.id[e]]
    THEN d.cache[d.id[e]][name]
    ELSE None

\* data(e, name, value)
Put(d, e, name, value) ==
    LET w == WithEntry(d, e)
    IN  [w EXCEPT !.cache[w.id[e]] = Assign(@, name, value)]

\* removeData(e)
Drop(d, e) ==
    [d EXCEPT !.id[e] = None, !.cache = Delete(@, {d.id[e]})]

\* removeData(e, name): the last name takes the whole entry with it.
DropName(d, e, name) ==
    LET rest == Delete(d.cache[d.id[e]], {name})
    IN  IF ~HasEntry(d, e) THEN d
        ELSE IF rest = <<>> THEN Drop(d, e)
        ELSE [d EXCEPT !.cache[d.id[e]] = rest]

\* Every entry is the entry of exactly one element: what no element leads to
\* can never be reached, or freed, again.
EveryEntryIsReached(d) ==
    \A i \in DOMAIN d.cache : Cardinality({e \in Elem : d.id[e] = i}) = 1
=============================================================================
