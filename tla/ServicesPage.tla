---------------------------- MODULE ServicesPage ----------------------------
(***************************************************************************)
(* The page that lists the services (services.html): httpServices, a map   *)
(* from names to entries, and the items of its list, which carry the       *)
(* number (ref) of the entry they were made for.                           *)
(***************************************************************************)
EXTENDS Integers, ServiceNames

VARIABLES
    httpServices,   \* the ref of each name's entry, or NoEntry
    liste,          \* the items of the list
    counter

pageVars == <<httpServices, liste, counter>>

NoEntry == -1

PageInit ==
    /\ httpServices = [n \in Names |-> NoEntry]
    /\ liste = {} /\ counter = 0

itemnew(n) ==
    /\ httpServices' = [httpServices EXCEPT ![n] = counter]
    /\ liste'   = liste \cup {[ref |-> counter, name |-> n]}
    /\ counter' = counter + 1

\* Mutant of itemremove: the entry is deleted before its ref is looked up.
itemremoveTooLate(n) ==
    /\ httpServices' = [httpServices EXCEPT ![n] = NoEntry]
    /\ UNCHANGED <<liste, counter>>

\* Without an entry httpServices[name].ref throws, before anything is changed.
itemremove(n) ==
    /\ liste' = {i \in liste : i.ref # httpServices[n]}
    /\ httpServices' = [httpServices EXCEPT ![n] = NoEntry]
    /\ UNCHANGED counter

\* What the page does with a line: a signal it does not know is ignored, and so
\* is a line that eval cannot read.
Handle(line) ==
    CASE line.signal \in {"itemnew", "itemremove"} /\ line.name \notin Unquotable ->
             IF line.signal = "itemnew" THEN itemnew(line.name)
                                        ELSE itemremove(line.name)
      [] OTHER -> UNCHANGED pageVars

=============================================================================
