----------------------------- MODULE Discovery ------------------------------
(***************************************************************************)
(* A page and its Avahi child, joined by a stream of lines: what the page  *)
(* lists against what Avahi has announced.  ServiceBrowser implements the  *)
(* stream (LineStream).                                                    *)
(***************************************************************************)
EXTENDS AvahiChild, ServicesPage

VARIABLE
    astray  \* history: the names whose lines do not tell what is there

vars == <<childVars, phase, queue, pageVars, astray>>

Of(n)      == {s \in Services : s.name = n}
Pending(n) == \E s \in Of(n) : resolving[s] > 0

\* The lines about n cease to follow its announcements: it is announced while
\* it is known already, it is withdrawn or announced again before its resolver
\* has answered, or its resolver does not find it.
GoesAstray(n) ==
    \E s \in Of(n) :
        \/ /\ s \in seen' \ seen
           /\ resolving' = resolving \/ Pending(n) \/ seen \cap Of(n) # {}
        \/ s \in seen \ seen' /\ Pending(n)
        \/ resolving'[s] < resolving[s] /\ queue' = queue

History == astray' = astray \cup {n \in Names : GoesAstray(n)}

Init == ChildInit /\ PageInit /\ astray = Unquotable

\* popmsg returns a line, once a second at most.
Poll ==
    /\ Stream!Read(Page)
    /\ Handle(Head(queue[Page]))
    /\ UNCHANGED <<childVars, astray>>

\* popmsg has met the end of the stream; all later answers are not_available.
StreamCloses ==
    /\ phase[Page] = "ended" /\ Stream!Close(Page)
    /\ UNCHANGED <<childVars, pageVars, astray>>

Next ==
    \/ ChildNext /\ History /\ UNCHANGED pageVars
    \/ Poll
    \/ StreamCloses

Spec == Init /\ [][Next]_vars

\* The page polls for ever, the child's loop runs, and Avahi answers or times
\* out every resolver.
FairSpec ==
    /\ Spec
    /\ WF_vars(Poll)
    /\ \A s \in Services :
           WF_vars(/\ ResolverFound(s) \/ ResolverFailed(s)
                   /\ History /\ UNCHANGED pageVars)

-----------------------------------------------------------------------------
Line == [signal : {"itemnew", "itemremove"}, name : Names]
          \cup [signal : {"all_for_now", "cache_exhausted"}]

TypeOK ==
    /\ loop \in {"none", "setup", "running", "quit", "ended"}
    /\ phase \in [{Page} -> {"none", "open", "ended", "closed"}]
    /\ queue \in [{Page} -> Seq(Line)]
    /\ seen \subseteq Services /\ resolving \in [Services -> 0..MaxNew]
    /\ httpServices \in [Names -> -1..counter - 1]
    /\ liste \subseteq [ref : 0..counter - 1, name : Names]
    /\ counter \in 0..MaxNew /\ astray \subseteq Names

Listed(n) == {i \in liste : i.name = n}

\* An entry of the map always has its item in the list, and only a name that
\* went astray has items without an entry, which nothing will ever remove.
NoGhosts ==
    /\ \A n \in Names : httpServices[n] # NoEntry =>
           [ref |-> httpServices[n], name |-> n] \in liste
    /\ \A i \in liste : httpServices[i.name] = i.ref \/ i.name \in astray

\* When all about a name has been told and read, the page lists it once if it
\* is there and not at all if it is not, unless the name went astray.
Told(n) ==
    /\ loop = "running" /\ ~Pending(n)
    /\ \A k \in 1..Len(queue[Page]) :
           queue[Page][k].signal \in {"itemnew", "itemremove"}
               => queue[Page][k].name # n

Right(n) == \E k \in 0..1 : /\ (k = 1) <=> (seen \cap Of(n) # {})
                            /\ (k = 0) <=> (Listed(n) = {})
                            /\ \A i, j \in Listed(n) : i = j

ListIsRight == \A n \in Names : Told(n) /\ n \notin astray => Right(n)

\* What the page keeps agrees with itself and with what it was told.
PageAgrees == NoGhosts /\ ListIsRight

\* A name whose lines tell what is there is shown rightly in the end, while the
\* child runs and no more of its services come and go.
ListSettles ==
    \A n \in Names \ Unquotable :
        /\ <>[][seen' \cap Of(n) = seen \cap Of(n)]_vars
        /\ <>[](loop = "running" /\ n \notin astray)
        => <>[]Right(n)

=============================================================================
