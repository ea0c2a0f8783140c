----------------------------- MODULE AvahiChild -----------------------------
(***************************************************************************)
(* The child process of the second generation (sb_json.cc; main.cc of      *)
(* sb_json_g2 is the same program on its own): a client of Avahi that      *)
(* browses for services, resolves each new one, and writes a line for each *)
(* event to its LineStream.                                                *)
(*                                                                         *)
(* Avahi calls back from one poll loop, so a callback is one step.  Avahi  *)
(* itself is external: it announces and withdraws services, each on an     *)
(* interface and protocol of its own; it answers a resolver once, found or *)
(* timed out, at any time, after the service was withdrawn as well.        *)
(***************************************************************************)
EXTENDS Integers, Sequences, ServiceNames

CONSTANTS
    Services,   \* each a name on some interface and protocol
    Page,       \* the page that reads the lines
    MaxNew      \* bound: announcements

ASSUME ServiceAssumption == \A s \in Services : s.name \in Names
ASSUME NewAssumption     == MaxNew \in Nat

VARIABLES
    loop,       \* "none", "setup", "running", "quit" or "ended"
    seen,       \* the services announced and not withdrawn
    resolving,  \* how many resolvers of each service wait for an answer
    news,       \* how many announcements there were
    told,       \* which of Avahi's two remarks were made
    phase, queue

Stream == INSTANCE LineStream WITH Objects <- {Page}

childVars == <<loop, seen, resolving, news, told>>

-----------------------------------------------------------------------------
Item(signal, n) == [signal |-> signal, name |-> n]
Remark(signal)  == [signal |-> signal]

\* cout << ... ; cout.flush() in a callback of the running loop.
Emit(lines) ==
    /\ loop = "running" /\ phase[Page] = "open"
    /\ queue' = [queue EXCEPT ![Page] = @ \o lines]
    /\ Stream!Write(Page)

ChildInit ==
    /\ loop = "none" /\ seen = {} /\ news = 0 /\ told = {}
    /\ resolving = [s \in Services |-> 0]
    /\ Stream!Init

\* The object's init has forked, or has failed to.
Fork ==
    /\ loop = "none" /\ Stream!Open(Page)
    /\ loop' = IF phase'[Page] = "open" THEN "setup" ELSE "ended"
    /\ UNCHANGED <<seen, resolving, news, told>>

\* Poll object, client and service browser exist, or one of them could not be
\* made and the child cleans up and ends.
SetUp ==
    /\ loop = "setup" /\ loop' \in {"running", "quit"}
    /\ UNCHANGED <<seen, resolving, news, told, phase, queue>>

-----------------------------------------------------------------------------
(***************************************************************************)
(* browse_callback.                                                        *)
(***************************************************************************)
\* AVAHI_BROWSER_NEW: a resolver is started, unless that fails.
BrowserNew(s) ==
    /\ Emit(<<>>)
    /\ s \notin seen /\ news < MaxNew
    /\ seen' = seen \cup {s} /\ news' = news + 1
    /\ resolving' \in {resolving, [resolving EXCEPT ![s] = @ + 1]}
    /\ UNCHANGED <<loop, told>>

\* Mutant of BrowserRemove: nothing is printed.
BrowserRemoveSilently(s) ==
    /\ s \in seen /\ seen' = seen \ {s}
    /\ Emit(<<>>)
    /\ UNCHANGED <<loop, resolving, news, told>>

BrowserRemove(s) ==
    /\ s \in seen /\ seen' = seen \ {s}
    /\ Emit(<<Item("itemremove", s.name)>>)
    /\ UNCHANGED <<loop, resolving, news, told>>

\* The case of ALL_FOR_NOW falls through to that of CACHE_EXHAUSTED.
AllForNow ==
    /\ "all_for_now" \notin told /\ told' = told \cup {"all_for_now"}
    /\ Emit(<<Remark("all_for_now"), Remark("cache_exhausted")>>)
    /\ UNCHANGED <<loop, seen, resolving, news>>

CacheExhausted ==
    /\ "cache_exhausted" \notin told /\ told' = told \cup {"cache_exhausted"}
    /\ Emit(<<Remark("cache_exhausted")>>)
    /\ UNCHANGED <<loop, seen, resolving, news>>

\* AVAHI_BROWSER_FAILURE, and client_callback's AVAHI_CLIENT_FAILURE.
Failure ==
    /\ loop = "running" /\ loop' = "quit"
    /\ UNCHANGED <<seen, resolving, news, told, phase, queue>>

-----------------------------------------------------------------------------
(***************************************************************************)
(* resolve_callback: the resolver is freed after its one answer.           *)
(***************************************************************************)
\* Mutant of Answered: the resolver is not freed and answers again.
AnsweredAgain(s) ==
    /\ resolving[s] > 0
    /\ UNCHANGED <<loop, seen, resolving, news, told>>

Answered(s) ==
    /\ resolving[s] > 0
    /\ resolving' = [resolving EXCEPT ![s] = @ - 1]
    /\ UNCHANGED <<loop, seen, news, told>>

ResolverFound(s)  == Answered(s) /\ Emit(<<Item("itemnew", s.name)>>)
ResolverFailed(s) == Answered(s) /\ Emit(<<>>)

-----------------------------------------------------------------------------
\* The loop has quit and the child exits; it may also crash, or be killed, in
\* the middle of a write.
ChildEnds ==
    /\ loop \in {"setup", "running", "quit"} /\ loop' = "ended"
    /\ \E k \in 0..Len(queue[Page]) :
           /\ loop = "quit" => k = Len(queue[Page])
           /\ queue' = [queue EXCEPT ![Page] = SubSeq(@, 1, k)]
    /\ Stream!End(Page)
    /\ UNCHANGED <<seen, resolving, news, told>>

ChildNext ==
    \/ Fork \/ SetUp \/ AllForNow \/ CacheExhausted \/ Failure \/ ChildEnds
    \/ \E s \in Services :
           \/ BrowserNew(s) \/ BrowserRemove(s)
           \/ ResolverFound(s) \/ ResolverFailed(s)

=============================================================================
