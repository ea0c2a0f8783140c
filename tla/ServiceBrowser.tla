--------------------------- MODULE ServiceBrowser ---------------------------
(***************************************************************************)
(* The second-generation browser: the NP_ServiceBrowser objects of a       *)
(* plug-in process (np_sb.cc, created in plugin.cc), each with its         *)
(* ServiceBrowser (sb.cc), the child process that one forks, and the       *)
(* socket pair between them.                                               *)
(*                                                                         *)
(* All objects live on the browser's main thread, so init and popmsg are   *)
(* single steps.  A child is a process of its own: it composes a line in a *)
(* callback (see AvahiChild), flushes it, and the kernel passes it to the  *)
(* socket bit by bit.  A line is a sequence of pieces, the last of which   *)
(* is its newline; a read takes up to Chunk of them.                       *)
(*                                                                         *)
(* The child is forked, not executed, so it starts with a copy of what the *)
(* process has printed and not flushed: init prints a notice with printf   *)
(* after each fcntl.  The first flush of the child's cout, which shares    *)
(* the buffer of stdout, sends these notices to the page.                  *)
(***************************************************************************)
EXTENDS Integers, SequencesExt

CONSTANTS
    Objects,    \* the scriptable objects of the process, one for each page
    Lines,      \* what the callbacks of a child write
    Notice,     \* what init prints, a line as well
    Size,       \* the number of pieces of a line, newline included
    Chunk,      \* how many pieces popmsg reads at most (127 bytes)
    Room,       \* how many pieces the socket holds
    MaxLines    \* bound: the lines a child composes

AllLines == Lines \cup {Notice}

ASSUME LineAssumption  == Notice \notin Lines /\ Size \in [AllLines -> Nat \ {0, 1}]
ASSUME SizeAssumption  == Chunk \in Nat \ {0} /\ Room \in Nat \ {0}
ASSUME BoundAssumption == MaxLines \in [Objects -> Nat]

VARIABLES
    \* the object
    obj,        \* "none", "made" or "deleted"
    st,         \* its State
    pid,        \* sb_pid: "none" (0), "failed" (-1) or "child"
    ends,       \* which of fd[0], fd[1] the process has open
    buffer,     \* what popmsg has read and not returned
    \* the child
    child,      \* "none", "starting", "running", "exiting" or "dead"
    inherited,  \* how many notices wait in its stdout unflushed
    flush,      \* the pieces of its last flush ...
    left,       \* ... and how many of them it has not written yet
    term,       \* SIGTERM: "none", "pending" or "handled"
    \* the system
    sock,       \* the pieces in the socket
    printed,    \* how many notices wait in the process's own stdout
    \* history
    sent,       \* the lines the child has flushed
    got         \* the texts that popmsg has returned

objVars   == <<obj, st, pid, ends, buffer>>
childVars == <<child, inherited, flush, left>>
vars      == <<objVars, childVars, term, sock, printed, sent, got>>

-----------------------------------------------------------------------------
Pieces(l)    == [k \in 1..Size[l] |-> <<l, k>>]
Text(l)      == Front(Pieces(l))
Newline(p)   == p[2] = Size[p[1]]
Flat(ls)     == FlattenSeq([i \in 1..Len(ls) |-> Pieces(ls[i])])
Notices(n)   == [i \in 1..n |-> Notice]
Unwritten(o) == SubSeq(flush[o], Len(flush[o]) - left[o] + 1, Len(flush[o]))

Alive(o) == child[o] \in {"starting", "running", "exiting"}

Init ==
    /\ obj       = [o \in Objects |-> "none"]
    /\ st        = [o \in Objects |-> "NOT_READY"]
    /\ pid       = [o \in Objects |-> "none"]
    /\ ends      = [o \in Objects |-> {}]
    /\ buffer    = [o \in Objects |-> <<>>]
    /\ child     = [o \in Objects |-> "none"]
    /\ inherited = [o \in Objects |-> 0]
    /\ flush     = [o \in Objects |-> <<>>]
    /\ left      = [o \in Objects |-> 0]
    /\ term      = [o \in Objects |-> "none"]
    /\ sock      = [o \in Objects |-> <<>>]
    /\ printed   = 0
    /\ sent      = [o \in Objects |-> <<>>]
    /\ got       = [o \in Objects |-> <<>>]

-----------------------------------------------------------------------------
(***************************************************************************)
(* The first NPP_GetValue of an instance creates its object and runs init. *)
(***************************************************************************)
Create(o, state, id, open) ==
    /\ obj[o] = "none"
    /\ obj'  = [obj  EXCEPT ![o] = "made"]
    /\ st'   = [st   EXCEPT ![o] = state]
    /\ pid'  = [pid  EXCEPT ![o] = id]
    /\ ends' = [ends EXCEPT ![o] = open]
    /\ UNCHANGED <<buffer, flush, left, term, sock, sent, got>>

Forked(o) ==
    /\ child'     = [child EXCEPT ![o] = "starting"]
    /\ inherited' = [inherited EXCEPT ![o] = printed]

NoSocketPair(o) ==
    Create(o, "ERROR", "none", {}) /\ UNCHANGED <<child, inherited, printed>>

NoFork(o) ==
    Create(o, "ERROR", "failed", {0, 1}) /\ UNCHANGED <<child, inherited, printed>>

\* Mutant of NoFcntl: the failure path forgets the child.
NoFcntlForgets(o) ==
    /\ Create(o, "NOT_READY", "none", {})
    /\ Forked(o)
    /\ printed' \in {printed, printed + 1}

\* A failing fcntl, the first or the second; the child is there already.
NoFcntl(o) ==
    /\ Create(o, "NOT_READY", "child", {})
    /\ Forked(o)
    /\ printed' \in {printed, printed + 1}

Ready(o) ==
    /\ Create(o, "READY", "child", {0})
    /\ Forked(o)
    /\ printed' = printed + 2

\* The process's stdout is flushed, by whomever in the process.
HostFlush == printed # 0 /\ printed' = 0
             /\ UNCHANGED <<objVars, childVars, term, sock, sent, got>>

-----------------------------------------------------------------------------
(***************************************************************************)
(* Invoke("popmsg") on a READY object: one read, then at most one line.    *)
(* In every other state the answer is 'not_available' and nothing changes. *)
(***************************************************************************)
\* Mutant of TakeLine: the newline stays in the buffer.
TakeLineKeepsNewline(o, buf) ==
    LET pos == SelectInSeq(buf, Newline)
    IN  IF pos = 0
        THEN buffer' = [buffer EXCEPT ![o] = buf] /\ UNCHANGED got
        ELSE /\ buffer' = [buffer EXCEPT ![o] = SubSeq(buf, pos, Len(buf))]
             /\ got' = [got EXCEPT ![o] = Append(@, SubSeq(buf, 1, pos - 1))]

\* Mutant of TakeLine: the buffer is cleared with every line.
TakeLineClears(o, buf) ==
    LET pos == SelectInSeq(buf, Newline)
    IN  IF pos = 0
        THEN buffer' = [buffer EXCEPT ![o] = buf] /\ UNCHANGED got
        ELSE /\ buffer' = [buffer EXCEPT ![o] = <<>>]
             /\ got' = [got EXCEPT ![o] = Append(@, SubSeq(buf, 1, pos - 1))]

TakeLine(o, buf) ==
    LET pos == SelectInSeq(buf, Newline)
    IN  IF pos = 0
        THEN buffer' = [buffer EXCEPT ![o] = buf] /\ UNCHANGED got
        ELSE /\ buffer' = [buffer EXCEPT ![o] = SubSeq(buf, pos + 1, Len(buf))]
             /\ got' = [got EXCEPT ![o] = Append(@, SubSeq(buf, 1, pos - 1))]

PollUnchanged == UNCHANGED <<obj, pid, ends, childVars, term, printed, sent>>

PollData(o) ==
    /\ obj[o] = "made" /\ st[o] = "READY" /\ sock[o] # <<>>
    /\ LET r == IF Len(sock[o]) < Chunk THEN Len(sock[o]) ELSE Chunk
       IN  /\ TakeLine(o, buffer[o] \o SubSeq(sock[o], 1, r))
           /\ sock' = [sock EXCEPT ![o] = SubSeq(@, r + 1, Len(@))]
    /\ UNCHANGED st /\ PollUnchanged

\* Mutant of PollNothing: EAGAIN is taken for an end of file.
PollNothingCloses(o) ==
    /\ obj[o] = "made" /\ st[o] = "READY" /\ sock[o] = <<>> /\ Alive(o)
    /\ st' = [st EXCEPT ![o] = "CLOSED"]
    /\ UNCHANGED <<buffer, got, sock>> /\ PollUnchanged

\* Mutant of PollNothing: without new data the buffer is not looked at.
PollNothingReturns(o) ==
    /\ obj[o] = "made" /\ st[o] = "READY" /\ sock[o] = <<>> /\ Alive(o)
    /\ UNCHANGED <<st, buffer, got, sock>> /\ PollUnchanged

\* EAGAIN: the socket is empty, and the child still holds its end of it.
PollNothing(o) ==
    /\ obj[o] = "made" /\ st[o] = "READY" /\ sock[o] = <<>> /\ Alive(o)
    /\ TakeLine(o, buffer[o])
    /\ UNCHANGED <<st, sock>> /\ PollUnchanged

\* End of file: the buffer is not looked at any more.
PollEnd(o) ==
    /\ obj[o] = "made" /\ st[o] = "READY" /\ sock[o] = <<>> /\ ~Alive(o)
    /\ st' = [st EXCEPT ![o] = "CLOSED"]
    /\ UNCHANGED <<buffer, got, sock>> /\ PollUnchanged

Poll(o) == PollData(o) \/ PollNothing(o) \/ PollEnd(o)

\* The destructor: close(fd[0]) and kill(sb_pid).  kill(-1) reaches every
\* process it may, so the children of the other objects too; a child is
\* never waited for, so its id is not reused.
Killed(o) ==
    CASE pid[o] = "child"  -> {o}
      [] pid[o] = "failed" -> Objects
      [] OTHER             -> {}

Deallocate(o) ==
    /\ obj[o] = "made"
    /\ obj'  = [obj  EXCEPT ![o] = "deleted"]
    /\ ends' = [ends EXCEPT ![o] = @ \ {0}]
    /\ sock' = [sock EXCEPT ![o] = <<>>]
    /\ term' = [c \in Objects |->
                  IF c \in Killed(o) /\ Alive(c) /\ term[c] = "none"
                  THEN "pending" ELSE term[c]]
    /\ UNCHANGED <<st, pid, buffer, childVars, printed, sent, got>>

-----------------------------------------------------------------------------
(***************************************************************************)
(* The child.                                                              *)
(***************************************************************************)
ChildStep(o, from, to) ==
    /\ child[o] \in from /\ child' = [child EXCEPT ![o] = to]
    /\ UNCHANGED <<objVars, printed, got>>

Unflushed(o) == Notices(inherited[o])

\* Mutant of Flush: what is repeated is counted twice.
FlushCountsTwice(o, rest, ls) ==
    LET all == Unflushed(o) \o ls
    IN  /\ flush'     = [flush EXCEPT ![o] = rest \o Flat(all)]
        /\ left'      = [left  EXCEPT ![o] = 2 * Len(rest) + Len(Flat(all))]
        /\ sent'      = [sent  EXCEPT ![o] = @ \o all]
        /\ inherited' = [inherited EXCEPT ![o] = 0]

\* Flush what was inherited and the lines ls, after the pieces rest.
Flush(o, rest, ls) ==
    LET all == Unflushed(o) \o ls
    IN  /\ flush'     = [flush EXCEPT ![o] = rest \o Flat(all)]
        /\ left'      = [left  EXCEPT ![o] = Len(rest) + Len(Flat(all))]
        /\ sent'      = [sent  EXCEPT ![o] = @ \o all]
        /\ inherited' = [inherited EXCEPT ![o] = 0]

\* Both dup2 succeed, the signal handler is in place, and Avahi answers.
Start(o) ==
    /\ ChildStep(o, {"starting"}, "running")
    /\ UNCHANGED <<inherited, flush, left, term, sock, sent>>

Compose(o, l) ==
    /\ ChildStep(o, {"running"}, "running") /\ left[o] = 0
    /\ Len(SelectSeq(sent[o], LAMBDA x : x # Notice)) < MaxLines[o]
    /\ Flush(o, <<>>, <<l>>)
    /\ UNCHANGED <<term, sock>>

\* The kernel takes a piece, unless the socket is full.  What is written after
\* the process has closed its end reaches nobody.
Write(o) ==
    /\ ChildStep(o, {"running", "exiting"}, child[o]) /\ left[o] # 0
    /\ ends[o] # {} /\ Len(sock[o]) < Room
    /\ sock' = [sock EXCEPT ![o] = Append(@, Head(Unwritten(o)))]
    /\ left' = [left EXCEPT ![o] = @ - 1]
    /\ UNCHANGED <<inherited, flush, term, sent>>

\* The poll loop ends, and exit(0) flushes what was never flushed.
Exit(o) ==
    /\ ChildStep(o, {"running"}, "exiting") /\ left[o] = 0
    /\ Flush(o, <<>>, <<>>)
    /\ UNCHANGED <<term, sock>>

\* sigtermHandler calls exit(0), which flushes on top of a flush it may have
\* interrupted: nothing defines whether that one is completed or repeated.
HandleTerm(o) ==
    /\ term[o] = "pending"
    /\ ChildStep(o, {"running"}, "exiting")
    /\ \E rest \in IF left[o] = 0 THEN {<<>>} ELSE {Unwritten(o), flush[o]} :
           Flush(o, rest, <<>>)
    /\ term' = [term EXCEPT ![o] = "handled"]
    /\ UNCHANGED sock

\* The child ends: when its exit has flushed everything, when a dup2 fails,
\* by SIGTERM before its handler is in place, by SIGPIPE or a crash.
ChildEnds(o) ==
    /\ ChildStep(o, {"starting", "running", "exiting"}, "dead")
    /\ left' = [left EXCEPT ![o] = 0]
    /\ UNCHANGED <<inherited, flush, term, sock, sent>>

-----------------------------------------------------------------------------
Next ==
    \/ HostFlush
    \/ \E o \in Objects :
           \/ NoSocketPair(o) \/ NoFork(o) \/ NoFcntl(o) \/ Ready(o)
           \/ Poll(o) \/ Deallocate(o)
           \/ Start(o) \/ Write(o) \/ Exit(o) \/ HandleTerm(o) \/ ChildEnds(o)
           \/ \E l \in Lines : Compose(o, l)

Spec == Init /\ [][Next]_vars

\* The page polls once a second, and the kernel carries what is written.
FairSpec ==
    /\ Spec
    /\ \A o \in Objects : WF_vars(Poll(o)) /\ WF_vars(Write(o))

-----------------------------------------------------------------------------
States == {"ERROR", "CLOSED", "NOT_READY", "READY"}

PieceSeqs == Seq(AllLines \X Nat)

TypeOK ==
    /\ obj \in [Objects -> {"none", "made", "deleted"}]
    /\ st \in [Objects -> States]
    /\ pid \in [Objects -> {"none", "failed", "child"}]
    /\ ends \in [Objects -> SUBSET {0, 1}]
    /\ child \in [Objects -> {"none", "starting", "running", "exiting", "dead"}]
    /\ term \in [Objects -> {"none", "pending", "handled"}]
    /\ printed \in Nat /\ inherited \in [Objects -> Nat]
    /\ \A o \in Objects :
           /\ left[o] \in 0..Len(flush[o]) /\ Len(sock[o]) \in 0..Room
           /\ {buffer[o], flush[o], sock[o]} \subseteq PieceSeqs
           /\ sent[o] \in Seq(AllLines) /\ got[o] \in Seq(PieceSeqs)

\* What popmsg returns are the lines the child wrote, whole and in order,
\* however the reads cut the stream, as long as nobody signalled the child.
WholeLines ==
    \A o \in Objects : term[o] = "handled"
        \/ IsPrefix(got[o], [i \in 1..Len(sent[o]) |-> Text(sent[o][i])])

\* Disposing of an object ends its child and its socket, at whatever point its
\* init had failed, and leaves the children of other objects alone.  After a
\* failed fork it does neither: fd[1] stays open, and everyone is signalled.
OnlyOwnChild ==
    [][\A o, c \in Objects :
         obj[o] = "made" /\ obj'[o] = "deleted" =>
             \/ pid[o] = "failed"
             \/ /\ ends'[o] = {} /\ (Alive(o) => term'[o] # "none")
                /\ term'[c] # term[c] => c = o]_vars

\* An object that was available closes only when its child has ended and all
\* that the child wrote has been read.
ClosesLast ==
    [][\A o \in Objects :
         st[o] = "READY" /\ st'[o] # "READY" => child[o] = "dead" /\ sock[o] = <<>>]_vars

\* The second generation is a stream of lines.
Phase ==
    [o \in Objects |->
        IF obj[o] = "none" THEN "none"
        ELSE IF obj[o] = "deleted" \/ st[o] # "READY" THEN "closed"
        ELSE IF term[o] = "handled" THEN "disturbed"
        ELSE IF child[o] = "dead" THEN "ended"
        ELSE "open"]

\* The lines whose newline is in s.
LinesIn(s) ==
    LET lines[k \in 0..Len(s)] ==
            IF k = 0 THEN <<>>
            ELSE IF Newline(s[k]) THEN Append(lines[k - 1], s[k][1])
            ELSE lines[k - 1]
    IN  lines[Len(s)]

\* What is on its way to the page.
InFlight(o) == buffer[o] \o sock[o] \o Unwritten(o)

Queue ==
    [o \in Objects |->
        IF Phase[o] \in {"open", "ended", "disturbed"}
        THEN LinesIn(InFlight(o)) ELSE <<>>]

Stream == INSTANCE LineStream WITH phase <- Phase, queue <- Queue

StreamSpec == Stream!Spec

\* As long as lines are waiting popmsg goes on returning lines, so each one
\* arrives, unless the object closes or goes or its child is signalled.
LinesArrive ==
    \A o \in Objects :
        \/ []<>(\/ Len(got[o]) = Len(sent[o])
               \/ st[o] # "READY" \/ obj[o] = "deleted" \/ term[o] # "none")
        \/ []<><<got'[o] # got[o]>>_vars

=============================================================================
