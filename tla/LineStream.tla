----------------------------- MODULE LineStream -----------------------------
(***************************************************************************)
(* What the page relies on when it polls a ServiceBrowser: each one is a   *)
(* stream of lines, read one by one in the order in which they were        *)
(* written.  The writer may end with its last lines unwritten, the reader  *)
(* may close and lose what it has not read.  Nothing is promised of the    *)
(* lines of a writer that was signalled while it was being read.           *)
(***************************************************************************)
EXTENDS SequencesExt

CONSTANT Objects

VARIABLES
    phase,  \* "none", "open", "ended", "disturbed" or "closed"
    queue   \* the lines written and not yet read

vars == <<phase, queue>>

Init ==
    /\ phase = [o \in Objects |-> "none"]
    /\ queue = [o \in Objects |-> <<>>]

Move(o, from, to) == phase[o] \in from /\ phase' = [phase EXCEPT ![o] = to]

OnlyQueueOf(o) == queue' = [queue EXCEPT ![o] = queue'[o]]

Open(o) ==
    /\ \E p \in {"open", "closed"} : Move(o, {"none"}, p)
    /\ UNCHANGED queue

\* A line, or several at once.
Write(o) ==
    /\ phase[o] = "open" /\ UNCHANGED phase
    /\ OnlyQueueOf(o) /\ IsPrefix(queue[o], queue'[o])

Read(o) ==
    /\ phase[o] \in {"open", "ended"} /\ UNCHANGED phase
    /\ queue[o] # <<>>
    /\ queue' = [queue EXCEPT ![o] = Tail(@)]

\* The writer ends; what it was still writing is lost.
End(o) ==
    /\ Move(o, {"open"}, "ended")
    /\ OnlyQueueOf(o) /\ IsPrefix(queue'[o], queue[o])

\* The reader closes; what it has not read is lost.
Close(o) ==
    /\ Move(o, {"open", "ended", "disturbed"}, "closed")
    /\ queue' = [queue EXCEPT ![o] = <<>>]

Disturb(o) ==
    /\ Move(o, {"open", "disturbed"}, "disturbed")
    /\ OnlyQueueOf(o)

Next ==
    \E o \in Objects :
        Open(o) \/ Write(o) \/ Read(o) \/ End(o) \/ Close(o) \/ Disturb(o)

Spec == Init /\ [][Next]_vars

=============================================================================
