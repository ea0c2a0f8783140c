------------------------------- MODULE Channel -------------------------------
(***************************************************************************)
(* What a client of MDNSBrowser relies on: a channel it opens, shares with *)
(* a worker and hands over for disposal.  While the client holds it the    *)
(* messages of the worker reach it in order and none is lost; after it has *)
(* handed the channel over, the worker empties and then disposes of it.    *)
(***************************************************************************)
EXTENDS Sequences

CONSTANTS Instances, OutMsgs

VARIABLES
    stage,  \* "none", "failed", "shared", "handed" or "gone"
    box     \* the messages on their way to the client

vars == <<stage, box>>

Init ==
    /\ stage = [i \in Instances |-> "none"]
    /\ box   = [i \in Instances |-> <<>>]

Move(i, from, to) == stage[i] = from /\ stage' = [stage EXCEPT ![i] = to]

Open(i) ==
    /\ \E s \in {"shared", "failed"} : Move(i, "none", s)
    /\ UNCHANGED box

\* The worker speaks.
Post(i) ==
    /\ stage[i] \in {"shared", "handed"}
    /\ \E m \in OutMsgs : box' = [box EXCEPT ![i] = Append(@, m)]
    /\ UNCHANGED stage

\* The worker closes its side after the client has: two messages at once.
Finish(i) ==
    /\ stage[i] = "handed"
    /\ box' = [box EXCEPT ![i] = @ \o <<"EXITED", "FLUSH_MARKER">>]
    /\ UNCHANGED stage

\* The first message leaves the channel: the client takes it as long as it
\* holds the channel, the worker throws it away afterwards.
Take(i) ==
    /\ stage[i] \in {"shared", "handed"} /\ box[i] # <<>>
    /\ box' = [box EXCEPT ![i] = Tail(@)]
    /\ UNCHANGED stage

HandOver(i) == Move(i, "shared", "handed") /\ UNCHANGED box

Dispose(i) == Move(i, "handed", "gone") /\ box[i] = <<>> /\ UNCHANGED box

Next ==
    \E i \in Instances :
        Open(i) \/ Post(i) \/ Finish(i) \/ Take(i) \/ HandOver(i) \/ Dispose(i)

Spec == Init /\ [][Next]_vars

=============================================================================
