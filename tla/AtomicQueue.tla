----------------------------- MODULE AtomicQueue -----------------------------
(***************************************************************************)
(* What queue.h promises its callers: a double-ended queue of messages on  *)
(* which every call takes effect in one step between its start and its     *)
(* return.  No mutex, no nodes, no condition variable.                     *)
(***************************************************************************)
EXTENDS Integers, Sequences

CONSTANTS Threads, Msgs, NULL, OpsOf

TailPuts == {"put", "put_nb", "put_wait"}
HeadPuts == {"put_head", "put_head_nb", "put_head_wait"}
Puts     == TailPuts \cup HeadPuts

VARIABLES
    items,  \* the messages in the queue, first one first
    open,   \* FALSE once destroyed
    call,   \* call[t]: the operation t is in, or NULL
    given,  \* the message it was given
    ret     \* what t's last call returned

vars == <<items, open, call, given, ret>>

Init ==
    /\ items = <<>> /\ open = TRUE
    /\ call  = [t \in Threads |-> NULL]
    /\ given = [t \in Threads |-> NULL]
    /\ ret   = [t \in Threads |-> NULL]

\* queue_destroy is called on a drained queue that nobody uses, and nobody
\* uses it afterwards.
Invoke(t, o, m) ==
    /\ call[t] = NULL /\ open
    /\ o \in OpsOf[t]
    /\ \A u \in Threads : call[u] # "destroy"
    /\ IF o \in Puts THEN m \in Msgs ELSE m = NULL
    /\ o = "destroy" => items = <<>> /\ \A u \in Threads : call[u] = NULL
    /\ call'  = [call EXCEPT ![t] = o]
    /\ given' = [given EXCEPT ![t] = m]
    /\ UNCHANGED <<items, open, ret>>

Return(t, r) ==
    /\ call'  = [call EXCEPT ![t] = NULL]
    /\ given' = [given EXCEPT ![t] = NULL]
    /\ ret'   = [ret EXCEPT ![t] = r]

\* A put adds its message at its end, or fails and adds nothing; the _nb puts
\* may also report that the queue was busy.
ReturnPut(t) ==
    /\ call[t] \in Puts
    /\ UNCHANGED open
    /\ \/ /\ Return(t, 1)
          /\ items' = IF call[t] \in TailPuts
                        THEN Append(items, given[t])
                        ELSE <<given[t]>> \o items
       \/ Return(t, 0) /\ UNCHANGED items
       \/ /\ call[t] \in {"put_nb", "put_head_nb"}
          /\ Return(t, -1) /\ UNCHANGED items

\* A get takes the first message; it returns null on an empty queue, and the
\* non-blocking one also when the queue was busy.
ReturnGet(t) ==
    /\ call[t] \in {"get", "get_nb"}
    /\ UNCHANGED open
    /\ \/ items # <<>> /\ Return(t, Head(items)) /\ items' = Tail(items)
       \/ /\ items = <<>> \/ call[t] = "get_nb"
          /\ Return(t, NULL) /\ UNCHANGED items

ReturnPeek(t) ==
    /\ call[t] = "peek"
    /\ Return(t, IF items = <<>> THEN 0 ELSE 1)
    /\ UNCHANGED <<items, open>>

\* The waits and the signal promise no more than to return.
ReturnOther(t) ==
    /\ \/ call[t] \in {"wait", "wait_timer"} /\ Return(t, 0)
       \/ call[t] = "signal" /\ Return(t, NULL)
    /\ UNCHANGED <<items, open>>

ReturnDestroy(t) ==
    /\ call[t] = "destroy"
    /\ open' = FALSE
    /\ Return(t, NULL)
    /\ UNCHANGED items

Next ==
    \E t \in Threads :
        \/ \E o \in OpsOf[t], m \in Msgs \cup {NULL} : Invoke(t, o, m)
        \/ ReturnPut(t) \/ ReturnGet(t) \/ ReturnPeek(t)
        \/ ReturnOther(t) \/ ReturnDestroy(t)

Spec == Init /\ [][Next]_vars

=============================================================================
