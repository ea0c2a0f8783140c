------------------------------ MODULE MsgQueue ------------------------------
(***************************************************************************)
(* The thread-safe linked-list queue of plugin/src/queue.cc.               *)
(*                                                                         *)
(* A queue is a singly linked list of heap nodes (`Cells'), each carrying  *)
(* a pointer to a message (`Msgs'), with one mutex and one condition       *)
(* variable.  Any number of threads call its operations.  A step of this   *)
(* module is what one thread does between two points at which another      *)
(* thread can notice it: taking the mutex, giving it up, falling asleep on *)
(* the condition variable.  What runs under the mutex is one step, because *)
(* the code reads and writes the list nowhere else.                        *)
(*                                                                         *)
(* Callers pass a live queue and a message that is not null (every caller  *)
(* puts the result of `new'), so the early returns on null are not taken.  *)
(***************************************************************************)
EXTENDS Integers, FiniteSets

CONSTANTS
    Threads,    \* the threads that hold a pointer to the queue
    Cells,      \* the heap blocks malloc can return for a queue_node
    Msgs,       \* pointers to messages
    NULL,
    OpsOf,      \* OpsOf[t]: the operations thread t calls
    MaxIn       \* bound: no put starts once this many nodes went in

TailPuts == {"put", "put_nb", "put_wait"}
HeadPuts == {"put_head", "put_head_nb", "put_head_wait"}
Puts     == TailPuts \cup HeadPuts
WaitPuts == {"put_wait", "put_head_wait"}
Gets     == {"get", "get_nb"}
Waits    == {"wait", "wait_timer"}
TryOps   == {"put_nb", "put_head_nb", "get_nb"} \cup WaitPuts
Ops      == Puts \cup Gets \cup Waits \cup {"peek", "signal", "destroy"}

BUSY == -1      \* what the _nb puts return when the mutex is taken

ASSUME NullAssumption   == NULL \notin Cells \cup Msgs \cup Threads \cup Ops
ASSUME OpsAssumption    == OpsOf \in [Threads -> SUBSET Ops]
ASSUME BoundAssumption  == MaxIn \in Nat

VARIABLES
    head, tail, num, total_in, total_out,   \* struct queue
    heap,       \* the cells that are allocated
    node, next, \* the fields of every cell
    alive,      \* the struct queue itself is allocated
    mutex,      \* its owner, or NULL
    pc,         \* where each thread is
    op, arg,    \* the call it is in
    ret         \* what its last call returned

listVars == <<head, tail, num, total_in, total_out, heap, node, next>>
vars     == <<listVars, alive, mutex, pc, op, arg, ret>>

(***************************************************************************)
(* pc:  "idle"    not in a call                                            *)
(*      "entry"   before pthread_mutex_lock or pthread_mutex_trylock       *)
(*      "locked"  holds the mutex, about to do the call's work             *)
(*      "slow"    a put_wait that found the mutex busy: before mutex_lock  *)
(*      "holding" such a put_wait with the mutex, before pthread_cond_wait *)
(*      "asleep"  in pthread_cond_wait (or timedwait), mutex released      *)
(*      "woken"   still in it, must take the mutex again                   *)
(*      "back"    returned from it, with the mutex                         *)
(***************************************************************************)
Critical == {"locked", "holding", "back"}
PCs      == Critical \cup {"idle", "entry", "slow", "asleep", "woken"}

Sleepers == {t \in Threads : pc[t] = "asleep"}

\* What queue_create returns when every malloc succeeds.
queue_create ==
    /\ head = NULL /\ tail = NULL /\ heap = {}
    /\ num = 0 /\ total_in = 0 /\ total_out = 0
    /\ node = [c \in Cells |-> NULL] /\ next = [c \in Cells |-> NULL]
    /\ alive = TRUE /\ mutex = NULL

Init ==
    /\ queue_create
    /\ pc  = [t \in Threads |-> "idle"]
    /\ op  = [t \in Threads |-> NULL]
    /\ arg = [t \in Threads |-> NULL]
    /\ ret = [t \in Threads |-> NULL]

-----------------------------------------------------------------------------
(***************************************************************************)
(* The list.  Every operator below runs with the mutex held.               *)
(***************************************************************************)

\* malloc returned c; the new node becomes the last one.
AppendCell(c, m) ==
    /\ node'  = [node EXCEPT ![c] = m]
    /\ next'  = [x \in Cells |-> IF x = c THEN NULL
                                 ELSE IF x = tail THEN c ELSE next[x]]
    /\ tail'  = c
    /\ head'  = IF head = NULL THEN c ELSE head

\* malloc returned c; the new node becomes the first one.
PrependCell(c, m) ==
    /\ node'  = [node EXCEPT ![c] = m]
    /\ next'  = [next EXCEPT ![c] = head]
    /\ head'  = c
    /\ tail'  = IF tail = NULL THEN c ELSE tail

\* Mutant of put_safe: a head put links its node behind the tail.
put_safe_at_tail(o, m) ==
    \E c \in Cells \ heap :
        /\ heap' = heap \cup {c}
        /\ AppendCell(c, m)
        /\ total_in' = total_in + 1
        /\ num' = num + 1
        /\ UNCHANGED total_out

\* queue_put_safe and queue_put_head_safe differ in the linking alone.
put_safe(o, m) ==
    \E c \in Cells \ heap :
        /\ heap' = heap \cup {c}
        /\ IF o \in TailPuts THEN AppendCell(c, m) ELSE PrependCell(c, m)
        /\ total_in' = total_in + 1
        /\ num' = num + 1
        /\ UNCHANGED total_out

\* Mutant of get_safe: tail is left dangling when the last node goes.
get_safe_keeps_tail ==
    /\ head # NULL
    /\ heap' = heap \ {head}
    /\ head' = next[head] /\ UNCHANGED tail
    /\ total_out' = total_out + 1
    /\ num' = num - 1
    /\ node' = [node EXCEPT ![head] = NULL]
    /\ next' = [next EXCEPT ![head] = NULL]
    /\ UNCHANGED total_in

\* __queue_get_safe on a list that is not empty.
get_safe ==
    /\ head # NULL
    /\ heap' = heap \ {head}
    /\ IF head = tail
         THEN head' = NULL /\ tail' = NULL
         ELSE head' = next[head] /\ UNCHANGED tail
    /\ total_out' = total_out + 1
    /\ num' = num - 1
    /\ node' = [node EXCEPT ![head] = NULL]   \* free(tmp)
    /\ next' = [next EXCEPT ![head] = NULL]
    /\ UNCHANGED total_in

-----------------------------------------------------------------------------
(***************************************************************************)
(* The threads.                                                            *)
(***************************************************************************)

\* Mutant of Call: threads go on calling while the queue is being destroyed.
CallDuringDestroy(t, o, m) ==
    /\ pc[t] = "idle" /\ alive
    /\ o \in OpsOf[t]
    /\ IF o \in Puts THEN m \in Msgs /\ total_in < MaxIn ELSE m = NULL
    /\ o = "destroy" => head = NULL /\ \A u \in Threads : pc[u] = "idle"
    /\ pc'  = [pc EXCEPT ![t] = "entry"]
    /\ op'  = [op EXCEPT ![t] = o]
    /\ arg' = [arg EXCEPT ![t] = m]
    /\ UNCHANGED <<listVars, alive, mutex, ret>>

\* Thread t calls operation o.  queue_destroy asks its caller to stop the
\* putting threads and to drain the queue first: that is its guard here.
Call(t, o, m) ==
    /\ pc[t] = "idle" /\ alive
    /\ o \in OpsOf[t]
    /\ \A u \in Threads : op[u] # "destroy"
    /\ IF o \in Puts THEN m \in Msgs /\ total_in < MaxIn ELSE m = NULL
    /\ o = "destroy" => head = NULL /\ \A u \in Threads : pc[u] = "idle"
    /\ pc'  = [pc EXCEPT ![t] = "entry"]
    /\ op'  = [op EXCEPT ![t] = o]
    /\ arg' = [arg EXCEPT ![t] = m]
    /\ UNCHANGED <<listVars, alive, mutex, ret>>

\* t leaves its call with result r, and with pcs giving every thread's place.
Leave(t, r, pcs) ==
    /\ pc'  = [pcs EXCEPT ![t] = "idle"]
    /\ op'  = [op EXCEPT ![t] = NULL]
    /\ arg' = [arg EXCEPT ![t] = NULL]
    /\ ret' = [ret EXCEPT ![t] = r]

\* pthread_mutex_lock, or a trylock that finds the mutex free.
Lock(t) ==
    /\ pc[t] \in {"entry", "slow", "woken"} /\ mutex = NULL
    /\ mutex' = t
    /\ pc' = [pc EXCEPT ![t] = CASE pc[t] = "entry" -> "locked"
                                 [] pc[t] = "slow"  -> "holding"
                                 [] OTHER           -> "back"]
    /\ UNCHANGED <<listVars, alive, op, arg, ret>>

\* Mutant of TryLockBusy: the result of the trylock is ignored.
TryLockIgnored(t) ==
    /\ pc[t] = "entry" /\ op[t] \in TryOps /\ mutex # NULL
    /\ pc' = [pc EXCEPT ![t] = "locked"]
    /\ UNCHANGED <<listVars, alive, mutex, op, arg, ret>>

\* A trylock that finds it taken: the _nb operations give up at once.
TryLockBusy(t) ==
    /\ pc[t] = "entry" /\ op[t] \in TryOps /\ mutex # NULL
    /\ IF op[t] \in WaitPuts
         THEN pc' = [pc EXCEPT ![t] = "slow"] /\ UNCHANGED <<op, arg, ret>>
         ELSE Leave(t, IF op[t] = "get_nb" THEN NULL ELSE BUSY, pc)
    /\ UNCHANGED <<listVars, alive, mutex>>

\* pthread_cond_signal wakes one sleeper if there is one; then t unlocks and
\* returns r.
SignalAndLeave(t, r) ==
    IF Sleepers = {} THEN Leave(t, r, pc)
    ELSE \E w \in Sleepers : Leave(t, r, [pc EXCEPT ![w] = "woken"])

Put(t) ==
    /\ pc[t] = "locked" /\ op[t] \in Puts
    /\ put_safe(op[t], arg[t])
    /\ SignalAndLeave(t, 1)
    /\ mutex' = NULL
    /\ UNCHANGED alive

\* Mutant of PutFails: the error path returns without unlocking.
PutFailsLocked(t) ==
    /\ pc[t] = "locked" /\ op[t] \in Puts
    /\ Leave(t, 0, pc)
    /\ UNCHANGED <<listVars, alive, mutex>>

\* malloc returned null in queue_put_safe or queue_put_head_safe.
PutFails(t) ==
    /\ pc[t] = "locked" /\ op[t] \in Puts
    /\ Leave(t, 0, pc)
    /\ mutex' = NULL
    /\ UNCHANGED <<listVars, alive>>

\* Mutant of Get: the counters move even if there was no node.
GetCountsAlways(t) ==
    /\ pc[t] = "locked" /\ op[t] \in Gets
    /\ IF head = NULL
         THEN /\ num' = num - 1 /\ total_out' = total_out + 1
              /\ UNCHANGED <<head, tail, total_in, heap, node, next>>
              /\ Leave(t, NULL, pc)
         ELSE get_safe /\ Leave(t, node[head], pc)
    /\ mutex' = NULL
    /\ UNCHANGED alive

Get(t) ==
    /\ pc[t] = "locked" /\ op[t] \in Gets
    /\ IF head = NULL
         THEN UNCHANGED listVars /\ Leave(t, NULL, pc)
         ELSE get_safe /\ Leave(t, node[head], pc)
    /\ mutex' = NULL
    /\ UNCHANGED alive

Peek(t) ==
    /\ pc[t] = "locked" /\ op[t] = "peek"
    /\ Leave(t, IF head # NULL THEN 1 ELSE 0, pc)
    /\ mutex' = NULL
    /\ UNCHANGED <<listVars, alive>>

Signal(t) ==
    /\ pc[t] = "locked" /\ op[t] = "signal"
    /\ SignalAndLeave(t, NULL)
    /\ mutex' = NULL
    /\ UNCHANGED <<listVars, alive>>

\* pthread_cond_wait: queue_wait and queue_wait_timer call it as soon as they
\* have the mutex, the put_waits after finding it busy.
Sleep(t) ==
    /\ \/ pc[t] = "locked" /\ op[t] \in Waits
       \/ pc[t] = "holding"
    /\ pc' = [pc EXCEPT ![t] = "asleep"]
    /\ mutex' = NULL
    /\ UNCHANGED <<listVars, alive, op, arg, ret>>

\* The deadline of pthread_cond_timedwait passes.
TimeOut(t) ==
    /\ pc[t] = "asleep" /\ op[t] = "wait_timer"
    /\ pc' = [pc EXCEPT ![t] = "woken"]
    /\ UNCHANGED <<listVars, alive, mutex, op, arg, ret>>

\* POSIX lets a condition variable wake a thread nobody signalled.
SpuriousWake(t) ==
    /\ pc[t] = "asleep"
    /\ pc' = [pc EXCEPT ![t] = "woken"]
    /\ UNCHANGED <<listVars, alive, mutex, op, arg, ret>>

\* After the wait: the waits return 0 (an untimed wait has no other result), a
\* put_wait unlocks and tries again from the top of its loop.
Awake(t) ==
    /\ pc[t] = "back"
    /\ IF op[t] \in Waits
         THEN Leave(t, 0, pc)
         ELSE pc' = [pc EXCEPT ![t] = "entry"] /\ UNCHANGED <<op, arg, ret>>
    /\ mutex' = NULL
    /\ UNCHANGED <<listVars, alive>>

Destroy(t) ==
    /\ pc[t] = "locked" /\ op[t] = "destroy"
    /\ alive' = FALSE
    /\ Leave(t, NULL, pc)
    /\ mutex' = NULL
    /\ UNCHANGED listVars

-----------------------------------------------------------------------------
\* What a thread does once it is in a call, without outside help.
Advance(t) ==
    \/ Lock(t) \/ TryLockBusy(t)
    \/ Put(t) \/ PutFails(t) \/ Get(t) \/ Peek(t) \/ Signal(t) \/ Destroy(t)
    \/ Sleep(t) \/ TimeOut(t) \/ Awake(t)

Next ==
    \E t \in Threads :
        \/ \E o \in OpsOf[t], m \in Msgs \cup {NULL} : Call(t, o, m)
        \/ Advance(t)
        \/ SpuriousWake(t)

Spec == Init /\ [][Next]_vars

(***************************************************************************)
(* Every thread inside a call keeps being scheduled, timers expire, and a  *)
(* thread that wants the mutex gets it if it is free again and again.      *)
(* Nothing makes a thread call, malloc fail or a spurious wake-up happen.  *)
(***************************************************************************)
FairSpec == Spec /\ \A t \in Threads : SF_vars(Advance(t))

-----------------------------------------------------------------------------
TypeOK ==
    /\ head \in Cells \cup {NULL} /\ tail \in Cells \cup {NULL}
    /\ num \in Nat /\ total_in \in Nat /\ total_out \in Nat
    /\ heap \in SUBSET Cells
    /\ node \in [Cells -> Msgs \cup {NULL}]
    /\ next \in [Cells -> Cells \cup {NULL}]
    /\ alive \in BOOLEAN
    /\ mutex \in Threads \cup {NULL}
    /\ pc  \in [Threads -> PCs]
    /\ op  \in [Threads -> Ops \cup {NULL}]
    /\ arg \in [Threads -> Msgs \cup {NULL}]
    /\ ret \in [Threads -> Msgs \cup {NULL, 0, 1, BUSY}]

\* s is the list that starts at head: no cell twice, each linked to the next,
\* tail the last one, and no other cell allocated.
IsList(s) ==
    /\ s \in [1..num -> Cells]
    /\ \A i, j \in 1..num : s[i] = s[j] => i = j
    /\ heap = {s[i] : i \in 1..num}
    /\ num = 0 => head = NULL /\ tail = NULL
    /\ num > 0 => head = s[1] /\ tail = s[num] /\ next[s[num]] = NULL
    /\ \A i \in 1..num : i < num => next[s[i]] = s[i + 1]

\* The queue's memory is one well-formed list of num nodes whatever the calls
\* that made it, and num agrees with the two totals: what __queue_get_safe
\* counts in its debugging loop (queue.cc:402-410).
ListShape ==
    /\ num = total_in - total_out
    /\ \E s \in [1..num -> Cells] : IsList(s)

\* Only the owner of the mutex is between taking and releasing it, a thread
\* asleep on the condition variable has given it up, and a thread has an
\* operation exactly while it is in a call.
Exclusive ==
    /\ \A t \in Threads : pc[t] \in Critical <=> mutex = t
    /\ \A t \in Threads : op[t] = NULL <=> pc[t] = "idle"
    /\ \A t \in Threads : op[t] \in Puts <=> arg[t] # NULL

\* queue_destroy frees the struct and no node, so it may run only on a drained
\* queue that nobody else uses: the list stays empty and the other threads stay
\* out from its call on, and afterwards no node is left allocated.
DestroyIsLast ==
    /\ \A t \in Threads : op[t] = "destroy" =>
           head = NULL /\ \A u \in Threads \ {t} : pc[u] = "idle"
    /\ ~alive => head = NULL /\ heap = {} /\ \A u \in Threads : pc[u] = "idle"

-----------------------------------------------------------------------------
\* The messages in the queue, read off the list.
Contents == LET s == CHOOSE s \in [1..num -> Cells] : IsList(s)
            IN  [i \in 1..num |-> node[s[i]]]

Atomic == INSTANCE AtomicQueue
            WITH items <- Contents, open <- alive, call <- op, given <- arg

\* Callers cannot tell the linked list with its mutex and trylocks from a
\* double-ended queue whose operations are atomic.
AtomicSpec == Atomic!Spec

-----------------------------------------------------------------------------
\* A call that does not wait on the condition variable returns, whatever the
\* other threads are doing; so does a timed wait.
CallReturns ==
    \A t \in Threads :
        op[t] \in Ops \ (WaitPuts \cup {"wait"}) ~> op[t] = NULL

=============================================================================
