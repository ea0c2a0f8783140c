--------------------------- MODULE MsgQueueProofs ---------------------------
(***************************************************************************)
(* Proofs about MsgQueue for every number of threads, cells and messages.  *)
(*                                                                         *)
(* The inductive invariant is the conjunction of the four invariants that  *)
(* the run queue_safety checks.  They need one another: that a get leaves  *)
(* a well-formed list rests on the list being injective (so head = tail    *)
(* means one node), that num stays a natural number rests on the list, and *)
(* that destroying leaks nothing rests on both.                            *)
(*                                                                         *)
(* The second part shows that MsgQueue implements AtomicQueue: the list    *)
(* that can be read off the nodes is unique, so that Contents, which the   *)
(* refinement mapping chooses, is what the operations make it; then every  *)
(* step under the mutex is a step of the atomic queue or a stutter.        *)
(***************************************************************************)
EXTENDS MsgQueue, SequenceTheorems, WellFoundedInduction, TLAPS

IInv == TypeOK /\ ListShape /\ Exclusive /\ DestroyIsLast

-----------------------------------------------------------------------------
(***************************************************************************)
(* The three operations on the list.                                       *)
(***************************************************************************)

\* Linking a fresh cell behind the tail extends the list by one at its end.
LEMMA AppendIsList ==
    ASSUME TypeOK, NEW s, IsList(s),
           NEW c \in Cells \ heap, NEW m \in Msgs, AppendCell(c, m),
           heap' = heap \cup {c}, num' = num + 1
    PROVE  \E q \in [1..num' -> Cells] :
              /\ IsList(q)'
              /\ q = [i \in 1..(num + 1) |-> IF i = num + 1 THEN c ELSE s[i]]
<1>1. PICK q : q = [i \in 1..(num + 1) |-> IF i = num + 1 THEN c ELSE s[i]]
  OBVIOUS
<1>2. /\ num \in Nat /\ heap \subseteq Cells /\ NULL \notin Cells
      /\ s \in [1..num -> Cells] /\ heap = {s[i] : i \in 1..num}
  BY NullAssumption DEF TypeOK, IsList
<1>3. q \in [1..num' -> Cells]
  BY <1>1, <1>2
<1>4. \A i \in 1..num : s[i] # c
  BY <1>2
<1>5. \A i, j \in 1..num' : q[i] = q[j] => i = j
  BY <1>1, <1>2, <1>4 DEF IsList
<1>6. heap' = {q[i] : i \in 1..num'}
  <2>1. \A i \in 1..num' : q[i] \in heap'
    BY <1>1, <1>2
  <2>2. \A x \in heap' : \E i \in 1..num' : x = q[i]
    <3>1. q[num + 1] = c /\ num + 1 \in 1..num'
      BY <1>1, <1>2
    <3>2. \A x \in heap : \E i \in 1..num : x = q[i]
      BY <1>1, <1>2
    <3>. QED
      BY <3>1, <3>2, <1>2
  <2>. QED
    BY <2>1, <2>2
<1>7. num' \in Nat \ {0}
  BY <1>2
<1>8. head' = q[1] /\ tail' = q[num'] /\ next'[q[num']] = NULL
  <2>1. tail' = q[num'] /\ next'[q[num']] = NULL
    BY <1>1, <1>2 DEF AppendCell
  <2>2. CASE num = 0
    BY <2>2, <1>1 DEF AppendCell, IsList
  <2>3. CASE num > 0
    BY <2>3, <1>1, <1>2 DEF AppendCell, IsList
  <2>. QED
    BY <2>1, <2>2, <2>3, <1>2
<1>9. \A i \in 1..num' : i < num' => next'[q[i]] = q[i + 1]
  <2>0. \A i \in 1..num' : i < num' => i \in 1..num /\ q[i] = s[i]
    BY <1>1, <1>2
  <2>. SUFFICES ASSUME NEW i \in 1..num
                PROVE  next'[s[i]] = q[i + 1]
    BY <2>0
  <2>1. CASE i = num
    BY <2>1, <1>1, <1>2, <1>4 DEF AppendCell, IsList
  <2>2. CASE i < num
    <3>1. s[i] # tail /\ s[i] # c /\ s[i] \in Cells
      BY <2>2, <1>2, <1>4 DEF IsList
    <3>2. next'[s[i]] = next[s[i]]
      BY <3>1 DEF AppendCell
    <3>. QED
      BY <3>2, <2>2, <1>1, <1>2 DEF IsList
  <2>. QED
    BY <2>1, <2>2, <1>2
<1>10. IsList(q)'
  BY <1>3, <1>5, <1>6, <1>7, <1>8, <1>9 DEF IsList
<1>. QED
  BY <1>1, <1>3, <1>10

\* Linking a fresh cell before the head extends the list by one at its start.
LEMMA PrependIsList ==
    ASSUME TypeOK, NEW s, IsList(s),
           NEW c \in Cells \ heap, NEW m \in Msgs, PrependCell(c, m),
           heap' = heap \cup {c}, num' = num + 1
    PROVE  \E q \in [1..num' -> Cells] :
              /\ IsList(q)'
              /\ q = [i \in 1..(num + 1) |-> IF i = 1 THEN c ELSE s[i - 1]]
<1>1. PICK q : q = [i \in 1..(num + 1) |-> IF i = 1 THEN c ELSE s[i - 1]]
  OBVIOUS
<1>2. /\ num \in Nat /\ heap \subseteq Cells /\ NULL \notin Cells
      /\ s \in [1..num -> Cells] /\ heap = {s[i] : i \in 1..num}
  BY NullAssumption DEF TypeOK, IsList
<1>3. q \in [1..num' -> Cells]
  BY <1>1, <1>2
<1>4. \A i \in 1..num : s[i] # c
  BY <1>2
<1>5. \A i, j \in 1..num' : q[i] = q[j] => i = j
  BY <1>1, <1>2, <1>4 DEF IsList
<1>6. heap' = {q[i] : i \in 1..num'}
  <2>1. \A i \in 1..num' : q[i] \in heap'
    BY <1>1, <1>2
  <2>2. \A x \in heap' : \E i \in 1..num' : x = q[i]
    <3>1. q[1] = c /\ 1 \in 1..num'
      BY <1>1, <1>2
    <3>2. \A i \in 1..num : s[i] = q[i + 1] /\ i + 1 \in 1..num'
      BY <1>1, <1>2
    <3>. QED
      BY <3>1, <3>2, <1>2
  <2>. QED
    BY <2>1, <2>2
<1>7. num' \in Nat \ {0}
  BY <1>2
<1>8. head' = q[1] /\ tail' = q[num'] /\ next'[q[num']] = NULL
  <2>1. head' = q[1]
    BY <1>1, <1>2 DEF PrependCell
  <2>2. CASE num = 0
    BY <2>1, <2>2, <1>1, <1>2 DEF PrependCell, IsList, TypeOK
  <2>3. CASE num > 0
    <3>1. q[num'] = s[num] /\ s[num] = tail /\ tail # NULL /\ tail # c
      BY <2>3, <1>1, <1>2, <1>4 DEF IsList
    <3>2. next'[tail] = NULL
      BY <3>1, <2>3, <1>2 DEF PrependCell, IsList, TypeOK
    <3>. QED
      BY <3>1, <3>2, <2>1 DEF PrependCell
  <2>. QED
    BY <2>2, <2>3, <1>2
<1>9. \A i \in 1..num' : i < num' => next'[q[i]] = q[i + 1]
  <2>0. \A i \in 1..num' : i < num' => i \in 1..num /\ q[i + 1] = s[i]
    BY <1>1, <1>2
  <2>. SUFFICES ASSUME NEW i \in 1..num
                PROVE  next'[q[i]] = s[i]
    BY <2>0
  <2>1. CASE i = 1
    BY <2>1, <1>1, <1>2 DEF PrependCell, IsList, TypeOK
  <2>2. CASE i > 1
    <3>1. i - 1 \in 1..num /\ q[i] = s[i - 1] /\ s[i - 1] # c /\ s[i - 1] \in Cells
      BY <2>2, <1>1, <1>2, <1>4
    <3>2. next'[s[i - 1]] = next[s[i - 1]]
      BY <3>1 DEF PrependCell, TypeOK
    <3>3. next[s[i - 1]] = s[i]
      BY <3>1, <2>2, <1>2 DEF IsList
    <3>. QED
      BY <3>1, <3>2, <3>3
  <2>. QED
    BY <2>1, <2>2, <1>2
<1>10. IsList(q)'
  BY <1>3, <1>5, <1>6, <1>7, <1>8, <1>9 DEF IsList
<1>. QED
  BY <1>1, <1>3, <1>10

\* Taking the head off leaves the rest of the list, and frees that cell alone.
LEMMA GetIsList ==
    ASSUME TypeOK, NEW s, IsList(s), get_safe
    PROVE  /\ num > 0
           /\ \E q \in [1..num' -> Cells] :
                 IsList(q)' /\ q = [i \in 1..(num - 1) |-> s[i + 1]]
<1>1. /\ num \in Nat /\ heap \subseteq Cells /\ NULL \notin Cells
      /\ s \in [1..num -> Cells] /\ heap = {s[i] : i \in 1..num}
  BY NullAssumption DEF TypeOK, IsList
<1>2. num > 0 /\ head = s[1] /\ tail = s[num] /\ num' = num - 1
  BY <1>1 DEF IsList, get_safe
<1>3. PICK q : q = [i \in 1..(num - 1) |-> s[i + 1]]
  OBVIOUS
<1>4. q \in [1..num' -> Cells]
  BY <1>1, <1>2, <1>3
<1>5. \A i, j \in 1..num' : q[i] = q[j] => i = j
  BY <1>1, <1>2, <1>3 DEF IsList
<1>6. \A i \in 1..num : i # 1 => s[i] # head
  BY <1>1, <1>2 DEF IsList
<1>7. heap' = {q[i] : i \in 1..num'}
  <2>1. \A i \in 1..num' : q[i] \in heap'
    BY <1>1, <1>2, <1>3, <1>6 DEF get_safe
  <2>2. \A x \in heap' : \E i \in 1..num' : x = q[i]
    <3>1. \A i \in 1..num : s[i] # head => i - 1 \in 1..num' /\ s[i] = q[i - 1]
      BY <1>1, <1>2, <1>3
    <3>. QED
      BY <3>1, <1>1 DEF get_safe
  <2>. QED
    BY <2>1, <2>2
<1>8. head = tail <=> num = 1
  BY <1>1, <1>2, <1>6
<1>9. num' = 0 => head' = NULL /\ tail' = NULL
  BY <1>1, <1>2, <1>8 DEF get_safe
<1>10. \A i \in 1..num' : next'[q[i]] = next[s[i + 1]]
  BY <1>1, <1>2, <1>3, <1>6 DEF get_safe, TypeOK
<1>11. num' > 0 => head' = q[1] /\ tail' = q[num'] /\ next'[q[num']] = NULL
  <2>. SUFFICES ASSUME num' > 0
                PROVE  head' = q[1] /\ tail' = q[num'] /\ next'[q[num']] = NULL
    OBVIOUS
  <2>1. head' = next[head] /\ tail' = tail
    BY <1>1, <1>2, <1>8 DEF get_safe
  <2>2. next[head] = s[2] /\ next[s[num]] = NULL
    BY <1>1, <1>2 DEF IsList
  <2>3. q[1] = s[2] /\ q[num'] = s[num]
    BY <1>1, <1>2, <1>3
  <2>4. next'[q[num']] = next[s[num]]
    BY <1>1, <1>2, <1>10
  <2>. QED
    BY <2>1, <2>2, <2>3, <2>4, <1>2
<1>12. \A i \in 1..num' : i < num' => next'[q[i]] = q[i + 1]
  <2>. SUFFICES ASSUME NEW i \in 1..num', i < num'
                PROVE  next'[q[i]] = q[i + 1]
    OBVIOUS
  <2>1. next'[q[i]] = next[s[i + 1]]
    BY <1>10
  <2>2. next[s[i + 1]] = s[i + 2] /\ q[i + 1] = s[i + 2]
    BY <1>1, <1>2, <1>3 DEF IsList
  <2>. QED
    BY <2>1, <2>2
<1>13. IsList(q)'
  BY <1>4, <1>5, <1>7, <1>9, <1>11, <1>12 DEF IsList
<1>. QED
  BY <1>2, <1>3, <1>4, <1>13

-----------------------------------------------------------------------------
(***************************************************************************)
(* The threads.                                                            *)
(***************************************************************************)

Results == Msgs \cup {NULL, 0, 1, BUSY}

\* pcs is pc but for sleepers that a signal may have woken.
Woken(pcs) ==
    /\ pcs \in [Threads -> PCs]
    /\ \A u \in Threads : pcs[u] = pc[u] \/ (pc[u] = "asleep" /\ pcs[u] = "woken")

LEMMA SignalWakes ==
    ASSUME TypeOK, NEW t \in Threads, NEW r, SignalAndLeave(t, r)
    PROVE  \E pcs : Woken(pcs) /\ Leave(t, r, pcs)
<1>1. CASE Sleepers = {}
  BY <1>1 DEF SignalAndLeave, Woken, TypeOK
<1>2. CASE Sleepers # {}
  <2>1. PICK w \in Sleepers : Leave(t, r, [pc EXCEPT ![w] = "woken"])
    BY <1>2 DEF SignalAndLeave
  <2>2. Woken([pc EXCEPT ![w] = "woken"])
    BY DEF Woken, Sleepers, TypeOK, PCs
  <2>. QED
    BY <2>1, <2>2
<1>. QED
  BY <1>1, <1>2

\* The owner of the mutex leaves its call and unlocks.
LEMMA OwnerLeaves ==
    ASSUME IInv, NEW t \in Threads, pc[t] \in Critical,
           NEW pcs, Woken(pcs), NEW r \in Results, Leave(t, r, pcs), mutex' = NULL
    PROVE  /\ mutex' \in Threads \cup {NULL}
           /\ pc' \in [Threads -> PCs] /\ op' \in [Threads -> Ops \cup {NULL}]
           /\ arg' \in [Threads -> Msgs \cup {NULL}] /\ ret' \in [Threads -> Results]
           /\ Exclusive'
<1>1. /\ pc \in [Threads -> PCs] /\ op \in [Threads -> Ops \cup {NULL}]
      /\ arg \in [Threads -> Msgs \cup {NULL}] /\ ret \in [Threads -> Results]
      /\ pcs \in [Threads -> PCs]
  BY DEF IInv, TypeOK, Woken, Results
<1>2. /\ pc' \in [Threads -> PCs] /\ op' \in [Threads -> Ops \cup {NULL}]
      /\ arg' \in [Threads -> Msgs \cup {NULL}] /\ ret' \in [Threads -> Results]
  BY <1>1 DEF Leave, PCs
<1>3. NULL \notin Threads /\ NULL \notin Puts
  BY NullAssumption DEF Ops
<1>4. \A u \in Threads : pc'[u] \notin Critical
  <2>. SUFFICES ASSUME NEW u \in Threads
                PROVE  pc'[u] \notin Critical
    OBVIOUS
  <2>1. CASE u = t
    BY <2>1, <1>1 DEF Leave, Critical
  <2>2. CASE u # t
    BY <2>2, <1>1 DEF Leave, Critical, IInv, Exclusive, Woken
  <2>. QED
    BY <2>1, <2>2
<1>5. \A u \in Threads : op'[u] = NULL <=> pc'[u] = "idle"
  BY <1>1 DEF Leave, IInv, Exclusive, Woken
<1>6. \A u \in Threads : op'[u] \in Puts <=> arg'[u] # NULL
  BY <1>1, <1>3 DEF Leave, IInv, Exclusive
<1>. QED
  BY <1>2, <1>3, <1>4, <1>5, <1>6 DEF Exclusive

\* While a thread is in a call that is not a destroy, no thread is in
\* queue_destroy and the queue is alive.
LEMMA NobodyDestroys ==
    ASSUME IInv, NEW t \in Threads, pc[t] # "idle", op[t] # "destroy"
    PROVE  alive /\ \A u \in Threads : op[u] # "destroy"
BY DEF IInv, DestroyIsLast, TypeOK

LEMMA InitIInv == Init => IInv
<1>. SUFFICES ASSUME Init
              PROVE  IInv
  OBVIOUS
<1>1. TypeOK
  BY DEF Init, queue_create, TypeOK, PCs
<1>2. ListShape
  <2>1. PICK s : s = [i \in 1..0 |-> NULL]
    OBVIOUS
  <2>2. s \in [1..num -> Cells] /\ IsList(s)
    BY <2>1 DEF Init, queue_create, IsList
  <2>3. num = total_in - total_out
    BY DEF Init, queue_create
  <2>. QED
    BY <2>2, <2>3 DEF ListShape
<1>3. Exclusive
  BY NullAssumption DEF Init, queue_create, Exclusive, Critical, Ops
<1>4. DestroyIsLast
  BY NullAssumption DEF Init, queue_create, DestroyIsLast, Ops
<1>. QED
  BY <1>1, <1>2, <1>3, <1>4 DEF IInv

\* A step that leaves the list alone keeps it well formed.
LEMMA ListUnchanged ==
    ASSUME ListShape, UNCHANGED listVars
    PROVE  ListShape'
<1>1. PICK s \in [1..num -> Cells] : IsList(s)
  BY DEF ListShape
<1>2. IsList(s)' /\ s \in [1..num' -> Cells]
  BY <1>1 DEF IsList, listVars
<1>. QED
  BY <1>2 DEF ListShape, listVars

-----------------------------------------------------------------------------
(***************************************************************************)
(* One lemma per action: it preserves the inductive invariant.             *)
(***************************************************************************)

LEMMA CallStep ==
    ASSUME IInv, NEW t \in Threads, NEW o \in OpsOf[t],
           NEW m \in Msgs \cup {NULL}, Call(t, o, m)
    PROVE  IInv'
<1>1. o \in Ops /\ o # NULL /\ NULL \notin Msgs
  BY OpsAssumption, NullAssumption
<1>2. TypeOK'
  BY <1>1 DEF IInv, TypeOK, Call, listVars, PCs
<1>3. ListShape'
  BY ListUnchanged DEF IInv, Call
<1>4. Exclusive'
  BY <1>1 DEF IInv, TypeOK, Exclusive, Call, Critical
<1>5. DestroyIsLast'
  <2>1. ASSUME NEW u \in Threads, op'[u] = "destroy"
        PROVE  head' = NULL /\ \A v \in Threads \ {u} : pc'[v] = "idle"
    <3>1. u = t /\ o = "destroy"
      BY <2>1 DEF Call, IInv, TypeOK
    <3>. QED
      BY <3>1 DEF Call, listVars, IInv, TypeOK
  <2>2. alive'
    BY DEF Call
  <2>. QED
    BY <2>1, <2>2 DEF DestroyIsLast
<1>. QED
  BY <1>2, <1>3, <1>4, <1>5 DEF IInv

\* The actions that move threads about and leave the list and op alone.
LEMMA MoveStep ==
    ASSUME IInv, NEW t \in Threads, pc[t] # "idle", op[t] # "destroy",
           UNCHANGED <<listVars, alive, op, arg, ret>>,
           mutex' \in Threads \cup {NULL},
           NEW q \in PCs \ {"idle"}, pc' = [pc EXCEPT ![t] = q],
           \A u \in Threads : pc'[u] \in Critical <=> mutex' = u
    PROVE  IInv'
<1>1. TypeOK'
  BY DEF IInv, TypeOK, listVars
<1>2. ListShape'
  BY ListUnchanged DEF IInv
<1>3. Exclusive'
  BY DEF IInv, TypeOK, Exclusive
<1>4. DestroyIsLast'
  BY NobodyDestroys DEF DestroyIsLast
<1>. QED
  BY <1>1, <1>2, <1>3, <1>4 DEF IInv

LEMMA LockStep ==
    ASSUME IInv, NEW t \in Threads, Lock(t)
    PROVE  IInv'
<1>. DEFINE q == CASE pc[t] = "entry" -> "locked"
                   [] pc[t] = "slow"  -> "holding"
                   [] OTHER           -> "back"
<1>1. q \in Critical
  BY DEF Critical
<1>2. pc' = [pc EXCEPT ![t] = q] /\ mutex' = t /\ mutex = NULL /\ NULL \notin Threads
  BY NullAssumption DEF Lock
<1>3. \A u \in Threads : pc'[u] \in Critical <=> mutex' = u
  BY <1>1, <1>2 DEF IInv, TypeOK, Exclusive
<1>4. UNCHANGED <<listVars, alive, op, arg, ret>> /\ pc[t] \in {"entry", "slow", "woken"}
  BY DEF Lock
<1>. HIDE DEF q
<1>5. TypeOK'
  BY <1>1, <1>2, <1>4 DEF IInv, TypeOK, listVars, PCs
<1>6. ListShape'
  BY <1>4, ListUnchanged DEF IInv
<1>7. Exclusive'
  BY <1>1, <1>2, <1>3, <1>4 DEF IInv, TypeOK, Exclusive, Critical
<1>8. DestroyIsLast'
  BY <1>1, <1>2, <1>4 DEF IInv, TypeOK, DestroyIsLast, listVars
<1>. QED
  BY <1>5, <1>6, <1>7, <1>8 DEF IInv

LEMMA TryLockBusyStep ==
    ASSUME IInv, NEW t \in Threads, TryLockBusy(t)
    PROVE  IInv'
<1>1. /\ pc[t] = "entry" /\ op[t] \in TryOps /\ UNCHANGED <<listVars, alive, mutex>>
      /\ op[t] # "destroy" /\ mutex \in Threads \cup {NULL}
  BY DEF TryLockBusy, TryOps, WaitPuts, IInv, TypeOK
<1>2. CASE op[t] \in WaitPuts
  <2>1. pc' = [pc EXCEPT ![t] = "slow"] /\ UNCHANGED <<op, arg, ret>>
    BY <1>2 DEF TryLockBusy
  <2>2. \A u \in Threads : pc'[u] \in Critical <=> mutex' = u
    BY <1>1, <2>1 DEF IInv, TypeOK, Exclusive, Critical
  <2>3. "slow" \in PCs \ {"idle"}
    BY DEF PCs
  <2>. QED
    BY <1>1, <2>1, <2>2, <2>3, MoveStep
<1>3. CASE op[t] \notin WaitPuts
  <2>1. PICK r \in Results : Leave(t, r, pc)
    BY <1>3 DEF TryLockBusy, Results
  <2>2. TypeOK'
    BY <1>1, <2>1 DEF IInv, TypeOK, Leave, listVars, PCs, Results
  <2>3. ListShape'
    BY <1>1, ListUnchanged DEF IInv
  <2>4. Exclusive'
    <3>1. NULL \notin Puts
      BY NullAssumption DEF Ops
    <3>. QED
      BY <1>1, <2>1, <3>1 DEF IInv, TypeOK, Exclusive, Leave, Critical
  <2>5. DestroyIsLast'
    <3>1. alive /\ \A u \in Threads : op[u] # "destroy"
      BY <1>1, NobodyDestroys
    <3>2. \A u \in Threads : op'[u] # "destroy"
      BY <2>1, <3>1, NullAssumption DEF Leave, IInv, TypeOK, Ops
    <3>. QED
      BY <1>1, <3>1, <3>2 DEF DestroyIsLast
  <2>. QED
    BY <2>2, <2>3, <2>4, <2>5 DEF IInv
<1>. QED
  BY <1>2, <1>3

\* When a call other than a destroy ends, queue_destroy is still not running.
LEMMA LeaveKeepsDestroyIsLast ==
    ASSUME IInv, NEW t \in Threads, pc[t] # "idle", op[t] # "destroy",
           NEW r, NEW pcs, Leave(t, r, pcs), UNCHANGED alive
    PROVE  DestroyIsLast'
<1>1. alive /\ \A u \in Threads : op[u] # "destroy"
  BY NobodyDestroys
<1>2. \A u \in Threads : op'[u] # "destroy"
  BY <1>1, NullAssumption DEF Leave, IInv, TypeOK, Ops
<1>. QED
  BY <1>1, <1>2 DEF DestroyIsLast

\* The owner of the mutex leaves its call without having touched the list.
LEMMA LeaveStep ==
    ASSUME IInv, NEW t \in Threads, pc[t] \in Critical, op[t] # "destroy",
           NEW pcs, Woken(pcs), NEW r \in Results, Leave(t, r, pcs),
           mutex' = NULL, UNCHANGED <<listVars, alive>>
    PROVE  IInv'
<1>1. /\ mutex' \in Threads \cup {NULL}
      /\ pc' \in [Threads -> PCs] /\ op' \in [Threads -> Ops \cup {NULL}]
      /\ arg' \in [Threads -> Msgs \cup {NULL}] /\ ret' \in [Threads -> Results]
      /\ Exclusive'
  BY OwnerLeaves
<1>2. TypeOK'
  BY <1>1 DEF IInv, TypeOK, listVars, Results
<1>3. ListShape'
  BY ListUnchanged DEF IInv
<1>4. DestroyIsLast'
  BY LeaveKeepsDestroyIsLast DEF Critical
<1>. QED
  BY <1>1, <1>2, <1>3, <1>4 DEF IInv

LEMMA PcWoken == TypeOK => Woken(pc)
BY DEF TypeOK, Woken

LEMMA PutStep ==
    ASSUME IInv, NEW t \in Threads, Put(t)
    PROVE  IInv'
<1>1. /\ pc[t] \in Critical /\ pc[t] # "idle" /\ op[t] \in Puts /\ op[t] # "destroy"
      /\ arg[t] \in Msgs /\ mutex' = NULL /\ UNCHANGED alive
  BY DEF Put, Critical, Puts, TailPuts, HeadPuts, IInv, TypeOK, Exclusive
<1>2. PICK pcs : Woken(pcs) /\ Leave(t, 1, pcs)
  BY SignalWakes DEF Put, IInv
<1>3. /\ mutex' \in Threads \cup {NULL}
      /\ pc' \in [Threads -> PCs] /\ op' \in [Threads -> Ops \cup {NULL}]
      /\ arg' \in [Threads -> Msgs \cup {NULL}] /\ ret' \in [Threads -> Results]
      /\ Exclusive'
  BY <1>1, <1>2, OwnerLeaves DEF Results
<1>4. PICK c \in Cells \ heap :
        /\ heap' = heap \cup {c}
        /\ IF op[t] \in TailPuts THEN AppendCell(c, arg[t]) ELSE PrependCell(c, arg[t])
        /\ total_in' = total_in + 1 /\ num' = num + 1 /\ UNCHANGED total_out
  BY DEF Put, put_safe
<1>5. PICK s \in [1..num -> Cells] : IsList(s)
  BY DEF IInv, ListShape
<1>6. PICK q \in [1..num' -> Cells] : IsList(q)'
  BY <1>1, <1>4, <1>5, AppendIsList, PrependIsList DEF IInv
<1>7. ListShape'
  <2>1. num' = total_in' - total_out'
    BY <1>4 DEF IInv, ListShape, TypeOK
  <2>. QED
    BY <2>1, <1>6 DEF ListShape
<1>8. TypeOK'
  <2>1. /\ node' \in [Cells -> Msgs \cup {NULL}] /\ next' \in [Cells -> Cells \cup {NULL}]
        /\ head' \in Cells \cup {NULL} /\ tail' \in Cells \cup {NULL}
    <3>1. CASE op[t] \in TailPuts
      <4>1. AppendCell(c, arg[t])
        BY <1>4, <3>1
      <4>. QED
        BY <1>1, <4>1 DEF AppendCell, IInv, TypeOK
    <3>2. CASE op[t] \notin TailPuts
      <4>1. PrependCell(c, arg[t])
        BY <1>4, <3>2
      <4>. QED
        BY <1>1, <4>1 DEF PrependCell, IInv, TypeOK
    <3>. QED
      BY <3>1, <3>2
  <2>. QED
    BY <2>1, <1>1, <1>3, <1>4 DEF IInv, TypeOK, Results
<1>9. DestroyIsLast'
  BY <1>1, <1>2, LeaveKeepsDestroyIsLast
<1>. QED
  BY <1>3, <1>7, <1>8, <1>9 DEF IInv

LEMMA GetStep ==
    ASSUME IInv, NEW t \in Threads, Get(t)
    PROVE  IInv'
<1>1. /\ pc[t] \in Critical /\ pc[t] # "idle" /\ op[t] # "destroy"
      /\ mutex' = NULL /\ UNCHANGED alive
  BY DEF Get, Critical, Gets
<1>2. Woken(pc)
  BY PcWoken DEF IInv
<1>3. CASE head = NULL
  BY <1>1, <1>2, <1>3, LeaveStep DEF Get, Results
<1>4. CASE head # NULL
  <2>1. get_safe /\ Leave(t, node[head], pc) /\ node[head] \in Results
    BY <1>4 DEF Get, Results, IInv, TypeOK
  <2>2. /\ mutex' \in Threads \cup {NULL}
        /\ pc' \in [Threads -> PCs] /\ op' \in [Threads -> Ops \cup {NULL}]
        /\ arg' \in [Threads -> Msgs \cup {NULL}] /\ ret' \in [Threads -> Results]
        /\ Exclusive'
    BY <1>1, <1>2, <2>1, OwnerLeaves
  <2>3. PICK s \in [1..num -> Cells] : IsList(s)
    BY DEF IInv, ListShape
  <2>4. num > 0 /\ \E q \in [1..num' -> Cells] :
                 IsList(q)' /\ q = [i \in 1..(num - 1) |-> s[i + 1]]
    BY <2>1, <2>3, GetIsList DEF IInv
  <2>5. ListShape'
    <3>1. num' = total_in' - total_out'
      BY <2>1 DEF get_safe, IInv, ListShape, TypeOK
    <3>. QED
      BY <3>1, <2>4 DEF ListShape
  <2>6. TypeOK'
    <3>1. num' \in Nat /\ total_in' \in Nat /\ total_out' \in Nat
      BY <2>1, <2>4 DEF get_safe, IInv, TypeOK
    <3>2. /\ node' \in [Cells -> Msgs \cup {NULL}] /\ next' \in [Cells -> Cells \cup {NULL}]
          /\ head' \in Cells \cup {NULL} /\ tail' \in Cells \cup {NULL}
          /\ heap' \in SUBSET Cells
      BY <2>1 DEF get_safe, IInv, TypeOK
    <3>. QED
      BY <3>1, <3>2, <1>1, <2>2 DEF IInv, TypeOK, Results
  <2>7. DestroyIsLast'
    BY <1>1, <2>1, LeaveKeepsDestroyIsLast
  <2>. QED
    BY <2>2, <2>5, <2>6, <2>7 DEF IInv
<1>. QED
  BY <1>3, <1>4

LEMMA PutFailsStep ==
    ASSUME IInv, NEW t \in Threads, PutFails(t)
    PROVE  IInv'
BY PcWoken, LeaveStep
   DEF PutFails, IInv, Critical, Puts, TailPuts, HeadPuts, Results

LEMMA PeekStep ==
    ASSUME IInv, NEW t \in Threads, Peek(t)
    PROVE  IInv'
<1>1. (IF head # NULL THEN 1 ELSE 0) \in Results
  BY DEF Results
<1>. QED
  BY <1>1, PcWoken, LeaveStep DEF Peek, IInv, Critical

LEMMA SignalStep ==
    ASSUME IInv, NEW t \in Threads, Signal(t)
    PROVE  IInv'
<1>1. PICK pcs : Woken(pcs) /\ Leave(t, NULL, pcs)
  BY SignalWakes DEF Signal, IInv
<1>2. pc[t] \in Critical /\ op[t] # "destroy" /\ NULL \in Results
  BY DEF Signal, Critical, Results
<1>. QED
  BY <1>1, <1>2, LeaveStep DEF Signal

LEMMA SleepStep ==
    ASSUME IInv, NEW t \in Threads, Sleep(t)
    PROVE  IInv'
<1>1. /\ pc[t] \in Critical /\ pc[t] # "idle"
      /\ UNCHANGED <<listVars, alive, op, arg, ret>>
      /\ pc' = [pc EXCEPT ![t] = "asleep"] /\ mutex' = NULL /\ NULL \notin Threads
  BY NullAssumption DEF Sleep, Critical
<1>2. \A u \in Threads : pc'[u] \in Critical <=> mutex' = u
  BY <1>1 DEF IInv, TypeOK, Exclusive, Critical
<1>3. "asleep" \in PCs \ {"idle"}
  BY DEF PCs
<1>4. CASE op[t] # "destroy"
  BY <1>1, <1>2, <1>3, <1>4, MoveStep
<1>5. CASE op[t] = "destroy"
  <2>1. TypeOK'
    BY <1>1, <1>3 DEF IInv, TypeOK, listVars
  <2>2. ListShape'
    BY <1>1, ListUnchanged DEF IInv
  <2>3. Exclusive'
    BY <1>1, <1>2 DEF IInv, TypeOK, Exclusive
  <2>4. DestroyIsLast'
    BY <1>1, <1>5 DEF IInv, TypeOK, DestroyIsLast, listVars
  <2>. QED
    BY <2>1, <2>2, <2>3, <2>4 DEF IInv
<1>. QED
  BY <1>4, <1>5

\* A deadline or a spurious wake-up: the sleeper goes to take the mutex.
LEMMA WakeStep ==
    ASSUME IInv, NEW t \in Threads, TimeOut(t) \/ SpuriousWake(t)
    PROVE  IInv'
<1>1. /\ pc[t] = "asleep" /\ UNCHANGED <<listVars, alive, mutex, op, arg, ret>>
      /\ pc' = [pc EXCEPT ![t] = "woken"]
  BY DEF TimeOut, SpuriousWake
<1>2. \A u \in Threads : pc'[u] \in Critical <=> mutex' = u
  BY <1>1 DEF IInv, TypeOK, Exclusive, Critical
<1>3. TypeOK'
  BY <1>1 DEF IInv, TypeOK, listVars, PCs
<1>4. ListShape'
  BY <1>1, ListUnchanged DEF IInv
<1>5. Exclusive'
  BY <1>1, <1>2 DEF IInv, TypeOK, Exclusive
<1>6. DestroyIsLast'
  BY <1>1 DEF IInv, TypeOK, DestroyIsLast, listVars
<1>. QED
  BY <1>3, <1>4, <1>5, <1>6 DEF IInv

LEMMA AwakeStep ==
    ASSUME IInv, NEW t \in Threads, Awake(t)
    PROVE  IInv'
<1>1. /\ pc[t] = "back" /\ pc[t] \in Critical /\ mutex' = NULL
      /\ UNCHANGED <<listVars, alive>> /\ NULL \notin Threads
  BY NullAssumption DEF Awake, Critical
<1>2. CASE op[t] \in Waits
  <2>1. Leave(t, 0, pc) /\ op[t] # "destroy" /\ 0 \in Results
    BY <1>2 DEF Awake, Waits, Results
  <2>. QED
    BY <1>1, <2>1, PcWoken, LeaveStep DEF IInv
<1>3. CASE op[t] \notin Waits
  <2>1. pc' = [pc EXCEPT ![t] = "entry"] /\ UNCHANGED <<op, arg, ret>>
    BY <1>3 DEF Awake
  <2>2. \A u \in Threads : pc'[u] \in Critical <=> mutex' = u
    BY <1>1, <2>1 DEF IInv, TypeOK, Exclusive, Critical
  <2>3. TypeOK'
    BY <1>1, <2>1 DEF IInv, TypeOK, listVars, PCs
  <2>4. ListShape'
    BY <1>1, ListUnchanged DEF IInv
  <2>5. Exclusive'
    BY <1>1, <2>1, <2>2 DEF IInv, TypeOK, Exclusive
  <2>6. DestroyIsLast'
    BY <1>1, <2>1 DEF IInv, TypeOK, DestroyIsLast, listVars
  <2>. QED
    BY <2>3, <2>4, <2>5, <2>6 DEF IInv
<1>. QED
  BY <1>2, <1>3

LEMMA DestroyStep ==
    ASSUME IInv, NEW t \in Threads, Destroy(t)
    PROVE  IInv'
<1>1. /\ pc[t] \in Critical /\ op[t] = "destroy" /\ mutex' = NULL
      /\ UNCHANGED listVars /\ alive' = FALSE /\ Leave(t, NULL, pc)
  BY DEF Destroy, Critical
<1>2. /\ mutex' \in Threads \cup {NULL}
      /\ pc' \in [Threads -> PCs] /\ op' \in [Threads -> Ops \cup {NULL}]
      /\ arg' \in [Threads -> Msgs \cup {NULL}] /\ ret' \in [Threads -> Results]
      /\ Exclusive'
  BY <1>1, PcWoken, OwnerLeaves DEF Results, IInv
<1>3. TypeOK'
  BY <1>1, <1>2 DEF IInv, TypeOK, listVars, Results
<1>4. ListShape'
  BY <1>1, ListUnchanged DEF IInv
<1>5. head = NULL /\ \A u \in Threads : pc'[u] = "idle"
  BY <1>1 DEF Leave, IInv, TypeOK, DestroyIsLast
<1>6. heap = {}
  <2>1. PICK s \in [1..num -> Cells] : IsList(s)
    BY DEF IInv, ListShape
  <2>2. num = 0
    BY <1>5, <2>1, NullAssumption DEF IsList, IInv, TypeOK
  <2>. QED
    BY <2>1, <2>2 DEF IsList
<1>7. \A u \in Threads : op'[u] = NULL
  BY <1>2, <1>5 DEF Exclusive
<1>8. DestroyIsLast'
  BY <1>1, <1>5, <1>6, <1>7, NullAssumption DEF DestroyIsLast, listVars, Ops
<1>. QED
  BY <1>2, <1>3, <1>4, <1>8 DEF IInv

LEMMA StutterStep ==
    ASSUME IInv, UNCHANGED vars
    PROVE  IInv'
<1>1. ListShape'
  BY ListUnchanged DEF IInv, vars
<1>. QED
  BY <1>1 DEF IInv, TypeOK, Exclusive, DestroyIsLast, vars, listVars

-----------------------------------------------------------------------------
\* The inductive invariant holds of every execution: one case per action.
THEOREM Invariance == Spec => []IInv
<1>1. Init => IInv
  BY InitIInv
<1>2. IInv /\ [Next]_vars => IInv'
  <2>. SUFFICES ASSUME IInv, [Next]_vars
                PROVE  IInv'
    OBVIOUS
  <2>1. CASE UNCHANGED vars
    BY <2>1, StutterStep
  <2>2. CASE Next
    <3>1. PICK t \in Threads :
            \/ \E o \in OpsOf[t], m \in Msgs \cup {NULL} : Call(t, o, m)
            \/ Advance(t)
            \/ SpuriousWake(t)
      BY <2>2 DEF Next
    <3>2. CASE \E o \in OpsOf[t], m \in Msgs \cup {NULL} : Call(t, o, m)
      BY <3>2, CallStep
    <3>3. CASE Advance(t)
      BY <3>3, LockStep, TryLockBusyStep, PutStep, PutFailsStep, GetStep,
         PeekStep, SignalStep, DestroyStep, SleepStep, WakeStep, AwakeStep
         DEF Advance
    <3>4. CASE SpuriousWake(t)
      BY <3>4, WakeStep
    <3>. QED
      BY <3>1, <3>2, <3>3, <3>4
  <2>. QED
    BY <2>1, <2>2
<1>. QED
  BY <1>1, <1>2, PTL DEF Spec

\* The fields of the queue and of its threads keep their types; in particular
\* num never goes below zero.
THEOREM TypeCorrect == Spec => []TypeOK
<1>1. IInv => TypeOK
  BY DEF IInv
<1>. QED
  BY <1>1, Invariance, PTL

\* Whatever the interleaving of puts at either end, gets and failed mallocs,
\* the nodes are one well-formed list whose length agrees with the counters.
THEOREM WellFormedList == Spec => []ListShape
<1>1. IInv => ListShape
  BY DEF IInv
<1>. QED
  BY <1>1, Invariance, PTL

\* At most one thread is between taking the mutex and releasing it, sleeping
\* on the condition variable included.
THEOREM MutualExclusion == Spec => []Exclusive
<1>1. IInv => Exclusive
  BY DEF IInv
<1>. QED
  BY <1>1, Invariance, PTL

\* A queue destroyed as its comment asks leaves no node allocated.
THEOREM DestroyLeaksNothing == Spec => []DestroyIsLast
<1>1. IInv => DestroyIsLast
  BY DEF IInv
<1>. QED
  BY <1>1, Invariance, PTL

-----------------------------------------------------------------------------
(***************************************************************************)
(* The list is determined by the nodes.                                    *)
(***************************************************************************)

\* Every set of natural numbers has a least element.
LEMMA LessThanWellFounded ==
    ASSUME NEW R, R = {p \in Nat \X Nat : p[1] < p[2]}
    PROVE  IsWellFoundedOn(R, Nat)
BY NatLessThanWellFounded DEF OpToRel

LEMMA Least ==
    ASSUME NEW T, T \subseteq Nat, T # {}
    PROVE  \E n \in T : \A m \in T : n <= m
<1>1. PICK R : R = {p \in Nat \X Nat : p[1] < p[2]}
  OBVIOUS
<1>2. IsWellFoundedOn(R, Nat)
  BY <1>1, LessThanWellFounded
<1>3. PICK n \in T : \A m \in T : ~ (<<m, n>> \in R)
  BY <1>2, WFMin
<1>4. \A m, k \in Nat : m < k => <<m, k>> \in R
  BY <1>1
<1>5. \A m \in T : ~ (m < n)
  BY <1>3, <1>4
<1> QED
  BY <1>5

\* Two lists that start at head do not part: where they first would, they
\* follow the same pointer.
LEMMA ListUnique ==
    ASSUME num \in Nat, NEW s, NEW q, IsList(s), IsList(q)
    PROVE  s = q
<1>1. s \in [1..num -> Cells] /\ q \in [1..num -> Cells]
  BY DEF IsList
<1> DEFINE T == {i \in 1..num : s[i] # q[i]}
<1>2. CASE T = {}
  BY <1>1, <1>2
<1>3. CASE T # {}
  <2>1. PICK n \in T : \A m \in T : n <= m
    <3>1. T \subseteq Nat
      OBVIOUS
    <3> HIDE DEF T
    <3> QED
      BY <1>3, <3>1, Least
  <2>2. n \in 1..num /\ num > 0
    OBVIOUS
  <2>3. n # 1
    BY <2>2 DEF IsList
  <2>4. n - 1 \in 1..num /\ s[n - 1] = q[n - 1]
    BY <2>1, <2>2, <2>3
  <2>5. next[s[n - 1]] = s[n] /\ next[q[n - 1]] = q[n]
    BY <2>2, <2>4 DEF IsList
  <2> QED
    BY <2>4, <2>5
<1> QED
  BY <1>2, <1>3

\* What a caller finds in the queue, read off any list.
LEMMA ContentsRead ==
    num \in Nat => \A s : IsList(s) => Contents = [i \in 1..num |-> node[s[i]]]
<1> SUFFICES ASSUME num \in Nat, NEW s, IsList(s)
             PROVE  Contents = [i \in 1..num |-> node[s[i]]]
  OBVIOUS
<1>1. s \in [1..num -> Cells]
  BY DEF IsList
<1>2. \A q \in [1..num -> Cells] : IsList(q) => q = s
  BY ListUnique
<1> DEFINE C == CHOOSE q \in [1..num -> Cells] : IsList(q)
<1>3. C = s
  BY <1>1, <1>2
<1>4. Contents = [i \in 1..num |-> node[C[i]]]
  BY Zenon DEF Contents
<1> HIDE DEF C
<1> QED
  BY <1>3, <1>4

LEMMA ContentsReadNext ==
    (num \in Nat => \A s : IsList(s) => Contents = [i \in 1..num |-> node[s[i]]])'
BY ContentsRead, PTL

-----------------------------------------------------------------------------
(***************************************************************************)
(* The three operations on the list are those on the sequence.             *)
(***************************************************************************)

LEMMA SequenceAppend ==
    ASSUME NEW S, NEW n \in Nat, NEW f \in [1..n -> S], NEW m \in S
    PROVE  Append(f, m) = [i \in 1..(n + 1) |-> IF i = n + 1 THEN m ELSE f[i]]
<1>1. f \in Seq(S) /\ Len(f) = n
  BY LenProperties
<1>2. Append(f, m) \in Seq(S) /\ Len(Append(f, m)) = n + 1
  BY <1>1, AppendProperties
<1>3. /\ \A i \in 1..n : Append(f, m)[i] = f[i]
      /\ Append(f, m)[n + 1] = m
  BY <1>1, AppendProperties
<1>4. ASSUME NEW g \in Seq(S), Len(g) = n + 1
      PROVE  g = [i \in 1..(n + 1) |-> g[i]]
  BY <1>4, LenProperties
<1>5. Append(f, m) = [i \in 1..(n + 1) |-> Append(f, m)[i]]
  BY <1>2, <1>4
<1> QED
  BY <1>3, <1>5

LEMMA SequencePrepend ==
    ASSUME NEW S, NEW n \in Nat, NEW f \in [1..n -> S], NEW m \in S
    PROVE  <<m>> \o f = [i \in 1..(n + 1) |-> IF i = 1 THEN m ELSE f[i - 1]]
<1>1. f \in Seq(S) /\ Len(f) = n
  BY LenProperties
<1> QED
  BY <1>1

LEMMA SequenceTail ==
    ASSUME NEW S, NEW n \in Nat \ {0}, NEW f \in [1..n -> S]
    PROVE  /\ f # <<>> /\ Head(f) = f[1]
           /\ Tail(f) = [i \in 1..(n - 1) |-> f[i + 1]]
<1>1. f \in Seq(S) /\ Len(f) = n
  BY LenProperties
<1>2. f # <<>> /\ Head(f) = f[1]
  BY <1>1
<1>3. ASSUME NEW g \in Seq(S), Len(g) = n - 1
      PROVE  g = [i \in 1..(n - 1) |-> g[i]]
  BY <1>3, LenProperties
<1>4. /\ Tail(f) \in Seq(S) /\ Len(Tail(f)) = n - 1
      /\ \A i \in 1..(n - 1) : Tail(f)[i] = f[i + 1]
  BY <1>1, <1>2, HeadTailProperties
<1>5. Tail(f) = [i \in 1..(n - 1) |-> Tail(f)[i]]
  BY <1>3, <1>4
<1> QED
  BY <1>2, <1>4, <1>5

LEMMA ContentsType ==
    ASSUME TypeOK, NEW s, IsList(s)
    PROVE  /\ Contents = [i \in 1..num |-> node[s[i]]]
           /\ Contents \in [1..num -> Msgs \cup {NULL}]
<1>1. Contents = [i \in 1..num |-> node[s[i]]] /\ s \in [1..num -> Cells]
  BY ContentsRead DEF TypeOK, IsList
<1> QED
  BY <1>1 DEF TypeOK

LEMMA ContentsEmpty ==
    ASSUME IInv
    PROVE  Contents = <<>> <=> head = NULL
<1>1. PICK s \in [1..num -> Cells] : IsList(s)
  BY DEF IInv, ListShape
<1>2. num \in Nat /\ Contents = [i \in 1..num |-> node[s[i]]]
  BY <1>1, ContentsType DEF IInv, TypeOK
<1>3. CASE num = 0
  BY <1>1, <1>2, <1>3 DEF IsList
<1>4. CASE num > 0
  <2>1. head = s[1] /\ 1 \in 1..num
    BY <1>1, <1>2, <1>4 DEF IsList
  <2>3. head # NULL
    BY <1>1, <2>1, NullAssumption
  <2>2. DOMAIN Contents # {}
    BY <1>2, <1>4
  <2> QED
    BY <2>2, <2>3
<1> QED
  BY <1>2, <1>3, <1>4

LEMMA ContentsSame ==
    ASSUME IInv, UNCHANGED listVars
    PROVE  Contents' = Contents
<1>1. PICK s \in [1..num -> Cells] : IsList(s)
  BY DEF IInv, ListShape
<1>2. IsList(s)' /\ num' \in Nat
  BY <1>1 DEF listVars, IsList, IInv, TypeOK
<1>3. Contents' = [i \in 1..num' |-> node'[s[i]]]
  BY <1>2, ContentsReadNext
<1>4. Contents = [i \in 1..num |-> node[s[i]]]
  BY <1>1, ContentsType DEF IInv
<1> QED
  BY <1>3, <1>4 DEF listVars

LEMMA PutContents ==
    ASSUME IInv, NEW o \in Puts, NEW m \in Msgs, put_safe(o, m)
    PROVE  Contents' = IF o \in TailPuts THEN Append(Contents, m) ELSE <<m>> \o Contents
<1>1. PICK s \in [1..num -> Cells] : IsList(s)
  BY DEF IInv, ListShape
<1>2. PICK c \in Cells \ heap :
        /\ heap' = heap \cup {c}
        /\ IF o \in TailPuts THEN AppendCell(c, m) ELSE PrependCell(c, m)
        /\ num' = num + 1
  BY DEF put_safe
<1>3. /\ num \in Nat /\ num' \in Nat /\ \A i \in 1..num : s[i] # c
      /\ Contents = [i \in 1..num |-> node[s[i]]]
      /\ Contents \in [1..num -> Msgs \cup {NULL}] /\ m \in Msgs \cup {NULL}
  <2>1. num \in Nat /\ num' \in Nat
    BY <1>2 DEF IInv, TypeOK
  <2>2. \A i \in 1..num : s[i] # c
    BY <1>1, <1>2 DEF IsList
  <2> QED
    BY <1>1, <2>1, <2>2, ContentsType DEF IInv
<1>4. node' = [node EXCEPT ![c] = m] /\ node \in [Cells -> Msgs \cup {NULL}]
  BY <1>2 DEF AppendCell, PrependCell, IInv, TypeOK
<1>5. CASE o \in TailPuts
  <2>1. PICK q : IsList(q)' /\ q = [i \in 1..(num + 1) |-> IF i = num + 1 THEN c ELSE s[i]]
    <3>1. AppendCell(c, m)
      BY <1>2, <1>5
    <3>2. c \in Cells \ heap /\ heap' = heap \cup {c} /\ num' = num + 1 /\ TypeOK
      BY <1>2 DEF IInv
    <3>3. \E q \in [1..num' -> Cells] :
              IsList(q)' /\ q = [i \in 1..(num + 1) |-> IF i = num + 1 THEN c ELSE s[i]]
      BY <1>1, <3>1, <3>2, AppendIsList
    <3> QED
      BY <3>3
  <2>2. Contents' = [i \in 1..(num + 1) |-> node'[q[i]]]
    BY <1>2, <1>3, <2>1, ContentsReadNext
  <2>3. \A i \in 1..(num + 1) : node'[q[i]] = IF i = num + 1 THEN m ELSE Contents[i]
    BY <1>1, <1>3, <1>4, <2>1
  <2>4. Append(Contents, m) = [i \in 1..(num + 1) |-> IF i = num + 1 THEN m ELSE Contents[i]]
    BY <1>3, SequenceAppend
  <2> QED
    BY <1>5, <2>2, <2>3, <2>4
<1>6. CASE o \notin TailPuts
  <2>1. PICK q : IsList(q)' /\ q = [i \in 1..(num + 1) |-> IF i = 1 THEN c ELSE s[i - 1]]
    <3>1. PrependCell(c, m)
      BY <1>2, <1>6
    <3>2. c \in Cells \ heap /\ heap' = heap \cup {c} /\ num' = num + 1 /\ TypeOK
      BY <1>2 DEF IInv
    <3>3. \E q \in [1..num' -> Cells] :
              IsList(q)' /\ q = [i \in 1..(num + 1) |-> IF i = 1 THEN c ELSE s[i - 1]]
      BY <1>1, <3>1, <3>2, PrependIsList
    <3> QED
      BY <3>3
  <2>2. Contents' = [i \in 1..(num + 1) |-> node'[q[i]]]
    <3>1. num' = num + 1 /\ num' \in Nat /\ IsList(q)'
      BY <1>2, <1>3, <2>1
    <3>2. Contents' = [i \in 1..num' |-> node'[q[i]]]
      BY <3>1, ContentsReadNext
    <3> QED
      BY <3>1, <3>2
  <2>3. \A i \in 1..(num + 1) : node'[q[i]] = IF i = 1 THEN m ELSE Contents[i - 1]
    BY <1>1, <1>3, <1>4, <2>1
  <2>4. <<m>> \o Contents = [i \in 1..(num + 1) |-> IF i = 1 THEN m ELSE Contents[i - 1]]
    BY <1>3, SequencePrepend
  <2> QED
    BY <1>6, <2>2, <2>3, <2>4
<1> QED
  BY <1>5, <1>6

LEMMA GetContents ==
    ASSUME IInv, get_safe
    PROVE  /\ Contents # <<>> /\ node[head] = Head(Contents)
           /\ Contents' = Tail(Contents)
<1>1. PICK s \in [1..num -> Cells] : IsList(s)
  BY DEF IInv, ListShape
<1>2. /\ num > 0
      /\ \E q \in [1..num' -> Cells] : IsList(q)' /\ q = [i \in 1..(num - 1) |-> s[i + 1]]
  BY <1>1, GetIsList DEF IInv
<1>3. PICK q : IsList(q)' /\ q = [i \in 1..(num - 1) |-> s[i + 1]]
  BY <1>2
<1>4. /\ num \in Nat \ {0} /\ num' = num - 1 /\ num' \in Nat
      /\ Contents = [i \in 1..num |-> node[s[i]]]
      /\ Contents \in [1..num -> Msgs \cup {NULL}]
  BY <1>1, <1>2, ContentsType DEF IInv, TypeOK, get_safe
<1>5. /\ Contents # <<>> /\ Head(Contents) = Contents[1]
      /\ Tail(Contents) = [i \in 1..(num - 1) |-> Contents[i + 1]]
  BY <1>4, SequenceTail
<1>6. head = s[1] /\ \A i \in 1..(num - 1) : s[i + 1] # head /\ s[i + 1] \in Cells
  <2>1. head = s[1] /\ 1 \in 1..num /\ \A i \in 1..(num - 1) : i + 1 \in 1..num /\ i + 1 # 1
    BY <1>1, <1>4 DEF IsList
  <2>2. \A i, j \in 1..num : s[i] = s[j] => i = j
    BY <1>1 DEF IsList
  <2> QED
    BY <1>1, <2>1, <2>2
<1>7. Contents' = [i \in 1..(num - 1) |-> node'[q[i]]]
  BY <1>3, <1>4, ContentsReadNext
<1>8. \A i \in 1..(num - 1) : node'[q[i]] = Contents[i + 1]
  <2>1. node' = [node EXCEPT ![head] = NULL] /\ node \in [Cells -> Msgs \cup {NULL}]
    BY DEF get_safe, IInv, TypeOK
  <2> QED
    BY <1>3, <1>4, <1>6, <2>1
<1> QED
  BY <1>4, <1>5, <1>6, <1>7, <1>8

-----------------------------------------------------------------------------
(***************************************************************************)
(* The steps.                                                              *)
(***************************************************************************)

\* A step that does not end a call and leaves the list alone is none to the
\* callers.
LEMMA Stutters ==
    ASSUME IInv, UNCHANGED <<listVars, alive, op, arg, ret>>
    PROVE  UNCHANGED Atomic!vars
BY ContentsSame DEF Atomic!vars

LEMMA AtomicStep ==
    ASSUME IInv, [Next]_vars
    PROVE  [Atomic!Next]_(Atomic!vars)
<1>1. CASE UNCHANGED vars
  BY <1>1, Stutters DEF vars
<1>2. ASSUME NEW t \in Threads, NEW o \in OpsOf[t], NEW m \in Msgs \cup {NULL}, Call(t, o, m)
      PROVE  Atomic!Next
  <2>1. Contents' = Contents
    BY <1>2, ContentsSame DEF Call
  <2>2. op[t] = NULL /\ (o = "destroy" => Contents = <<>> /\ \A u \in Threads : op[u] = NULL)
    BY <1>2, ContentsEmpty DEF Call, IInv, Exclusive
  <2>3. Atomic!Invoke(t, o, m)
    BY <1>2, <2>1, <2>2 DEF Call, Atomic!Invoke, Atomic!Puts, Atomic!TailPuts, Atomic!HeadPuts,
                            Puts, TailPuts, HeadPuts
  <2> QED
    BY <2>3 DEF Atomic!Next
<1>3. ASSUME NEW t \in Threads, Advance(t) \/ SpuriousWake(t)
      PROVE  [Atomic!Next]_(Atomic!vars)
  <2>0. TypeOK /\ Exclusive
    BY DEF IInv
  <2>1. ASSUME NEW r, NEW pcs, Leave(t, r, pcs)
        PROVE  Atomic!Return(t, r)
    BY <2>1 DEF Leave, Atomic!Return
  <2>2. ASSUME NEW r, SignalAndLeave(t, r)
        PROVE  Atomic!Return(t, r)
    BY <2>2, <2>1 DEF SignalAndLeave
  <2>3. CASE Lock(t) \/ Sleep(t) \/ TimeOut(t) \/ SpuriousWake(t)
    BY <2>3, Stutters DEF Lock, Sleep, TimeOut, SpuriousWake
  <2>4. CASE TryLockBusy(t)
    <3>1. CASE op[t] \in WaitPuts
      BY <2>4, <3>1, Stutters DEF TryLockBusy
    <3>2. CASE op[t] \notin WaitPuts
      <4>1. op[t] \in {"put_nb", "put_head_nb", "get_nb"} /\ UNCHANGED alive /\ Contents' = Contents
        BY <2>4, <3>2, ContentsSame DEF TryLockBusy, TryOps
      <4>2. Atomic!Return(t, IF op[t] = "get_nb" THEN NULL ELSE -1)
        BY <2>1, <2>4, <3>2 DEF TryLockBusy, BUSY
      <4>3. Atomic!ReturnPut(t) \/ Atomic!ReturnGet(t)
        BY <4>1, <4>2 DEF Atomic!ReturnPut, Atomic!ReturnGet, Atomic!Puts, Atomic!TailPuts,
                          Atomic!HeadPuts
      <4> QED
        BY <4>3 DEF Atomic!Next
    <3> QED
      BY <3>1, <3>2
  <2>5. CASE Put(t)
    <3>1. op[t] \in Puts /\ arg[t] \in Msgs
      BY <2>0, <2>5 DEF Put, TypeOK, Exclusive
    <3>2. Contents' = IF op[t] \in TailPuts THEN Append(Contents, arg[t])
                      ELSE <<arg[t]>> \o Contents
      BY <2>5, <3>1, PutContents DEF Put
    <3>3. Atomic!ReturnPut(t)
      BY <2>2, <2>5, <3>1, <3>2 DEF Put, Atomic!ReturnPut, Atomic!Puts, Atomic!TailPuts,
                          Atomic!HeadPuts, Puts, TailPuts, HeadPuts
    <3> QED
      BY <3>3 DEF Atomic!Next
  <2>6. CASE PutFails(t)
    <3>1. Contents' = Contents
      BY <2>6, ContentsSame DEF PutFails
    <3>2. Atomic!ReturnPut(t)
      BY <2>1, <2>6, <3>1 DEF PutFails, Atomic!ReturnPut, Atomic!Puts, Atomic!TailPuts,
                          Atomic!HeadPuts, Puts, TailPuts, HeadPuts
    <3> QED
      BY <3>2 DEF Atomic!Next
  <2>7. CASE Get(t)
    <3>1. CASE head = NULL
      <4>1. Contents' = Contents /\ Contents = <<>>
        BY <2>7, <3>1, ContentsSame, ContentsEmpty DEF Get
      <4>2. Atomic!ReturnGet(t)
        BY <2>1, <2>7, <3>1, <4>1 DEF Get, Gets, Atomic!ReturnGet
      <4> QED
        BY <4>2 DEF Atomic!Next
    <3>2. CASE head # NULL
      <4>1. Contents # <<>> /\ node[head] = Head(Contents) /\ Contents' = Tail(Contents)
        BY <2>7, <3>2, GetContents DEF Get
      <4>2. Atomic!ReturnGet(t)
        BY <2>1, <2>7, <3>2, <4>1 DEF Get, Gets, Atomic!ReturnGet
      <4> QED
        BY <4>2 DEF Atomic!Next
    <3> QED
      BY <3>1, <3>2
  <2>8. CASE Peek(t)
    <3>1. Contents' = Contents /\ (Contents = <<>> <=> head = NULL)
      BY <2>8, ContentsSame, ContentsEmpty DEF Peek
    <3>2. Atomic!ReturnPeek(t)
      BY <2>1, <2>8, <3>1 DEF Peek, Atomic!ReturnPeek
    <3> QED
      BY <3>2 DEF Atomic!Next
  <2>9. CASE Signal(t)
    <3>1. Contents' = Contents
      BY <2>9, ContentsSame DEF Signal
    <3>2. Atomic!ReturnOther(t)
      BY <2>2, <2>9, <3>1 DEF Signal, Atomic!ReturnOther
    <3> QED
      BY <3>2 DEF Atomic!Next
  <2>10. CASE Awake(t)
    <3>1. CASE op[t] \in Waits
      <4>1. Contents' = Contents
        BY <2>10, ContentsSame DEF Awake
      <4>2. Atomic!ReturnOther(t)
        BY <2>1, <2>10, <3>1, <4>1 DEF Awake, Waits, Atomic!ReturnOther
      <4> QED
        BY <4>2 DEF Atomic!Next
    <3>2. CASE op[t] \notin Waits
      BY <2>10, <3>2, Stutters DEF Awake
    <3> QED
      BY <3>1, <3>2
  <2>11. CASE Destroy(t)
    <3>1. Contents' = Contents
      BY <2>11, ContentsSame DEF Destroy
    <3>2. Atomic!ReturnDestroy(t)
      BY <2>1, <2>11, <3>1 DEF Destroy, Atomic!ReturnDestroy
    <3> QED
      BY <3>2 DEF Atomic!Next
  <2> QED
    BY <1>3, <2>3, <2>4, <2>5, <2>6, <2>7, <2>8, <2>9, <2>10, <2>11 DEF Advance
<1> QED
  BY <1>1, <1>2, <1>3 DEF Next

\* Callers cannot tell the linked list, its mutex, its trylocks and its
\* condition variable from a double-ended queue with atomic operations.
THEOREM QueueIsAtomic == Spec => AtomicSpec
<1>1. Init => Atomic!Init
  <2> SUFFICES ASSUME Init
               PROVE  Atomic!Init
    OBVIOUS
  <2>1. Contents = <<>>
    BY InitIInv, ContentsEmpty DEF Init, queue_create
  <2> QED
    BY <2>1 DEF Init, queue_create, Atomic!Init
<1>2. IInv /\ [Next]_vars => [Atomic!Next]_(Atomic!vars)
  BY AtomicStep
<1> QED
  BY <1>1, <1>2, Invariance, PTL DEF Spec, AtomicSpec, Atomic!Spec

=============================================================================
