---------------------------- MODULE BrowserProofs ----------------------------
(***************************************************************************)
(* Proofs about Browser for every set of browsers, of D-Bus connections    *)
(* and every bound.                                                        *)
(*                                                                         *)
(* The inductive invariant IInv says of each browser where its life and    *)
(* its worker may be together (Lifecycle), that a worker with a connection *)
(* has a filter on it and serves it only while it may (Connection), and    *)
(* what may be in the queue that the worker reads in each state (Inbox).   *)
(* Its key fact is that no state and event of it falls to the last row of  *)
(* the transition table, which goes back to connect (NotTrapped); so each  *)
(* action is entered only from the rows that name it (Entered).            *)
(*                                                                         *)
(* The flush needs more: while the worker exits, what it pushes after      *)
(* EXITED is its marker and nothing else (Outbox), which holds as long as  *)
(* no other browser's filter can push into its queue (SoleBrowser).  With  *)
(* that, every step is a step of Channel or leaves the channel alone       *)
(* (ChannelStep), and nobody touches a released channel (HeldIsLive).      *)
(***************************************************************************)
EXTENDS Browser, SequenceTheorems, FiniteSetTheorems, TLAPS

-----------------------------------------------------------------------------
(***************************************************************************)
(* The transition table.                                                   *)
(***************************************************************************)

\* The k-th row counts if it matches and no earlier row does.
LEMMA FirstRow ==
    ASSUME NEW s, NEW e, NEW k \in DOMAIN TransitionTable,
           DOMAIN TransitionTable \subseteq Nat,
           Matches(TransitionTable[k], s, e),
           \A l \in DOMAIN TransitionTable : l < k => ~ Matches(TransitionTable[l], s, e)
    PROVE  FirstMatch(s, e) = TransitionTable[k]
<1> DEFINE T    == TransitionTable
           hits == {l \in DOMAIN T : Matches(T[l], s, e)}
<1>1. k \in hits /\ \A l \in hits : k <= l
  OBVIOUS
<1>2. \A m \in hits : (\A l \in hits : m <= l) => m = k
  <2> SUFFICES ASSUME NEW m \in hits, \A l \in hits : m <= l
               PROVE  m = k
    OBVIOUS
  <2>1. m <= k /\ k <= m /\ m \in Nat /\ k \in Nat
    BY <1>1
  <2> QED BY <2>1
<1> HIDE DEF hits
<1>3. (CHOOSE m \in hits : \A l \in hits : m <= l) = k
  BY <1>1, <1>2
<1> QED BY <1>3 DEF FirstMatch, hits

\* The events that only the last row matches.
Trapped(s, e) ==
    \/ s = "ST_QUIT"
    \/ s = "ST_WMARK1" /\ e \notin {"E_QUIT", "E_MARKER", "E_MARKERS"}

\* The row that counts, by state and event.
RowOf(s, e) ==
    CASE s = "ST_START"   -> 1
      [] s = "ST_CONNECT" -> IF e = "E_NULL" THEN 2
                             ELSE IF e = "E_CONNECT_OK" THEN 3
                             ELSE IF e = "E_CONNECT_ERROR" THEN 4 ELSE 5
      [] s = "ST_SERVE"   -> IF e = "E_DBUS_DISCONNECT" THEN 6
                             ELSE IF e = "E_CMD_EXIT" THEN 7
                             ELSE IF e = "E_CMD_EXIT_CLEAN" THEN 8 ELSE 9
      [] s = "ST_WAIT"    -> IF e = "E_CMD_RECONNECT" THEN 10
                             ELSE IF e = "E_CMD_EXIT" THEN 11
                             ELSE IF e = "E_CMD_EXIT_CLEAN" THEN 12 ELSE 13
      [] s = "ST_EXIT"    -> IF e = "E_QUIT" THEN 14
                             ELSE IF e = "E_PUSHED_MARKERS" THEN 15 ELSE 16
      [] s = "ST_WMARK1"  -> IF e = "E_QUIT" THEN 17
                             ELSE IF e = "E_MARKER" THEN 18
                             ELSE IF e = "E_MARKERS" THEN 19 ELSE 25
      [] s = "ST_WMARK2"  -> IF e = "E_MARKER" THEN 20
                             ELSE IF e = "E_MARKERS" THEN 21
                             ELSE IF e = "E_QUIT" THEN 22 ELSE 23
      [] s = "ST_FCLEAN"  -> 24
      [] s = "ST_QUIT"    -> 25

LEMMA FirstMatchIs ==
    ASSUME NEW s \in States, NEW e \in Events
    PROVE  FirstMatch(s, e) = TransitionTable[RowOf(s, e)]
<1>1. /\ RowOf(s, e) \in 1..25
      /\ Matches(TransitionTable[RowOf(s, e)], s, e)
      /\ \A l \in 1..25 : l < RowOf(s, e) => ~ Matches(TransitionTable[l], s, e)
  <2>START. CASE s = "ST_START"
    BY <2>START  DEF TransitionTable, Row, Matches, RowOf, Events
  <2>CONNECT. CASE s = "ST_CONNECT"
    BY <2>CONNECT  DEF TransitionTable, Row, Matches, RowOf, Events
  <2>SERVE. CASE s = "ST_SERVE"
    BY <2>SERVE  DEF TransitionTable, Row, Matches, RowOf, Events
  <2>WAIT. CASE s = "ST_WAIT"
    BY <2>WAIT  DEF TransitionTable, Row, Matches, RowOf, Events
  <2>EXIT. CASE s = "ST_EXIT"
    BY <2>EXIT  DEF TransitionTable, Row, Matches, RowOf, Events
  <2>WMARK1. CASE s = "ST_WMARK1"
    BY <2>WMARK1  DEF TransitionTable, Row, Matches, RowOf, Events
  <2>WMARK2. CASE s = "ST_WMARK2"
    BY <2>WMARK2  DEF TransitionTable, Row, Matches, RowOf, Events
  <2>FCLEAN. CASE s = "ST_FCLEAN"
    BY <2>FCLEAN  DEF TransitionTable, Row, Matches, RowOf, Events
  <2>QUIT. CASE s = "ST_QUIT"
    BY <2>QUIT  DEF TransitionTable, Row, Matches, RowOf, Events
  <2> QED BY <2>START, <2>CONNECT, <2>SERVE, <2>WAIT, <2>EXIT, <2>WMARK1, <2>WMARK2, <2>FCLEAN, <2>QUIT DEF States
<1>2. DOMAIN TransitionTable = 1..25 /\ DOMAIN TransitionTable \subseteq Nat
  BY DEF TransitionTable, Row
<1>3. ASSUME NEW k, k = RowOf(s, e)
      PROVE  FirstMatch(s, e) = TransitionTable[k]
  <2>1. /\ k \in DOMAIN TransitionTable
        /\ Matches(TransitionTable[k], s, e)
        /\ \A l \in DOMAIN TransitionTable : l < k => ~ Matches(TransitionTable[l], s, e)
    BY <1>1, <1>2, <1>3
  <2> QED BY <2>1, <1>2, FirstRow
<1> QED BY <1>3

\* Where each action runs, and where it leads.
LEMMA Moves ==
    ASSUME NEW s \in States, NEW e \in Events, NEW r, r = FirstMatch(s, e)
    PROVE  /\ r.current = "ST_TRAP" <=> Trapped(s, e)
           /\ ~ Trapped(s, e) =>
              /\ r.action = "Connect" =>
                    /\ r.next = "ST_CONNECT"
                    /\ \/ s = "ST_START"
                       \/ s = "ST_CONNECT" /\ e = "E_NULL"
                       \/ s = "ST_WAIT" /\ e = "E_CMD_RECONNECT"
              /\ r.action = "Serve" =>
                    /\ r.next = "ST_SERVE"
                    /\ \/ s = "ST_CONNECT" /\ e = "E_CONNECT_OK"
                       \/ s = "ST_SERVE" /\ e # "E_DBUS_DISCONNECT"
              /\ r.action = "Wait" =>
                    /\ r.next = "ST_WAIT"
                    /\ \/ s = "ST_CONNECT" /\ e # "E_CONNECT_OK"
                       \/ s = "ST_SERVE" /\ e = "E_DBUS_DISCONNECT"
                       \/ s = "ST_WAIT"
              /\ r.action = "Exit" =>
                    /\ r.next = "ST_EXIT" /\ s \in {"ST_SERVE", "ST_WAIT"}
                    /\ e \in {"E_CMD_EXIT", "E_CMD_EXIT_CLEAN"}
              /\ r.action = "WaitMarkers" =>
                    \/ /\ s = "ST_EXIT" /\ e = "E_PUSHED_MARKERS"
                       /\ r.next = "ST_WMARK1"
                    \/ /\ s = "ST_WMARK1" /\ e = "E_MARKER"
                       /\ r.next = "ST_WMARK2"
                    \/ /\ s = "ST_WMARK2" /\ e \notin {"E_MARKER", "E_MARKERS", "E_QUIT"}
                       /\ r.next = "ST_WMARK2"
              /\ r.action = "FinalCleanup" =>
                    /\ s = "ST_WMARK2" /\ e \in {"E_MARKER", "E_MARKERS", "E_QUIT"}
                    /\ r.next = "ST_FCLEAN"
              /\ r.action = "None" =>
                    /\ r.next = "ST_QUIT"
                    /\ \/ s = "ST_EXIT" /\ e # "E_PUSHED_MARKERS"
                       \/ s = "ST_WMARK1" /\ e \in {"E_QUIT", "E_MARKERS"}
                       \/ s = "ST_FCLEAN"
           /\ Trapped(s, e) => r.action = "Connect" /\ r.next = "ST_CONNECT"
           /\ r.next \in States
<1>1. r = TransitionTable[RowOf(s, e)]
  BY FirstMatchIs
<1>START. CASE s = "ST_START"
  BY <1>1, <1>START  DEF TransitionTable, Row, RowOf, Trapped, States, Events
<1>CONNECT. CASE s = "ST_CONNECT"
  BY <1>1, <1>CONNECT  DEF TransitionTable, Row, RowOf, Trapped, States, Events
<1>SERVE. CASE s = "ST_SERVE"
  BY <1>1, <1>SERVE  DEF TransitionTable, Row, RowOf, Trapped, States, Events
<1>WAIT. CASE s = "ST_WAIT"
  BY <1>1, <1>WAIT  DEF TransitionTable, Row, RowOf, Trapped, States, Events
<1>EXIT. CASE s = "ST_EXIT"
  BY <1>1, <1>EXIT  DEF TransitionTable, Row, RowOf, Trapped, States, Events
<1>WMARK1. CASE s = "ST_WMARK1"
  BY <1>1, <1>WMARK1  DEF TransitionTable, Row, RowOf, Trapped, States, Events
<1>WMARK2. CASE s = "ST_WMARK2"
  BY <1>1, <1>WMARK2  DEF TransitionTable, Row, RowOf, Trapped, States, Events
<1>FCLEAN. CASE s = "ST_FCLEAN"
  BY <1>1, <1>FCLEAN  DEF TransitionTable, Row, RowOf, Trapped, States, Events
<1>QUIT. CASE s = "ST_QUIT"
  BY <1>1, <1>QUIT  DEF TransitionTable, Row, RowOf, Trapped, States, Events
<1> QED BY <1>START, <1>CONNECT, <1>SERVE, <1>WAIT, <1>EXIT, <1>WMARK1, <1>WMARK2, <1>FCLEAN, <1>QUIT DEF States

-----------------------------------------------------------------------------
(***************************************************************************)
(* The inductive invariant.                                                *)
(***************************************************************************)

\* The worker, its channel and its client.
Lifecycle(i) ==
    /\ mb[i] = "none" => wpc[i] = "none" /\ chan[i] = "none" /\ handle[i] = "null"
    /\ wpc[i] = "none" => ~ initState[i]
    /\ wpc[i] # "none" /\ handle[i] = "chan" => chan[i] = "live"
    /\ mb[i] = "deleted" => handle[i] = "null"
    /\ wpc[i] = "none" => /\ state[i] = "ST_START" /\ event[i] = "E_NULL"
                          /\ chan[i] # "live" /\ in[i] = <<>> /\ out[i] = <<>>
    /\ wpc[i] # "none" => initState[i] /\ chan[i] # "none" /\ mb[i] # "none"
    /\ wpc[i] # "none" /\ mb[i] = "made" => handle[i] = "chan"
    /\ wpc[i] # "none" /\ state[i] \notin {"ST_FCLEAN", "ST_QUIT"} => chan[i] = "live"
    /\ wpc[i] = "done" <=> state[i] = "ST_QUIT"

\* The worker and its D-Bus connection.
Connection(i) ==
    /\ conn[i] # NoConn => filters[conn[i]] # <<>>
    /\ state[i] \notin {"ST_CONNECT", "ST_SERVE", "ST_WAIT"} => conn[i] = NoConn
    /\ state[i] = "ST_CONNECT" =>
          /\ wpc[i] = "match" /\ event[i] \in {"E_CONNECT_OK", "E_CONNECT_ERROR"}
          /\ event[i] = "E_CONNECT_OK" <=> conn[i] # NoConn
    /\ state[i] = "ST_SERVE" =>
          /\ conn[i] # NoConn
          /\ wpc[i] = "match" /\ event[i] = "E_DBUS_DISCONNECT" => link[conn[i]] = "down"
    /\ state[i] = "ST_WAIT" /\ conn[i] # NoConn =>
          /\ link[conn[i]] = "down"
          /\ wpc[i] = "pump" \/ (wpc[i] = "match" /\ event[i] = "E_DBUS_DISCONNECT")

\* The states in which a worker has not begun to end.
Running == {"ST_START", "ST_CONNECT", "ST_SERVE", "ST_WAIT"}

\* What is in the queue that the worker reads.
Inbox(i) ==
    /\ state[i] \in Running =>
          \A k \in 1..Len(in[i]) :
              /\ in[i][k] \in API \cup {"EXIT_CLEAN"}
              /\ in[i][k] = "EXIT_CLEAN" => k = Len(in[i])
    /\ handle[i] = "chan" => \A k \in 1..Len(in[i]) : in[i][k] \in API
    /\ wpc[i] = "match" /\ event[i] = "E_CMD_EXIT_CLEAN" =>
          handle[i] = "null" /\ in[i] = <<>>
    /\ state[i] = "ST_EXIT" =>
          /\ wpc[i] = "match" /\ event[i] \in {"E_QUIT", "E_PUSHED_MARKERS"}
          /\ event[i] = "E_PUSHED_MARKERS" =>
                handle[i] = "null" /\ in[i] = <<"FLUSH_MARKER">>
    /\ state[i] = "ST_WMARK1" =>
          wpc[i] = "match" /\ event[i] \in {"E_MARKER", "E_MARKERS"}
    /\ state[i] \in {"ST_WMARK1", "ST_WMARK2"} => in[i] = <<>>
    /\ state[i] \in {"ST_WMARK1", "ST_WMARK2", "ST_FCLEAN"} => handle[i] = "null"
    /\ state[i] = "ST_FCLEAN" => wpc[i] = "match"

IInv == TypeOK /\ RefsAreHeld /\ \A i \in Instances : Lifecycle(i) /\ Connection(i) /\ Inbox(i)

-----------------------------------------------------------------------------
\* The worker goes to state s with event e.
Goes(i, s, e) ==
    /\ state' = [state EXCEPT ![i] = s]
    /\ event' = [event EXCEPT ![i] = e]
    /\ wpc'   = [wpc EXCEPT ![i] = IF s = "ST_QUIT" THEN "done"
                                     ELSE IF e = "E_NULL" THEN "pump" ELSE "match"]

\* No state of the invariant falls into the trap.
LEMMA NotTrapped ==
    ASSUME IInv, NEW i \in Instances, wpc[i] = "match"
    PROVE  state[i] \in States /\ event[i] \in Events /\ ~ Trapped(state[i], event[i])
BY DEF IInv, TypeOK, Lifecycle, Inbox, Trapped

\* An action of the table: where it ran and where it goes.
LEMMA Entered ==
    ASSUME IInv, NEW i \in Instances, NEW a, Matched(i, a),
           NEW e, Enter(i, FirstMatch(state[i], event[i]), e)
    PROVE  /\ wpc[i] = "match"
           /\ a = "Connect" =>
                 /\ Goes(i, "ST_CONNECT", e)
                 /\ state[i] = "ST_START"
                    \/ (state[i] = "ST_WAIT" /\ event[i] = "E_CMD_RECONNECT")
           /\ a = "Serve" =>
                 /\ Goes(i, "ST_SERVE", e)
                 /\ \/ state[i] = "ST_CONNECT" /\ event[i] = "E_CONNECT_OK"
                    \/ state[i] = "ST_SERVE" /\ event[i] # "E_DBUS_DISCONNECT"
           /\ a = "Wait" =>
                 /\ Goes(i, "ST_WAIT", e)
                 /\ \/ state[i] = "ST_CONNECT" /\ event[i] # "E_CONNECT_OK"
                    \/ state[i] = "ST_SERVE" /\ event[i] = "E_DBUS_DISCONNECT"
                    \/ state[i] = "ST_WAIT"
           /\ a = "Exit" =>
                 /\ Goes(i, "ST_EXIT", e) /\ state[i] \in {"ST_SERVE", "ST_WAIT"}
                 /\ event[i] \in {"E_CMD_EXIT", "E_CMD_EXIT_CLEAN"}
           /\ a = "WaitMarkers" =>
                 \/ /\ state[i] = "ST_EXIT" /\ event[i] = "E_PUSHED_MARKERS"
                    /\ Goes(i, "ST_WMARK1", e)
                 \/ /\ state[i] = "ST_WMARK1" /\ event[i] = "E_MARKER"
                    /\ Goes(i, "ST_WMARK2", e)
                 \/ /\ state[i] = "ST_WMARK2" /\ event[i] \notin {"E_MARKER", "E_MARKERS", "E_QUIT"}
                    /\ Goes(i, "ST_WMARK2", e)
           /\ a = "FinalCleanup" =>
                 /\ state[i] = "ST_WMARK2" /\ event[i] \in {"E_MARKER", "E_MARKERS", "E_QUIT"}
                 /\ Goes(i, "ST_FCLEAN", e)
           /\ a = "None" =>
                 /\ Goes(i, "ST_QUIT", e)
                 /\ \/ state[i] = "ST_EXIT" /\ event[i] # "E_PUSHED_MARKERS"
                    \/ state[i] = "ST_WMARK1" /\ event[i] = "E_MARKERS"
                    \/ state[i] = "ST_FCLEAN"
<1>1. wpc[i] = "match" /\ FirstMatch(state[i], event[i]).action = a
  BY DEF Matched
<1>2. state[i] \in States /\ event[i] \in Events /\ ~ Trapped(state[i], event[i])
  BY <1>1, NotTrapped
<1>3. state[i] = "ST_CONNECT" => event[i] # "E_NULL"
  BY DEF IInv, Connection
<1>4. state[i] = "ST_WMARK1" => event[i] # "E_QUIT"
  BY DEF IInv, Inbox
<1> DEFINE r == FirstMatch(state[i], event[i])
<1>5. Goes(i, r.next, e)
  BY DEF Enter, Goes
<1> HIDE DEF r
<1>6. r = FirstMatch(state[i], event[i])
  BY DEF r
<1>7. r.action = a
  BY <1>1, <1>6
<1> QED BY <1>1, <1>2, <1>3, <1>4, <1>5, <1>6, <1>7, Moves

-----------------------------------------------------------------------------
\* Pushing well-typed messages keeps the queue and `stale' well-typed.
LEMMA PushTyped ==
    ASSUME NEW M, out \in [Instances -> Seq(M)], stale \in SUBSET Instances,
           NEW i \in Instances, NEW s \in Seq(M), Push(out, i, s)
    PROVE  out' \in [Instances -> Seq(M)] /\ stale' \in SUBSET Instances
<1>1. out[i] \o s \in Seq(M)
  OBVIOUS
<1>2. CASE chan[i] = "live"
  BY <1>1, <1>2 DEF Push
<1>3. CASE chan[i] # "live"
  <2>1. stale' = stale \cup {i} /\ out' = out
    BY <1>3 DEF Push
  <2> QED BY <2>1
<1> QED BY <1>2, <1>3

LEMMA PushInTyped ==
    ASSUME NEW M, in \in [Instances -> Seq(M)], stale \in SUBSET Instances,
           NEW i \in Instances, NEW s \in Seq(M), Push(in, i, s)
    PROVE  in' \in [Instances -> Seq(M)] /\ stale' \in SUBSET Instances
<1>1. in[i] \o s \in Seq(M)
  OBVIOUS
<1>2. CASE chan[i] = "live"
  BY <1>1, <1>2 DEF Push
<1>3. CASE chan[i] # "live"
  <2>1. stale' = stale \cup {i} /\ in' = in
    BY <1>3 DEF Push
  <2> QED BY <2>1
<1> QED BY <1>2, <1>3

\* Where a connection is used, it has a filter, and the reference its worker
\* holds is counted.
LEMMA InUse ==
    ASSUME IInv, NEW i \in Instances, conn[i] # NoConn
    PROVE  /\ conn[i] \in Conns
           /\ filters[conn[i]] # <<>> /\ Head(filters[conn[i]]) \in Instances
           /\ refs[conn[i]] - 1 \in Nat
<1>1. conn[i] \in Conns /\ filters[conn[i]] # <<>> /\ filters[conn[i]] \in Seq(Instances)
  BY DEF IInv, TypeOK, Connection
<1>2. Head(filters[conn[i]]) \in Instances
  BY <1>1
<1> DEFINE U == {j \in Instances : conn[j] = conn[i]}
<1>3. refs[conn[i]] = Cardinality(U)
  BY <1>1 DEF IInv, RefsAreHeld
<1>4. IsFiniteSet(U) /\ i \in U
  BY InstanceAssumption, FS_Subset
<1> HIDE DEF U
<1>5. Cardinality(U) \in Nat /\ Cardinality(U) # 0
  BY <1>4, FS_EmptySet, FS_CardinalityType
<1> QED BY <1>1, <1>2, <1>3, <1>5

LEMMA TypeStep ==
    ASSUME IInv, [Next]_vars
    PROVE  TypeOK'
<1> USE DEF IInv
<1>1. CASE UNCHANGED vars
  BY <1>1 DEF TypeOK, vars, clientVars, fsmVars, busVars
<1>2. CASE Disconnect
  BY <1>2 DEF Disconnect, TypeOK, clientVars, fsmVars
<1>3. ASSUME NEW i \in Instances, Client(i)
      PROVE  TypeOK'
  <2>1. CASE Create(i)
    BY <2>1 DEF Create, TypeOK, busVars
  <2>2. CASE CreateFails(i)
    BY <2>2 DEF CreateFails, TypeOK, fsmVars, busVars
  <2>3. CASE Pop(i)
    BY <2>3 DEF Pop, TypeOK, clientVars, fsmVars, busVars
  <2>4. CASE Deallocate(i)
    <3>1. in' \in [Instances -> Seq(InMsgs)] /\ stale' \in SUBSET Instances
      <4>1. <<"EXIT_CLEAN">> \in Seq(InMsgs)
        BY DEF InMsgs
      <4>2. Push(in, i, <<"EXIT_CLEAN">>) \/ UNCHANGED <<in, stale>>
        BY <2>4 DEF Deallocate
      <4> QED BY <4>1, <4>2, PushInTyped DEF TypeOK
    <3> QED BY <2>4, <3>1 DEF Deallocate, TypeOK, fsmVars, busVars
  <2>5. ASSUME NEW m \in Commands, PushMsg(i, m)
        PROVE  TypeOK'
    <3>1. in' \in [Instances -> Seq(InMsgs)] /\ stale' \in SUBSET Instances
      <4>1. <<m>> \in Seq(InMsgs) /\ Push(in, i, <<m>>)
        BY <2>5, ClientAssumption DEF PushMsg, InMsgs
      <4> QED BY <4>1, PushInTyped DEF TypeOK
    <3>2. sent' \in [Instances -> 0..MaxCommands]
      BY <2>5, ClientAssumption DEF PushMsg, TypeOK
    <3> QED BY <2>5, <3>1, <3>2 DEF PushMsg, TypeOK, fsmVars, busVars
  <2> QED BY <1>3, <2>1, <2>2, <2>3, <2>4, <2>5 DEF Client
<1>4. ASSUME NEW i \in Instances, Worker(i)
      PROVE  TypeOK'
  <2>1. CASE Pump(i)
    <3>1. out' \in [Instances -> Seq(OutMsgs)] /\ stale' \in SUBSET Instances
      <4>1. CASE UNCHANGED <<out, stale, signals>>
        BY <4>1 DEF TypeOK
      <4>2. ASSUME conn[i] # NoConn,
                   NEW m \in SignalMsgs, Push(out, Head(filters[conn[i]]), <<m>>)
            PROVE  out' \in [Instances -> Seq(OutMsgs)] /\ stale' \in SUBSET Instances
        <5>1. Head(filters[conn[i]]) \in Instances /\ <<m>> \in Seq(OutMsgs)
          BY <4>2, InUse DEF OutMsgs
        <5> QED BY <4>2, <5>1, PushTyped DEF TypeOK
      <4> QED BY <2>1, <4>1, <4>2 DEF Pump
    <3>2. signals' \in 0..MaxSignals
      BY <2>1, DBusAssumption DEF Pump, TypeOK
    <3> QED BY <2>1, <3>1, <3>2 DEF Pump, TypeOK, clientVars
  <2>2. CASE PumpDisconnected(i)
    <3>1. out' \in [Instances -> Seq(OutMsgs)] /\ stale' \in SUBSET Instances
      <4>1. Head(filters[conn[i]]) \in Instances /\ <<"DBUS_DISCONNECTED">> \in Seq(OutMsgs)
        BY <2>2, InUse DEF PumpDisconnected, OutMsgs
      <4> QED BY <2>2, <4>1, PushTyped DEF PumpDisconnected, TypeOK
    <3>2. link' \in [Conns -> {"new", "up", "closing", "down"}]
      <4>1. link' = link \/ link' = [link EXCEPT ![conn[i]] = "down"]
        BY <2>2 DEF PumpDisconnected
      <4> QED BY <4>1 DEF TypeOK
    <3> QED BY <2>2, <3>1, <3>2 DEF PumpDisconnected, TypeOK, clientVars, Events
  <2>3. CASE GetNothing(i)
    BY <2>3 DEF GetNothing, TypeOK, clientVars, busVars, Events
  <2>4. CASE GetCommand(i)
    <3>1. Head(in[i]) \in InMsgs /\ Tail(in[i]) \in Seq(InMsgs)
      BY <2>4 DEF GetCommand, TypeOK
    <3>2. EventOf(Head(in[i])) \in Events
      BY <3>1 DEF EventOf, InMsgs, API, Events
    <3> QED BY <2>4, <3>1, <3>2 DEF GetCommand, TypeOK, clientVars, busVars
  <2> DEFINE Goal == /\ state' \in [Instances -> States]
                     /\ event' \in [Instances -> Events]
                     /\ wpc' \in [Instances -> {"none", "pump", "get", "match", "done"}]
  <2>5. ASSUME NEW s \in States, NEW e \in Events, Goes(i, s, e)
        PROVE  Goal
    BY <2>5 DEF Goes, TypeOK
  <2> HIDE DEF Goal
  <2>6. CASE Idle(i)
    <3>1. Goal
      BY <2>6, <2>5, Entered DEF Idle, States, Events
    <3> QED BY <2>6, <3>1 DEF Idle, Goal, TypeOK, clientVars, busVars
  <2>7. CASE ConnectNoBus(i)
    <3>1. Goal
      BY <2>7, <2>5, Entered DEF ConnectNoBus, States, Events
    <3> QED BY <2>7, <3>1 DEF ConnectNoBus, Goal, TypeOK, clientVars, busVars
  <2>8. CASE ConnectFails(i)
    <3>1. Goal
      BY <2>8, <2>5, Entered DEF ConnectFails, States, Events
    <3>2. PICK c \in Conns, e \in DOMAIN SetupError :
              /\ shared' = c
              /\ link' = [link EXCEPT ![c] = IF @ = "new" THEN "up" ELSE @]
              /\ filters' = IF e = "FILTER" THEN filters
                            ELSE [filters EXCEPT ![c] = Append(@, i)]
              /\ Push(out, i, <<SetupError[e]>>)
      BY <2>8 DEF ConnectFails
    <3>3. out' \in [Instances -> Seq(OutMsgs)] /\ stale' \in SUBSET Instances
      <4>1. <<SetupError[e]>> \in Seq(OutMsgs)
        BY DEF OutMsgs
      <4> QED BY <3>2, <4>1, PushTyped DEF TypeOK
    <3>4. filters' \in [Conns -> Seq(Instances)]
      BY <3>2 DEF TypeOK
    <3>5. link' \in [Conns -> {"new", "up", "closing", "down"}] /\ shared' \in Conns
      BY <3>2 DEF TypeOK
    <3> QED BY <2>8, <3>1, <3>3, <3>4, <3>5 DEF ConnectFails, Goal, TypeOK, clientVars
  <2>9. CASE ConnectOk(i)
    <3>1. Goal
      BY <2>9, <2>5, Entered DEF ConnectOk, States, Events
    <3>2. PICK c \in Conns :
              /\ shared'  = c
              /\ link'    = [link EXCEPT ![c] = "up"]
              /\ filters' = [filters EXCEPT ![c] = Append(@, i)]
              /\ refs'    = [refs EXCEPT ![c] = @ + 1]
              /\ conn'    = [conn EXCEPT ![i] = c]
      BY <2>9 DEF ConnectOk
    <3>3. filters' \in [Conns -> Seq(Instances)] /\ refs' \in [Conns -> Nat]
      BY <3>2 DEF TypeOK
    <3>4. /\ link' \in [Conns -> {"new", "up", "closing", "down"}] /\ shared' \in Conns
          /\ conn' \in [Instances -> Conns \cup {NoConn}]
      BY <3>2 DEF TypeOK
    <3> QED BY <2>9, <3>1, <3>3, <3>4 DEF ConnectOk, Goal, TypeOK, clientVars
  <2>10. CASE Exit(i)
    <3>1. Goal
      BY <2>10, <2>5, Entered DEF Exit, ExitMessages, States, Events
    <3>2. out' \in [Instances -> Seq(OutMsgs)] /\ stale' \in SUBSET Instances
      <4>1. <<"EXITED">> \in Seq(OutMsgs) /\ <<"EXITED", "FLUSH_MARKER">> \in Seq(OutMsgs)
        BY DEF OutMsgs
      <4> QED BY <2>10, <4>1, PushTyped DEF Exit, ExitMessages, PushMarkers, TypeOK
    <3>3. in' \in [Instances -> Seq(InMsgs)]
      <4>1. in' = in \/ in' = [in EXCEPT ![i] = Append(@, "FLUSH_MARKER")]
        BY <2>10 DEF Exit, ExitMessages, PushMarkers
      <4>2. in[i] \in Seq(InMsgs) /\ "FLUSH_MARKER" \in InMsgs
        BY DEF TypeOK, InMsgs
      <4>3. Append(in[i], "FLUSH_MARKER") \in Seq(InMsgs)
        BY <4>2
      <4> QED BY <4>1, <4>3 DEF TypeOK
    <3>4. conn' \in [Instances -> Conns \cup {NoConn}] /\ refs' \in [Conns -> Nat]
      BY <2>10, InUse DEF Exit, Unref, TypeOK
    <3> QED BY <2>10, <3>1, <3>2, <3>3, <3>4 DEF Exit, Goal, TypeOK, clientVars
  <2>11. CASE FlushQueues(i)
    <3>1. PICK e \in {"E_NULL", "E_MARKER", "E_MARKERS"} :
              Enter(i, FirstMatch(state[i], event[i]), e)
      BY <2>11 DEF FlushQueues
    <3>2. Goal
      BY <2>11, <3>1, <2>5, Entered DEF FlushQueues, States, Events
    <3>3. in' \in [Instances -> Seq(InMsgs)] /\ out' \in [Instances -> Seq(OutMsgs)]
      BY <2>11 DEF FlushQueues, TypeOK
    <3> QED BY <2>11, <3>2, <3>3 DEF FlushQueues, Goal, TypeOK, clientVars, busVars
  <2>12. CASE FinalCleanup(i)
    <3>1. Goal
      BY <2>12, <2>5, Entered DEF FinalCleanup, States, Events
    <3> QED BY <2>12, <3>1 DEF FinalCleanup, Goal, TypeOK, clientVars, busVars
  <2> QED
    BY <1>4, <2>1, <2>2, <2>3, <2>4, <2>6, <2>7, <2>8, <2>9, <2>10, <2>11, <2>12 DEF Worker
<1> QED BY <1>1, <1>2, <1>3, <1>4 DEF Next

-----------------------------------------------------------------------------
\* The worker that connects has no connection: it starts, or it waits without
\* one (a worker that waits with one reads no command).
LEMMA ConnectsOnce ==
    ASSUME IInv, NEW i \in Instances, Matched(i, "Connect"),
           NEW e, Enter(i, FirstMatch(state[i], event[i]), e)
    PROVE  conn[i] = NoConn
BY Entered DEF IInv, Connection

\* The workers that hold a connection are counted right when one joins, and
\* when one leaves.
LEMMA UserJoins ==
    ASSUME IInv, NEW i \in Instances, conn[i] = NoConn, NEW c \in Conns,
           conn' = [conn EXCEPT ![i] = c], refs' = [refs EXCEPT ![c] = @ + 1]
    PROVE  RefsAreHeld'
<1> USE DEF IInv
<1> SUFFICES ASSUME NEW d \in Conns
             PROVE  refs'[d] = Cardinality({j \in Instances : conn'[j] = d})
  BY DEF RefsAreHeld
<1> DEFINE U(f) == {j \in Instances : f[j] = d}
<1>1. refs[d] = Cardinality(U(conn)) /\ IsFiniteSet(U(conn))
  BY InstanceAssumption, FS_Subset DEF RefsAreHeld
<1>2. CASE d # c
  <2>1. U(conn') = U(conn) /\ refs'[d] = refs[d]
    BY <1>2, ConnAssumption DEF TypeOK
  <2> QED BY <2>1, <1>1
<1>3. CASE d = c
  <2>1. U(conn') = U(conn) \cup {i} /\ i \notin U(conn)
    BY <1>3, ConnAssumption DEF TypeOK
  <2>2. refs'[d] = refs[d] + 1
    BY <1>3 DEF TypeOK
  <2> HIDE DEF U
  <2>3. Cardinality(U(conn) \cup {i}) = Cardinality(U(conn)) + 1
    BY <1>1, <2>1, FS_AddElement
  <2>4. refs'[d] = Cardinality(U(conn'))
    BY <1>1, <2>1, <2>2, <2>3
  <2> QED BY <2>4 DEF U
<1> QED BY <1>2, <1>3

LEMMA UserLeaves ==
    ASSUME IInv, NEW i \in Instances, Unref(i)
    PROVE  RefsAreHeld'
<1> USE DEF IInv
<1> SUFFICES ASSUME NEW d \in Conns
             PROVE  refs'[d] = Cardinality({j \in Instances : conn'[j] = d})
  BY DEF RefsAreHeld
<1> DEFINE U(f) == {j \in Instances : f[j] = d}
<1>1. refs[d] = Cardinality(U(conn)) /\ IsFiniteSet(U(conn))
  BY InstanceAssumption, FS_Subset DEF RefsAreHeld
<1>2. CASE d # conn[i]
  <2>1. U(conn') = U(conn) /\ refs'[d] = refs[d]
    BY <1>2, ConnAssumption DEF TypeOK, Unref
  <2> QED BY <2>1, <1>1
<1>3. CASE d = conn[i]
  <2>1. U(conn') = U(conn) \ {i} /\ i \in U(conn)
    BY <1>3, ConnAssumption DEF TypeOK, Unref
  <2>2. refs'[d] = refs[d] - 1
    BY <1>3, ConnAssumption DEF TypeOK, Unref
  <2> HIDE DEF U
  <2>3. Cardinality(U(conn) \ {i}) = Cardinality(U(conn)) - 1
    BY <1>1, <2>1, FS_RemoveElement
  <2>4. refs'[d] = Cardinality(U(conn'))
    BY <1>1, <2>1, <2>2, <2>3
  <2> QED BY <2>4 DEF U
<1> QED BY <1>2, <1>3

LEMMA RefsStep ==
    ASSUME IInv, [Next]_vars
    PROVE  RefsAreHeld'
<1>0. RefsAreHeld
  BY DEF IInv
<1>1. ASSUME UNCHANGED <<conn, refs>>
      PROVE  RefsAreHeld'
  BY <1>0, <1>1 DEF RefsAreHeld
<1>2. ASSUME NEW i \in Instances, conn[i] = NoConn, conn' = [conn EXCEPT ![i] = NoConn]
      PROVE  conn' = conn
  BY <1>2 DEF IInv, TypeOK
<1>3. CASE UNCHANGED vars
  BY <1>1, <1>3 DEF vars, fsmVars, busVars
<1>4. CASE Disconnect
  BY <1>1, <1>4 DEF Disconnect, fsmVars
<1>5. ASSUME NEW i \in Instances, Client(i)
      PROVE  RefsAreHeld'
  <2>1. UNCHANGED <<fsmVars, busVars>> \/ UNCHANGED <<conn, busVars>>
    BY <1>5 DEF Client, Create, CreateFails, Pop, Deallocate, PushMsg
  <2> QED BY <1>1, <2>1 DEF fsmVars, busVars
<1>6. ASSUME NEW i \in Instances, Worker(i)
      PROVE  RefsAreHeld'
  <2>1. CASE Pump(i) \/ PumpDisconnected(i)
    BY <1>1, <2>1 DEF Pump, PumpDisconnected
  <2>2. CASE GetNothing(i) \/ GetCommand(i) \/ Idle(i) \/ FlushQueues(i) \/ FinalCleanup(i)
    BY <1>1, <2>2 DEF GetNothing, GetCommand, Idle, FlushQueues, FinalCleanup, busVars
  <2>3. CASE ConnectNoBus(i)
    BY <1>1, <1>2, <2>3, ConnectsOnce DEF ConnectNoBus, busVars
  <2>4. CASE ConnectFails(i)
    BY <1>1, <1>2, <2>4, ConnectsOnce DEF ConnectFails
  <2>5. CASE ConnectOk(i)
    BY <2>5, ConnectsOnce, UserJoins DEF ConnectOk
  <2>6. CASE Exit(i)
    BY <2>6, UserLeaves DEF Exit
  <2> QED BY <1>6, <2>1, <2>2, <2>3, <2>4, <2>5, <2>6 DEF Worker
<1> QED BY <1>3, <1>4, <1>5, <1>6 DEF Next

-----------------------------------------------------------------------------
LEMMA LifecycleStep ==
    ASSUME IInv, [Next]_vars, NEW j \in Instances
    PROVE  Lifecycle(j)'
<1>0. TypeOK /\ Lifecycle(j)
  BY DEF IInv
<1>1. CASE UNCHANGED vars
  BY <1>0, <1>1 DEF Lifecycle, vars, clientVars, fsmVars, busVars
<1>2. CASE Disconnect
  BY <1>0, <1>2 DEF Disconnect, Lifecycle, clientVars, fsmVars
<1>3. ASSUME NEW i \in Instances, Client(i)
      PROVE  Lifecycle(j)'
  <2>1. CASE Create(i) \/ CreateFails(i)
    BY <1>0, <2>1 DEF Create, CreateFails, Lifecycle, TypeOK, fsmVars, busVars
  <2>2. CASE Pop(i)
    BY <1>0, <2>2 DEF Pop, Lifecycle, TypeOK, clientVars, fsmVars, busVars
  <2>3. CASE Deallocate(i)
    BY <1>0, <2>3 DEF Deallocate, Push, Lifecycle, TypeOK, fsmVars, busVars
  <2>4. ASSUME NEW m \in Commands, PushMsg(i, m)
        PROVE  Lifecycle(j)'
    BY <1>0, <2>4 DEF PushMsg, Push, Lifecycle, TypeOK, fsmVars, busVars
  <2> QED BY <1>3, <2>1, <2>2, <2>3, <2>4 DEF Client
<1>4. ASSUME NEW i \in Instances, Worker(i)
      PROVE  Lifecycle(j)'
  <2>1. CASE Pump(i)
    BY <1>0, <2>1 DEF Pump, Push, Lifecycle, TypeOK, clientVars
  <2>2. CASE PumpDisconnected(i)
    BY <1>0, <2>2 DEF PumpDisconnected, Push, Lifecycle, TypeOK, clientVars
  <2>3. CASE GetNothing(i) \/ GetCommand(i)
    BY <1>0, <2>3 DEF GetNothing, GetCommand, Lifecycle, TypeOK, clientVars, busVars
  <2>4. CASE Idle(i)
    <3>1. PICK a \in {"Serve", "Wait", "None"} : Matched(i, a)
      BY <2>4 DEF Idle
    <3>2. /\ wpc[i] = "match"
          /\ \/ Goes(i, "ST_SERVE", "E_NULL") /\ state[i] \in {"ST_CONNECT", "ST_SERVE"}
             \/ /\ Goes(i, "ST_WAIT", "E_NULL")
                /\ state[i] \in {"ST_CONNECT", "ST_SERVE", "ST_WAIT"}
             \/ Goes(i, "ST_QUIT", "E_NULL")
      BY <2>4, <3>1, Entered DEF Idle
    <3>3. UNCHANGED <<clientVars, chan, in, out>>
      BY <2>4 DEF Idle
    <3> QED BY <1>0, <3>2, <3>3 DEF Goes, Lifecycle, TypeOK, clientVars
  <2>5. CASE ConnectNoBus(i)
    BY <1>0, <2>5, Entered DEF ConnectNoBus, Goes, Lifecycle, TypeOK, clientVars, busVars
  <2>6. CASE ConnectFails(i)
    BY <1>0, <2>6, Entered DEF ConnectFails, Push, Goes, Lifecycle, TypeOK, clientVars
  <2>7. CASE ConnectOk(i)
    BY <1>0, <2>7, Entered DEF ConnectOk, Goes, Lifecycle, TypeOK, clientVars
  <2>8. CASE Exit(i)
    <3>1. PICK e \in {"E_QUIT", "E_PUSHED_MARKERS"} :
              Enter(i, FirstMatch(state[i], event[i]), e)
      BY <2>8 DEF Exit, ExitMessages
    <3>2. wpc[i] = "match" /\ Goes(i, "ST_EXIT", e) /\ state[i] \in {"ST_SERVE", "ST_WAIT"}
      BY <2>8, <3>1, Entered DEF Exit
    <3>3. UNCHANGED <<clientVars, chan>>
      BY <2>8 DEF Exit
    <3>4. j # i => in'[j] = in[j] /\ out'[j] = out[j]
      BY <1>0, <2>8 DEF Exit, ExitMessages, PushMarkers, Push, TypeOK
    <3> QED BY <1>0, <3>2, <3>3, <3>4 DEF Goes, Lifecycle, TypeOK, clientVars
  <2>9. CASE FlushQueues(i)
    <3>1. PICK e \in {"E_NULL", "E_MARKER", "E_MARKERS"} :
              Enter(i, FirstMatch(state[i], event[i]), e)
      BY <2>9 DEF FlushQueues
    <3>2. /\ wpc[i] = "match"
          /\ \/ state[i] = "ST_EXIT" /\ Goes(i, "ST_WMARK1", e)
             \/ state[i] \in {"ST_WMARK1", "ST_WMARK2"} /\ Goes(i, "ST_WMARK2", e)
      BY <2>9, <3>1, Entered DEF FlushQueues
    <3>3. UNCHANGED <<clientVars, chan>>
      BY <2>9 DEF FlushQueues
    <3>4. j # i => in'[j] = in[j] /\ out'[j] = out[j]
      BY <1>0, <2>9 DEF FlushQueues, TypeOK
    <3> QED BY <1>0, <3>2, <3>3, <3>4 DEF Goes, Lifecycle, TypeOK, clientVars
  <2>10. CASE FinalCleanup(i)
    <3>1. state[i] = "ST_WMARK2" /\ wpc[i] = "match" /\ Goes(i, "ST_FCLEAN", "E_QUIT")
      BY <2>10, Entered DEF FinalCleanup
    <3>2. handle[i] = "null"
      BY <3>1 DEF IInv, Inbox
    <3> QED BY <1>0, <2>10, <3>1, <3>2 DEF FinalCleanup, Goes, Lifecycle, TypeOK, clientVars, busVars
  <2> QED BY <1>4, <2>1, <2>2, <2>3, <2>4, <2>5, <2>6, <2>7, <2>8, <2>9, <2>10 DEF Worker
<1> QED BY <1>1, <1>2, <1>3, <1>4 DEF Next

LEMMA ConnectionStep ==
    ASSUME IInv, [Next]_vars, NEW j \in Instances
    PROVE  Connection(j)'
<1>0. TypeOK /\ Connection(j) /\ Lifecycle(j)
  BY DEF IInv
<1>1. CASE UNCHANGED vars
  BY <1>0, <1>1 DEF Connection, vars, clientVars, fsmVars, busVars
<1>2. CASE Disconnect
  BY <1>0, <1>2 DEF Disconnect, Connection, TypeOK, clientVars, fsmVars
<1>3. ASSUME NEW i \in Instances, Client(i)
      PROVE  Connection(j)'
  <2>1. CASE Create(i)
    BY <1>0, <2>1 DEF Create, Lifecycle, Connection, TypeOK, busVars
  <2>2. CASE CreateFails(i) \/ Pop(i) \/ Deallocate(i)
    BY <1>0, <2>2 DEF CreateFails, Pop, Deallocate, Connection, fsmVars, busVars
  <2>3. ASSUME NEW m \in Commands, PushMsg(i, m)
        PROVE  Connection(j)'
    BY <1>0, <2>3 DEF PushMsg, Connection, fsmVars, busVars
  <2> QED BY <1>3, <2>1, <2>2, <2>3 DEF Client
<1>4. ASSUME NEW i \in Instances, Worker(i)
      PROVE  Connection(j)'
  <2>1. CASE Pump(i)
    BY <1>0, <2>1 DEF Pump, Connection, TypeOK, clientVars
  <2>2. CASE PumpDisconnected(i)
    BY <1>0, <2>2 DEF PumpDisconnected, Connection, TypeOK, clientVars
  <2>3. CASE GetNothing(i) \/ GetCommand(i)
    <3>1. PICK e \in Events \ {"E_DBUS_DISCONNECT"} : event' = [event EXCEPT ![i] = e]
      <4>1. in[i] # <<>> => EventOf(Head(in[i])) \in Events \ {"E_DBUS_DISCONNECT"}
        <5>1. in[i] # <<>> => Head(in[i]) \in InMsgs
          BY <1>0 DEF TypeOK
        <5> QED BY <5>1 DEF InMsgs, API, EventOf, Events
      <4> QED BY <2>3, <4>1 DEF GetNothing, GetCommand, Events
    <3>2. /\ wpc[i] = "get" /\ wpc' = [wpc EXCEPT ![i] = "match"]
          /\ UNCHANGED <<state, conn, busVars>>
      BY <2>3 DEF GetNothing, GetCommand
    <3> QED BY <1>0, <3>1, <3>2 DEF Connection, TypeOK, busVars
  <2>4. CASE Idle(i)
    <3>1. PICK a \in {"Serve", "Wait", "None"} : Matched(i, a)
      BY <2>4 DEF Idle
    <3>2. UNCHANGED <<conn, busVars>>
      BY <2>4 DEF Idle
    <3>3. CASE a = "Serve"
      <4>1. /\ Goes(i, "ST_SERVE", "E_NULL") /\ wpc[i] = "match"
            /\ \/ state[i] = "ST_CONNECT" /\ event[i] = "E_CONNECT_OK"
               \/ state[i] = "ST_SERVE"
        BY <2>4, <3>1, <3>3, Entered DEF Idle
      <4> QED BY <1>0, <3>2, <4>1 DEF Goes, Connection, TypeOK, busVars
    <3>4. CASE a = "Wait"
      <4>1. /\ Goes(i, "ST_WAIT", "E_NULL") /\ wpc[i] = "match"
            /\ \/ state[i] = "ST_CONNECT" /\ event[i] # "E_CONNECT_OK"
               \/ state[i] = "ST_SERVE" /\ event[i] = "E_DBUS_DISCONNECT"
               \/ state[i] = "ST_WAIT"
        BY <2>4, <3>1, <3>4, Entered DEF Idle
      <4> QED BY <1>0, <3>2, <4>1 DEF Goes, Connection, TypeOK, busVars
    <3>5. CASE a = "None"
      <4>1. /\ Goes(i, "ST_QUIT", "E_NULL") /\ wpc[i] = "match"
            /\ state[i] \in {"ST_EXIT", "ST_WMARK1", "ST_FCLEAN"}
        BY <2>4, <3>1, <3>5, Entered DEF Idle
      <4> QED BY <1>0, <3>2, <4>1 DEF Goes, Connection, TypeOK, busVars
    <3> QED BY <3>1, <3>3, <3>4, <3>5
  <2>5. CASE ConnectNoBus(i)
    BY <1>0, <2>5, Entered DEF ConnectNoBus, Goes, Connection, TypeOK, clientVars, busVars
  <2>6. CASE ConnectFails(i)
    <3>1. Goes(i, "ST_CONNECT", "E_CONNECT_ERROR") /\ conn' = [conn EXCEPT ![i] = NoConn]
      BY <2>6, Entered DEF ConnectFails
    <3>2. PICK c \in Conns :
              /\ link' = [link EXCEPT ![c] = IF @ = "new" THEN "up" ELSE @]
              /\ filters' = filters \/ filters' = [filters EXCEPT ![c] = Append(@, i)]
      BY <2>6 DEF ConnectFails
    <3>3. \A d \in Conns : link[d] = "down" => link'[d] = "down"
      BY <1>0, <3>2 DEF TypeOK
    <3>4. \A d \in Conns : filters[d] # <<>> => filters'[d] # <<>>
      BY <1>0, <3>2 DEF TypeOK
    <3> QED BY <1>0, <3>1, <3>3, <3>4 DEF Goes, Connection, TypeOK
  <2>7. CASE ConnectOk(i)
    <3>1. Goes(i, "ST_CONNECT", "E_CONNECT_OK")
      BY <2>7, Entered DEF ConnectOk
    <3>2. PICK c \in Conns :
              /\ BusGet(c)
              /\ link'    = [link EXCEPT ![c] = "up"]
              /\ filters' = [filters EXCEPT ![c] = Append(@, i)]
              /\ conn'    = [conn EXCEPT ![i] = c]
      BY <2>7 DEF ConnectOk
    <3>3. link[c] # "down"
      BY <3>2 DEF BusGet
    <3>4. \A d \in Conns : link[d] = "down" => link'[d] = "down"
      BY <1>0, <3>2, <3>3 DEF TypeOK
    <3>5. filters'[c] # <<>> /\ \A d \in Conns : filters[d] # <<>> => filters'[d] # <<>>
      <4>1. \A q \in Seq(Instances) : Append(q, i) # <<>>
        BY AppendProperties
      <4>2. filters \in [Conns -> Seq(Instances)]
        BY <1>0 DEF TypeOK
      <4> QED BY <3>2, <4>1, <4>2
    <3> QED BY <1>0, <3>1, <3>2, <3>4, <3>5, ConnAssumption DEF Goes, Connection, TypeOK
  <2>8. CASE Exit(i)
    BY <1>0, <2>8, Entered DEF Exit, ExitMessages, Unref, Goes, Connection, TypeOK, clientVars
  <2>9. CASE FlushQueues(i)
    <3>1. PICK e : Enter(i, FirstMatch(state[i], event[i]), e)
      BY <2>9 DEF FlushQueues
    <3>2. /\ state[i] \in {"ST_EXIT", "ST_WMARK1", "ST_WMARK2"}
          /\ Goes(i, "ST_WMARK1", e) \/ Goes(i, "ST_WMARK2", e)
      BY <2>9, <3>1, Entered DEF FlushQueues
    <3>3. UNCHANGED <<conn, busVars>>
      BY <2>9 DEF FlushQueues
    <3>4. state'[i] \in {"ST_WMARK1", "ST_WMARK2"} /\ conn[i] = NoConn
      <4>1. conn[i] = NoConn
        BY <1>0, <3>2 DEF IInv, Connection
      <4>2. i \in DOMAIN state
        BY <1>0 DEF TypeOK
      <4> QED BY <3>2, <4>1, <4>2 DEF Goes
    <3>5. j # i => state'[j] = state[j] /\ event'[j] = event[j] /\ wpc'[j] = wpc[j]
      BY <1>0, <3>2 DEF Goes, TypeOK
    <3> QED BY <1>0, <3>3, <3>4, <3>5 DEF Connection, busVars
  <2>10. CASE FinalCleanup(i)
    BY <1>0, <2>10, Entered DEF FinalCleanup, Goes, Connection, TypeOK, clientVars, busVars
  <2> QED BY <1>4, <2>1, <2>2, <2>3, <2>4, <2>5, <2>6, <2>7, <2>8, <2>9, <2>10 DEF Worker
<1> QED BY <1>1, <1>2, <1>3, <1>4 DEF Next

-----------------------------------------------------------------------------
LEMMA InboxStep ==
    ASSUME IInv, [Next]_vars, NEW j \in Instances
    PROVE  Inbox(j)'
<1>0. TypeOK /\ Inbox(j) /\ Lifecycle(j)
  BY DEF IInv
<1>1. in[j] \in Seq(InMsgs)
  BY <1>0 DEF TypeOK
<1>2. CASE UNCHANGED vars
  BY <1>0, <1>2 DEF Inbox, vars, clientVars, fsmVars, busVars
<1>3. CASE Disconnect
  BY <1>0, <1>3 DEF Disconnect, Inbox, clientVars, fsmVars
<1>4. ASSUME NEW i \in Instances, Client(i)
      PROVE  Inbox(j)'
  <2>1. CASE Create(i)
    BY <1>0, <2>1 DEF Create, Inbox, Lifecycle, Running, TypeOK, busVars
  <2>2. CASE CreateFails(i)
    BY <1>0, <2>2 DEF CreateFails, Inbox, Lifecycle, TypeOK, fsmVars
  <2>3. CASE Pop(i)
    BY <1>0, <2>3 DEF Pop, Inbox, clientVars, fsmVars
  <2>4. CASE Deallocate(i)
    <3>1. UNCHANGED fsmVars
      BY <2>4 DEF Deallocate
    <3>2. j # i => in'[j] = in[j] /\ handle'[j] = handle[j]
      BY <1>0, <2>4 DEF Deallocate, Push, TypeOK
    <3>3. CASE j # i \/ handle[i] # "chan"
      BY <1>0, <2>4, <3>1, <3>2, <3>3 DEF Deallocate, Inbox, fsmVars
    <3>4. CASE j = i /\ handle[i] = "chan"
      <4>1. handle'[j] = "null" /\ \A k \in 1..Len(in[j]) : in[j][k] \in API
        BY <1>0, <2>4, <3>4 DEF Deallocate, Inbox, TypeOK
      <4>2. in'[j] = in[j] \/ in'[j] = in[j] \o <<"EXIT_CLEAN">>
        BY <1>0, <2>4, <3>4 DEF Deallocate, Push, TypeOK
      <4>3. \A k \in 1..Len(in'[j]) :
                /\ in'[j][k] \in API \cup {"EXIT_CLEAN"}
                /\ in'[j][k] = "EXIT_CLEAN" => k = Len(in'[j])
        BY <1>1, <4>1, <4>2 DEF API
      <4> QED BY <1>0, <3>1, <3>4, <4>1, <4>3 DEF Inbox, fsmVars
    <3> QED BY <3>3, <3>4
  <2>5. ASSUME NEW m \in Commands, PushMsg(i, m)
        PROVE  Inbox(j)'
    <3>1. UNCHANGED <<handle, fsmVars>> /\ m \in API /\ handle[i] = "chan"
      BY <2>5, ClientAssumption DEF PushMsg
    <3>2. CASE j # i
      <4>1. in'[j] = in[j]
        BY <1>0, <2>5, <3>2 DEF PushMsg, Push, TypeOK
      <4> QED BY <1>0, <3>1, <4>1 DEF Inbox, fsmVars
    <3>3. CASE j = i
      <4>1. in'[j] = in[j] \/ in'[j] = in[j] \o <<m>>
        BY <1>0, <2>5, <3>3 DEF PushMsg, Push, TypeOK
      <4>2. \A k \in 1..Len(in[j]) : in[j][k] \in API
        BY <1>0, <3>1, <3>3 DEF Inbox
      <4>3. \A k \in 1..Len(in'[j]) : in'[j][k] \in API
        BY <1>1, <3>1, <4>1, <4>2
      <4> QED BY <1>0, <3>1, <3>3, <4>3 DEF Inbox, fsmVars, API
    <3> QED BY <3>2, <3>3
  <2> QED BY <1>4, <2>1, <2>2, <2>3, <2>4, <2>5 DEF Client
<1>5. ASSUME NEW i \in Instances, Worker(i)
      PROVE  Inbox(j)'
  <2>0. handle' = handle
    BY <1>5 DEF Worker, Pump, PumpDisconnected, GetNothing, GetCommand, Idle, ConnectNoBus,
                ConnectFails, ConnectOk, Exit, FlushQueues, FinalCleanup, clientVars
  <2>1. ASSUME NEW s, NEW e, Goes(i, s, e), in' = in, state[i] \in Running, s \in Running,
               e # "E_CMD_EXIT_CLEAN"
        PROVE  Inbox(j)'
    BY <1>0, <2>0, <2>1 DEF Goes, Inbox, Running, TypeOK
  <2>2. CASE Pump(i)
    BY <1>0, <2>0, <2>2 DEF Pump, Inbox, TypeOK
  <2>3. CASE PumpDisconnected(i)
    BY <1>0, <2>0, <2>3 DEF PumpDisconnected, Inbox, TypeOK
  <2>4. CASE GetNothing(i)
    BY <1>0, <2>0, <2>4 DEF GetNothing, Inbox, TypeOK
  <2>5. CASE GetCommand(i)
    <3>1. CASE j # i
      BY <1>0, <2>0, <2>5, <3>1 DEF GetCommand, Inbox, TypeOK
    <3>2. CASE j = i
      <4>1. /\ in[j] # <<>> /\ in'[j] = Tail(in[j]) /\ state' = state
            /\ wpc[j] = "get" /\ event'[j] = EventOf(Head(in[j]))
        BY <1>0, <2>5, <3>2 DEF GetCommand, TypeOK
      <4>2. state[j] \in Running
        BY <1>0, <4>1 DEF Inbox, Lifecycle, Running, TypeOK, States
      <4>3. /\ Head(in[j]) = in[j][1] /\ 1 \in 1..Len(in[j])
            /\ Len(Tail(in[j])) = Len(in[j]) - 1
            /\ \A k \in 1..Len(Tail(in[j])) :
                  Tail(in[j])[k] = in[j][k + 1] /\ k + 1 \in 1..Len(in[j])
        BY <1>1, <4>1
      <4>4. CASE event'[j] = "E_CMD_EXIT_CLEAN"
        <5>1. Head(in[j]) \in InMsgs
          BY <1>1, <4>1
        <5>2. Head(in[j]) = "EXIT_CLEAN"
          BY <4>1, <4>4, <5>1 DEF EventOf, InMsgs, API
        <5>3. Len(in[j]) = 1 /\ handle[j] = "null"
          BY <1>0, <4>2, <4>3, <5>2 DEF Inbox, TypeOK, API
        <5>4. in'[j] \in Seq(InMsgs) /\ Len(in'[j]) = 0
          BY <1>1, <4>1, <4>3, <5>3
        <5>5. in'[j] = <<>>
          BY <5>4, EmptySeq
        <5>6. handle'[j] = "null" /\ state'[j] \in Running
          BY <2>0, <4>1, <4>2, <5>3
        <5> QED BY <5>4, <5>5, <5>6 DEF Inbox, Running
      <4>5. CASE event'[j] # "E_CMD_EXIT_CLEAN"
        BY <1>0, <2>0, <4>1, <4>2, <4>3, <4>5 DEF Inbox, Running
      <4> QED BY <4>4, <4>5
    <3> QED BY <3>1, <3>2
  <2>6. CASE Idle(i)
    <3>1. PICK a \in {"Serve", "Wait", "None"} : Matched(i, a)
      BY <2>6 DEF Idle
    <3>2. CASE a = "Serve"
      BY <2>1, <2>6, <3>1, <3>2, Entered DEF Idle, Running
    <3>3. CASE a = "Wait"
      BY <2>1, <2>6, <3>1, <3>3, Entered DEF Idle, Running
    <3>4. CASE a = "None"
      <4>1. Goes(i, "ST_QUIT", "E_NULL") /\ in' = in
        BY <2>6, <3>1, <3>4, Entered DEF Idle
      <4> QED BY <1>0, <2>0, <4>1 DEF Goes, Inbox, Running, TypeOK
    <3> QED BY <3>1, <3>2, <3>3, <3>4
  <2>7. CASE ConnectNoBus(i)
    BY <2>1, <2>7, Entered DEF ConnectNoBus, Running
  <2>8. CASE ConnectFails(i)
    BY <2>1, <2>8, Entered DEF ConnectFails, Running
  <2>9. CASE ConnectOk(i)
    BY <2>1, <2>9, Entered DEF ConnectOk, Running
  <2>10. CASE Exit(i)
    <3>1. CASE event[i] = "E_CMD_EXIT_CLEAN"
      <4>1. Goes(i, "ST_EXIT", "E_PUSHED_MARKERS") /\ wpc[i] = "match"
        BY <2>10, <3>1, Entered DEF Exit, ExitMessages
      <4>2. in' = [in EXCEPT ![i] = Append(@, "FLUSH_MARKER")]
        BY <2>10, <3>1 DEF Exit, ExitMessages, PushMarkers
      <4>3. CASE j = i
        <5>1. in[j] = <<>> /\ handle[j] = "null"
          BY <1>0, <3>1, <4>1, <4>3 DEF Inbox
        <5>2. in'[j] = <<"FLUSH_MARKER">>
          BY <1>0, <4>2, <4>3, <5>1 DEF TypeOK
        <5> QED BY <1>0, <2>0, <4>1, <4>3, <5>1, <5>2 DEF Goes, Inbox, Running, TypeOK
      <4>4. CASE j # i
        BY <1>0, <2>0, <4>1, <4>2, <4>4 DEF Goes, Inbox, TypeOK
      <4> QED BY <4>3, <4>4
    <3>2. CASE event[i] # "E_CMD_EXIT_CLEAN"
      <4>1. Goes(i, "ST_EXIT", "E_QUIT") /\ in' = in
        BY <2>10, <3>2, Entered DEF Exit, ExitMessages
      <4> QED BY <1>0, <2>0, <4>1 DEF Goes, Inbox, Running, TypeOK
    <3> QED BY <3>1, <3>2
  <2>11. CASE FlushQueues(i)
    <3>1. PICK e \in {"E_NULL", "E_MARKER", "E_MARKERS"} :
              /\ Enter(i, FirstMatch(state[i], event[i]), e)
              /\ in[i] # <<>> /\ Head(in[i]) = "FLUSH_MARKER" => e # "E_NULL"
      BY <2>11 DEF FlushQueues
    <3>2. in' = [in EXCEPT ![i] = IF @ = <<>> THEN @ ELSE Tail(@)]
      BY <2>11 DEF FlushQueues
    <3>3. CASE j # i
      <4>1. in'[j] = in[j] /\ (Goes(i, "ST_WMARK1", e) \/ Goes(i, "ST_WMARK2", e))
        BY <1>0, <2>11, <3>1, <3>2, <3>3, Entered DEF FlushQueues, TypeOK
      <4> QED BY <1>0, <2>0, <3>3, <4>1 DEF Goes, Inbox, TypeOK
    <3>4. CASE j = i
      <4>1. CASE state[i] = "ST_EXIT"
        <5>1. Goes(i, "ST_WMARK1", e) /\ event[i] = "E_PUSHED_MARKERS"
          BY <2>11, <3>1, <4>1, Entered DEF FlushQueues
        <5>2. in[j] = <<"FLUSH_MARKER">> /\ handle[j] = "null"
          BY <1>0, <3>4, <4>1, <5>1 DEF Inbox
        <5>3. in'[j] = <<>> /\ e # "E_NULL"
          BY <1>0, <3>1, <3>2, <3>4, <5>2 DEF TypeOK
        <5> QED BY <1>0, <2>0, <3>4, <5>1, <5>2, <5>3 DEF Goes, Inbox, Running, TypeOK
      <4>2. CASE state[i] # "ST_EXIT"
        <5>1. Goes(i, "ST_WMARK2", e) /\ state[i] \in {"ST_WMARK1", "ST_WMARK2"}
          BY <2>11, <3>1, <4>2, Entered DEF FlushQueues
        <5>2. in[j] = <<>> /\ handle[j] = "null"
          BY <1>0, <3>4, <5>1 DEF Inbox
        <5>3. in'[j] = <<>>
          BY <1>0, <3>2, <3>4, <5>2 DEF TypeOK
        <5> QED BY <1>0, <2>0, <3>4, <5>1, <5>2, <5>3 DEF Goes, Inbox, Running, TypeOK
      <4> QED BY <4>1, <4>2
    <3> QED BY <3>3, <3>4
  <2>12. CASE FinalCleanup(i)
    <3>1. Goes(i, "ST_FCLEAN", "E_QUIT") /\ state[i] = "ST_WMARK2" /\ in' = in
      BY <2>12, Entered DEF FinalCleanup
    <3> QED BY <1>0, <2>0, <3>1 DEF Goes, Inbox, Running, TypeOK
  <2> QED BY <1>5, <2>2, <2>3, <2>4, <2>5, <2>6, <2>7, <2>8, <2>9, <2>10, <2>11, <2>12 DEF Worker
<1> QED BY <1>2, <1>3, <1>4, <1>5 DEF Next

\* The invariant holds initially, and every step preserves it.
LEMMA IInvInit ==
    ASSUME Init
    PROVE  IInv
<1>1. TypeOK
  BY ClientAssumption, DBusAssumption DEF Init, TypeOK, States, Events
<1>2. RefsAreHeld
  <2> SUFFICES ASSUME NEW c \in Conns
               PROVE  refs[c] = Cardinality({i \in Instances : conn[i] = c})
    BY DEF RefsAreHeld
  <2>1. {i \in Instances : conn[i] = c} = {}
    BY ConnAssumption DEF Init
  <2> QED BY <2>1, FS_EmptySet DEF Init
<1>3. \A i \in Instances : Lifecycle(i) /\ Connection(i) /\ Inbox(i)
  BY DEF Init, Lifecycle, Connection, Inbox
<1> QED BY <1>1, <1>2, <1>3 DEF IInv

LEMMA IInvStep ==
    ASSUME IInv, [Next]_vars
    PROVE  IInv'
BY TypeStep, RefsStep, LifecycleStep, ConnectionStep, InboxStep DEF IInv

LEMMA Invariant == Spec => []IInv
BY IInvInit, IInvStep, PTL DEF Spec

\* The variables are well-typed: among them, no connection's count of
\* references goes below zero.
THEOREM TypeCorrect == Spec => []TypeOK
BY Invariant, PTL DEF IInv

\* However workers connect, disconnect and end, each connection of the process has
\* exactly the references of the workers that use it (dbus_bus_get and unref in
\* browser.cc).
THEOREM ReferencesAreHeld == Spec => []RefsAreHeld
BY Invariant, PTL DEF IInv

\* No worker is thrown back to connect from an end it has begun: the last row of the
\* transition table is never taken there (browser.cc:41-89).
THEOREM NobodyIsTrapped == Spec => []NeverTrapped
<1>1. IInv => NeverTrapped
  BY NotTrapped, Moves DEF NeverTrapped
<1> QED BY <1>1, Invariant, PTL

-----------------------------------------------------------------------------
(***************************************************************************)
(* One browser in the process.  With two, a worker's filter on the         *)
(* connection all of them share outlives its channel, and what is said     *)
(* here fails.                                                             *)
(***************************************************************************)
SoleBrowser == \A i, j \in Instances : i = j

\* What the worker says to its client: nothing special as long as it runs, then
\* EXITED, and the marker after it once the client has let go.
Outbox(i) ==
    /\ \A k \in 1..Len(out[i]) :
         /\ out[i][k] = "FLUSH_MARKER" =>
               /\ k = Len(out[i]) /\ handle[i] = "null"
               /\ \/ state[i] = "ST_EXIT" /\ event[i] = "E_PUSHED_MARKERS"
                  \/ state[i] \in {"ST_WMARK1", "ST_WMARK2"}
         /\ out[i][k] = "EXITED" =>
               /\ state[i] \notin Running
               /\ \/ k = Len(out[i])
                  \/ k = Len(out[i]) - 1 /\ out[i][Len(out[i])] = "FLUSH_MARKER"
    /\ state[i] = "ST_EXIT" /\ event[i] = "E_PUSHED_MARKERS" =>
         Len(out[i]) >= 2 /\ out[i][Len(out[i])] = "FLUSH_MARKER"
    /\ state[i] = "ST_WMARK1" =>
         event[i] = "E_MARKER" /\ Len(out[i]) >= 1 /\ out[i][Len(out[i])] = "FLUSH_MARKER"
    /\ state[i] = "ST_WMARK2" =>
         \/ event[i] = "E_NULL" /\ Len(out[i]) >= 1 /\ out[i][Len(out[i])] = "FLUSH_MARKER"
         \/ wpc[i] = "match" /\ event[i] = "E_MARKER" /\ out[i] = <<>>
    /\ state[i] = "ST_FCLEAN" => out[i] = <<>>

Mute(q) == \A k \in 1..Len(q) : q[k] \notin {"EXITED", "FLUSH_MARKER"}

LEMMA MuteRunning ==
    ASSUME NEW i \in Instances, Outbox(i), state[i] \in Running
    PROVE  Mute(out[i])
BY DEF Outbox, Mute, Running

LEMMA RunningMute ==
    ASSUME NEW i \in Instances, state'[i] \in Running, Mute(out'[i])
    PROVE  Outbox(i)'
BY DEF Outbox, Mute, Running

LEMMA MutePush ==
    ASSUME IInv, NEW i \in Instances, Mute(out[i]),
           NEW m \in OutMsgs \ {"EXITED", "FLUSH_MARKER"}, Push(out, i, <<m>>)
    PROVE  Mute(out'[i])
<1>1. out[i] \in Seq(OutMsgs) /\ i \in DOMAIN out
  BY DEF IInv, TypeOK
<1>2. out'[i] = out[i] \o <<m>> \/ out'[i] = out[i]
  BY <1>1 DEF Push
<1> QED BY <1>1, <1>2 DEF Mute

\* The signals of the sole browser's connection are its own.
LEMMA OwnSignals ==
    ASSUME IInv, SoleBrowser, NEW i \in Instances, conn[i] # NoConn, wpc[i] = "pump"
    PROVE  Head(filters[conn[i]]) = i /\ state[i] \in Running /\ chan[i] = "live"
<1>1. Head(filters[conn[i]]) = i
  BY InUse DEF SoleBrowser
<1>2. state[i] \in Running
  BY DEF IInv, Connection, Running
<1> QED BY <1>1, <1>2 DEF IInv, Lifecycle, Running

LEMMA OutboxStep ==
    ASSUME IInv, SoleBrowser, [Next]_vars, NEW i \in Instances, Outbox(i)
    PROVE  Outbox(i)'
<1>0. TypeOK /\ Lifecycle(i) /\ Connection(i) /\ Inbox(i)
  BY DEF IInv
<1>1. out[i] \in Seq(OutMsgs)
  BY <1>0 DEF TypeOK
<1>2. CASE UNCHANGED vars
  BY <1>2 DEF Outbox, vars, clientVars, fsmVars
<1>3. CASE Disconnect
  BY <1>3 DEF Disconnect, Outbox, clientVars, fsmVars
<1>4. CASE Client(i)
  <2>1. CASE Create(i) \/ CreateFails(i)
    <3>1. state'[i] = "ST_START" /\ out'[i] = <<>>
      BY <1>0, <2>1 DEF Create, CreateFails, Lifecycle, fsmVars
    <3> QED BY <3>1, RunningMute DEF Mute, Running
  <2>2. CASE Pop(i)
    <3>1. /\ handle[i] = "chan" /\ UNCHANGED <<handle, fsmVars>>
          /\ out[i] # <<>> /\ out'[i] = Tail(out[i])
      BY <1>0, <2>2 DEF Pop, TypeOK, clientVars
    <3>2. /\ Len(Tail(out[i])) = Len(out[i]) - 1
          /\ \A k \in 1..Len(Tail(out[i])) :
                k + 1 \in 1..Len(out[i]) /\ Tail(out[i])[k] = out[i][k + 1]
      BY <1>1, <3>1
    <3>3. /\ \A k \in 1..Len(out[i]) : out[i][k] # "FLUSH_MARKER"
          /\ state[i] \notin {"ST_WMARK1", "ST_WMARK2", "ST_FCLEAN"}
          /\ ~ (state[i] = "ST_EXIT" /\ event[i] = "E_PUSHED_MARKERS")
      BY <1>0, <3>1 DEF Outbox, Inbox
    <3>4. \A k \in 1..Len(out[i]) :
              out[i][k] = "EXITED" => k = Len(out[i]) /\ state[i] \notin Running
      BY <1>1, <3>3 DEF Outbox
    <3>5. \A k \in 1..Len(out'[i]) :
              /\ out'[i][k] # "FLUSH_MARKER"
              /\ out'[i][k] = "EXITED" => k = Len(out'[i]) /\ state[i] \notin Running
      BY <1>1, <3>1, <3>2, <3>3, <3>4
    <3> QED BY <3>1, <3>3, <3>5 DEF Outbox, fsmVars
  <2>3. CASE Deallocate(i)
    <3>1. UNCHANGED <<out, fsmVars>> /\ (handle[i] = "null" => handle'[i] = "null")
      BY <1>0, <2>3 DEF Deallocate, TypeOK
    <3> QED BY <3>1 DEF Outbox, fsmVars
  <2>4. ASSUME NEW m \in Commands, PushMsg(i, m)
        PROVE  Outbox(i)'
    BY <2>4 DEF PushMsg, Outbox, fsmVars
  <2> QED BY <1>4, <2>1, <2>2, <2>3, <2>4 DEF Client
<1>5. CASE Worker(i)
  <2>0. handle' = handle
    BY <1>5 DEF Worker, Pump, PumpDisconnected, GetNothing, GetCommand, Idle, ConnectNoBus,
                ConnectFails, ConnectOk, Exit, FlushQueues, FinalCleanup, clientVars
  <2>1. ASSUME NEW s \in Running, NEW e, Goes(i, s, e), out' = out, state[i] \in Running
        PROVE  Outbox(i)'
    <3>1. state'[i] \in Running
      BY <1>0, <2>1 DEF Goes, TypeOK
    <3> QED BY <2>1, <3>1, MuteRunning, RunningMute
  <2>2. CASE Pump(i)
    <3>1. CASE out' = out
      BY <1>0, <2>0, <2>2, <3>1 DEF Pump, Outbox, TypeOK
    <3>2. ASSUME conn[i] # NoConn,
                 NEW m \in SignalMsgs, Push(out, Head(filters[conn[i]]), <<m>>)
          PROVE  Outbox(i)'
      <4>1. Head(filters[conn[i]]) = i /\ state[i] \in Running /\ state' = state
        BY <2>2, <3>2, OwnSignals DEF Pump
      <4>2. m \in OutMsgs \ {"EXITED", "FLUSH_MARKER"}
        BY DEF SignalMsgs, OutMsgs
      <4>3. Push(out, i, <<m>>)
        BY <3>2, <4>1
      <4>4. Mute(out'[i])
        BY <4>1, <4>2, <4>3, MuteRunning, MutePush
      <4> QED BY <4>1, <4>4, RunningMute
    <3> QED BY <2>2, <3>1, <3>2 DEF Pump
  <2>3. CASE PumpDisconnected(i)
    <3>1. Head(filters[conn[i]]) = i /\ state[i] \in Running /\ state' = state
      BY <2>3, OwnSignals DEF PumpDisconnected
    <3>2. out' = out \/ Push(out, i, <<"DBUS_DISCONNECTED">>)
      BY <2>3, <3>1 DEF PumpDisconnected
    <3>3. "DBUS_DISCONNECTED" \in OutMsgs \ {"EXITED", "FLUSH_MARKER"}
      BY DEF OutMsgs
    <3>4. Mute(out'[i])
      BY <3>1, <3>2, <3>3, MuteRunning, MutePush
    <3> QED BY <3>1, <3>4, RunningMute
  <2>4. CASE GetNothing(i)
    BY <1>0, <2>0, <2>4 DEF GetNothing, Outbox, Inbox, TypeOK
  <2>5. CASE GetCommand(i)
    <3>1. wpc[i] = "get" /\ in[i] # <<>> /\ UNCHANGED <<state, out>>
      BY <2>5 DEF GetCommand
    <3>2. state[i] \in Running
      BY <1>0, <3>1 DEF Inbox, Lifecycle, Running, TypeOK, States
    <3> QED BY <3>1, <3>2, MuteRunning, RunningMute
  <2>6. CASE Idle(i)
    <3>1. PICK a \in {"Serve", "Wait", "None"} : Matched(i, a)
      BY <2>6 DEF Idle
    <3>2. CASE a = "Serve"
      BY <2>1, <2>6, <3>1, <3>2, Entered DEF Idle, Running
    <3>3. CASE a = "Wait"
      BY <2>1, <2>6, <3>1, <3>3, Entered DEF Idle, Running
    <3>4. CASE a = "None"
      <4>1. /\ Goes(i, "ST_QUIT", "E_NULL") /\ out' = out
            /\ \/ state[i] = "ST_EXIT" /\ event[i] # "E_PUSHED_MARKERS"
               \/ state[i] = "ST_WMARK1" /\ event[i] = "E_MARKERS"
               \/ state[i] = "ST_FCLEAN"
        BY <2>6, <3>1, <3>4, Entered DEF Idle
      <4>2. \A k \in 1..Len(out[i]) :
                /\ out[i][k] # "FLUSH_MARKER"
                /\ out[i][k] = "EXITED" => k = Len(out[i])
        BY <1>1, <4>1 DEF Outbox
      <4>3. state'[i] = "ST_QUIT"
        BY <1>0, <4>1 DEF Goes, TypeOK
      <4> QED BY <4>1, <4>2, <4>3 DEF Outbox, Running
    <3> QED BY <3>1, <3>2, <3>3, <3>4
  <2>7. CASE ConnectNoBus(i)
    BY <2>1, <2>7, Entered DEF ConnectNoBus, Running
  <2>8. CASE ConnectFails(i)
    <3>1. Goes(i, "ST_CONNECT", "E_CONNECT_ERROR") /\ state[i] \in Running
      BY <2>8, Entered DEF ConnectFails, Running
    <3>2. PICK e \in DOMAIN SetupError : Push(out, i, <<SetupError[e]>>)
      BY <2>8 DEF ConnectFails
    <3>3. SetupError[e] \in OutMsgs \ {"EXITED", "FLUSH_MARKER"}
      BY DEF SetupError, OutMsgs
    <3>4. Mute(out'[i])
      BY <3>1, <3>2, <3>3, MuteRunning, MutePush
    <3>5. state'[i] \in Running
      BY <1>0, <3>1 DEF Goes, Running, TypeOK
    <3> QED BY <3>4, <3>5, RunningMute
  <2>9. CASE ConnectOk(i)
    BY <2>1, <2>9, Entered DEF ConnectOk, Running
  <2>10. CASE Exit(i)
    <3>1. chan[i] = "live" /\ Mute(out[i])
      BY <1>0, <2>10, Entered, MuteRunning DEF Exit, ExitMessages, Lifecycle, Running
    <3>2. CASE event[i] = "E_CMD_EXIT_CLEAN"
      <4>1. Goes(i, "ST_EXIT", "E_PUSHED_MARKERS") /\ wpc[i] = "match"
        BY <2>10, <3>2, Entered DEF Exit, ExitMessages
      <4>2. out'[i] = out[i] \o <<"EXITED", "FLUSH_MARKER">>
        BY <1>0, <2>10, <3>1, <3>2 DEF Exit, ExitMessages, PushMarkers, Push, TypeOK
      <4>3. handle[i] = "null"
        BY <1>0, <3>2, <4>1 DEF Inbox
      <4>4. /\ Len(out'[i]) = Len(out[i]) + 2
            /\ out'[i][Len(out[i]) + 1] = "EXITED"
            /\ out'[i][Len(out[i]) + 2] = "FLUSH_MARKER"
            /\ \A k \in 1..Len(out[i]) : out'[i][k] = out[i][k]
        BY <1>1, <4>2
      <4>5. \A k \in 1..Len(out'[i]) :
                /\ out'[i][k] = "FLUSH_MARKER" => k = Len(out'[i])
                /\ out'[i][k] = "EXITED" => k = Len(out'[i]) - 1
        BY <1>1, <3>1, <4>4 DEF Mute
      <4>6. state'[i] = "ST_EXIT" /\ event'[i] = "E_PUSHED_MARKERS"
        BY <1>0, <4>1 DEF Goes, TypeOK
      <4> QED BY <1>1, <2>0, <4>3, <4>4, <4>5, <4>6 DEF Outbox, Running
    <3>3. CASE event[i] # "E_CMD_EXIT_CLEAN"
      <4>1. Goes(i, "ST_EXIT", "E_QUIT")
        BY <2>10, <3>3, Entered DEF Exit, ExitMessages
      <4>2. out'[i] = out[i] \o <<"EXITED">>
        BY <1>0, <2>10, <3>1, <3>3 DEF Exit, ExitMessages, Push, TypeOK
      <4>3. \A k \in 1..Len(out'[i]) :
                /\ out'[i][k] # "FLUSH_MARKER"
                /\ out'[i][k] = "EXITED" => k = Len(out'[i])
        BY <1>1, <3>1, <4>2 DEF Mute
      <4>4. state'[i] = "ST_EXIT" /\ event'[i] = "E_QUIT"
        BY <1>0, <4>1 DEF Goes, TypeOK
      <4> QED BY <4>3, <4>4 DEF Outbox, Running
    <3> QED BY <3>2, <3>3
  <2>11. CASE FlushQueues(i)
    <3> DEFINE inMark  == in[i] # <<>> /\ Head(in[i]) = "FLUSH_MARKER"
               outMark == out[i] # <<>> /\ Head(out[i]) = "FLUSH_MARKER"
    <3>1. PICK e \in {"E_NULL", "E_MARKER", "E_MARKERS"} :
              /\ Enter(i, FirstMatch(state[i], event[i]), e)
              /\ e = "E_NULL" <=> ~ inMark /\ ~ outMark
              /\ e = "E_MARKERS" <=> inMark /\ outMark
      BY <2>11 DEF FlushQueues
    <3>2. out'[i] = IF out[i] = <<>> THEN <<>> ELSE Tail(out[i])
      BY <1>0, <2>11 DEF FlushQueues, TypeOK
    <3>3. /\ out[i] # <<>> /\ out'[i] = Tail(out[i]) /\ handle[i] = "null"
          /\ out[i][Len(out[i])] = "FLUSH_MARKER"
          /\ \A k \in 1..Len(out[i]) :
                /\ out[i][k] = "FLUSH_MARKER" => k = Len(out[i])
                /\ out[i][k] = "EXITED" => k = Len(out[i]) - 1
          /\ \/ /\ state[i] = "ST_EXIT" /\ Len(out[i]) >= 2
                /\ in[i] = <<"FLUSH_MARKER">> /\ Goes(i, "ST_WMARK1", e)
             \/ in[i] = <<>> /\ Goes(i, "ST_WMARK2", e)
      <4>1. \/ /\ state[i] = "ST_EXIT" /\ event[i] = "E_PUSHED_MARKERS"
               /\ Goes(i, "ST_WMARK1", e)
            \/ state[i] = "ST_WMARK1" /\ Goes(i, "ST_WMARK2", e)
            \/ state[i] = "ST_WMARK2" /\ event[i] # "E_MARKER" /\ Goes(i, "ST_WMARK2", e)
        BY <2>11, <3>1, Entered DEF FlushQueues
      <4>2. Len(out[i]) >= 1 /\ out[i][Len(out[i])] = "FLUSH_MARKER"
        BY <1>1, <4>1 DEF Outbox
      <4>3. out[i] # <<>> /\ handle[i] = "null"
        BY <1>0, <4>1, <4>2 DEF Inbox
      <4>4. \A k \in 1..Len(out[i]) :
                /\ out[i][k] = "FLUSH_MARKER" => k = Len(out[i])
                /\ out[i][k] = "EXITED" => k = Len(out[i]) - 1
        BY <1>1, <4>2 DEF Outbox
      <4> QED BY <1>0, <3>2, <4>1, <4>2, <4>3, <4>4 DEF Outbox, Inbox
    <3>4. /\ Head(out[i]) = out[i][1] /\ Len(out[i]) \in Nat \ {0}
          /\ Len(out'[i]) = Len(out[i]) - 1
          /\ \A k \in 1..Len(out'[i]) :
                k + 1 \in 1..Len(out[i]) /\ out'[i][k] = out[i][k + 1]
      BY <1>1, <3>3
    <3>5. outMark <=> Len(out[i]) = 1
      <4>1. 1 \in 1..Len(out[i]) /\ out[i] # <<>> /\ Head(out[i]) = out[i][1]
        BY <3>3, <3>4
      <4>2. out[i][1] = "FLUSH_MARKER" => 1 = Len(out[i])
        BY <3>3, <4>1
      <4>3. Len(out[i]) = 1 => out[i][1] = "FLUSH_MARKER"
        BY <3>3
      <4> QED BY <4>1, <4>2, <4>3
    <3>6. \A k \in 1..Len(out'[i]) :
              /\ out'[i][k] = "FLUSH_MARKER" => k = Len(out'[i])
              /\ out'[i][k] = "EXITED" => k = Len(out'[i]) - 1
      BY <3>3, <3>4
    <3>7. Len(out'[i]) >= 1 => out'[i][Len(out'[i])] = "FLUSH_MARKER"
      BY <3>3, <3>4
    <3>10. in[i] = <<>> => ~ inMark
      OBVIOUS
    <3>11. in[i] = <<"FLUSH_MARKER">> => inMark
      OBVIOUS
    <3> HIDE DEF inMark, outMark
    <3>8. CASE state[i] = "ST_EXIT" /\ Len(out[i]) >= 2 /\ in[i] = <<"FLUSH_MARKER">>
               /\ Goes(i, "ST_WMARK1", e)
      <4>1. e = "E_MARKER" /\ Len(out'[i]) >= 1
        BY <3>1, <3>4, <3>5, <3>8, <3>11
      <4>2. state'[i] = "ST_WMARK1" /\ event'[i] = "E_MARKER"
        BY <1>0, <3>8, <4>1 DEF Goes, TypeOK
      <4> QED BY <2>0, <3>3, <3>6, <3>7, <4>1, <4>2 DEF Outbox, Running
    <3>9. CASE in[i] = <<>> /\ Goes(i, "ST_WMARK2", e)
      <4>1. CASE Len(out[i]) = 1
        <5>1. out'[i] = <<>>
          <6>1. out'[i] \in Seq(OutMsgs) /\ Len(out'[i]) = 0
            BY <1>1, <3>3, <3>4, <4>1
          <6> QED BY <6>1, EmptySeq
        <5>2. state'[i] = "ST_WMARK2" /\ event'[i] = "E_MARKER" /\ wpc'[i] = "match"
          BY <1>0, <3>1, <3>5, <3>9, <3>10, <4>1 DEF Goes, TypeOK
        <5> QED BY <5>1, <5>2 DEF Outbox
      <4>2. CASE Len(out[i]) # 1
        <5>1. e = "E_NULL" /\ Len(out'[i]) >= 1
          <6>1. Len(out'[i]) >= 1
            <7>1. Len(out'[i]) = Len(out[i]) - 1 /\ Len(out[i]) \in Nat \ {0}
              BY <3>4
            <7>2. \A n \in Nat \ {0} : n # 1 => n - 1 >= 1
              OBVIOUS
            <7> QED BY <4>2, <7>1, <7>2
          <6>2. ~ inMark /\ ~ outMark
            BY <3>5, <3>9, <3>10, <4>2
          <6> QED BY <3>1, <6>1, <6>2
        <5>2. state'[i] = "ST_WMARK2" /\ event'[i] = "E_NULL"
          BY <1>0, <3>9, <5>1 DEF Goes, TypeOK
        <5> QED BY <2>0, <3>3, <3>6, <3>7, <5>1, <5>2 DEF Outbox, Running
      <4> QED BY <4>1, <4>2
    <3> QED BY <3>3, <3>8, <3>9
  <2>12. CASE FinalCleanup(i)
    <3>1. /\ Goes(i, "ST_FCLEAN", "E_QUIT") /\ out' = out
          /\ state[i] = "ST_WMARK2" /\ event[i] # "E_NULL"
      BY <2>12, Entered DEF FinalCleanup
    <3>2. state'[i] = "ST_FCLEAN" /\ out'[i] = <<>>
      BY <1>0, <3>1 DEF Goes, Outbox, TypeOK
    <3> QED BY <3>2 DEF Outbox
  <2> QED BY <1>5, <2>2, <2>3, <2>4, <2>5, <2>6, <2>7, <2>8, <2>9, <2>10, <2>11, <2>12 DEF Worker
<1> QED BY <1>2, <1>3, <1>4, <1>5 DEF Next, SoleBrowser

OutboxInv == \A i \in Instances : Outbox(i)

LEMMA OutboxInvariant ==
    ASSUME SoleBrowser
    PROVE  Spec => []OutboxInv
<1>1. Init => OutboxInv
  BY DEF Init, OutboxInv, Outbox
<1>2. IInv /\ OutboxInv /\ [Next]_vars => OutboxInv'
  BY OutboxStep, SoleBrowser DEF OutboxInv
<1> QED BY <1>1, <1>2, Invariant, PTL DEF Spec

LEMMA FlushWorksNow ==
    ASSUME IInv, OutboxInv
    PROVE  FlushWorks
<1>1. EmptyAtCleanup
  <2> SUFFICES ASSUME NEW i \in Instances, state[i] = "ST_WMARK2", wpc[i] = "match",
                      NEW r, r = FirstMatch(state[i], event[i]), r.action = "FinalCleanup"
               PROVE  in[i] = <<>> /\ out[i] = <<>>
    BY DEF EmptyAtCleanup
  <2>1. event[i] # "E_NULL"
    BY NotTrapped, Moves
  <2> QED BY <2>1 DEF IInv, Inbox, OutboxInv, Outbox
<1>2. MarkersAreInternal
  <2> SUFFICES ASSUME NEW i \in Instances
               PROVE  /\ \A k \in 1..Len(out[i]) : \A l \in 1..(k - 1) :
                             out[i][l] = "EXITED" => out[i][k] = "FLUSH_MARKER"
                      /\ handle[i] = "chan" =>
                             /\ \A k \in 1..Len(out[i]) : out[i][k] # "FLUSH_MARKER"
                             /\ \A k \in 1..Len(in[i]) : in[i][k] \in API
    BY DEF MarkersAreInternal
  <2>1. Outbox(i) /\ Inbox(i) /\ Len(out[i]) \in Nat
    BY DEF OutboxInv, IInv, TypeOK
  <2>2. ASSUME NEW k \in 1..Len(out[i]), NEW l \in 1..(k - 1), out[i][l] = "EXITED"
        PROVE  out[i][k] = "FLUSH_MARKER"
    <3>1. l \in 1..Len(out[i]) /\ l < k
      BY <2>1, <2>2
    <3>2. l = Len(out[i]) - 1 /\ out[i][Len(out[i])] = "FLUSH_MARKER"
      BY <2>1, <2>2, <3>1 DEF Outbox
    <3> QED BY <2>1, <3>1, <3>2
  <2> QED BY <2>1, <2>2 DEF Outbox, Inbox
<1> QED BY <1>1, <1>2 DEF FlushWorks

\* With one browser in the process, the flush at the end of a worker does what
\* browser.cc:498 counts on: when both markers are through, both queues are empty.
THEOREM FlushIsClean ==
    ASSUME SoleBrowser
    PROVE  Spec => []FlushWorks
BY Invariant, OutboxInvariant, FlushWorksNow, PTL

-----------------------------------------------------------------------------
\* A client that holds a channel holds a live one, unless an initialisation
\* failed; and nobody has touched a released one.
HeldIsLive ==
    /\ NoStaleAccess
    /\ \A i \in Instances : handle[i] = "chan" => chan[i] = "live"

LEMMA HeldStep ==
    ASSUME IInv, SoleBrowser, CanFail = FALSE, HeldIsLive, [Next]_vars
    PROVE  HeldIsLive'
<1>0. TypeOK /\ stale = {}
  BY DEF IInv, HeldIsLive, NoStaleAccess
<1>1. CASE UNCHANGED vars
  BY <1>1 DEF HeldIsLive, NoStaleAccess, vars, clientVars
<1>2. CASE Disconnect
  BY <1>2 DEF Disconnect, HeldIsLive, NoStaleAccess, clientVars
<1>3. ASSUME NEW i \in Instances, Client(i)
      PROVE  HeldIsLive'
  <2>1. CASE Create(i)
    BY <1>0, <2>1 DEF Create, HeldIsLive, NoStaleAccess, TypeOK
  <2>2. CASE CreateFails(i)
    BY <2>2 DEF CreateFails
  <2>3. CASE Pop(i)
    BY <2>3 DEF Pop, HeldIsLive, NoStaleAccess, clientVars
  <2>4. CASE Deallocate(i)
    BY <1>0, <2>4 DEF Deallocate, Push, HeldIsLive, NoStaleAccess, TypeOK
  <2>5. ASSUME NEW m \in Commands, PushMsg(i, m)
        PROVE  HeldIsLive'
    BY <2>5 DEF PushMsg, Push, HeldIsLive, NoStaleAccess
  <2> QED BY <1>3, <2>1, <2>2, <2>3, <2>4, <2>5 DEF Client
<1>4. ASSUME NEW i \in Instances, Worker(i)
      PROVE  HeldIsLive'
  <2>1. handle' = handle
    BY <1>4 DEF Worker, Pump, PumpDisconnected, GetNothing, GetCommand, Idle, ConnectNoBus,
                ConnectFails, ConnectOk, Exit, FlushQueues, FinalCleanup, clientVars
  <2>2. ASSUME UNCHANGED <<chan, stale>>
        PROVE  HeldIsLive'
    BY <2>1, <2>2 DEF HeldIsLive, NoStaleAccess
  <2>3. CASE Pump(i) \/ PumpDisconnected(i)
    <3>1. chan' = chan
      BY <2>3 DEF Pump, PumpDisconnected
    <3>2. conn[i] # NoConn /\ wpc[i] = "pump" =>
              Head(filters[conn[i]]) = i /\ chan[i] = "live"
      BY OwnSignals
    <3>3. stale' = stale
      BY <2>3, <3>2 DEF Pump, PumpDisconnected, Push
    <3> QED BY <2>2, <3>1, <3>3
  <2>4. CASE GetNothing(i) \/ GetCommand(i) \/ Idle(i) \/ ConnectNoBus(i) \/ ConnectOk(i)
             \/ FlushQueues(i)
    BY <2>2, <2>4 DEF GetNothing, GetCommand, Idle, ConnectNoBus, ConnectOk, FlushQueues
  <2>5. CASE ConnectFails(i) \/ Exit(i)
    <3>1. chan' = chan
      BY <2>5 DEF ConnectFails, Exit
    <3>2. state[i] \in Running
      BY <2>5, Entered DEF ConnectFails, Exit, ExitMessages, Running
    <3>3. wpc[i] = "match"
      BY <2>5 DEF ConnectFails, Exit, Matched
    <3>4. chan[i] = "live"
      BY <3>2, <3>3 DEF IInv, Lifecycle, Running
    <3>5. stale' = stale
      BY <2>5, <3>4 DEF ConnectFails, Exit, ExitMessages, PushMarkers, Push
    <3> QED BY <2>2, <3>1, <3>5
  <2>6. CASE FinalCleanup(i)
    <3>1. state[i] = "ST_WMARK2"
      BY <2>6, Entered DEF FinalCleanup
    <3>2. handle[i] = "null"
      BY <3>1 DEF IInv, Inbox
    <3> QED BY <1>0, <2>1, <2>6, <3>2 DEF FinalCleanup, HeldIsLive, NoStaleAccess, TypeOK
  <2> QED BY <1>4, <2>3, <2>4, <2>5, <2>6 DEF Worker
<1> QED BY <1>1, <1>2, <1>3, <1>4 DEF Next

\* With one browser, and as long as no initialisation fails, nobody touches a
\* channel that was released (the promise of mdnsbrowser.cc:42-43).
THEOREM NothingStale ==
    ASSUME SoleBrowser, CanFail = FALSE
    PROVE  Spec => []NoStaleAccess
<1>1. Init => HeldIsLive
  BY DEF Init, HeldIsLive, NoStaleAccess
<1>2. IInv /\ HeldIsLive /\ [Next]_vars => HeldIsLive'
  BY HeldStep, SoleBrowser
<1>3. HeldIsLive => NoStaleAccess
  BY DEF HeldIsLive
<1> QED BY <1>1, <1>2, <1>3, Invariant, PTL DEF Spec

-----------------------------------------------------------------------------
(***************************************************************************)
(* The browser implements the channel its client relies on.                *)
(***************************************************************************)

\* The stage of a channel depends on its client's variables and its memory.
LEMMA StageSame ==
    ASSUME UNCHANGED <<mb, handle, initState, chan>>
    PROVE  Stage' = Stage
BY DEF Stage

LEMMA StageMoves ==
    ASSUME NEW i \in Instances,
           \A j \in Instances \ {i} :
               /\ mb'[j] = mb[j] /\ handle'[j] = handle[j]
               /\ initState'[j] = initState[j] /\ chan'[j] = chan[j]
    PROVE  Stage' = [Stage EXCEPT ![i] = Stage'[i]]
<1>1. \A j \in Instances \ {i} : Stage'[j] = Stage[j]
  BY DEF Stage
<1>2. /\ Stage = [j \in Instances |-> Stage[j]]
      /\ Stage' = [j \in Instances |-> Stage'[j]]
  BY DEF Stage
<1> QED BY <1>1, <1>2

\* A live channel is shared until its client lets go of it.
LEMMA StageLive ==
    ASSUME IInv, NEW i \in Instances, chan[i] = "live"
    PROVE  Stage[i] = IF handle[i] = "chan" THEN "shared" ELSE "handed"
BY DEF IInv, Lifecycle, TypeOK, Stage

\* Pushing one message is a Post of the channel.
LEMMA PushPosts ==
    ASSUME IInv, NEW i \in Instances, NEW m \in OutMsgs, Push(out, i, <<m>>), Stage' = Stage
    PROVE  [Ch!Next]_(Ch!vars)
<1>1. CASE chan[i] = "live"
  <2>1. out[i] \o <<m>> = Append(out[i], m)
    BY AppendIsConcat DEF IInv, TypeOK
  <2>2. out' = [out EXCEPT ![i] = Append(@, m)]
    BY <1>1, <2>1 DEF Push
  <2>3. Stage[i] \in {"shared", "handed"}
    BY <1>1, StageLive
  <2> QED BY <2>2, <2>3 DEF Ch!Next, Ch!Post
<1>2. CASE chan[i] # "live"
  BY <1>2 DEF Push, Ch!vars
<1> QED BY <1>1, <1>2

LEMMA ChannelStep ==
    ASSUME IInv, OutboxInv, SoleBrowser, [Next]_vars
    PROVE  [Ch!Next]_(Ch!vars)
<1>0. TypeOK
  BY DEF IInv
<1>1. ASSUME UNCHANGED <<mb, handle, initState, chan, out>>
      PROVE  [Ch!Next]_(Ch!vars)
  BY <1>1, StageSame DEF Ch!vars
<1>2. CASE UNCHANGED vars
  BY <1>1, <1>2 DEF vars, clientVars
<1>3. CASE Disconnect
  BY <1>1, <1>3 DEF Disconnect, clientVars
<1>4. ASSUME NEW i \in Instances, Client(i)
      PROVE  [Ch!Next]_(Ch!vars)
  <2>0. Lifecycle(i)
    BY DEF IInv
  <2>1. CASE Create(i) \/ CreateFails(i)
    <3>1. Stage' = [Stage EXCEPT ![i] = Stage'[i]] /\ out' = out
      BY <1>0, <2>1, StageMoves DEF Create, CreateFails, TypeOK
    <3>2. Stage[i] = "none" /\ Stage'[i] \in {"shared", "failed"}
      BY <1>0, <2>0, <2>1 DEF Create, CreateFails, Lifecycle, Stage, TypeOK
    <3> QED BY <3>1, <3>2 DEF Ch!Next, Ch!Open, Ch!Move
  <2>2. CASE Pop(i)
    <3>1. /\ Stage' = Stage /\ out[i] # <<>>
          /\ out' = [out EXCEPT ![i] = Tail(@)]
          /\ handle[i] = "chan" /\ initState[i]
      BY <2>2, StageSame DEF Pop, clientVars
    <3>2. chan[i] = "live"
      BY <2>0, <3>1 DEF Lifecycle
    <3> QED BY <3>1, <3>2, StageLive DEF Ch!Next, Ch!Take
  <2>3. CASE Deallocate(i)
    <3>1. /\ Stage' = [Stage EXCEPT ![i] = Stage'[i]] /\ out' = out
          /\ UNCHANGED <<chan, initState>>
      BY <1>0, <2>3, StageMoves DEF Deallocate, TypeOK
    <3>2. handle'[i] = "null" /\ mb'[i] = "deleted"
      BY <1>0, <2>3 DEF Deallocate, TypeOK
    <3>3. CASE mb[i] = "none"
      <4>1. Stage[i] = "none" /\ Stage'[i] = "failed"
        BY <2>0, <3>1, <3>2, <3>3 DEF Lifecycle, Stage
      <4> QED BY <3>1, <4>1 DEF Ch!Next, Ch!Open, Ch!Move
    <3>4. CASE mb[i] # "none" /\ chan[i] = "live" /\ handle[i] = "chan"
      <4>1. Stage[i] = "shared" /\ Stage'[i] = "handed"
        BY <3>1, <3>2, <3>4 DEF Stage
      <4> QED BY <3>1, <4>1 DEF Ch!Next, Ch!HandOver, Ch!Move
    <3>5. CASE mb[i] # "none" /\ ~ (chan[i] = "live" /\ handle[i] = "chan")
      <4>1. chan[i] # "live"
        BY <1>0, <2>0, <2>3, <3>5 DEF Deallocate, Lifecycle, TypeOK
      <4>2. Stage'[i] = Stage[i]
        BY <3>1, <3>2, <3>5, <4>1 DEF Stage
      <4>3. Stage' = Stage
        BY <3>1, <4>2 DEF Stage
      <4> QED BY <3>1, <4>3 DEF Ch!vars
    <3> QED BY <3>3, <3>4, <3>5
  <2>4. ASSUME NEW m \in Commands, PushMsg(i, m)
        PROVE  [Ch!Next]_(Ch!vars)
    BY <1>1, <2>4 DEF PushMsg
  <2> QED BY <1>4, <2>1, <2>2, <2>3, <2>4 DEF Client
<1>5. ASSUME NEW i \in Instances, Worker(i)
      PROVE  [Ch!Next]_(Ch!vars)
  <2>0. Lifecycle(i) /\ Inbox(i) /\ Outbox(i)
    BY DEF IInv, OutboxInv
  <2>1. CASE Pump(i)
    <3>1. CASE out' = out
      BY <1>1, <2>1, <3>1 DEF Pump, clientVars
    <3>2. ASSUME conn[i] # NoConn,
                 NEW m \in SignalMsgs, Push(out, Head(filters[conn[i]]), <<m>>)
          PROVE  [Ch!Next]_(Ch!vars)
      <4>1. m \in OutMsgs /\ Head(filters[conn[i]]) \in Instances /\ Stage' = Stage
        BY <2>1, <3>2, InUse, StageSame DEF Pump, clientVars, OutMsgs
      <4> QED BY <3>2, <4>1, PushPosts
    <3> QED BY <2>1, <3>1, <3>2 DEF Pump
  <2>2. CASE PumpDisconnected(i)
    <3>1. /\ "DBUS_DISCONNECTED" \in OutMsgs /\ Head(filters[conn[i]]) \in Instances
          /\ Stage' = Stage
      BY <2>2, InUse, StageSame DEF PumpDisconnected, clientVars, OutMsgs
    <3>2. out' = out \/ Push(out, Head(filters[conn[i]]), <<"DBUS_DISCONNECTED">>)
      BY <2>2 DEF PumpDisconnected
    <3> QED BY <3>1, <3>2, PushPosts DEF Ch!vars
  <2>3. CASE GetNothing(i) \/ GetCommand(i) \/ Idle(i) \/ ConnectNoBus(i) \/ ConnectOk(i)
    BY <1>1, <2>3 DEF GetNothing, GetCommand, Idle, ConnectNoBus, ConnectOk, clientVars
  <2>4. CASE ConnectFails(i)
    <3>1. PICK e \in DOMAIN SetupError : Push(out, i, <<SetupError[e]>>)
      BY <2>4 DEF ConnectFails
    <3>2. SetupError[e] \in OutMsgs /\ Stage' = Stage
      BY <2>4, StageSame DEF ConnectFails, clientVars, OutMsgs
    <3> QED BY <3>1, <3>2, PushPosts
  <2>5. CASE Exit(i)
    <3>1. Stage' = Stage /\ wpc[i] = "match"
      BY <2>5, StageSame DEF Exit, Matched, clientVars
    <3>2. CASE event[i] = "E_CMD_EXIT_CLEAN"
      <4>1. handle[i] = "null"
        BY <2>0, <3>1, <3>2 DEF Inbox
      <4>2. Push(out, i, <<"EXITED", "FLUSH_MARKER">>)
        BY <2>5, <3>2 DEF Exit, ExitMessages, PushMarkers
      <4>3. CASE chan[i] = "live"
        <5>1. Stage[i] = "handed"
          BY <4>1, <4>3, StageLive
        <5>2. out' = [out EXCEPT ![i] = @ \o <<"EXITED", "FLUSH_MARKER">>]
          BY <4>2, <4>3 DEF Push
        <5> QED BY <3>1, <5>1, <5>2 DEF Ch!Next, Ch!Finish
      <4>4. CASE chan[i] # "live"
        BY <3>1, <4>2, <4>4 DEF Push, Ch!vars
      <4> QED BY <4>3, <4>4
    <3>3. CASE event[i] # "E_CMD_EXIT_CLEAN"
      <4>1. Push(out, i, <<"EXITED">>) /\ "EXITED" \in OutMsgs
        BY <2>5, <3>3 DEF Exit, ExitMessages, OutMsgs
      <4> QED BY <3>1, <4>1, PushPosts
    <3> QED BY <3>2, <3>3
  <2>6. CASE FlushQueues(i)
    <3>1. Stage' = Stage /\ out' = [out EXCEPT ![i] = IF @ = <<>> THEN @ ELSE Tail(@)]
      BY <2>6, StageSame DEF FlushQueues, clientVars
    <3>2. CASE out[i] = <<>>
      <4>1. out' = out
        BY <1>0, <3>1, <3>2 DEF TypeOK
      <4> QED BY <3>1, <4>1 DEF Ch!vars
    <3>3. CASE out[i] # <<>>
      <4>1. PICK e : Enter(i, FirstMatch(state[i], event[i]), e)
        BY <2>6 DEF FlushQueues
      <4>2. state[i] \in {"ST_EXIT", "ST_WMARK1", "ST_WMARK2"} /\ wpc[i] = "match"
        BY <2>6, <4>1, Entered DEF FlushQueues
      <4>3. Stage[i] \in {"shared", "handed"}
        BY <2>0, <4>2, StageLive DEF Lifecycle
      <4>4. out' = [out EXCEPT ![i] = Tail(@)]
        BY <3>1, <3>3
      <4> QED BY <3>1, <3>3, <4>3, <4>4 DEF Ch!Next, Ch!Take
    <3> QED BY <3>2, <3>3
  <2>7. CASE FinalCleanup(i)
    <3>1. state[i] = "ST_WMARK2" /\ event[i] # "E_NULL" /\ wpc[i] = "match"
      BY <2>7, Entered DEF FinalCleanup
    <3>2. /\ chan[i] = "live" /\ handle[i] = "null" /\ initState[i] /\ mb[i] # "none"
          /\ out[i] = <<>>
      BY <2>0, <3>1 DEF Lifecycle, Inbox, Outbox
    <3>3. Stage[i] = "handed"
      BY <3>2, StageLive
    <3>4. /\ Stage' = [Stage EXCEPT ![i] = Stage'[i]] /\ out' = out
          /\ UNCHANGED <<mb, initState, handle>> /\ chan'[i] = "freed"
      BY <1>0, <2>7, StageMoves DEF FinalCleanup, clientVars, TypeOK
    <3>5. Stage'[i] = "gone"
      BY <3>2, <3>4 DEF Stage
    <3> QED BY <3>2, <3>3, <3>4, <3>5 DEF Ch!Next, Ch!Dispose, Ch!Move
  <2> QED BY <1>5, <2>1, <2>2, <2>3, <2>4, <2>5, <2>6, <2>7 DEF Worker
<1> QED BY <1>2, <1>3, <1>4, <1>5 DEF Next

\* With one browser, client and worker together do what Channel promises: no message
\* is lost or overtakes another while the client holds the channel, and after it has
\* handed it over the worker empties the channel and then disposes of it.
THEOREM BrowserIsChannel ==
    ASSUME SoleBrowser
    PROVE  Spec => ChannelSpec
<1>1. Init => Ch!Init
  BY DEF Init, Ch!Init, Stage
<1>2. IInv /\ OutboxInv /\ [Next]_vars => [Ch!Next]_(Ch!vars)
  BY ChannelStep, SoleBrowser
<1> QED BY <1>1, <1>2, Invariant, OutboxInvariant, PTL DEF Spec, ChannelSpec, Ch!Spec

=============================================================================
