------------------------------- MODULE Browser -------------------------------
(***************************************************************************)
(* The first-generation browser: MDNSBrowser objects (mdnsbrowser.cc) that *)
(* the scriptable object creates and disposes of (npobject_browser.cc),    *)
(* the worker thread each of them starts (browser.cc), and the two queues  *)
(* and the communication channel they share.                               *)
(*                                                                         *)
(* Clients all run on the browser's main thread; every worker is a thread. *)
(* The queues are sequences, their operations atomic: MsgQueue refines     *)
(* AtomicQueue.  A get_nb may find its queue busy and return null as long  *)
(* as the other side still uses that queue.  A worker's step lasts until   *)
(* its next access to something it shares; where an action of its state    *)
(* machine makes several (the exit, the flush, the clean-up), the client   *)
(* has let go of the channel or sees the same order of messages.           *)
(*                                                                         *)
(* D-Bus is external and modelled from its use: dbus_bus_get hands every   *)
(* worker of the process the same connection while it is up, with one list *)
(* of filters that outlives the worker that added them; each dispatch goes *)
(* to the first filter, which answers HANDLED.                             *)
(***************************************************************************)
EXTENDS Integers, Sequences, FiniteSets

CONSTANTS
    Instances,      \* the MDNSBrowser objects of the process
    Conns,          \* the D-Bus connections the process can open, one by one
    NoConn,
    Commands,       \* what clients push: {} in the plugin, else of API below
    MaxCommands,    \* bound: commands per instance
    MaxSignals,     \* bound: D-Bus signals dispatched in all
    CanDisconnect,  \* whether the bus may go down
    CanFail         \* whether a malloc of the initialisation may fail

API == {"RECONNECT", "EXIT"}

ASSUME InstanceAssumption == IsFiniteSet(Instances)
ASSUME ConnAssumption    == NoConn \notin Conns
ASSUME ClientAssumption  == Commands \subseteq API /\ MaxCommands \in Nat
ASSUME DBusAssumption    == /\ MaxSignals \in Nat
                            /\ CanDisconnect \in BOOLEAN
                            /\ CanFail \in BOOLEAN

\* Messages to the client: signals, errors of the set-up, and the rest.
SignalMsgs == {"JSON", "ALLFORNOW", "CACHEEXHAUSTED"}
SetupError == [FILTER  |-> "DBUS_ADDFILTER_ERROR",
               MATCH   |-> "DBUS_ADDMATCH_ERROR",
               SERVICE |-> "DBUS_SERVICE_BROWSER_ERROR"]
OutMsgs == SignalMsgs \cup {SetupError[e] : e \in DOMAIN SetupError}
             \cup {"DBUS_DISCONNECTED", "EXITED", "FLUSH_MARKER"}
InMsgs  == API \cup {"EXIT_CLEAN", "FLUSH_MARKER"}

VARIABLES
    \* the client's side
    mb,         \* the MDNSBrowser: "none", "made" or "deleted"
    initState,  \* its initState flag
    handle,     \* its cc pointer: "null" or "chan" (which may dangle)
    sent,       \* how many commands it pushed
    \* the channel
    chan,       \* its memory: "none", "live" or "freed"
    in, out,    \* its queues
    \* the worker
    wpc,        \* "none", "pump", "get", "match" or "done"
    state, event, \* currentState, and the event to match next
    conn,       \* bp->conn
    \* D-Bus
    shared,     \* the connection dbus_bus_get returned last
    link,       \* each connection: "new", "up", "closing" or "down"
    filters,    \* each connection's filters, by their user data
    refs,       \* each connection's references held by the workers' code
    signals,    \* how many signals were dispatched
    \* history
    stale       \* instances whose channel was accessed after its release

clientVars == <<mb, initState, handle, sent>>
fsmVars    == <<wpc, state, event, conn>>
busVars    == <<shared, link, filters, refs, signals>>
vars       == <<clientVars, chan, in, out, fsmVars, busVars, stale>>

-----------------------------------------------------------------------------
(***************************************************************************)
(* The transition table.  The first row that matches counts; a row of      *)
(* ST_TRAP matches every state, a row of E_ANY every event.                *)
(***************************************************************************)
Row(s, e, n, a) == [current |-> s, event |-> e, next |-> n, action |-> a]

TransitionTable == <<
    Row("ST_START",   "E_ANY",             "ST_CONNECT", "Connect"),

    Row("ST_CONNECT", "E_NULL",            "ST_CONNECT", "Connect"),
    Row("ST_CONNECT", "E_CONNECT_OK",      "ST_SERVE",   "Serve"),
    Row("ST_CONNECT", "E_CONNECT_ERROR",   "ST_WAIT",    "Wait"),
    Row("ST_CONNECT", "E_ANY",             "ST_WAIT",    "Wait"),

    Row("ST_SERVE",   "E_DBUS_DISCONNECT", "ST_WAIT",    "Wait"),
    Row("ST_SERVE",   "E_CMD_EXIT",        "ST_EXIT",    "Exit"),
    Row("ST_SERVE",   "E_CMD_EXIT_CLEAN",  "ST_EXIT",    "Exit"),
    Row("ST_SERVE",   "E_ANY",             "ST_SERVE",   "Serve"),

    Row("ST_WAIT",    "E_CMD_RECONNECT",   "ST_CONNECT", "Connect"),
    Row("ST_WAIT",    "E_CMD_EXIT",        "ST_EXIT",    "Exit"),
    Row("ST_WAIT",    "E_CMD_EXIT_CLEAN",  "ST_EXIT",    "Exit"),
    Row("ST_WAIT",    "E_ANY",             "ST_WAIT",    "Wait"),

    Row("ST_EXIT",    "E_QUIT",            "ST_QUIT",    "None"),
    Row("ST_EXIT",    "E_PUSHED_MARKERS",  "ST_WMARK1",  "WaitMarkers"),
    Row("ST_EXIT",    "E_ANY",             "ST_QUIT",    "None"),

    Row("ST_WMARK1",  "E_QUIT",            "ST_QUIT",    "None"),
    Row("ST_WMARK1",  "E_MARKER",          "ST_WMARK2",  "WaitMarkers"),
    Row("ST_WMARK1",  "E_MARKERS",         "ST_QUIT",    "None"),

    Row("ST_WMARK2",  "E_MARKER",          "ST_FCLEAN",  "FinalCleanup"),
    Row("ST_WMARK2",  "E_MARKERS",         "ST_FCLEAN",  "FinalCleanup"),
    Row("ST_WMARK2",  "E_QUIT",            "ST_FCLEAN",  "FinalCleanup"),
    Row("ST_WMARK2",  "E_ANY",             "ST_WMARK2",  "WaitMarkers"),

    Row("ST_FCLEAN",  "E_ANY",             "ST_QUIT",    "None"),

    Row("ST_TRAP",    "E_ANY",             "ST_CONNECT", "Connect") >>

Events == {"E_NULL", "E_DBUS_DISCONNECT", "E_CONNECT_OK", "E_CONNECT_ERROR",
           "E_CMD_RECONNECT", "E_CMD_EXIT", "E_CMD_EXIT_CLEAN",
           "E_PUSHED_MARKERS", "E_FLUSH_MARKER", "E_MARKER", "E_MARKERS", "E_QUIT"}
States == {"ST_START", "ST_CONNECT", "ST_SERVE", "ST_WAIT", "ST_EXIT",
           "ST_WMARK1", "ST_WMARK2", "ST_FCLEAN", "ST_QUIT"}

Matches(row, s, e) == row.current \in {s, "ST_TRAP"} /\ row.event \in {e, "E_ANY"}

FirstMatch(s, e) ==
    LET hits == {k \in DOMAIN TransitionTable : Matches(TransitionTable[k], s, e)}
    IN  TransitionTable[CHOOSE k \in hits : \A l \in hits : k <= l]

\* Mutant of EventOf: EXIT_CLEAN is taken for EXIT.
EventOfExits(m) == CASE m = "RECONNECT"             -> "E_CMD_RECONNECT"
                     [] m \in {"EXIT", "EXIT_CLEAN"} -> "E_CMD_EXIT"
                     [] m = "FLUSH_MARKER"          -> "E_FLUSH_MARKER"

\* event_pump's switch on the type of the message it took.
EventOf(m) == CASE m = "RECONNECT"    -> "E_CMD_RECONNECT"
                [] m = "EXIT"         -> "E_CMD_EXIT"
                [] m = "EXIT_CLEAN"   -> "E_CMD_EXIT_CLEAN"
                [] m = "FLUSH_MARKER" -> "E_FLUSH_MARKER"

-----------------------------------------------------------------------------
Init ==
    /\ mb        = [i \in Instances |-> "none"]
    /\ initState = [i \in Instances |-> FALSE]
    /\ handle    = [i \in Instances |-> "null"]
    /\ sent      = [i \in Instances |-> 0]
    /\ chan      = [i \in Instances |-> "none"]
    /\ in        = [i \in Instances |-> <<>>]
    /\ out       = [i \in Instances |-> <<>>]
    /\ wpc       = [i \in Instances |-> "none"]
    /\ state     = [i \in Instances |-> "ST_START"]
    /\ event     = [i \in Instances |-> "E_NULL"]
    /\ conn      = [i \in Instances |-> NoConn]
    /\ shared    = NoConn
    /\ link      = [c \in Conns |-> "new"]
    /\ filters   = [c \in Conns |-> <<>>]
    /\ refs      = [c \in Conns |-> 0]
    /\ signals   = 0
    /\ stale     = {}

\* Mutant of Push: the messages go to the head of the queue.
PushAtHead(q, i, s) ==
    IF chan[i] = "live"
      THEN q' = [q EXCEPT ![i] = s \o @] /\ UNCHANGED stale
      ELSE stale' = stale \cup {i} /\ UNCHANGED q

\* Appends messages s to queue q of instance i, or reads freed memory.
Push(q, i, s) ==
    IF chan[i] = "live"
      THEN q' = [q EXCEPT ![i] = @ \o s] /\ UNCHANGED stale
      ELSE stale' = stale \cup {i} /\ UNCHANGED q

-----------------------------------------------------------------------------
(***************************************************************************)
(* The client.                                                             *)
(***************************************************************************)

\* The first popmsg of a page: NPBrowser::Invoke creates and initialises the
\* MDNSBrowser, browser_init makes the queues and starts the worker.
Create(i) ==
    /\ mb[i] = "none"
    /\ mb'        = [mb EXCEPT ![i] = "made"]
    /\ initState' = [initState EXCEPT ![i] = TRUE]
    /\ handle'    = [handle EXCEPT ![i] = "chan"]
    /\ chan'      = [chan EXCEPT ![i] = "live"]
    /\ wpc'       = [wpc EXCEPT ![i] = "pump"]
    /\ UNCHANGED <<sent, in, out, state, event, conn, busVars, stale>>

\* The same with a malloc that fails: of the channel, which leaves a null
\* pointer, or inside browser_init, after which init frees the channel and
\* keeps the pointer.
CreateFails(i) ==
    /\ CanFail /\ mb[i] = "none"
    /\ mb' = [mb EXCEPT ![i] = "made"]
    /\ \/ UNCHANGED <<handle, chan>>
       \/ /\ handle' = [handle EXCEPT ![i] = "chan"]
          /\ chan'   = [chan EXCEPT ![i] = "freed"]
    /\ UNCHANGED <<initState, sent, in, out, fsmVars, busVars, stale>>

\* popMsg takes a message.  Its other outcomes (INIT_ERROR, null because the
\* queue is empty or busy) leave everything as it is.
Pop(i) ==
    /\ mb[i] = "made" /\ initState[i] /\ handle[i] = "chan"
    /\ out[i] # <<>>
    /\ out' = [out EXCEPT ![i] = Tail(@)]
    /\ UNCHANGED <<clientVars, chan, in, fsmVars, busVars, stale>>

\* MDNSBrowser::pushMsg of a command.
PushMsg(i, m) ==
    /\ mb[i] = "made" /\ handle[i] = "chan"
    /\ sent[i] < MaxCommands
    /\ sent' = [sent EXCEPT ![i] = @ + 1]
    /\ Push(in, i, <<m>>)
    /\ UNCHANGED <<mb, initState, handle, chan, out, fsmVars, busVars>>

\* NPBrowser::Deallocate: release pushes EXIT_CLEAN and drops the pointer.
Deallocate(i) ==
    /\ mb[i] # "deleted"
    /\ mb' = [mb EXCEPT ![i] = "deleted"]
    /\ IF handle[i] = "chan"
         THEN /\ Push(in, i, <<"EXIT_CLEAN">>)
              /\ handle' = [handle EXCEPT ![i] = "null"]
         ELSE UNCHANGED <<in, handle, stale>>
    /\ UNCHANGED <<initState, sent, chan, out, fsmVars, busVars>>

-----------------------------------------------------------------------------
(***************************************************************************)
(* The worker: one turn of run_fsm's loop is event_pump (a dispatch, then  *)
(* a get_nb), skipped if the last action returned an event, and the first  *)
(* matching row of the table with its action.                              *)
(***************************************************************************)

\* dbus_connection_read_write_dispatch, which a worker without a connection
\* skips: nothing arrives, or a message goes to the connection's first filter.
\* Signals about other things push nothing.
Pump(i) ==
    /\ wpc[i] = "pump"
    /\ conn[i] # NoConn => link[conn[i]] # "down"
    /\ wpc' = [wpc EXCEPT ![i] = "get"]
    /\ \/ UNCHANGED <<out, stale, signals>>
       \/ /\ conn[i] # NoConn /\ signals < MaxSignals
          /\ signals' = signals + 1
          /\ \E m \in SignalMsgs : Push(out, Head(filters[conn[i]]), <<m>>)
    /\ UNCHANGED <<clientVars, chan, in, state, event, conn,
                   shared, link, filters, refs>>

\* The local Disconnected message is dispatched once; from then on every call
\* returns false, and event_pump does not get to the commands.
PumpDisconnected(i) ==
    /\ wpc[i] = "pump" /\ conn[i] # NoConn
    /\ \/ /\ link[conn[i]] = "closing"
          /\ link' = [link EXCEPT ![conn[i]] = "down"]
          /\ Push(out, Head(filters[conn[i]]), <<"DBUS_DISCONNECTED">>)
       \/ link[conn[i]] = "down" /\ UNCHANGED <<link, out, stale>>
    /\ wpc'   = [wpc EXCEPT ![i] = "match"]
    /\ event' = [event EXCEPT ![i] = "E_DBUS_DISCONNECT"]
    /\ UNCHANGED <<clientVars, chan, in, state, conn, shared, filters, refs, signals>>

\* queue_get_nb(in): no command, or busy while the client may be pushing one.
GetNothing(i) ==
    /\ wpc[i] = "get"
    /\ in[i] = <<>> \/ handle[i] = "chan"
    /\ wpc'   = [wpc EXCEPT ![i] = "match"]
    /\ event' = [event EXCEPT ![i] = "E_NULL"]
    /\ UNCHANGED <<clientVars, chan, in, out, state, conn, busVars, stale>>

\* Mutant of GetCommand: a worker without a connection reads no commands.
GetCommandIfConnected(i) ==
    /\ wpc[i] = "get" /\ in[i] # <<>> /\ conn[i] # NoConn
    /\ in'    = [in EXCEPT ![i] = Tail(@)]
    /\ wpc'   = [wpc EXCEPT ![i] = "match"]
    /\ event' = [event EXCEPT ![i] = EventOf(Head(in[i]))]
    /\ UNCHANGED <<clientVars, chan, out, state, conn, busVars, stale>>

GetCommand(i) ==
    /\ wpc[i] = "get" /\ in[i] # <<>>
    /\ in'    = [in EXCEPT ![i] = Tail(@)]
    /\ wpc'   = [wpc EXCEPT ![i] = "match"]
    /\ event' = [event EXCEPT ![i] = EventOf(Head(in[i]))]
    /\ UNCHANGED <<clientVars, chan, out, state, conn, busVars, stale>>

\* The action just run returned e: go to the row's next state, and match e
\* there unless it is E_NULL.
Enter(i, row, e) ==
    /\ state' = [state EXCEPT ![i] = row.next]
    /\ event' = [event EXCEPT ![i] = e]
    /\ wpc'   = [wpc EXCEPT ![i] = IF row.next = "ST_QUIT" THEN "done"
                                     ELSE IF e = "E_NULL" THEN "pump" ELSE "match"]

Matched(i, action) ==
    /\ wpc[i] = "match"
    /\ FirstMatch(state[i], event[i]).action = action

\* ActionServe, ActionWait, and the rows without an action.
Idle(i) ==
    /\ \E a \in {"Serve", "Wait", "None"} : Matched(i, a)
    /\ Enter(i, FirstMatch(state[i], event[i]), "E_NULL")
    /\ UNCHANGED <<clientVars, chan, in, out, conn, busVars, stale>>

\* What dbus_bus_get can return: the connection in use, else a new one.
BusGet(c) ==
    IF shared # NoConn /\ link[shared] # "down" THEN c = shared ELSE link[c] = "new"

\* ActionConnect: dbus_bus_get fails.  No message is pushed.
ConnectNoBus(i) ==
    /\ Matched(i, "Connect")
    /\ conn' = [conn EXCEPT ![i] = NoConn]
    /\ Enter(i, FirstMatch(state[i], event[i]), "E_CONNECT_ERROR")
    /\ UNCHANGED <<clientVars, chan, in, out, busVars, stale>>

\* Mutant of ConnectFails: the failure path drops the reference twice.
ConnectFailsTwice(i) ==
    /\ Matched(i, "Connect")
    /\ \E c \in Conns, e \in DOMAIN SetupError :
        /\ BusGet(c)
        /\ shared' = c
        /\ link' = [link EXCEPT ![c] = IF @ = "new" THEN "up" ELSE @]
        /\ filters' = IF e = "FILTER" THEN filters
                      ELSE [filters EXCEPT ![c] = Append(@, i)]
        /\ refs' = [refs EXCEPT ![c] = @ - 1]
        /\ Push(out, i, <<SetupError[e]>>)
    /\ conn' = [conn EXCEPT ![i] = NoConn]
    /\ Enter(i, FirstMatch(state[i], event[i]), "E_CONNECT_ERROR")
    /\ UNCHANGED <<clientVars, chan, in, signals>>

\* ActionConnect: one of the later steps fails and the reference is dropped.
\* The filter stays on the connection if it was added.
ConnectFails(i) ==
    /\ Matched(i, "Connect")
    /\ \E c \in Conns, e \in DOMAIN SetupError :
        /\ BusGet(c)
        /\ shared' = c
        /\ link' = [link EXCEPT ![c] = IF @ = "new" THEN "up" ELSE @]
        /\ filters' = IF e = "FILTER" THEN filters
                      ELSE [filters EXCEPT ![c] = Append(@, i)]
        /\ Push(out, i, <<SetupError[e]>>)
    /\ conn' = [conn EXCEPT ![i] = NoConn]
    /\ Enter(i, FirstMatch(state[i], event[i]), "E_CONNECT_ERROR")
    /\ UNCHANGED <<clientVars, chan, in, refs, signals>>

\* ActionConnect succeeds, which takes a connection that is up.
ConnectOk(i) ==
    /\ Matched(i, "Connect")
    /\ \E c \in Conns :
        /\ BusGet(c) /\ link[c] # "closing"
        /\ shared'  = c
        /\ link'    = [link EXCEPT ![c] = "up"]
        /\ filters' = [filters EXCEPT ![c] = Append(@, i)]
        /\ refs'    = [refs EXCEPT ![c] = @ + 1]
        /\ conn'    = [conn EXCEPT ![i] = c]
    /\ Enter(i, FirstMatch(state[i], event[i]), "E_CONNECT_OK")
    /\ UNCHANGED <<clientVars, chan, in, out, signals, stale>>

\* Mutant of Unref: the connection is forgotten, not unreferenced.
ForgetConn(i) ==
    /\ conn' = [conn EXCEPT ![i] = NoConn]
    /\ UNCHANGED refs

\* The worker drops its reference to its connection if it has one.
Unref(i) ==
    /\ refs' = IF conn[i] = NoConn THEN refs ELSE [refs EXCEPT ![conn[i]] = @ - 1]
    /\ conn' = [conn EXCEPT ![i] = NoConn]

\* Mutant of PushMarkers: no marker goes down the queue to the worker.
PushOneMarker(i) ==
    /\ Push(out, i, <<"EXITED", "FLUSH_MARKER">>)
    /\ UNCHANGED in

\* Mutant of PushMarkers: the marker goes before the EXITED message.
PushMarkerFirst(i) ==
    /\ Push(out, i, <<"FLUSH_MARKER", "EXITED">>)
    /\ in' = [in EXCEPT ![i] = Append(@, "FLUSH_MARKER")]

\* The end of both queues: EXITED for the client, then a marker on each.
PushMarkers(i) ==
    /\ Push(out, i, <<"EXITED", "FLUSH_MARKER">>)
    /\ in' = [in EXCEPT ![i] = Append(@, "FLUSH_MARKER")]

\* Mutant of ExitMessages: EXIT cleans up as EXIT_CLEAN does.
ExitMarksAlways(i) ==
    PushMarkers(i) /\ Enter(i, FirstMatch(state[i], event[i]), "E_PUSHED_MARKERS")

\* What ActionExit pushes and returns after EXIT_CLEAN, and after EXIT.
ExitMessages(i) ==
    IF event[i] = "E_CMD_EXIT_CLEAN"
      THEN /\ PushMarkers(i)
           /\ Enter(i, FirstMatch(state[i], event[i]), "E_PUSHED_MARKERS")
      ELSE /\ Push(out, i, <<"EXITED">>) /\ UNCHANGED in
           /\ Enter(i, FirstMatch(state[i], event[i]), "E_QUIT")

Exit(i) ==
    /\ Matched(i, "Exit")
    /\ Unref(i)
    /\ ExitMessages(i)
    /\ UNCHANGED <<clientVars, chan, shared, link, filters, signals>>

\* FlushQueues: take one message off each queue and count the markers.
FlushQueues(i) ==
    /\ Matched(i, "WaitMarkers")
    /\ LET taken(q) == IF q[i] # <<>> /\ Head(q[i]) = "FLUSH_MARKER" THEN 1 ELSE 0
           rest(q)  == [q EXCEPT ![i] = IF @ = <<>> THEN @ ELSE Tail(@)]
           count    == taken(in) + taken(out)
       IN  /\ in' = rest(in) /\ out' = rest(out)
           /\ Enter(i, FirstMatch(state[i], event[i]),
                    <<"E_NULL", "E_MARKER", "E_MARKERS">>[count + 1])
    /\ UNCHANGED <<clientVars, chan, conn, busVars, stale>>

FinalCleanup(i) ==
    /\ Matched(i, "FinalCleanup")
    /\ chan' = [chan EXCEPT ![i] = "freed"]
    /\ Enter(i, FirstMatch(state[i], event[i]), "E_QUIT")
    /\ UNCHANGED <<clientVars, in, out, conn, busVars, stale>>

-----------------------------------------------------------------------------
\* The bus goes down under the connection in use.
Disconnect ==
    /\ CanDisconnect /\ shared # NoConn /\ link[shared] = "up"
    /\ link' = [link EXCEPT ![shared] = "closing"]
    /\ UNCHANGED <<clientVars, chan, in, out, fsmVars,
                   shared, filters, refs, signals, stale>>

Client(i) ==
    \/ Create(i) \/ CreateFails(i) \/ Pop(i) \/ Deallocate(i)
    \/ \E m \in Commands : PushMsg(i, m)

Worker(i) ==
    \/ Pump(i) \/ PumpDisconnected(i) \/ GetNothing(i) \/ GetCommand(i)
    \/ Idle(i) \/ ConnectNoBus(i) \/ ConnectFails(i) \/ ConnectOk(i)
    \/ Exit(i) \/ FlushQueues(i) \/ FinalCleanup(i)

Next == Disconnect \/ \E i \in Instances : Client(i) \/ Worker(i)

Spec == Init /\ [][Next]_vars

(***************************************************************************)
(* The worker threads are scheduled, and a client does not hold the mutex  *)
(* of `in' each time its worker tries it.  Nobody has to call, no signal   *)
(* has to come and no disconnection to happen.                             *)
(***************************************************************************)
FairSpec ==
    /\ Spec
    /\ \A i \in Instances : WF_vars(Worker(i)) /\ SF_vars(GetCommand(i))

-----------------------------------------------------------------------------
TypeOK ==
    /\ mb        \in [Instances -> {"none", "made", "deleted"}]
    /\ initState \in [Instances -> BOOLEAN]
    /\ handle    \in [Instances -> {"null", "chan"}]
    /\ sent      \in [Instances -> 0..MaxCommands]
    /\ chan      \in [Instances -> {"none", "live", "freed"}]
    /\ in        \in [Instances -> Seq(InMsgs)]
    /\ out       \in [Instances -> Seq(OutMsgs)]
    /\ wpc       \in [Instances -> {"none", "pump", "get", "match", "done"}]
    /\ state     \in [Instances -> States]
    /\ event     \in [Instances -> Events]
    /\ conn      \in [Instances -> Conns \cup {NoConn}]
    /\ shared    \in Conns \cup {NoConn}
    /\ link      \in [Conns -> {"new", "up", "closing", "down"}]
    /\ filters   \in [Conns -> Seq(Instances)]
    /\ refs      \in [Conns -> Nat]
    /\ signals   \in 0..MaxSignals
    /\ stale     \in SUBSET Instances

\* The table's last row would send the worker to ST_CONNECT from any state
\* (browser.cc:157).  No state meets an event that only this row matches: the
\* worker of a released channel never connects again instead of cleaning up.
NeverTrapped ==
    \A i \in Instances :
        wpc[i] = "match" => FirstMatch(state[i], event[i]).current # "ST_TRAP"

\* browser.cc:498: "queues are empty at this point", whatever the client and
\* the bus put into them before the release.
EmptyAtCleanup ==
    \A i \in Instances :
        state[i] = "ST_WMARK2" /\ wpc[i] = "match"
          /\ FirstMatch(state[i], event[i]).action = "FinalCleanup"
        => in[i] = <<>> /\ out[i] = <<>>

\* browser.cc:420-422: the flush markers are the worker's own.  A client that
\* still holds the channel never finds one, and EXITED is the last message it
\* can get.
MarkersAreInternal ==
    \A i \in Instances :
        /\ \A k \in 1..Len(out[i]) : \A l \in 1..(k - 1) :
               out[i][l] = "EXITED" => out[i][k] = "FLUSH_MARKER"
        /\ handle[i] = "chan" =>
               \A k \in 1..Len(out[i]) : out[i][k] # "FLUSH_MARKER"
        /\ handle[i] = "chan" =>
               \A k \in 1..Len(in[i]) : in[i][k] \in API

\* The flush at the end of a worker: nothing is left when the queues are
\* destroyed, and nothing of it shows to the client.
FlushWorks == EmptyAtCleanup /\ MarkersAreInternal

\* The workers' references to a connection are those of the workers that use
\* it: none is dropped twice (ActionExit and the failure path both drop one),
\* none survives its worker.
RefsAreHeld ==
    \A c \in Conns : refs[c] = Cardinality({i \in Instances : conn[i] = c})

\* mdnsbrowser.cc:42-43: after its release a channel is not accessed any more.
NoStaleAccess == stale = {}

-----------------------------------------------------------------------------
Stage ==
    [i \in Instances |->
        IF mb[i] = "none" THEN "none"
        ELSE IF chan[i] = "live" /\ handle[i] = "chan" THEN "shared"
        ELSE IF chan[i] = "live" /\ handle[i] = "null" THEN "handed"
        ELSE IF chan[i] = "freed" /\ initState[i] THEN "gone"
        ELSE "failed"]

Ch == INSTANCE Channel WITH stage <- Stage, box <- out

\* The client can rely on the channel: messages stay in order and none is lost
\* while it holds it, whatever the worker's state machine and the bus do.
ChannelSpec == Ch!Spec

-----------------------------------------------------------------------------
\* mdnsbrowser.cc:40: "The worker thread will take care of all cleaning".
ReleaseCompletes ==
    \A i \in Instances :
        chan[i] = "live" /\ handle[i] = "null" ~> chan[i] = "freed"

\* The worker of a released channel frees it, once the release has not fallen
\* into ST_START: the EXIT_CLEAN is in its queue when it has left that state.
ReleaseCompletesOnceStarted ==
    \A i \in Instances :
        /\ chan[i] = "live" /\ handle[i] = "null"
        /\ state[i] # "ST_START"
        /\ \E k \in 1..Len(in[i]) : in[i][k] = "EXIT_CLEAN"
        ~> chan[i] = "freed"

\* As long as the bus stays up, commands do not stay in the queue of a worker
\* that runs, whether it serves or waits after a set-up error.
CommandsAreRead ==
    \A i \in Instances :
        in[i] # <<>> ~> in[i] = <<>> \/ wpc[i] = "done"

=============================================================================
