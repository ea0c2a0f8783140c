------------------------------- MODULE JQAjax -------------------------------
(***************************************************************************)
(* jQuery.ajax: the requests of the extension's pages.  A request is made  *)
(* with an XMLHttpRequest, which is not listened to but polled every 13 ms,*)
(* or, when it is a script from another host, with a script element.       *)
(* jQuery.active counts the requests in progress, for the global events    *)
(* ajaxStart and ajaxStop.                                                 *)
(*                                                                         *)
(* The script is one thread.  A call of the library is a frame with the    *)
(* set of steps that it has still to do, todo, which it does in the order  *)
(* they have in the code; where a step calls a function of the page, a     *)
(* frame for that function is put on top, and the function may start       *)
(* requests, abort them, return or throw before the step after it.         *)
(* The interval, the timeout and the load of a script wait until no call   *)
(* is in progress.                                                         *)
(***************************************************************************)
EXTENDS Integers, Sequences, FiniteSets, Functions, SequencesExt

CONSTANTS Req,       \* the requests
          Settings,  \* bound: what a request may ask for, see IsSettings
          Hooks,     \* bound: the callbacks and global events the page listens to
          Faults,    \* bound: the calls of the browser that may throw, of {"open", "send"}
          None       \* no value

\* How a request is made: asynchronously or not, by a script element (a script or
\* JSONP from another host), or, for JSONP from the page's own host, by an
\* XMLHttpRequest whose response is evaluated.
Ways == {"async", "sync", "script", "local"}

IsSettings(s) ==
    s \in [via : Ways, global : BOOLEAN, timeout : BOOLEAN, ifModified : BOOLEAN]

ASSUME AjaxAssumption ==
    /\ IsFiniteSet(Req)
    /\ \A s \in Settings : IsSettings(s)
    /\ None \notin {"poll", "script"} /\ None \notin {0, 1, 4} /\ None \notin Hooks

VARIABLES set,      \* the settings of each request
          begun,    \* the requests for which ajax was called
          ready,    \* xhr.readyState; None before open
          flying,   \* the requests the browser has sent and not finished
          answer,   \* the response, None before it is there
          waits,    \* what the library waits for: "poll" (ival is set), "script"
          timer,    \* the requests whose timeout is pending
          done,     \* requestDone
          modified, \* jQuery.lastModified of the one address
          active,   \* jQuery.active
          stack,    \* the calls in progress, innermost last
          calls,    \* ghost: how often the callbacks of a request were called
          timedOut, \* ghost: the requests that ended with status "timeout"
          silenced, \* ghost: the requests aborted before they were done
          lost,     \* ghost: the requests whose last step was never reached
          doubled   \* ghost: the requests that completed in their own response

net == <<ready, flying, answer>>
ghosts == <<calls, timedOut, silenced, lost, doubled>>
vars == <<set, begun, net, waits, timer, done, modified, active, stack, ghosts>>

Answers == [status : {"good", "bad", "garbled", "304"}, mod : {None, "m"}]

-----------------------------------------------------------------------------
(* Frames.                                                                 *)

\* local says that the frame runs inside the evaluation of a response, out of
\* which no exception comes.
Run(r, todo, local) == [k |-> "run", r |-> r, todo |-> todo, local |-> local]
Page(r, step) == [k |-> "page", r |-> r, step |-> step]

Top == Last(stack)
On(kind) == stack # <<>> /\ Top.k = kind
PageRuns == stack = <<>> \/ On("page")

\* The order of the steps.
Order == <<"start", "inject", "open", "beforeSend", "ajaxSend", "arm", "send",
           "error", "ajaxError", "check", "evaluate", "remember", "success", "ajaxSuccess",
           "complete", "ajaxComplete", "uncount", "close">>
Before == [step \in ToSet(Order) |->
              {Order[i] : i \in {j \in DOMAIN Order : \A k \in 1..j : Order[k] # step}}]

\* What remains on the stack when the innermost call throws: what is below the
\* innermost evaluation of a response.
Uncaught(s) ==
    LET below == {i \in DOMAIN s : \E j \in DOMAIN s : i < j /\ s[j].k = "run" /\ s[j].local}
    IN  SubSeq(s, 1, Cardinality(below))

\* The steps that lead to the end of a request: without them it stays counted.
Leads(todo) == todo \cap {"arm", "inject", "check", "uncount"} # {}

\* A frame that is responsible for a request which is counted.
Carries(frame) ==
    frame.k = "run" /\ ~frame.local /\ Leads(frame.todo) /\ "start" \notin frame.todo

\* The requests that an exception leaves behind.
Dropped(s) ==
    {s[i].r : i \in {j \in DOMAIN s : j > Len(Uncaught(s)) /\ Carries(s[j])}}

Remote(r) == set[r].via = "script"

AjaxSteps(r) ==
    IF Remote(r) THEN {"inject"}
    ELSE {"open", "beforeSend", "ajaxSend", "arm", "send"}
         \cup (IF set[r].via = "sync" THEN {"check"} ELSE {})
Succeeds == {"success", "ajaxSuccess"}
Fails == {"error", "ajaxError"}
Completes == {"complete", "ajaxComplete", "uncount"}

-----------------------------------------------------------------------------
Init ==
    /\ set \in [Req -> Settings]
    /\ begun = {}
    /\ ready = [r \in Req |-> None]
    /\ flying = {}
    /\ answer = [r \in Req |-> None]
    /\ waits = [r \in Req |-> None]
    /\ timer = {}
    /\ done = {}
    /\ modified = None
    /\ active = 0
    /\ stack = <<>>
    /\ calls = [r \in Req |-> [success |-> 0, error |-> 0, complete |-> 0]]
    /\ timedOut = {} /\ silenced = {} /\ lost = {} /\ doubled = {}

(* What the page does, at any time or from a function of its own.          *)

\* ajax(s)
Begin(r) ==
    /\ PageRuns
    /\ r \notin begun
    /\ begun' = begun \cup {r}
    /\ stack' = Append(stack, Run(r, {"start"} \cup AjaxSteps(r), FALSE))
    /\ UNCHANGED <<set, net, waits, timer, done, modified, active, ghosts>>

\* xhr.abort(), on the object that ajax has returned.
Abort(r) ==
    /\ PageRuns
    /\ set[r].via \in {"async", "local"}
    /\ waits[r] = "poll" \/ r \in done
    /\ ready[r] \in {1, 4}
    /\ ready' = [ready EXCEPT ![r] = 0]
    /\ flying' = flying \ {r}
    /\ silenced' = IF r \in done THEN silenced ELSE silenced \cup {r}
    /\ UNCHANGED <<set, begun, answer, waits, timer, done, modified, active, stack,
                   calls, timedOut, lost, doubled>>

-----------------------------------------------------------------------------
(* The steps of the calls in progress.                                     *)

At(step) == On("run") /\ step \in Top.todo /\ Before[step] \cap Top.todo = {}

\* The step is done, and its function of the page, if there is one, runs.
Called(todo, step) ==
    LET s == Append(Front(stack), [Top EXCEPT !.todo = todo])
    IN  IF step \in Hooks THEN Append(s, Page(Top.r, step)) ELSE s
Advance(step) == stack' = Called(Top.todo \ {step}, None)

\* if ( s.global && ! jQuery.active++ ) trigger( "ajaxStart" )
Start ==
    /\ At("start")
    /\ IF set[Top.r].global
       THEN /\ active' = active + 1
            /\ stack' = Called(Top.todo \ {"start"}, IF active = 0 THEN "ajaxStart" ELSE None)
       ELSE Advance("start") /\ UNCHANGED active
    /\ UNCHANGED <<set, begun, net, waits, timer, done, modified, ghosts>>

\* A remote script: the rest is up to its load or its call of window[jsonp].
Inject ==
    /\ At("inject")
    /\ waits' = [waits EXCEPT ![Top.r] = "script"]
    /\ Advance("inject")
    /\ UNCHANGED <<set, begun, net, timer, done, modified, active, ghosts>>

Open ==
    /\ At("open")
    /\ ready' = [ready EXCEPT ![Top.r] = 1]
    /\ Advance("open")
    /\ UNCHANGED <<set, begun, flying, answer, waits, timer, done, modified, active, ghosts>>

\* open throws, which nobody catches.
OpenThrows ==
    /\ At("open") /\ "open" \in Faults
    /\ stack' = Uncaught(stack)
    /\ lost' = lost \cup {r \in Dropped(stack) : set[r].global}
    /\ UNCHANGED <<set, begun, net, waits, timer, done, modified, active,
                   calls, timedOut, silenced, doubled>>

\* The calls of the page, and the count of what was called.
Callback(step) ==
    /\ At(step)
    /\ stack' = Called(Top.todo \ {step}, step)
    /\ calls' = IF step \in {"success", "error", "complete"}
                THEN [calls EXCEPT ![Top.r][step] = @ + 1]
                ELSE calls
    /\ UNCHANGED <<set, begun, net, waits, timer, done, modified, active,
                   timedOut, silenced, lost, doubled>>

\* The interval and the timeout.  They are of no use to a synchronous request.
Arm ==
    LET r == Top.r
    IN  /\ At("arm")
        /\ IF set[r].via = "sync" THEN UNCHANGED <<waits, timer>>
           ELSE /\ waits' = [waits EXCEPT ![r] = "poll"]
                /\ timer' = IF set[r].timeout THEN timer \cup {r} ELSE timer
        /\ Advance("arm")
        /\ UNCHANGED <<set, begun, net, done, modified, active, ghosts>>

\* send; a synchronous one has its response when it returns.
Send ==
    LET r == Top.r
    IN  /\ At("send")
        /\ IF set[r].via = "sync"
           THEN \E a \in Answers :
                  /\ answer' = [answer EXCEPT ![r] = a]
                  /\ ready' = [ready EXCEPT ![r] = 4]
                  /\ UNCHANGED flying
           ELSE flying' = flying \cup {r} /\ UNCHANGED <<ready, answer>>
        /\ Advance("send")
        /\ UNCHANGED <<set, begun, waits, timer, done, modified, active, ghosts>>

\* send throws: the error is reported, and the interval goes on.
SendThrows ==
    /\ At("send") /\ "send" \in Faults
    /\ stack' = Called(Fails \cup (Top.todo \ {"send"}), None)
    /\ UNCHANGED <<set, begun, net, waits, timer, done, modified, active, ghosts>>

\* if ( s.global && ! --jQuery.active ) trigger( "ajaxStop" )
Uncount ==
    LET r == Top.r
    IN  /\ At("uncount")
        /\ IF set[r].global
           THEN /\ active' = active - 1
                /\ stack' = Called(Top.todo \ {"uncount"}, IF active = 1 THEN "ajaxStop" ELSE None)
                /\ doubled' = IF Top.local THEN doubled \cup {r} ELSE doubled
           ELSE Advance("uncount") /\ UNCHANGED <<active, doubled>>
        /\ UNCHANGED <<set, begun, net, waits, timer, done, modified,
                       calls, timedOut, silenced, lost>>

\* httpData: the evaluated response calls window[jsonp], which succeeds and
\* completes inside it.
Evaluate ==
    LET s == Append(Front(stack), [Top EXCEPT !.todo = @ \ {"evaluate"}])
    IN  /\ At("evaluate")
        /\ stack' = Append(s, Run(Top.r, Succeeds \cup Completes, TRUE))
        /\ UNCHANGED <<set, begun, net, waits, timer, done, modified, active, ghosts>>

\* jQuery.lastModified[s.url] = modRes
Remember ==
    LET r == Top.r
    IN  /\ At("remember")
        /\ modified' = IF set[r].ifModified /\ answer[r].mod # None
                       THEN answer[r].mod ELSE modified
        /\ Advance("remember")
        /\ UNCHANGED <<set, begun, net, waits, timer, done, active, ghosts>>

\* The library's own xhr.abort(), after a timeout and when beforeSend refuses.
Close ==
    /\ At("close")
    /\ ready' = [ready EXCEPT ![Top.r] = 0]
    /\ flying' = flying \ {Top.r}
    /\ Advance("close")
    /\ UNCHANGED <<set, begun, answer, waits, timer, done, modified, active, ghosts>>

Finished ==
    /\ On("run") /\ Top.todo = {}
    /\ stack' = Front(stack)
    /\ UNCHANGED <<set, begun, net, waits, timer, done, modified, active, ghosts>>

-----------------------------------------------------------------------------
(* onreadystatechange: called by the interval, by the timeout, and once by *)
(* ajax itself for a synchronous request.                                  *)

\* httpSuccess
Successful(r) == answer[r].status # "bad"

\* httpNotModified; a header that is missing equals one never seen.
NotModified(r) == answer[r].status = "304" \/ answer[r].mod = modified

\* A script that does not evaluate is no exception here: httpData adds it to the page.
Status(r, late) ==
    IF late THEN "timeout"
    ELSE IF ~Successful(r) THEN "error"
    ELSE IF set[r].ifModified /\ NotModified(r) THEN "notmodified"
    ELSE IF answer[r].status = "garbled" /\ set[r].via # "local" THEN "parsererror"
    ELSE "success"

AfterDone(r, late) ==
    LET parts ==
            IF Status(r, late) # "success" THEN Fails
            ELSE IF set[r].via # "local" THEN {"remember"} \cup Succeeds
            ELSE IF answer[r].status = "good" THEN {"evaluate", "remember"}
            ELSE {"remember"}
    IN  parts \cup Completes \cup (IF late THEN {"close"} ELSE {})

\* Mutant of React: requestDone is not set.
ReactNotDone(r, late, s) ==
    CASE ready[r] = 0 /\ waits[r] = "poll" ->
           /\ waits' = [waits EXCEPT ![r] = None]
           /\ stack' = Append(s, Run(r, {"uncount"}, FALSE))
           /\ UNCHANGED <<done, timedOut>>
      [] ready[r] # 0 /\ r \notin done /\ (ready[r] = 4 \/ late) ->
           /\ waits' = [waits EXCEPT ![r] = None]
           /\ stack' = Append(s, Run(r, AfterDone(r, late), FALSE))
           /\ timedOut' = IF late THEN timedOut \cup {r} ELSE timedOut
           /\ UNCHANGED done
      [] OTHER -> stack' = s /\ UNCHANGED <<waits, done, timedOut>>

\* Mutant of React: an aborted request is not uncounted.
ReactForgetsAborted(r, late, s) ==
    IF ready[r] # 0 /\ r \notin done /\ (ready[r] = 4 \/ late)
    THEN /\ waits' = [waits EXCEPT ![r] = None]
         /\ stack' = Append(s, Run(r, AfterDone(r, late), FALSE))
         /\ done' = done \cup {r}
         /\ timedOut' = IF late THEN timedOut \cup {r} ELSE timedOut
    ELSE /\ waits' = [waits EXCEPT ![r] = IF ready[r] = 0 THEN None ELSE @]
         /\ stack' = s
         /\ UNCHANGED <<done, timedOut>>

\* Mutant of React: the timeout reports, and leaves the interval to go on.
ReactLateGoesOn(r, late, s) ==
    CASE ready[r] = 0 /\ waits[r] = "poll" ->
           /\ waits' = [waits EXCEPT ![r] = None]
           /\ stack' = Append(s, Run(r, {"uncount"}, FALSE))
           /\ UNCHANGED <<done, timedOut>>
      [] ready[r] # 0 /\ r \notin done /\ (ready[r] = 4 \/ late) ->
           /\ waits' = IF late THEN waits ELSE [waits EXCEPT ![r] = None]
           /\ stack' = Append(s, Run(r, AfterDone(r, late), FALSE))
           /\ done' = IF late THEN done ELSE done \cup {r}
           /\ timedOut' = IF late THEN timedOut \cup {r} ELSE timedOut
      [] OTHER -> stack' = s /\ UNCHANGED <<waits, done, timedOut>>

\* Mutant of React: the timeout is looked at before the abort.
ReactLateFirst(r, late, s) ==
    IF r \notin done /\ (ready[r] = 4 \/ late)
    THEN /\ waits' = [waits EXCEPT ![r] = None]
         /\ stack' = Append(s, Run(r, AfterDone(r, late), FALSE))
         /\ done' = done \cup {r}
         /\ timedOut' = IF late THEN timedOut \cup {r} ELSE timedOut
    ELSE /\ waits' = [waits EXCEPT ![r] = IF ready[r] = 0 THEN None ELSE @]
         /\ stack' = IF ready[r] = 0 /\ waits[r] = "poll"
                     THEN Append(s, Run(r, {"uncount"}, FALSE)) ELSE s
         /\ UNCHANGED <<done, timedOut>>

\* Mutant of React: the timeout is not looked at.
ReactNeverLate(r, late, s) ==
    CASE ready[r] = 0 /\ waits[r] = "poll" ->
           /\ waits' = [waits EXCEPT ![r] = None]
           /\ stack' = Append(s, Run(r, {"uncount"}, FALSE))
           /\ UNCHANGED <<done, timedOut>>
      [] ready[r] = 4 /\ r \notin done ->
           /\ waits' = [waits EXCEPT ![r] = None]
           /\ stack' = Append(s, Run(r, AfterDone(r, FALSE), FALSE))
           /\ done' = done \cup {r}
           /\ UNCHANGED timedOut
      [] OTHER -> stack' = s /\ UNCHANGED <<waits, done, timedOut>>

\* The steps that follow, and what the library no longer waits for.
React(r, late, s) ==
    CASE ready[r] = 0 /\ waits[r] = "poll" ->
           /\ waits' = [waits EXCEPT ![r] = None]
           /\ stack' = Append(s, Run(r, {"uncount"}, FALSE))
           /\ UNCHANGED <<done, timedOut>>
      [] ready[r] # 0 /\ r \notin done /\ (ready[r] = 4 \/ late) ->
           /\ waits' = [waits EXCEPT ![r] = None]
           /\ stack' = Append(s, Run(r, AfterDone(r, late), FALSE))
           /\ done' = done \cup {r}
           /\ timedOut' = IF late THEN timedOut \cup {r} ELSE timedOut
      [] OTHER -> stack' = s /\ UNCHANGED <<waits, done, timedOut>>

Poll(r) ==
    /\ stack = <<>> /\ waits[r] = "poll" /\ ready[r] # 1
    /\ React(r, FALSE, stack)
    /\ UNCHANGED <<set, begun, net, timer, modified, active, calls, silenced, lost, doubled>>

TimeOut(r) ==
    /\ stack = <<>> /\ r \in timer
    /\ timer' = timer \ {r}
    /\ IF r \in done THEN UNCHANGED <<waits, done, stack, timedOut>>
       ELSE React(r, TRUE, stack)
    /\ UNCHANGED <<set, begun, net, modified, active, calls, silenced, lost, doubled>>

\* if ( !s.async ) onreadystatechange(): without a response nothing else will
\* ever end the request.
Check ==
    LET r == Top.r
    IN  /\ At("check")
        /\ React(r, FALSE, Front(stack))
        /\ lost' = IF ready[r] # 4 /\ set[r].global THEN lost \cup {r} ELSE lost
        /\ UNCHANGED <<set, begun, net, timer, modified, active, calls, silenced, doubled>>

\* The script has been loaded, or calls window[jsonp].
Load(r) ==
    /\ stack = <<>> /\ waits[r] = "script"
    /\ waits' = [waits EXCEPT ![r] = None]
    /\ stack' = <<Run(r, Succeeds \cup Completes, FALSE)>>
    /\ UNCHANGED <<set, begun, net, timer, done, modified, active, ghosts>>

\* The network: the response is complete.  It may come during a call.
Answer(r) ==
    /\ r \in flying
    /\ \E a \in Answers : answer' = [answer EXCEPT ![r] = a]
    /\ ready' = [ready EXCEPT ![r] = 4]
    /\ flying' = flying \ {r}
    /\ UNCHANGED <<set, begun, waits, timer, done, modified, active, stack, ghosts>>

-----------------------------------------------------------------------------
(* Functions of the page.                                                  *)

Return ==
    /\ On("page")
    /\ stack' = Front(stack)
    /\ UNCHANGED <<set, begun, net, waits, timer, done, modified, active, ghosts>>

\* beforeSend refuses: the rest of ajax is not done.
Refuse ==
    LET s == Front(stack)
    IN  /\ On("page") /\ Top.step = "beforeSend"
        /\ stack' = Append(Front(s), [Last(s) EXCEPT !.todo = {"uncount", "close"}])
        /\ UNCHANGED <<set, begun, net, waits, timer, done, modified, active, ghosts>>

Throw ==
    /\ On("page")
    /\ stack' = Uncaught(stack)
    /\ lost' = lost \cup {r \in Dropped(stack) : set[r].global}
    /\ UNCHANGED <<set, begun, net, waits, timer, done, modified, active,
                   calls, timedOut, silenced, doubled>>

Callbacks == {"beforeSend", "ajaxSend", "success", "ajaxSuccess", "error", "ajaxError",
              "complete", "ajaxComplete"}

Steps ==
    \/ Start \/ Inject \/ Open \/ Arm \/ Send \/ Check \/ Uncount \/ Evaluate
    \/ Remember \/ Close \/ Finished
    \/ \E step \in Callbacks : Callback(step)

Next ==
    \/ Steps \/ OpenThrows \/ SendThrows
    \/ Return \/ Refuse \/ Throw
    \/ \E r \in Req : Begin(r) \/ Abort(r) \/ Poll(r) \/ TimeOut(r) \/ Load(r) \/ Answer(r)

\* The browser keeps its clocks, and functions come to an end, also those of
\* the page.  Nothing is assumed of the network.
Fairness ==
    /\ WF_vars(Steps) /\ WF_vars(Return \/ Throw)
    /\ \A r \in Req : WF_vars(Poll(r)) /\ WF_vars(TimeOut(r))

Spec == Init /\ [][Next]_vars /\ Fairness

-----------------------------------------------------------------------------
\* The variables have their types; no callback is called more than twice.
TypeOK ==
    /\ begun \subseteq Req /\ flying \subseteq begun /\ timer \subseteq begun /\ done \subseteq begun
    /\ ready \in [Req -> {None, 0, 1, 4}]
    /\ answer \in [Req -> Answers \cup {None}]
    /\ waits \in [Req -> {None, "poll", "script"}]
    /\ modified \in {None, "m"}
    /\ active \in Int
    /\ calls \in [Req -> [success : 0..2, error : 0..2, complete : 0..2]]

\* The requests that somebody will still take off jQuery.active: the library
\* waits for them, or a call in progress has the steps for it.
InProgress ==
    {r \in begun : set[r].global /\
        (waits[r] # None \/ \E i \in DOMAIN stack : stack[i].r = r /\ Carries(stack[i]))}

\* jQuery.active is the number of requests in progress, whatever the order of
\* answers, timeouts, aborts and refusals and however the callbacks nest; apart
\* from the requests an exception left behind, each of which it counts for ever,
\* and those answered through JSONP from the own host, each counted down twice.
ActiveIsExact ==
    active = Cardinality(InProgress) + Cardinality(lost) - Cardinality(doubled)

\* requestDone: of the poll, the timeout and the load only one ends a request, so
\* that its callbacks are called once; JSONP from the own host completes twice.
CompletesOnce ==
    \A r \in Req : set[r].via # "local" => calls[r].complete <= 1 /\ calls[r].success <= 1

\* A request aborted before it was done calls nothing any more: not when the poll
\* finds it aborted, and not when its timeout fires later.
AbortSilences == [][\A r \in silenced : calls'[r] = calls[r]]_vars

\* A request that timed out never succeeds afterwards, though its response may
\* still arrive, and though the callback that was told may have thrown.
TimeoutExcludesSuccess == \A r \in timedOut : calls[r].success = 0

\* A request has one outcome.
OneOutcome == CompletesOnce /\ TimeoutExcludesSuccess

\* A request with a timeout ends: it completes, unless the page aborts it or an
\* exception leaves it behind, whatever the network does.
TimeoutEnds ==
    \A r \in Req : r \in timer ~> calls[r].complete > 0 \/ r \in lost \/ r \in silenced

\* What the comment says, "Counter for holding the number of active queries".
\* After JSONP from the own host it is one too low.
ActiveCountsRequests == stack = <<>> => active = Cardinality(InProgress)
=============================================================================
