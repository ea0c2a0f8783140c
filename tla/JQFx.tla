-------------------------------- MODULE JQFx --------------------------------
(***************************************************************************)
(* jQuery's animations.  An animation of an element changes some of its    *)
(* properties, each with a timer in the one list jQuery.timers, which one  *)
(* interval goes through every 13 ms.  Animations of one element wait for  *)
(* each other in its queue, whose first entry is the one that runs.        *)
(*                                                                         *)
(* The script is one thread; a call of the library is a frame of the stack.*)
(* The loops over jQuery.timers call the complete functions of the page,   *)
(* which may change the list: a loop then takes out, by its index, what is *)
(* by then at that place.                                                  *)
(***************************************************************************)
EXTENDS Naturals, Sequences, FiniteSets, Functions, SequencesExt

CONSTANTS Elem,     \* the elements
          Anim,     \* the animations the page may start
          What,     \* what an animation is, see IsAnimation
          Mortal,   \* bound: the elements the page may remove
          Hooked,   \* bound: the animations with a complete function of the page
          MaxCalls  \* bound: nested complete functions that call the library

Kinds == {"to", "show", "hide", "toggle"}

\* queued: not called with queue: false; instant: of no duration (jQuery.fx.off).
IsAnimation(w) ==
    /\ w.elem \in Elem /\ w.kind \in Kinds
    /\ w.queued \in BOOLEAN /\ w.instant \in BOOLEAN
    /\ w.props \in Seq(ToSet(w.props)) \ {<<>>} /\ IsInjective(w.props)

ASSUME FxAssumption == \A a \in Anim : IsAnimation(What[a])

VARIABLES hidden,    \* the elements that are hidden
          queue,     \* the fx queue of each element
          timers,    \* jQuery.timers
          interval,  \* timerId is set
          begun,     \* the animations the page has asked for
          mode,      \* the kind of an animation, once toggle is decided
          ended,     \* options.curAnim: the properties that have ended
          stack,     \* the calls in progress, innermost last
          over,      \* ghost: the animations that completed, or that the page stopped
                     \* or took from a queue
          removed,   \* ghost: the elements removed from the page
          again,     \* ghost: the timers that made a step after their last
          disturbed  \* ghost: a complete function has thrown, or has stopped something
                     \* while a loop went through the timers

ghosts == <<over, removed, again, disturbed>>
vars == <<hidden, queue, timers, interval, begun, mode, ended, stack, ghosts>>

el(a) == What[a].elem
Props(a) == ToSet(What[a].props)
Timer(a, p) == [a |-> a, p |-> p]
AllTimers == UNION {{Timer(a, p) : p \in Props(a)} : a \in Anim}

-----------------------------------------------------------------------------
(* Frames.                                                                 *)

\* animate's loop over the properties; due: the one whose timer has just been made
\* is shown, so the element is still to be made visible.
Loop(a, kind) ==
    [k |-> "loop", a |-> a, shows |-> kind = "show", todo |-> What[a].props, due |-> FALSE]
\* opt.complete: first the queue, then the function of the page.
Complete(a) == [k |-> "complete", a |-> a, moved |-> FALSE]
\* The loops over the timers, at index i; cut: the timer of which has ended and
\* is to be taken out.  end: stop was called with gotoEnd.
TickFrame == [k |-> "tick", i |-> 1, cut |-> {}]
StopFrame(e, end) == [k |-> "stop", e |-> e, end |-> end, i |-> Len(timers), cut |-> {}]

Top == Last(stack)
On(kind) == stack # <<>> /\ Top.k = kind
PageRuns == stack = <<>> \/ (On("page") /\ Top.free)
\* A function of the page makes one call.
Called == IF stack = <<>> THEN <<>> ELSE Append(Front(stack), [Top EXCEPT !.free = FALSE])
Page == [k |-> "page", free |-> Cardinality({i \in DOMAIN stack : stack[i].k = "page"}) < MaxCalls]

\* The function in the queue: there may be nothing to hide, or to show.
Resolved(a) ==
    IF What[a].kind # "toggle" THEN What[a].kind
    ELSE IF el(a) \in hidden THEN "show" ELSE "hide"
Enter(a) ==
    IF (What[a].kind = "hide" /\ el(a) \in hidden) \/ (What[a].kind = "show" /\ el(a) \notin hidden)
    THEN Complete(a)
    ELSE Loop(a, Resolved(a))
Entered(a) == mode' = [mode EXCEPT ![a] = Resolved(a)]

-----------------------------------------------------------------------------
Init ==
    /\ hidden = {}
    /\ queue = [e \in Elem |-> <<>>]
    /\ timers = <<>>
    /\ interval = FALSE
    /\ begun = {}
    /\ mode = [a \in Anim |-> What[a].kind]
    /\ ended = [a \in Anim |-> {}]
    /\ stack = <<>>
    /\ over = {} /\ removed = {} /\ again = {}
    /\ disturbed = FALSE

(* What the page does, at any time or from a complete function.            *)

RunNow(a) == stack' = Append(Called, Enter(a)) /\ Entered(a)

\* queue(a): what finds the queue empty runs at once.
Enqueue(a) ==
    /\ queue' = [queue EXCEPT ![el(a)] = Append(@, a)]
    /\ IF queue[el(a)] = <<>> THEN RunNow(a) ELSE stack' = Called /\ UNCHANGED mode

Animate(a) ==
    /\ PageRuns
    /\ a \notin begun
    /\ begun' = begun \cup {a}
    /\ IF What[a].queued THEN Enqueue(a) ELSE RunNow(a) /\ UNCHANGED queue
    /\ UNCHANGED <<hidden, timers, interval, ended, ghosts>>

\* queue([])
Emptied(e) == [queue EXCEPT ![e] = <<>>]

Has(e) == {t \in ToSet(timers) : el(t.a) = e}

\* Mutant of Dequeue: the first entry is not shifted out.
DequeueNoShift(e, s) ==
    IF Len(queue[e]) > 1
    THEN stack' = Append(s, Enter(queue[e][1])) /\ UNCHANGED <<queue, mode>>
    ELSE queue' = [queue EXCEPT ![e] = <<>>] /\ stack' = s /\ UNCHANGED mode

\* dequeue: the first entry goes, the next one runs.
Dequeue(e, s) ==
    LET q == queue[e]
    IN  IF Len(q) > 1
        THEN /\ queue' = [queue EXCEPT ![e] = Tail(q)]
             /\ stack' = Append(s, Enter(q[2]))
             /\ Entered(q[2])
        ELSE /\ queue' = [queue EXCEPT ![e] = <<>>]
             /\ stack' = s
             /\ UNCHANGED mode

\* To stop what runs while a loop goes through the timers.
Disturbs(e) ==
    disturbed' = (disturbed \/ (Has(e) # {} /\ \E i \in DOMAIN stack : stack[i].k \in {"tick", "stop"}))

\* stop(clear, gotoEnd): the queue is emptied or not, and the loop begins.
Stop(e, clear, end) ==
    /\ PageRuns
    /\ queue' = IF clear THEN Emptied(e) ELSE queue
    /\ over' = over \cup (IF clear THEN ToSet(queue[e]) ELSE {})
                    \cup (IF end THEN {} ELSE {t.a : t \in Has(e)})
    /\ stack' = Append(Called, StopFrame(e, end))
    /\ Disturbs(e)
    /\ UNCHANGED <<hidden, timers, interval, begun, mode, ended, removed, again>>

\* show() and hide() without a speed.
Display(e) ==
    /\ PageRuns
    /\ hidden' = IF e \in hidden THEN hidden \ {e} ELSE hidden \cup {e}
    /\ stack' = Called
    /\ UNCHANGED <<queue, timers, interval, begun, mode, ended, ghosts>>

\* remove(): the data of the element go, and with them its queue; the timers stay.
RemoveElement(e) ==
    /\ PageRuns
    /\ e \in Mortal \ removed
    /\ removed' = removed \cup {e}
    /\ queue' = [queue EXCEPT ![e] = <<>>]
    /\ over' = over \cup ToSet(queue[e])
    /\ stack' = Called
    /\ UNCHANGED <<hidden, timers, interval, begun, mode, ended, again, disturbed>>

-----------------------------------------------------------------------------
(* The steps of the calls in progress.                                     *)

\* step, the last one: when all properties of the animation have ended, the
\* element is hidden if that was the aim, and opt.complete is called.
LastStep(t, s) ==
    LET all == ended[t.a] \cup {t.p}
    IN  /\ ended' = [ended EXCEPT ![t.a] = all]
        /\ again' = IF t.p \in ended[t.a] THEN again \cup {t} ELSE again
        /\ IF all = Props(t.a)
           THEN /\ hidden' = IF mode[t.a] = "hide" THEN hidden \cup {el(t.a)} ELSE hidden
                /\ stack' = Append(s, Complete(t.a))
           ELSE stack' = s /\ UNCHANGED hidden

\* custom: the first step may be the last one; if not, the timer joins the list
\* and the interval is started if it does not run.
Custom ==
    LET t == Timer(Top.a, Head(Top.todo))
        s == Append(Front(stack), [Top EXCEPT !.todo = Tail(@), !.due = Top.shows])
    IN  /\ On("loop") /\ ~Top.due /\ Top.todo # <<>>
        /\ IF What[Top.a].instant
           THEN LastStep(t, s) /\ UNCHANGED <<timers, interval>>
           ELSE /\ timers' = Append(timers, t)
                /\ interval' = TRUE
                /\ stack' = s
                /\ UNCHANGED <<hidden, ended, again>>
        /\ UNCHANGED <<queue, begun, mode, over, removed, disturbed>>

Shown ==
    /\ On("loop") /\ Top.due
    /\ hidden' = hidden \ {el(Top.a)}
    /\ stack' = Append(Front(stack), [Top EXCEPT !.due = FALSE])
    /\ UNCHANGED <<queue, timers, interval, begun, mode, ended, ghosts>>

LoopEnds ==
    /\ On("loop") /\ ~Top.due /\ Top.todo = <<>>
    /\ stack' = Front(stack)
    /\ UNCHANGED <<hidden, queue, timers, interval, begun, mode, ended, ghosts>>

\* Mutant of Move: the queue is left as it is.
MoveNever ==
    /\ On("complete") /\ ~Top.moved
    /\ stack' = Append(Front(stack), [Top EXCEPT !.moved = TRUE])
    /\ UNCHANGED <<hidden, queue, timers, interval, begun, mode, ended, ghosts>>

\* opt.complete: dequeue, unless the animation was not queued.
Move ==
    LET s == Append(Front(stack), [Top EXCEPT !.moved = TRUE])
    IN  /\ On("complete") /\ ~Top.moved
        /\ IF What[Top.a].queued THEN Dequeue(el(Top.a), s)
           ELSE stack' = s /\ UNCHANGED <<queue, mode>>
        /\ UNCHANGED <<hidden, timers, interval, begun, ended, ghosts>>

\* opt.complete: the function of the page.
CallPage ==
    /\ On("complete") /\ Top.moved
    /\ stack' = IF Top.a \in Hooked THEN Append(Front(stack), Page) ELSE Front(stack)
    /\ over' = over \cup {Top.a}
    /\ UNCHANGED <<hidden, queue, timers, interval, begun, mode, ended,
                   removed, again, disturbed>>

\* The interval.
Tick ==
    /\ stack = <<>> /\ interval
    /\ stack' = <<TickFrame>>
    /\ UNCHANGED <<hidden, queue, timers, interval, begun, mode, ended, ghosts>>

AtTimer == On("tick") /\ Top.cut = {} /\ Top.i <= Len(timers)

\* The timer's time is not over: it makes a step, and stays.
TickGoesOn ==
    LET t == timers[Top.i]
    IN  /\ AtTimer
        /\ t.p \notin ended[t.a]
        /\ stack' = Append(Front(stack), [Top EXCEPT !.i = @ + 1])
        /\ UNCHANGED <<hidden, queue, timers, interval, begun, mode, ended, ghosts>>

\* The timer's time is over.
TickLast(t) ==
    /\ AtTimer /\ timers[Top.i] = t
    /\ LastStep(t, Append(Front(stack), [Top EXCEPT !.cut = {t}]))
    /\ UNCHANGED <<queue, timers, interval, begun, mode, over, removed, disturbed>>

\* Mutant of Splice: the last timer is taken out.
SplicePop(next) ==
    /\ Top.cut # {}
    /\ timers' = IF timers = <<>> THEN timers ELSE Front(timers)
    /\ stack' = Append(Front(stack), [Top EXCEPT !.i = next, !.cut = {}])
    /\ UNCHANGED <<hidden, queue, interval, begun, mode, ended, ghosts>>

\* timers.splice(i, 1): whatever is there now.
Splice(next) ==
    /\ Top.cut # {}
    /\ timers' = IF Top.i <= Len(timers) THEN RemoveAt(timers, Top.i) ELSE timers
    /\ stack' = Append(Front(stack), [Top EXCEPT !.i = next, !.cut = {}])
    /\ UNCHANGED <<hidden, queue, interval, begun, mode, ended, ghosts>>

TickSplice == On("tick") /\ Splice(Top.i)
StopSplice == On("stop") /\ Splice(Top.i - 1)

\* Mutant of TickEnds: off by one.
TickEndsEarly ==
    /\ On("tick") /\ Top.cut = {} /\ Top.i > Len(timers)
    /\ interval' = (Len(timers) > 1)
    /\ stack' = Front(stack)
    /\ UNCHANGED <<hidden, queue, timers, begun, mode, ended, ghosts>>

\* The interval is cleared when there is no timer left.
TickEnds ==
    /\ On("tick") /\ Top.cut = {} /\ Top.i > Len(timers)
    /\ interval' = (timers # <<>>)
    /\ stack' = Front(stack)
    /\ UNCHANGED <<hidden, queue, timers, begun, mode, ended, ghosts>>

\* The loop of stop, downwards, at the next timer of the element.
Below == {i \in 1..Top.i : el(timers[i].a) = Top.e}

StopNext ==
    /\ On("stop") /\ Top.cut = {} /\ Top.i <= Len(timers)
    /\ \E i \in Below :
        LET t == timers[i]
            s == Append(Front(stack), [Top EXCEPT !.i = i, !.cut = {t}])
        IN  /\ \A j \in Below : j <= i
            /\ IF Top.end THEN LastStep(t, s)
               ELSE stack' = s /\ UNCHANGED <<hidden, ended, again>>
    /\ UNCHANGED <<queue, timers, interval, begun, mode, over, removed, disturbed>>

\* Mutant of StopEnds: the next animation is not started.
StopEndsNoDequeue ==
    /\ On("stop") /\ Top.cut = {} /\ Top.i <= Len(timers)
    /\ Below = {}
    /\ stack' = Front(stack)
    /\ UNCHANGED <<hidden, queue, timers, interval, begun, mode, ended, ghosts>>

\* The next animation starts; with gotoEnd the last steps have seen to that.
StopEnds ==
    /\ On("stop") /\ Top.cut = {} /\ Top.i <= Len(timers)
    /\ Below = {}
    /\ IF Top.end THEN stack' = Front(stack) /\ UNCHANGED <<queue, mode>>
       ELSE Dequeue(Top.e, Front(stack))
    /\ UNCHANGED <<hidden, timers, interval, begun, ended, ghosts>>

\* An exception ends all calls in progress.
Unwound ==
    /\ stack' = <<>>
    /\ disturbed' = (disturbed \/ \E i \in DOMAIN stack : stack[i].k # "page")
    /\ UNCHANGED <<hidden, queue, timers, interval, begun, mode, ended,
                   over, removed, again>>

\* timers[i].elem, where the list has become shorter than i.
StopBreaks == On("stop") /\ Top.cut = {} /\ Top.i > Len(timers) /\ Unwound

Throw == On("page") /\ Unwound

Return ==
    /\ On("page")
    /\ stack' = Front(stack)
    /\ UNCHANGED <<hidden, queue, timers, interval, begun, mode, ended, ghosts>>

-----------------------------------------------------------------------------
Calculates ==
    \/ Custom \/ Shown \/ LoopEnds \/ Move \/ CallPage
    \/ TickSplice \/ TickEnds \/ StopNext \/ StopSplice \/ StopEnds \/ StopBreaks

Next ==
    \/ \E a \in Anim : Animate(a)
    \/ \E e \in Elem :
        \/ Display(e) \/ RemoveElement(e)
        \/ \E clear, end \in BOOLEAN : Stop(e, clear, end)
    \/ Calculates \/ Return \/ Throw
    \/ Tick \/ TickGoesOn \/ \E t \in AllTimers : TickLast(t)

\* The browser keeps the interval, durations are finite, and the functions of the
\* page come to an end.
Fairness ==
    /\ WF_vars(Calculates) /\ WF_vars(Return \/ Throw) /\ SF_vars(Tick)
    /\ WF_vars(TickGoesOn \/ \E t \in AllTimers : TickLast(t))
    /\ \A t \in AllTimers : SF_vars(TickLast(t))

Spec == Init /\ [][Next]_vars /\ Fairness

-----------------------------------------------------------------------------
\* The variables have their types; a timer is in the list once.
TypeOK ==
    /\ hidden \subseteq Elem
    /\ DOMAIN queue = Elem /\ \A e \in Elem : ToSet(queue[e]) \subseteq {a \in Anim : el(a) = e}
    /\ ToSet(timers) \subseteq AllTimers /\ IsInjective(timers)
    /\ interval \in BOOLEAN
    /\ mode \in [Anim -> Kinds]
    /\ \A a \in Anim : ended[a] \subseteq Props(a)
    /\ \A i \in DOMAIN stack : stack[i].k \in {"loop", "complete", "page", "tick", "stop"}

\* As long as there are timers the interval runs, also when a complete function
\* starts an animation in the very tick that takes the last timer out, and after
\* exceptions: custom starts no second interval, so without it nothing on the page
\* would ever move again.
TimersAreDriven == timers # <<>> => interval

Running(a) == \E t \in ToSet(timers) : t.a = a

\* An animation that runs, and that the page has not stopped, has a timer for every
\* property that has not ended, or animate is about to make it: the loops over the
\* list, by index, take out the timers that ended and no others, though complete
\* functions append to the list meanwhile.  Unless one of them threw, or stopped what
\* was running.
NoneIsLost ==
    ~disturbed => \A a \in Anim \ over : Running(a) => \A p \in Props(a) \ ended[a] :
        \/ Timer(a, p) \in ToSet(timers)
        \/ \E i \in DOMAIN stack :
              stack[i].k = "loop" /\ stack[i].a = a /\ p \in ToSet(stack[i].todo)

\* No animation of the element is started with queue: false.
AllWait(e) == \A a \in Anim : el(a) = e => What[a].queued

\* Whenever the script is idle, the first animation in the queue of an element is
\* running, and no other one is: the queue is not blocked, and not advanced twice, by
\* stop, by an animation that had nothing to do or no duration, or by a complete
\* function.  It does not hold for a removed element, which loses its queue and keeps
\* its timers, nor where animations go past the queue: stop(true, true) may end one of
\* those first, whose complete function starts an animation in the emptied queue, and
\* then the animation that had waited, which dequeues the one just started.
HeadRuns ==
    stack = <<>> /\ ~disturbed => \A e \in Elem \ removed :
        LET running == {a \in Anim : el(a) = e /\ Running(a)}
        IN  AllWait(e) => running = IF queue[e] = <<>> THEN {} ELSE {Head(queue[e])}

\* No timer makes a step after its last one, which would complete its animation a
\* second time.
StepsEnd == ~disturbed => again = {}

\* The loops over the timers, by index, do what they should though the list changes.
LoopsAreRight == NoneIsLost /\ StepsEnd

\* Every animation the page asked for comes to its end or is stopped, through
\* whatever queue it has to wait in.
Finishes == \A a \in Anim : a \in begun ~> a \in over \/ disturbed
=============================================================================
