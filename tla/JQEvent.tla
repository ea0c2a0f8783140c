------------------------------- MODULE JQEvent -------------------------------
(***************************************************************************)
(* jQuery.event: the handlers the extension's pages bind to elements, and  *)
(* how an event runs them.  The page has a document and elements directly  *)
(* below it.  What is bound to an element is kept in jQuery.data under     *)
(* "events" (a table per type, from handler to registration) and "handle"  *)
(* (the one function given to the browser for all types); d adds to the    *)
(* data table                                                              *)
(*   d.own      handle function -> the element it stands for (handle.elem) *)
(*   d.lis      the browser's listeners, <<element, type, handle>>         *)
(*   d.ns       whether a function carries a namespace: add writes it on   *)
(*              the function, so the last binding decides for all of them. *)
(*                                                                         *)
(* The script is one thread, but a handler may call anything of the        *)
(* library: the calls in progress form a stack of frames, and only its top *)
(* moves.  A handler is named by its guid, which a proxy shares with the   *)
(* function it stands for; the two handlers of the library itself are      *)
(* "live" (liveHandler) and "within" (withinElement).                      *)
(***************************************************************************)
EXTENDS JQData, Naturals, Sequences, FiniteSets, SequencesExt, FiniteSetsExt

CONSTANTS doc,       \* the document
          Fn,        \* the functions of the page
          Bindings,  \* bound: the registrations the page may ask for
          Triggers,  \* bound: the calls of trigger the page may make
          Globals,   \* bound: the types the page may trigger everywhere
          Inputs,    \* bound: the events of the user
          MaxReady,  \* bound: functions waiting for the document
          MaxCalls   \* bound: page functions running at a time

VARIABLES d,         \* jQuery.cache, the expandos, the browser's listeners
          attached,  \* the elements in the document
          stack,     \* the calls in progress, innermost last
          triggered, \* jQuery.event.triggered
          dom,       \* jQuery.isReady, the length of jQuery.readyList, and, as a ghost,
                     \* how many functions given to ready have still to run
          untouched, \* ghost: removed elements no call has named since
          leaked,    \* ghost: elements removed with handlers still bound
          cut        \* ghost: the tables from which the page unbound everything

ghosts == <<untouched, leaked, cut>>
vars == <<d, attached, stack, triggered, dom, untouched, leaked, cut>>

Types == {"click", "over", "enter", "liveclick", "ready"}

Handlers == Fn \cup {"live", "within"}

\* As with identifiers, an element has two handle functions to choose from.
Handles == Elem \X {1, 2}

\* "spent" is a ghost for a one-shot registration that has run.
Kinds == {"plain", "one", "spent"}

\* What data(e, "events") can be: for some types, a kind for some handlers.
Tables == UNION {[fs -> Kinds] : fs \in SUBSET Handlers}
IsEventMap(m) == \E ts \in SUBSET Types : m \in [ts -> Tables]

\* The live type is a name of the library's own: a page binds it only through
\* live, which has no one-shot form, and triggers the event that live is for.
PageTypes == Types \ {"liveclick"}

ASSUME EventAssumption ==
    /\ doc \in Elem
    /\ None \notin Ids \cup Handles /\ ~IsEventMap(None)
    /\ {"live", "within"} \cap Fn = {}
    /\ Bindings \subseteq [e : Elem, t : Types, f : Fn, kind : {"plain", "one"}, ns : BOOLEAN]
    /\ \A b \in Bindings : b.t = "liveclick" => b.e = doc /\ b.kind = "plain"
    /\ Triggers \subseteq [e : Elem, t : PageTypes, ns : BOOLEAN, quiet : BOOLEAN]
    /\ Globals \subseteq PageTypes
    /\ Inputs \subseteq [e : Elem, t : PageTypes]
    /\ MaxReady \in Nat

\* An event object.  Its type is changed by withinElement, and loses the
\* namespace at the first element with handlers.
Event(type, ns, target, quiet) ==
    [type |-> type, ns |-> ns, target |-> target, stop |-> quiet, prevent |-> quiet, now |-> FALSE]

-----------------------------------------------------------------------------
(* The tables of an element.                                               *)

Events(x, e) == LET t == Get(x, e, "events") IN IF t = None THEN <<>> ELSE t

Table(x, e, t) == IF t \in DOMAIN Events(x, e) THEN Events(x, e)[t] ELSE <<>>

\* Whether a registration has a namespace: those of live always have.
Named(x, e, t, f) == t = "liveclick" \/ (f \in Fn /\ Table(x, e, t)[f] = "plain" /\ x.ns[f])

\* What remove deletes when it is given no function: the pattern it builds from
\* no namespace fits only what has none.
Matching(x, e, t, ns) == {f \in DOMAIN Table(x, e, t) : Named(x, e, t, f) = ns}

SetTable(x, e, t, table) == Put(x, e, "events", Assign(Events(x, e), t, table))

FreshHandle(x, e) == IF <<e, 1>> \in DOMAIN x.own THEN <<e, 2>> ELSE <<e, 1>>

\* Mutant of Prepare: handle.elem is left unset.
PrepareNoElem(x, e) ==
    LET y == IF Get(x, e, "events") = None THEN Put(x, e, "events", <<>>) ELSE x
        h == IF Get(y, e, "handle") = None THEN FreshHandle(y, e) ELSE Get(y, e, "handle")
    IN  [Put(y, e, "handle", h) EXCEPT !.own = Assign(@, h, None)]

\* The first lines of add: the element's structures, and handle.elem.
Prepare(x, e) ==
    LET y == IF Get(x, e, "events") = None THEN Put(x, e, "events", <<>>) ELSE x
        h == IF Get(y, e, "handle") = None THEN FreshHandle(y, e) ELSE Get(y, e, "handle")
    IN  [Put(y, e, "handle", h) EXCEPT !.own = Assign(@, h, e)]

\* One type of add that has no special treatment.
AddTo(x, e, t, f, kind) ==
    LET y == IF t \in DOMAIN Events(x, e) THEN x
             ELSE [x EXCEPT !.lis = @ \cup {<<e, t, Get(x, e, "handle")>>}]
    IN  SetTable(y, e, t, Assign(Table(x, e, t), f, kind))

\* A function bound by bind is marked with its namespace; one and live bind a
\* new function each time.
Mark(x, f, kind, ns) == IF kind = "plain" /\ f \in Fn THEN [x EXCEPT !.ns[f] = ns] ELSE x

\* add: specialAll.live first binds liveHandler to the event it serves,
\* special.mouseenter binds withinElement instead of a listener of its own.
add(x, e, t, f, kind, ns) ==
    LET y == Mark(Prepare(x, e), f, IF t = "liveclick" THEN "live" ELSE kind, ns)
    IN  CASE t = "liveclick" -> AddTo(AddTo(y, e, "click", "live", "plain"), e, t, f, kind)
          [] t = "enter" ->
               LET z == IF t \in DOMAIN Events(y, e) THEN y
                        ELSE AddTo(SetTable(y, e, t, <<>>), e, "over", "within", "plain")
               IN  SetTable(z, e, t, Assign(Table(z, e, t), f, kind))
          [] OTHER -> AddTo(y, e, t, f, kind)

Strip(x, e, t, fs) == SetTable(x, e, t, Delete(Table(x, e, t), fs))

\* Mutant of DropTable: the listener stays.
DropTableOnly(x, e, t) ==
    Put(x, e, "events", Delete(Events(x, e), {t}))

DropTable(x, e, t) ==
    Put([x EXCEPT !.lis = @ \ {<<e, t, Get(x, e, "handle")>>}],
        e, "events", Delete(Events(x, e), {t}))

\* remove for one type; stale says that the variable ret was left set by the
\* type before, so that an emptied table is taken for one in use.
RemoveFrom(x, e, t, fs, stale) ==
    IF t \notin DOMAIN Events(x, e) THEN x
    ELSE LET y == Strip(x, e, t, fs)
         IN  IF Table(y, e, t) = <<>> /\ ~stale THEN DropTable(y, e, t) ELSE y

\* Mutant of RemoveType: specialAll.live has no teardown.
RemoveTypeNoTeardown(x, e, t, fs, stale, named) ==
    LET y == Strip(x, e, t, fs)
    IN  IF t = "enter" /\ t \in DOMAIN Events(x, e) /\ Table(y, e, t) = <<>> /\ ~stale
        THEN RemoveFrom(RemoveFrom(y, e, "over", {"within"}, FALSE), e, t, fs, stale)
        ELSE RemoveFrom(x, e, t, fs, stale)

\* The same with the teardown of the special types; named says that the type
\* came with the namespaces that live gives it, so that liveHandler may go.
RemoveType(x, e, t, fs, stale, named) ==
    LET y == Strip(x, e, t, fs)
        last == Table(y, e, t) = <<>>
    IN  IF t \notin DOMAIN Events(x, e) THEN x
        ELSE IF t = "liveclick" /\ named /\ last
        THEN RemoveFrom(RemoveFrom(y, e, "click", {"live"}, FALSE), e, t, fs, stale)
        ELSE IF t = "enter" /\ last /\ ~stale
        THEN RemoveFrom(RemoveFrom(y, e, "over", {"within"}, FALSE), e, t, fs, stale)
        ELSE RemoveFrom(x, e, t, fs, stale)

\* The last lines of remove: no table left, so no structure.
Cleanup(x, e) ==
    LET h == Get(x, e, "handle")
        y == IF h = None THEN x ELSE [x EXCEPT !.own = Delete(@, {h})]
    IN  IF Events(x, e) # <<>> \/ Get(x, e, "events") = None THEN x
        ELSE DropName(DropName(y, e, "events"), e, "handle")

\* unbind of one type; reading the data of an element gives it an entry.
remove(x, e, t, fs, named) ==
    Cleanup(RemoveType(WithEntry(x, e), e, t, fs, FALSE, named), e)

\* unbind("t1 t2", f): one call of remove, its types in turn.
RemoveBoth(x, e, t1, t2, f) ==
    LET y == RemoveType(WithEntry(x, e), e, t1, {f}, FALSE, FALSE)
        stale == Table(y, e, t1) # <<>>
    IN  Cleanup(RemoveType(y, e, t2, {f}, stale, FALSE), e)

\* unbind() without a type: remove calls itself for every type the element still
\* has a table for.  (The order is that of the bindings in the code.  It makes no
\* difference: what the teardown of one type takes from another, the other would
\* have removed.)
RemoveIf(x, e, t) ==
    IF t \in DOMAIN Events(x, e) THEN remove(x, e, t, Matching(x, e, t, FALSE), FALSE) ELSE x

RemoveAll(x, e) ==
    LET y == RemoveIf(RemoveIf(WithEntry(x, e), e, "ready"), e, "enter")
    IN  RemoveIf(RemoveIf(RemoveIf(y, e, "over"), e, "liveclick"), e, "click")

-----------------------------------------------------------------------------
(* Frames.                                                                 *)

\* trigger at element e: first the handlers, then the native method of the
\* element, then the parent.
TriggerFrame(e, ev) ==
    [k |-> "trigger", e |-> e, ev |-> ev, at |-> "handle", bubbling |-> FALSE, again |-> FALSE]

\* The browser dispatching along a path; page: an own listener of the page is
\* still to run at the target.
NativeFrame(path, ev, page) ==
    [k |-> "native", path |-> path, called |-> {}, ev |-> ev, page |-> page]

\* jQuery.event.handle: the loop over the handlers of a table.  The loop holds
\* on to the table it started with: dead says that it has been deleted.
HandleFrame(x, e, ev) ==
    [k |-> "handle", e |-> e, t |-> ev.type, todo |-> DOMAIN Table(x, e, ev.type),
     dead |-> FALSE, all |-> ~ev.ns, ev |-> [ev EXCEPT !.ns = FALSE]]

\* liveHandler: the registrations it found when it began.
LiveFrame(x) == [k |-> "live", todo |-> DOMAIN Table(x, doc, "liveclick")]

\* The browser's dispatch is over at the end of the path.
Settled(s) ==
    IF Last(s).k = "native" /\ ~Last(s).page /\ Last(s).path = <<>> THEN Front(s) ELSE s

\* trigger without an element: the loop over jQuery.cache, with one event object.
GlobalFrame(t) ==
    [k |-> "global", todo |-> {e \in Elem : HasEntry(d, e)},
     ev |-> [Event(t, FALSE, doc, FALSE) EXCEPT !.stop = TRUE]]

\* The handler of unload: the loop over jQuery.cache.
UnloadFrame == [k |-> "unload", todo |-> {e \in Elem : HasEntry(d, e)}]

\* jQuery.ready: the loop over readyList.
ReadyFrame(n) == [k |-> "ready", todo |-> n]

\* A function of the page.
PageFrame == [k |-> "page"]

Top == Last(stack)
Push(s, frame) == Append(s, frame)
SetTop(frame) == Append(Front(stack), frame)
CalledBy(kind, s) == s # <<>> /\ Last(s).k = kind
OnTop(kind) == CalledBy(kind, stack)

PageRuns == stack = <<>> \/ OnTop("page")
\* The trigger of frame i is in its native phase.
InNative(i) ==
    /\ stack[i].k = "trigger"
    /\ i < Len(stack) /\ stack[i + 1].k = "native"

Calls == Cardinality({i \in DOMAIN stack : stack[i].k = "page"})

\* After a change of the tables, a loop whose table is gone runs over nothing.
Deadened(s, x) ==
    [i \in DOMAIN s |->
        IF s[i].k = "handle" /\ s[i].t \notin DOMAIN Events(x, s[i].e)
        THEN [s[i] EXCEPT !.dead = TRUE]
        ELSE s[i]]

PathFrom(e) == IF e # doc /\ e \in attached THEN <<e, doc>> ELSE <<e>>

\* elem[type] is a function: the elements have a click method.
HasMethod(e, t) == e # doc /\ t = "click"

-----------------------------------------------------------------------------
Init ==
    /\ d = [id |-> NoData.id, cache |-> NoData.cache,
            own |-> <<>>, lis |-> {}, ns |-> [f \in Fn |-> FALSE]]
    /\ attached = Elem
    /\ stack = <<>>
    /\ triggered = FALSE
    /\ dom = [is |-> FALSE, list |-> 0, owed |-> 0]
    /\ untouched = {}
    /\ leaked = {}
    /\ cut = {}

(* What the page may call, at any time or from a function of its own.      *)

Touch(e) == untouched' = untouched \ {e}

Changed(x) == d' = x /\ stack' = Deadened(stack, x)

\* What was cut counts while a type that needs it is bound.
CutNow(c) ==
    {p \in c :
        \/ p = <<doc, "click">> /\ Table(d', doc, "liveclick") # <<>>
        \/ /\ p[2] = "over"
           /\ "enter" \in DOMAIN Events(d, p[1]) /\ "enter" \in DOMAIN Events(d', p[1])}

\* bind, one
Bind(b) ==
    /\ PageRuns
    /\ b.t # "liveclick"
    /\ Changed(add(d, b.e, b.t, b.f, b.kind, b.ns))
    /\ Touch(b.e)
    /\ cut' = CutNow(cut)
    /\ UNCHANGED <<attached, dom, triggered, leaked>>

\* live binds under a type of its own on the document.
Live(b) ==
    /\ PageRuns
    /\ b.t = "liveclick"
    /\ Changed(add(d, doc, b.t, b.f, b.kind, TRUE))
    /\ Touch(doc)
    /\ cut' = CutNow(cut \ {<<doc, "click">>})
    /\ UNCHANGED <<attached, dom, triggered, leaked>>

\* unbind(type, f)
Unbind(b) ==
    /\ PageRuns
    /\ b.t # "liveclick"
    /\ Changed(remove(d, b.e, b.t, {b.f}, FALSE))
    /\ Touch(b.e)
    /\ cut' = CutNow(cut)
    /\ UNCHANGED <<attached, dom, triggered, leaked>>

\* die(type, f)
Die(b) ==
    /\ PageRuns
    /\ b.t = "liveclick"
    /\ Changed(remove(d, doc, b.t, {b.f}, TRUE))
    /\ Touch(doc)
    /\ cut' = CutNow(cut)
    /\ UNCHANGED <<attached, dom, triggered, leaked>>

\* unbind(type), unbind(type.namespace)
UnbindType(e, t, ns) ==
    /\ PageRuns
    /\ t # "liveclick"
    /\ Changed(remove(d, e, t, Matching(d, e, t, ns), FALSE))
    /\ Touch(e)
    /\ cut' = CutNow(IF ns THEN cut ELSE cut \cup {<<e, t>>})
    /\ UNCHANGED <<attached, dom, triggered, leaked>>

\* unbind("t1 t2", f)
UnbindBoth(e, t1, t2, f) ==
    /\ PageRuns
    /\ t1 # t2 /\ "liveclick" \notin {t1, t2}
    /\ Changed(RemoveBoth(d, e, t1, t2, f))
    /\ Touch(e)
    /\ cut' = CutNow(cut)
    /\ UNCHANGED <<attached, dom, triggered, leaked>>

\* unbind()
UnbindAll(e) ==
    /\ PageRuns
    /\ Changed(RemoveAll(d, e))
    /\ Touch(e)
    /\ cut' = CutNow(cut \cup {<<e, "click">>, <<e, "over">>})
    /\ UNCHANGED <<attached, dom, triggered, leaked>>

\* Mutant of RemoveElement: the data go before the events, which are then not found.
RemoveElementDataFirst(e) ==
    /\ PageRuns
    /\ e # doc
    /\ Changed(RemoveAll(Drop(d, e), e))
    /\ attached' = attached \ {e}
    /\ untouched' = untouched \cup {e}
    /\ cut' = CutNow(cut)
    /\ UNCHANGED <<triggered, dom, leaked>>

\* $(e).remove(): its events, then its data, then the element itself.  Bound: an
\* element leaves handlers behind once.
RemoveElement(e) ==
    LET x == RemoveAll(d, e)
        leaks == Get(x, e, "events") # None
    IN  /\ PageRuns
        /\ e # doc
        /\ leaks => e \notin leaked
        /\ Changed(Drop(x, e))
        /\ attached' = attached \ {e}
        /\ untouched' = untouched \cup {e}
        /\ leaked' = IF leaks THEN leaked \cup {e} ELSE leaked
        /\ cut' = CutNow(cut)
        /\ UNCHANGED <<triggered, dom>>

\* $(doc).append(e): the page puts the element back.
AppendElement(e) ==
    /\ PageRuns
    /\ e \notin attached
    /\ attached' = attached \cup {e}
    /\ Touch(e)
    /\ UNCHANGED <<d, stack, triggered, dom, leaked, cut>>

\* trigger, and triggerHandler, whose event is stopped and prevented from the
\* start.  A trigger made during the native phase of another one is noted.
Noted ==
    [i \in DOMAIN stack |-> IF InNative(i) THEN [stack[i] EXCEPT !.again = TRUE] ELSE stack[i]]

Trigger(tr) ==
    /\ PageRuns
    /\ Calls < MaxCalls
    /\ stack' = Push(Noted, TriggerFrame(tr.e, Event(tr.t, tr.ns, tr.e, tr.quiet)))
    /\ Touch(tr.e)
    /\ UNCHANGED <<d, attached, dom, triggered, leaked, cut>>

\* trigger without an element.  Bound: outside of any handler.
TriggerGlobal(t) ==
    /\ stack = <<>>
    /\ stack' = <<GlobalFrame(t)>>
    /\ UNCHANGED <<d, attached, dom, triggered, ghosts>>

\* ready(fn) before the document is ready; afterwards it is a call of fn, and what
\* fn does is what the page does.
Ready ==
    /\ PageRuns
    /\ ~dom.is
    /\ dom.list < MaxReady
    /\ dom' = [dom EXCEPT !.list = @ + 1, !.owed = @ + 1]
    /\ UNCHANGED <<d, attached, stack, triggered, ghosts>>

\* Mutant of DocumentReady: isReady is not set before the functions run.
DocumentReadyLate ==
    /\ stack = <<>>
    /\ ~dom.is
    /\ stack' = <<ReadyFrame(dom.list)>>
    /\ UNCHANGED <<d, attached, dom, triggered, ghosts>>

\* jQuery.ready: DOMContentLoaded, or the load of the window, whichever is first.
DocumentReady ==
    /\ stack = <<>>
    /\ ~dom.is
    /\ dom' = [dom EXCEPT !.is = TRUE]
    /\ stack' = <<ReadyFrame(dom.list)>>
    /\ UNCHANGED <<d, attached, triggered, ghosts>>

\* The user: the browser dispatches a click or a move of the mouse.
UserEvent(u) ==
    /\ stack = <<>>
    /\ u.e \in attached
    /\ stack' = Push(stack, NativeFrame(PathFrom(u.e), Event(u.t, FALSE, u.e, FALSE), FALSE))
    /\ UNCHANGED <<d, attached, dom, triggered, ghosts>>

\* window.onunload: everything bound to anything is removed.
Unload ==
    /\ stack = <<>>
    /\ stack' = <<UnloadFrame>>
    /\ UNCHANGED <<d, attached, dom, triggered, ghosts>>

-----------------------------------------------------------------------------
(* The steps of the calls in progress.                                     *)

\* trigger: handle.apply, if the element has a handle; the handle does nothing
\* while jQuery.event.triggered is set.  A type with its namespace is no method.
TriggerHandlers ==
    LET x == WithEntry(d, Top.e)
        s == SetTop([Top EXCEPT !.at = IF Top.bubbling \/ Top.ev.ns THEN "bubble" ELSE "native"])
    IN  /\ OnTop("trigger") /\ Top.at = "handle"
        /\ IF Get(d, Top.e, "handle") # None /\ ~triggered
           THEN stack' = Push(s, HandleFrame(x, Top.e, Top.ev))
           ELSE stack' = s
        /\ d' = x
        /\ UNCHANGED <<attached, dom, triggered, ghosts>>

\* Mutant of TriggerMethod: the flag is not set.
TriggerMethodNoFlag ==
    /\ OnTop("trigger") /\ Top.at = "native"
    /\ LET s == SetTop([Top EXCEPT !.at = "bubble"])
       IN  stack' = IF HasMethod(Top.e, Top.ev.type) /\ ~Top.ev.prevent
                    THEN Push(s, NativeFrame(PathFrom(Top.e), Event(Top.ev.type, FALSE, Top.e, FALSE), TRUE))
                    ELSE s
    /\ UNCHANGED <<d, attached, dom, triggered, ghosts>>

\* trigger: elem[type](), during which the handle functions do nothing.
TriggerMethod ==
    /\ OnTop("trigger") /\ Top.at = "native"
    /\ IF HasMethod(Top.e, Top.ev.type) /\ ~Top.ev.prevent
       THEN /\ triggered' = TRUE
            /\ stack' = Push(SetTop([Top EXCEPT !.at = "bubble"]),
                             NativeFrame(PathFrom(Top.e), Event(Top.ev.type, FALSE, Top.e, FALSE), TRUE))
       ELSE /\ stack' = SetTop([Top EXCEPT !.at = "bubble"])
            /\ UNCHANGED triggered
    /\ UNCHANGED <<d, attached, dom, ghosts>>

\* A trigger has ended; the loop over the cache goes on with its event object.
Ended(s, ev) ==
    IF CalledBy("global", s) THEN Append(Front(s), [Last(s) EXCEPT !.ev = ev]) ELSE s

\* trigger: the flag is cleared, and the event goes on to the parent, or from a
\* removed element to its document.
TriggerParent ==
    /\ OnTop("trigger") /\ Top.at = "bubble"
    /\ triggered' = FALSE
    /\ stack' = IF Top.ev.stop \/ Top.e = doc THEN Ended(Front(stack), Top.ev)
                ELSE SetTop([Top EXCEPT !.at = "handle", !.e = doc, !.bubbling = TRUE])
    /\ UNCHANGED <<d, attached, dom, ghosts>>

\* The next element of the cache, if it has handlers of the type.
GlobalNext(e) ==
    LET s == SetTop([Top EXCEPT !.todo = @ \ {e}])
        bound == Top.ev.type \in DOMAIN Events(d, e)
    IN  /\ OnTop("global") /\ e \in Top.todo
        /\ stack' = IF bound THEN Push(s, TriggerFrame(e, [Top.ev EXCEPT !.target = e])) ELSE s
        /\ UNCHANGED <<d, attached, dom, triggered, ghosts>>

GlobalEnds ==
    /\ OnTop("global") /\ Top.todo = {}
    /\ stack' = Front(stack)
    /\ UNCHANGED <<d, attached, dom, triggered, ghosts>>

\* The next entry of the cache: the element is the one its handle stands for.
UnloadNext(e) ==
    LET h == Get(d, e, "handle")
    IN  /\ OnTop("unload") /\ e \in Top.todo
        /\ stack' = SetTop([Top EXCEPT !.todo = @ \ {e}])
        /\ IF h # None
           THEN /\ d' = RemoveAll(d, d.own[h])
                /\ cut' = CutNow(cut \cup {<<d.own[h], "click">>, <<d.own[h], "over">>})
           ELSE UNCHANGED <<d, cut>>
        /\ UNCHANGED <<attached, dom, triggered, untouched, leaked>>

UnloadEnds ==
    /\ OnTop("unload") /\ Top.todo = {}
    /\ stack' = <<>>
    /\ UNCHANGED <<d, attached, dom, triggered, ghosts>>

\* jQuery.ready: the next function of the list.
ReadyNext ==
    /\ OnTop("ready") /\ Top.todo > 0
    /\ dom' = [dom EXCEPT !.owed = @ - 1]
    /\ stack' = Push(SetTop([Top EXCEPT !.todo = @ - 1]), PageFrame)
    /\ UNCHANGED <<d, attached, triggered, ghosts>>

\* The list is dropped, and the handlers bound to ready are triggered.
ReadyEnds ==
    /\ OnTop("ready") /\ Top.todo = 0
    /\ dom' = [dom EXCEPT !.list = 0]
    /\ stack' = <<TriggerFrame(doc, Event("ready", FALSE, doc, TRUE))>>
    /\ UNCHANGED <<d, attached, triggered, ghosts>>

\* The browser: an own listener of the page at the target.
PageListener ==
    /\ OnTop("native") /\ Top.page
    /\ stack' = Push(SetTop([Top EXCEPT !.page = FALSE]), PageFrame)
    /\ Calls < MaxCalls
    /\ UNCHANGED <<d, attached, dom, triggered, ghosts>>

\* A handle function makes its own event object from that of the browser.
fix(ev) == [ev EXCEPT !.stop = FALSE]

\* The browser: the listeners of the next element of the path, which is the last
\* one if one of them stops the event.
Dispatch ==
    LET e == Head(Top.path)
        toCall == {h \in Handles \ Top.called : <<e, Top.ev.type, h>> \in d.lis}
        rest == IF Top.ev.stop THEN <<>> ELSE Tail(Top.path)
    IN  /\ OnTop("native")
        /\ IF toCall = {} \/ triggered
           THEN /\ stack' = Settled(SetTop([Top EXCEPT !.path = rest, !.called = {}, !.page = FALSE]))
                /\ UNCHANGED d
           ELSE \E h \in toCall :
                /\ d' = WithEntry(d, d.own[h])
                /\ stack' = Push(SetTop([Top EXCEPT !.called = @ \cup {h}, !.page = FALSE]),
                                 HandleFrame(d, d.own[h], fix(Top.ev)))
        /\ UNCHANGED <<attached, dom, triggered, ghosts>>

\* handle: the next handler of the loop, by kind of handler.
Present(f) ==
    /\ f \in Top.todo /\ ~Top.dead /\ f \in DOMAIN Table(d, Top.e, Top.t)
    /\ Top.all \/ Named(d, Top.e, Top.t, f)
NextIs(f) == OnTop("handle") /\ ~Top.ev.now /\ f \in Top.todo
Without(f) == SetTop([Top EXCEPT !.todo = @ \ {f}])

\* A handler deleted since the loop began, or without the event's namespace, is
\* passed over.
PassOver(f) ==
    /\ NextIs(f) /\ ~Present(f)
    /\ stack' = Without(f)
    /\ UNCHANGED <<d, attached, dom, triggered, ghosts>>

\* Mutant of RunFunction: the wrapper of one does not unbind itself.
RunFunctionKeeps(f) ==
    LET table == Table(d, Top.e, Top.t)
    IN  /\ NextIs(f) /\ Present(f) /\ f \in Fn
        /\ Calls < MaxCalls
        /\ d' = IF table[f] = "plain" THEN d ELSE SetTable(d, Top.e, Top.t, [table EXCEPT ![f] = "spent"])
        /\ stack' = Push(Without(f), PageFrame)
        /\ UNCHANGED <<attached, dom, triggered, ghosts>>

\* A function of the page.  A one-shot handler first unbinds itself: from the
\* type that the event object now has.
RunFunction(f) ==
    LET once == Table(d, Top.e, Top.t)[f] # "plain"
        x == remove(d, Top.e, Top.ev.type, {f}, FALSE)
        y == IF f \in DOMAIN Table(x, Top.e, Top.t)
             THEN SetTable(x, Top.e, Top.t, [Table(x, Top.e, Top.t) EXCEPT ![f] = "spent"])
             ELSE x
    IN  /\ NextIs(f) /\ Present(f) /\ f \in Fn
        /\ Calls < MaxCalls
        /\ d' = IF once THEN y ELSE d
        /\ stack' = Push(Deadened(Without(f), d'), PageFrame)
        /\ UNCHANGED <<attached, dom, triggered, ghosts>>

\* closest leaves its mark in the data of the element it finds.
closest(x, e) == Put(x, e, "closest", 0)

\* liveHandler looks for the elements before it runs anything.
RunLive ==
    LET found == Top.ev.target # doc /\ DOMAIN Table(d, Top.e, "liveclick") # {}
    IN  /\ OnTop("handle") /\ NextIs("live") /\ Present("live")
        /\ IF found
           THEN /\ d' = closest(d, Top.ev.target)
                /\ stack' = Push(Without("live"), LiveFrame(d))
           ELSE stack' = Without("live") /\ UNCHANGED d
        /\ UNCHANGED <<attached, dom, triggered, ghosts>>

\* withinElement: the mouse came from outside, so the same event object becomes
\* a mouseenter and the handlers of that type run; or it did not.
RunWithin(outside) ==
    LET ev == [Top.ev EXCEPT !.type = "enter"]
    IN  /\ OnTop("handle") /\ NextIs("within") /\ Present("within")
        /\ stack' = IF outside THEN Push(Without("within"), HandleFrame(d, Top.e, ev))
                    ELSE Without("within")
        /\ UNCHANGED <<d, attached, dom, triggered, ghosts>>

\* The loop ends.  A trigger, and withinElement, gave it their event object; of
\* the browser's event only the stop is kept.
HandleEnds ==
    LET s == Front(stack)
        below == Last(s)
    IN  /\ OnTop("handle")
        /\ Top.todo = {} \/ Top.ev.now
        /\ stack' = IF below.k = "native"
                    THEN Settled(Append(Front(s), [below EXCEPT !.ev.stop = @ \/ Top.ev.stop]))
                    ELSE Append(Front(s), [below EXCEPT !.ev = Top.ev])
        /\ UNCHANGED <<d, attached, dom, triggered, ghosts>>

\* liveHandler runs the next of the functions it found, bound or not.
LiveRuns(f) ==
    /\ OnTop("live") /\ f \in Top.todo
    /\ Calls < MaxCalls
    /\ stack' = Push(SetTop([Top EXCEPT !.todo = @ \ {f}]), PageFrame)
    /\ UNCHANGED <<d, attached, dom, triggered, ghosts>>

LiveEnds ==
    /\ OnTop("live") /\ Top.todo = {}
    /\ stack' = Front(stack)
    /\ UNCHANGED <<d, attached, dom, triggered, ghosts>>

\* A function of the page returns; FALSE stops the event and prevents its
\* default action, and ends the work of liveHandler, which then returns FALSE.
Refused(s) ==
    IF Last(s).k = "handle"
    THEN Append(Front(s), [Last(s) EXCEPT !.ev.stop = TRUE, !.ev.prevent = TRUE])
    ELSE s

Return(ret) ==
    LET s == Front(stack)
    IN  /\ OnTop("page")
        /\ stack' = CASE ret = "false" /\ CalledBy("live", s) -> Refused(Front(s))
                      [] ret = "false" /\ CalledBy("handle", s) -> Refused(s)
                      [] ret = "immediate" /\ CalledBy("handle", s) ->
                           Append(Front(s), [Last(s) EXCEPT !.ev.stop = TRUE, !.ev.now = TRUE])
                      [] OTHER -> s
        /\ UNCHANGED <<d, attached, dom, triggered, ghosts>>

\* A function of the page throws: up to the browser, which goes on with its
\* next listener, or, outside any dispatch, up to the caller of the page.  The
\* functions of readyList behind one that throws are lost: nobody looks at the
\* list again.
Throw ==
    LET native == {i \in DOMAIN stack : stack[i].k = "native"}
    IN  /\ OnTop("page")
        /\ stack' = IF native = {} THEN <<>> ELSE Settled(SubSeq(stack, 1, Max(native)))
        /\ dom' = IF native = {} /\ stack[1].k = "ready" THEN [dom EXCEPT !.list = 0, !.owed = 0] ELSE dom
        /\ UNCHANGED <<d, attached, triggered, ghosts>>
-----------------------------------------------------------------------------
\* Bound: until the document is ready, and in the functions that waited for it, the
\* page does nothing but call ready.
Started == dom.is /\ \A i \in DOMAIN stack : stack[i].k # "ready"

PageCalls ==
    \/ \E b \in Bindings :
        \/ Bind(b) \/ Unbind(b) \/ Live(b) \/ Die(b)
        \/ \E ns \in BOOLEAN : UnbindType(b.e, b.t, ns) \/ UnbindType(b.e, "click", ns)
    \/ \E b1, b2 \in Bindings :
        b1.e = b2.e /\ b1.f = b2.f /\ UnbindBoth(b1.e, b1.t, b2.t, b1.f)
    \/ \E e \in Elem : UnbindAll(e) \/ RemoveElement(e) \/ AppendElement(e)
    \/ \E tr \in Triggers : Trigger(tr)
    \/ \E t \in Globals : TriggerGlobal(t)

Steps ==
    \/ TriggerHandlers \/ TriggerMethod \/ TriggerParent
    \/ GlobalEnds \/ \E e \in Elem : GlobalNext(e)
    \/ UnloadEnds \/ \E e \in Elem : UnloadNext(e)
    \/ ReadyNext \/ ReadyEnds
    \/ PageListener \/ Dispatch
    \/ \E f \in Handlers : PassOver(f)
    \/ \E f \in Fn : RunFunction(f) \/ LiveRuns(f)
    \/ RunLive \/ LiveEnds \/ HandleEnds
    \/ \E outside \in BOOLEAN : RunWithin(outside)
    \/ \E ret \in {"none", "false", "immediate"} : Return(ret)
    \/ Throw

Next ==
    \/ Started /\ PageCalls
    \/ \E u \in Inputs : Started /\ UserEvent(u)
    \/ Ready \/ DocumentReady
    \/ Unload
    \/ Steps

Spec == Init /\ [][Next]_vars

-----------------------------------------------------------------------------
\* The variables have their types; every handle function has its element.
TypeOK ==
    /\ d.id \in [Elem -> Ids \cup {None}]
    /\ DOMAIN d.cache \subseteq Ids
    /\ d.own \in [DOMAIN d.own -> Elem] /\ DOMAIN d.own \subseteq Handles
    /\ \A e \in Elem : \A t \in DOMAIN Events(d, e) :
         t \in Types /\ Table(d, e, t) \in [DOMAIN Table(d, e, t) -> Kinds]
    /\ attached \in SUBSET Elem
    /\ \A i \in DOMAIN stack : stack[i].k \in {"trigger", "native", "handle", "live", "global", "unload", "ready", "page"}
    /\ triggered \in BOOLEAN
    /\ dom \in [is : BOOLEAN, list : 0..MaxReady, owed : 0..MaxReady]
    /\ untouched \in SUBSET Elem /\ leaked \in SUBSET Elem

\* No entry of jQuery.cache is left behind by an element that has lost its
\* expando: removeData drops the two together, whoever calls it, also the cleanup
\* of an unbind made by a handler of the event being dispatched.
NoOrphans == EveryEntryIsReached(d)

\* The browser calls the library for exactly the types an element has a table
\* for, through the handle function in its data, which stands for that element:
\* no event is lost and none reaches an element without handlers.  mouseenter is
\* served by mouseover.  Elements once removed with namespaced handlers, which
\* remove() does not find, keep a listener nobody can take away.
ListenersMatchTables ==
    \A e \in Elem :
        LET h == Get(d, e, "handle")
            types == {l[2] : l \in {m \in d.lis : m[1] = e /\ m[3] = h}}
        IN  /\ types = DOMAIN Events(d, e) \ {"enter"}
            /\ h # None => d.own[h] = e
            /\ e \notin leaked => \A l \in d.lis : l[1] = e => l[3] = h

\* liveHandler is bound to the document as long as, and only as long as, a live
\* registration needs it, and withinElement as long as a mouseenter handler does,
\* through any sequence of bind, live, unbind, die and remove, nested in
\* handlers or not; unless the page itself unbound everything of that type.
ServedByLibrary ==
    /\ \/ <<doc, "click">> \in cut
       \/ "live" \in DOMAIN Table(d, doc, "click") <=> Table(d, doc, "liveclick") # <<>>
    /\ \A e \in Elem :
         \/ <<e, "over">> \in cut
         \/ "within" \in DOMAIN Table(d, e, "over") <=> "enter" \in DOMAIN Events(d, e)

\* A handler of one has been unbound once it has run, also when it runs through
\* withinElement, which changes the type of the event it unbinds from.  (Of a
\* mouseover this is not so: see the README.)
OneShotOnce ==
    \A e \in Elem : \A t \in DOMAIN Events(d, e) :
        t # "over" => \A f \in DOMAIN Table(d, e, t) : Table(d, e, t)[f] # "spent"

\* trigger runs the handlers itself and then calls the native method: the event
\* the browser sends for that does not run them again, unless a handler of the
\* page has called trigger in between, which lowers the flag of both.
NotTwice ==
    \A i \in DOMAIN stack :
        InNative(i) /\ i + 2 <= Len(stack) /\ stack[i + 2].k = "handle" => stack[i].again

\* The flag that makes the library deaf is up only while a trigger is in
\* progress, also after a handler has thrown: the next click of the user is heard.
FlagDown == triggered => \E i \in DOMAIN stack : stack[i].k = "trigger"

\* The flag keeps the library deaf for exactly as long as it should.
DeafInTime == NotTwice /\ FlagDown

\* No function given to ready is forgotten: when nothing is in progress all that
\* have still to run are in the list that the document will work off, though
\* functions of the list may call ready themselves while it is worked off; except
\* for those behind one that throws.
ReadyRuns == stack = <<>> => dom.owed = dom.list

\* An element that was removed and not named by any call since holds no handler,
\* no handle function and no listener (comment in remove(), "Prevent
\* memory leaks"), in whatever handler it was removed; except for what has a
\* namespace, see ListenersMatchTables.
RemovedIsFree ==
    \A e \in untouched \ leaked :
        Get(d, e, "events") = None /\ Get(d, e, "handle") = None /\ ~\E l \in d.lis : l[1] = e

\* Nothing is left in the table, or with the browser, that belongs to no element or
\* to one that was removed.
NothingLeaks == NoOrphans /\ RemovedIsFree
=============================================================================
