----------------------------- MODULE JQFxProofs -----------------------------
(***************************************************************************)
(* Proofs about JQFx for every set of elements, every animation and every  *)
(* bound.                                                                  *)
(*                                                                         *)
(* TimersAreDriven.  The interval is cleared only by a tick that finds no  *)
(* timer left, so the one thing to show is that timers do not appear       *)
(* without it.  They appear in custom, which starts it; and they must not  *)
(* appear in a splice, which takes out of an empty list nothing only if    *)
(* the loop's index is one that a list can have.  That is what the types   *)
(* of the frames are needed for.                                           *)
(*                                                                         *)
(* Order.  An animation that has not been entered is fresh: it has no      *)
(* timer, no call and no ended property; a call that another one has       *)
(* interrupted has done its work; and what animate has still to do has no  *)
(* timer.  So no timer is in the list twice, whatever the page does.       *)
(*                                                                         *)
(* Undisturbed.  As long as nobody has thrown, or stopped what was running *)
(* under a loop, there is at most one loop over the timers, but for a stop *)
(* that finds nothing; the place it remembers still holds the timer that   *)
(* ended there, and no other timer in the list has ended.  A splice by     *)
(* index then takes out the right one.                                     *)
(*                                                                         *)
(* HeadInv.  What lives, by a timer, by animate or by an opt.complete that *)
(* has not yet looked at the queue, is the head of the queue, except while *)
(* stop is at work on the element.                                         *)
(***************************************************************************)
EXTENDS JQFx, SequenceTheorems, TLAPS

LoopFrames ==
    {f \in [k : {"loop"}, a : Anim, shows : BOOLEAN,
            todo : Seq(UNION {Props(a) : a \in Anim}), due : BOOLEAN] :
        f.todo \in Seq(Props(f.a))}
CompleteFrames == [k : {"complete"}, a : Anim, moved : BOOLEAN]
TickFrames == [k : {"tick"}, i : Nat \ {0}, cut : SUBSET AllTimers]
StopFrames ==
    {f \in [k : {"stop"}, e : Elem, end : BOOLEAN, i : Nat, cut : SUBSET AllTimers] :
        f.cut # {} => f.i # 0}
PageFrames == [k : {"page"}, free : BOOLEAN]

Frame == LoopFrames \cup CompleteFrames \cup TickFrames \cup StopFrames \cup PageFrames

Typed ==
    /\ queue \in [Elem -> Seq(Anim)]
    /\ timers \in Seq(AllTimers)
    /\ stack \in Seq(Frame)

-----------------------------------------------------------------------------
(* The frames that the operators of the model make.                        *)

LEMMA KindOfFrame ==
    ASSUME NEW f \in Frame
    PROVE  /\ f.k = "loop" => f \in LoopFrames
           /\ f.k = "complete" => f \in CompleteFrames
           /\ f.k = "tick" => f \in TickFrames
           /\ f.k = "stop" => f \in StopFrames
           /\ f.k = "page" => f \in PageFrames
BY DEF Frame, LoopFrames, CompleteFrames, TickFrames, StopFrames, PageFrames

LEMMA TopIsFrame ==
    ASSUME stack \in Seq(Frame), stack # <<>>
    PROVE  /\ Top \in Frame
           /\ Front(stack) \in Seq(Frame)
<1>1. Len(stack) \in Nat \ {0} /\ \A i \in 1..Len(stack) : stack[i] \in Frame
  BY EmptySeq, ElementOfSeq
<1>2. Top \in Frame
  BY <1>1 DEF Top, Last
<1>3. SubSeq(stack, 1, Len(stack) - 1) \in Seq(Frame)
  BY <1>1, SubSeqProperties
<1>. QED
  BY <1>2, <1>3 DEF Front

LEMMA TimerOfProp ==
    ASSUME NEW a \in Anim, NEW p \in Props(a)
    PROVE  Timer(a, p) \in AllTimers
BY DEF AllTimers

LEMMA AnimOfTimer ==
    ASSUME NEW t \in AllTimers
    PROVE  t.a \in Anim
BY DEF AllTimers, Timer

LEMMA ElOfAnim ==
    ASSUME NEW a \in Anim
    PROVE  /\ el(a) \in Elem
           /\ What[a].props \in Seq(Props(a))
BY FxAssumption DEF IsAnimation, el, Props

LEMMA CompleteIsFrame ==
    ASSUME NEW a \in Anim
    PROVE  Complete(a) \in Frame
BY DEF Complete, Frame, CompleteFrames

LEMMA LoopIsFrame ==
    ASSUME NEW a \in Anim, NEW kind
    PROVE  Loop(a, kind) \in Frame
<1>1. What[a].props \in Seq(Props(a))
  BY ElOfAnim
<1>2. What[a].props \in Seq(UNION {Props(b) : b \in Anim})
  BY <1>1, SeqMonotonic
<1>3. Loop(a, kind) \in LoopFrames
  BY <1>1, <1>2 DEF Loop, LoopFrames
<1>. QED
  BY <1>3 DEF Frame

LEMMA EnterIsFrame ==
    ASSUME NEW a \in Anim
    PROVE  Enter(a) \in Frame
BY CompleteIsFrame, LoopIsFrame DEF Enter

LEMMA PageIsFrame == Page \in Frame
BY DEF Page, Frame, PageFrames

LEMMA StopIsFrame ==
    ASSUME Typed, NEW e \in Elem, NEW end \in BOOLEAN
    PROVE  StopFrame(e, end) \in Frame
<1>1. Len(timers) \in Nat
  BY LenProperties DEF Typed
<1>2. StopFrame(e, end) \in StopFrames
  BY <1>1 DEF StopFrame, StopFrames
<1>. QED
  BY <1>2 DEF Frame

LEMMA StopMoves ==
    ASSUME NEW f \in StopFrames, NEW i \in Nat, NEW cut \in SUBSET AllTimers,
           cut # {} => i # 0
    PROVE  [f EXCEPT !.i = i, !.cut = cut] \in StopFrames
<1>. DEFINE g == [f EXCEPT !.i = i, !.cut = cut]
<1>1. f \in [k : {"stop"}, e : Elem, end : BOOLEAN, i : Nat, cut : SUBSET AllTimers]
  BY DEF StopFrames
<1>2. g \in [k : {"stop"}, e : Elem, end : BOOLEAN, i : Nat, cut : SUBSET AllTimers]
  BY <1>1
<1>3. g.cut = cut /\ g.i = i
  BY <1>1
<1>. HIDE DEF g
<1>4. g \in StopFrames
  BY <1>2, <1>3 DEF StopFrames
<1>. QED
  BY <1>4 DEF g

LEMMA TickIsFrame == TickFrame \in Frame
BY DEF TickFrame, Frame, TickFrames

LEMMA CalledIsTyped ==
    ASSUME Typed, PageRuns
    PROVE  Called \in Seq(Frame)
<1>1. CASE stack = <<>>
  BY <1>1, EmptySeq DEF Called
<1>2. CASE stack # <<>>
  <2>1. stack \in Seq(Frame) /\ Top.k = "page"
    BY <1>2 DEF PageRuns, On, Typed
  <2>2. Top \in PageFrames
    BY <1>2, <2>1, TopIsFrame, KindOfFrame
  <2>3. [Top EXCEPT !.free = FALSE] \in Frame
    BY <2>2 DEF PageFrames, Frame
  <2>. QED
    BY <1>2, <2>1, <2>3, TopIsFrame, AppendProperties DEF Called
<1>. QED
  BY <1>1, <1>2

LEMMA DequeueIsTyped ==
    ASSUME Typed, NEW e \in Elem, NEW s \in Seq(Frame), Dequeue(e, s)
    PROVE  /\ queue' \in [Elem -> Seq(Anim)]
           /\ stack' \in Seq(Frame)
<1>1. queue[e] \in Seq(Anim) /\ queue \in [Elem -> Seq(Anim)]
  BY DEF Typed
<1>2. CASE Len(queue[e]) > 1
  <2>1. queue[e] # <<>> /\ 2 \in 1..Len(queue[e])
    BY <1>1, <1>2, LenProperties, EmptySeq
  <2>2. Tail(queue[e]) \in Seq(Anim) /\ queue[e][2] \in Anim
    BY <1>1, <2>1, HeadTailProperties, ElementOfSeq
  <2>3. /\ queue' = [queue EXCEPT ![e] = Tail(queue[e])]
        /\ stack' = Append(s, Enter(queue[e][2]))
    BY <1>2 DEF Dequeue
  <2>4. Enter(queue[e][2]) \in Frame
    BY <2>2, EnterIsFrame
  <2>. QED
    BY <1>1, <2>2, <2>3, <2>4, AppendProperties
<1>3. CASE ~(Len(queue[e]) > 1)
  BY <1>1, <1>3, EmptySeq DEF Dequeue
<1>. QED
  BY <1>2, <1>3

LEMMA LastStepIsTyped ==
    ASSUME NEW t \in AllTimers, NEW s \in Seq(Frame), LastStep(t, s)
    PROVE  stack' \in Seq(Frame)
BY AnimOfTimer, CompleteIsFrame, AppendProperties DEF LastStep

-----------------------------------------------------------------------------
(* Each action keeps the types.                                            *)

LEMMA PageKeepsTypes ==
    ASSUME Typed,
           \/ \E a \in Anim : Animate(a)
           \/ \E e \in Elem :
               \/ Display(e) \/ RemoveElement(e)
               \/ \E clear, end \in BOOLEAN : Stop(e, clear, end)
    PROVE  Typed'
<1>1. ASSUME NEW a \in Anim, Animate(a) PROVE Typed'
  <2>1. Called \in Seq(Frame) /\ timers' = timers /\ el(a) \in Elem
    BY <1>1, CalledIsTyped, ElOfAnim DEF Animate
  <2>2. RunNow(a) => stack' \in Seq(Frame)
    BY <2>1, EnterIsFrame, AppendProperties DEF RunNow
  <2>3. CASE What[a].queued
    <3>1. queue' = [queue EXCEPT ![el(a)] = Append(queue[el(a)], a)]
      BY <1>1, <2>3 DEF Animate, Enqueue
    <3>2. queue' \in [Elem -> Seq(Anim)]
      BY <2>1, <3>1, AppendProperties DEF Typed
    <3>3. stack' \in Seq(Frame)
      BY <1>1, <2>1, <2>2, <2>3 DEF Animate, Enqueue
    <3>. QED
      BY <2>1, <3>2, <3>3 DEF Typed
  <2>4. CASE ~What[a].queued
    BY <1>1, <2>1, <2>2, <2>4 DEF Animate, Typed
  <2>. QED
    BY <2>3, <2>4
<1>2. ASSUME NEW e \in Elem, Display(e) PROVE Typed'
  <2>1. Called \in Seq(Frame)
    BY <1>2, CalledIsTyped DEF Display
  <2>. QED
    BY <1>2, <2>1 DEF Display, Typed
<1>3. ASSUME NEW e \in Elem, RemoveElement(e) PROVE Typed'
  <2>1. Called \in Seq(Frame)
    BY <1>3, CalledIsTyped DEF RemoveElement
  <2>. QED
    BY <1>3, <2>1, EmptySeq DEF RemoveElement, Typed
<1>4. ASSUME NEW e \in Elem, NEW clear \in BOOLEAN, NEW end \in BOOLEAN,
             Stop(e, clear, end)
      PROVE  Typed'
  <2>1. Called \in Seq(Frame) /\ StopFrame(e, end) \in Frame
    BY <1>4, CalledIsTyped, StopIsFrame DEF Stop
  <2>2. stack' \in Seq(Frame)
    BY <1>4, <2>1, AppendProperties DEF Stop
  <2>3. queue' \in [Elem -> Seq(Anim)]
    BY <1>4, EmptySeq DEF Stop, Emptied, Typed
  <2>. QED
    BY <1>4, <2>2, <2>3 DEF Stop, Typed
<1>. QED
  BY <1>1, <1>2, <1>3, <1>4

LEMMA LoopKeepsTypes ==
    ASSUME Typed, Custom \/ Shown \/ LoopEnds
    PROVE  Typed'
<1>1. /\ stack \in Seq(Frame) /\ timers \in Seq(AllTimers) /\ stack # <<>>
      /\ Top.k = "loop"
  BY DEF Custom, Shown, LoopEnds, On, Typed
<1>2. Top \in LoopFrames /\ Front(stack) \in Seq(Frame)
  BY <1>1, TopIsFrame, KindOfFrame
<1>3. CASE Custom
  <2>. DEFINE t == Timer(Top.a, Head(Top.todo))
              f == [Top EXCEPT !.todo = Tail(@), !.due = Top.shows]
              s == Append(Front(stack), f)
  <2>1. /\ Top.todo # <<>> /\ Top.todo \in Seq(Props(Top.a)) /\ Top.a \in Anim
        /\ Top.shows \in BOOLEAN
    BY <1>2, <1>3 DEF Custom, LoopFrames
  <2>2. /\ Head(Top.todo) \in Props(Top.a)
        /\ Tail(Top.todo) \in Seq(Props(Top.a))
        /\ Tail(Top.todo) \in Seq(UNION {Props(a) : a \in Anim})
    <3>1. Tail(Top.todo) \in Seq(Props(Top.a))
      BY <2>1, HeadTailProperties
    <3>. DEFINE U == UNION {Props(a) : a \in Anim}
    <3>2. Props(Top.a) \subseteq U
      BY <2>1
    <3>3. Tail(Top.todo) \in Seq(U)
      <4>. HIDE DEF U
      <4>. QED
        BY <3>1, <3>2, SeqMonotonic
    <3>. QED
      BY <2>1, <3>1, <3>3, HeadTailProperties
  <2>3. t \in AllTimers
    BY <2>1, <2>2, TimerOfProp
  <2>4. f \in LoopFrames
    BY <1>2, <2>1, <2>2 DEF LoopFrames
  <2>5. s \in Seq(Frame)
    BY <1>2, <2>4, AppendProperties DEF Frame
  <2>6. CASE What[Top.a].instant
    <3>1. LastStep(t, s) /\ UNCHANGED <<queue, timers>>
      BY <1>3, <2>6 DEF Custom
    <3>. HIDE DEF t, s
    <3>. QED
      BY <2>3, <2>5, <3>1, LastStepIsTyped DEF Typed
  <2>7. CASE ~What[Top.a].instant
    <3>1. timers' = Append(timers, t) /\ stack' = s /\ queue' = queue
      BY <1>3, <2>7 DEF Custom
    <3>. HIDE DEF t, s
    <3>. QED
      BY <1>1, <2>3, <2>5, <3>1, AppendProperties DEF Typed
  <2>. QED
    BY <2>6, <2>7
<1>4. CASE Shown
  <2>1. [Top EXCEPT !.due = FALSE] \in LoopFrames
    BY <1>2 DEF LoopFrames
  <2>2. stack' \in Seq(Frame)
    BY <1>2, <1>4, <2>1, AppendProperties DEF Shown, Frame
  <2>. QED
    BY <1>4, <2>2 DEF Shown, Typed
<1>5. CASE LoopEnds
  BY <1>2, <1>5 DEF LoopEnds, Typed
<1>. QED
  BY <1>3, <1>4, <1>5

LEMMA CompleteKeepsTypes ==
    ASSUME Typed, Move \/ CallPage
    PROVE  Typed'
<1>1. stack \in Seq(Frame) /\ stack # <<>> /\ Top.k = "complete"
  BY DEF Move, CallPage, On, Typed
<1>2. Top \in CompleteFrames /\ Front(stack) \in Seq(Frame)
  BY <1>1, TopIsFrame, KindOfFrame
<1>3. CASE Move
  <2>. DEFINE s == Append(Front(stack), [Top EXCEPT !.moved = TRUE])
  <2>1. [Top EXCEPT !.moved = TRUE] \in Frame /\ Top.a \in Anim
    BY <1>2 DEF CompleteFrames, Frame
  <2>2. s \in Seq(Frame) /\ el(Top.a) \in Elem
    BY <1>2, <2>1, AppendProperties, ElOfAnim
  <2>3. /\ IF What[Top.a].queued THEN Dequeue(el(Top.a), s)
           ELSE stack' = s /\ UNCHANGED <<queue, mode>>
        /\ timers' = timers
    BY <1>3 DEF Move
  <2>. HIDE DEF s
  <2>. QED
    BY <2>2, <2>3, DequeueIsTyped DEF Typed
<1>4. CASE CallPage
  BY <1>2, <1>4, PageIsFrame, AppendProperties DEF CallPage, Typed
<1>. QED
  BY <1>3, <1>4

LEMMA TickKeepsTypes ==
    ASSUME Typed,
           TickGoesOn \/ TickEnds \/ (\E t \in AllTimers : TickLast(t))
    PROVE  Typed'
<1>1. stack \in Seq(Frame) /\ stack # <<>> /\ Top.k = "tick"
  BY DEF TickGoesOn, TickLast, TickEnds, AtTimer, On, Typed
<1>2. Top \in TickFrames /\ Front(stack) \in Seq(Frame)
  BY <1>1, TopIsFrame, KindOfFrame
<1>3. CASE TickGoesOn
  <2>1. [Top EXCEPT !.i = @ + 1] \in TickFrames
    BY <1>2 DEF TickFrames
  <2>2. stack' \in Seq(Frame)
    BY <1>2, <1>3, <2>1, AppendProperties DEF TickGoesOn, Frame
  <2>. QED
    BY <1>3, <2>2 DEF TickGoesOn, Typed
<1>4. ASSUME NEW t \in AllTimers, TickLast(t) PROVE Typed'
  <2>1. [Top EXCEPT !.cut = {t}] \in TickFrames
    BY <1>2 DEF TickFrames
  <2>2. Append(Front(stack), [Top EXCEPT !.cut = {t}]) \in Seq(Frame)
    BY <1>2, <2>1, AppendProperties DEF Frame
  <2>3. stack' \in Seq(Frame)
    BY <1>4, <2>2, LastStepIsTyped DEF TickLast
  <2>. QED
    BY <1>4, <2>3 DEF TickLast, Typed
<1>5. CASE TickEnds
  BY <1>2, <1>5 DEF TickEnds, Typed
<1>. QED
  BY <1>3, <1>4, <1>5

LEMMA StopKeepsTypes ==
    ASSUME Typed, StopNext \/ StopEnds
    PROVE  Typed'
<1>1. stack \in Seq(Frame) /\ stack # <<>> /\ Top.k = "stop"
  BY DEF StopNext, StopEnds, On, Typed
<1>2. /\ Top \in StopFrames /\ Top.i \in Nat /\ Top.e \in Elem
      /\ Front(stack) \in Seq(Frame)
  BY <1>1, TopIsFrame, KindOfFrame DEF StopFrames
<1>3. CASE StopNext
  <2>1. PICK i \in Below :
           LET t == timers[i]
               s == Append(Front(stack), [Top EXCEPT !.i = i, !.cut = {t}])
           IN  IF Top.end THEN LastStep(t, s) ELSE stack' = s
    BY <1>3 DEF StopNext
  <2>. DEFINE t == timers[i]
              f == [Top EXCEPT !.i = i, !.cut = {t}]
              s == Append(Front(stack), f)
  <2>2. i \in 1..Len(timers) /\ Len(timers) \in Nat
    <3>1. Len(timers) \in Nat
      BY LenProperties DEF Typed
    <3>2. Top.i <= Len(timers)
      BY <1>3 DEF StopNext
    <3>. QED
      BY <1>2, <3>1, <3>2 DEF Below
  <2>3. t \in AllTimers
    BY <2>2, ElementOfSeq DEF Typed
  <2>4. f \in StopFrames
    <3>1. i \in Nat /\ {t} \in SUBSET AllTimers /\ ({t} # {} => i # 0)
      BY <2>2, <2>3
    <3>. HIDE DEF t
    <3>. QED
      BY <1>2, <3>1, StopMoves
  <2>5. s \in Seq(Frame)
    BY <1>2, <2>4, AppendProperties DEF Frame
  <2>6. IF Top.end THEN LastStep(t, s) ELSE stack' = s
    BY <2>1
  <2>. HIDE DEF t, s
  <2>7. stack' \in Seq(Frame)
    BY <2>3, <2>5, <2>6, LastStepIsTyped
  <2>. QED
    BY <1>3, <2>7 DEF StopNext, Typed
<1>4. CASE StopEnds
  <2>1. CASE Top.end
    BY <1>2, <1>4, <2>1 DEF StopEnds, Typed
  <2>2. CASE ~Top.end
    <3>1. Dequeue(Top.e, Front(stack)) /\ timers' = timers
      BY <1>4, <2>2 DEF StopEnds
    <3>. QED
      BY <1>2, <3>1, DequeueIsTyped DEF Typed
  <2>. QED
    BY <2>1, <2>2
<1>. QED
  BY <1>3, <1>4

LEMMA SpliceKeepsTypes ==
    ASSUME Typed, TickSplice \/ StopSplice
    PROVE  Typed'
<1>1. stack \in Seq(Frame) /\ timers \in Seq(AllTimers) /\ stack # <<>>
  BY DEF TickSplice, StopSplice, On, Typed
<1>2. Top \in Frame /\ Front(stack) \in Seq(Frame)
  BY <1>1, TopIsFrame
<1>3. ASSUME NEW next, Splice(next),
             [Top EXCEPT !.i = next, !.cut = {}] \in Frame,
             Top.i \in Nat \ {0}
      PROVE  Typed'
  <2>1. stack' \in Seq(Frame) /\ queue' = queue
    BY <1>2, <1>3, AppendProperties DEF Splice
  <2>2. timers' \in Seq(AllTimers)
    <3>1. CASE Top.i <= Len(timers)
      <4>1. Len(timers) \in Nat /\ \A i \in 1..Len(timers) : timers[i] \in AllTimers
        BY <1>1, LenProperties, ElementOfSeq
      <4>2. SubSeq(timers, 1, Top.i - 1) \in Seq(AllTimers)
        BY <1>3, <3>1, <4>1, SubSeqProperties
      <4>3. SubSeq(timers, Top.i + 1, Len(timers)) \in Seq(AllTimers)
        BY <1>3, <3>1, <4>1, SubSeqProperties
      <4>. QED
        BY <1>3, <3>1, <4>2, <4>3, ConcatProperties DEF Splice, RemoveAt
    <3>2. CASE ~(Top.i <= Len(timers))
      BY <1>1, <1>3, <3>2 DEF Splice
    <3>. QED
      BY <3>1, <3>2
  <2>. QED
    BY <2>1, <2>2 DEF Typed
<1>4. CASE TickSplice
  <2>1. Top \in TickFrames
    BY <1>2, <1>4, KindOfFrame DEF TickSplice, On
  <2>2. [Top EXCEPT !.i = Top.i, !.cut = {}] \in TickFrames /\ Top.i \in Nat \ {0}
    BY <2>1 DEF TickFrames
  <2>. QED
    BY <1>3, <1>4, <2>2 DEF TickSplice, Frame
<1>5. CASE StopSplice
  <2>1. Top \in StopFrames
    BY <1>2, <1>5, KindOfFrame DEF StopSplice, On
  <2>2. Top.i \in Nat \ {0}
    BY <1>5, <2>1 DEF StopSplice, Splice, StopFrames
  <2>3. [Top EXCEPT !.i = Top.i - 1, !.cut = {}] \in StopFrames
    <3>1. Top.i - 1 \in Nat /\ {} \in SUBSET AllTimers
      BY <2>2
    <3>. QED
      BY <2>1, <3>1, StopMoves
  <2>. QED
    BY <1>3, <1>5, <2>2, <2>3 DEF StopSplice, Frame
<1>. QED
  BY <1>4, <1>5

LEMMA TypesStutter == Typed /\ UNCHANGED <<queue, timers, stack>> => Typed'
BY DEF Typed

LEMMA NextKeepsTypes == Typed /\ [Next]_vars => Typed'
<1>. SUFFICES ASSUME Typed, [Next]_vars
              PROVE  Typed'
  OBVIOUS
<1>1. CASE UNCHANGED vars
  BY <1>1, TypesStutter DEF vars
<1>2. CASE \/ \E a \in Anim : Animate(a)
           \/ \E e \in Elem :
               \/ Display(e) \/ RemoveElement(e)
               \/ \E clear, end \in BOOLEAN : Stop(e, clear, end)
  BY <1>2, PageKeepsTypes
<1>3. CASE Calculates
  <2>1. CASE StopBreaks
    BY <2>1, EmptySeq DEF StopBreaks, Unwound, Typed
  <2>. QED
    BY <1>3, <2>1, LoopKeepsTypes, CompleteKeepsTypes, TickKeepsTypes, StopKeepsTypes,
       SpliceKeepsTypes
       DEF Calculates
<1>4. CASE Return
  <2>1. Front(stack) \in Seq(Frame)
    BY <1>4, TopIsFrame DEF Return, On, Typed
  <2>. QED
    BY <1>4, <2>1 DEF Return, Typed
<1>5. CASE Throw
  BY <1>5, EmptySeq DEF Throw, Unwound, Typed
<1>6. CASE Tick
  BY <1>6, TickIsFrame, EmptySeq, AppendProperties DEF Tick, Typed
<1>7. CASE TickGoesOn \/ (\E t \in AllTimers : TickLast(t))
  BY <1>7, TickKeepsTypes
<1>. QED
  BY <1>1, <1>2, <1>3, <1>4, <1>5, <1>6, <1>7 DEF Next

\* The queues, the list of timers and the calls in progress are made of what they
\* should be; in particular a loop over the timers never has an index below the list
\* when it is about to take something out.
THEOREM FramesTyped == Spec => []Typed
<1>1. Init => Typed
  BY EmptySeq DEF Init, Typed
<1>. QED
  BY <1>1, NextKeepsTypes, PTL DEF Spec

-----------------------------------------------------------------------------
LEMMA SpliceOfNothing ==
    ASSUME NEW next, Splice(next), Top.i \in Nat \ {0}, timers = <<>>
    PROVE  timers' = <<>>
BY EmptySeq DEF Splice

LEMMA NextKeepsDriven == Typed /\ TimersAreDriven /\ [Next]_vars => TimersAreDriven'
<1>. SUFFICES ASSUME Typed, TimersAreDriven, [Next]_vars
              PROVE  TimersAreDriven'
  OBVIOUS
<1>1. CASE UNCHANGED <<timers, interval>>
  BY <1>1 DEF TimersAreDriven
<1>2. CASE Custom
  BY <1>1, <1>2 DEF Custom, TimersAreDriven
<1>3. CASE TickEnds
  BY <1>3 DEF TickEnds, TimersAreDriven
<1>4. CASE TickSplice \/ StopSplice
  <2>1. stack \in Seq(Frame) /\ stack # <<>>
    BY <1>4 DEF TickSplice, StopSplice, On, Typed
  <2>2. Top.i \in Nat \ {0}
    <3>1. Top \in TickFrames \/ (Top \in StopFrames /\ Top.cut # {})
      BY <1>4, <2>1, TopIsFrame, KindOfFrame DEF TickSplice, StopSplice, Splice, On
    <3>. QED
      BY <3>1 DEF TickFrames, StopFrames
  <2>3. \E next : Splice(next)
    BY <1>4 DEF TickSplice, StopSplice
  <2>4. interval' = interval
    BY <2>3 DEF Splice
  <2>. QED
    BY <2>2, <2>3, <2>4, SpliceOfNothing DEF TimersAreDriven
<1>5. \/ UNCHANGED <<timers, interval>>
      \/ Custom \/ TickEnds \/ TickSplice \/ StopSplice
  <2>1. Calculates => \/ UNCHANGED <<timers, interval>>
                      \/ Custom \/ TickEnds \/ TickSplice \/ StopSplice
    BY DEF Calculates, Shown, LoopEnds, Move, CallPage, StopNext, StopEnds, StopBreaks, Unwound
  <2>. QED
    BY <2>1 DEF Next, vars, Animate, Display, RemoveElement, Stop, Return, Throw, Unwound,
       Tick, TickGoesOn, TickLast
<1>. QED
  BY <1>1, <1>2, <1>3, <1>4, <1>5

\* As long as there are timers the interval runs.
THEOREM TimersDriven == Spec => []TimersAreDriven
<1>1. Init => Typed /\ TimersAreDriven
  BY EmptySeq DEF Init, Typed, TimersAreDriven
<1>2. (Typed /\ TimersAreDriven) /\ [Next]_vars => (Typed /\ TimersAreDriven)'
  BY NextKeepsTypes, NextKeepsDriven
<1>. QED
  BY <1>1, <1>2, PTL DEF Spec

(***************************************************************************)
(* The order in which animations come.                                     *)
(***************************************************************************)

Loops == {"tick", "stop"}

\* Animation a has a call in progress, or a timer.
OnStack(s, a) == \E j \in 1..Len(s) : s[j].k \in {"loop", "complete"} /\ s[j].a = a
Timed(ts, a) == \E j \in 1..Len(ts) : ts[j].a = a

Fresh(a) == ended[a] = {} /\ ~OnStack(stack, a) /\ ~Timed(timers, a)

\* The animations that have not been entered: not begun, or behind another one.
ToCome ==
    {a \in Anim : a \notin begun \/ \E e \in Elem : \E i \in 2..Len(queue[e]) : queue[e][i] = a}

\* A call that another call has interrupted.  d: the properties that have ended.
Waits(f, d) ==
    /\ f.k = "loop" => f.todo = <<>> /\ d[f.a] = Props(f.a)
    /\ f.k = "complete" => f.moved
    /\ f.k \in Loops => f.cut # {}
    /\ f.k = "stop" => f.end

\* What the innermost loop of animate has still to do has no timer and has not ended.
Ahead(f, ts, d) ==
    f.k = "loop" =>
        /\ IsInjective(f.todo)
        /\ \A i \in 1..Len(f.todo) :
            /\ f.todo[i] \notin d[f.a]
            /\ \A j \in 1..Len(ts) : ts[j] # Timer(f.a, f.todo[i])

EndedTyped ==
    /\ ended \in [Anim -> SUBSET UNION {Props(a) : a \in Anim}]
    /\ \A a \in Anim : ended[a] \subseteq Props(a)

QueueOrder ==
    /\ begun \subseteq Anim
    /\ \A e \in Elem :
        /\ \A i, j \in 1..Len(queue[e]) : queue[e][i] = queue[e][j] => i = j
        /\ \A i \in 1..Len(queue[e]) :
            el(queue[e][i]) = e /\ What[queue[e][i]].queued /\ queue[e][i] \in begun

AllFresh == \A a \in ToCome : Fresh(a)

Nested == \A j \in 1..(Len(stack) - 1) : Waits(stack[j], ended)

TopAhead == stack # <<>> => Ahead(stack[Len(stack)], timers, ended)

TimersDiffer == \A i, j \in 1..Len(timers) : timers[i] = timers[j] => i = j

Order ==
    /\ Typed /\ EndedTyped /\ QueueOrder /\ AllFresh
    /\ Nested /\ TopAhead /\ TimersDiffer

-----------------------------------------------------------------------------
(* How the stack changes: t keeps the m outer calls of the stack, the      *)
(* innermost of which becomes g when it is kept; then f may come on top.   *)

Keeps(t, m, g) ==
    /\ m \in 0..Len(stack) /\ t \in Seq(Frame) /\ Len(t) = m
    /\ \A j \in 1..m : t[j] = IF j = Len(stack) THEN g ELSE stack[j]

Pushes(t, m, g, f) ==
    /\ m \in 0..Len(stack) /\ t \in Seq(Frame) /\ Len(t) = m + 1 /\ t[m + 1] = f
    /\ \A j \in 1..m : t[j] = IF j = Len(stack) THEN g ELSE stack[j]

LEMMA StackShape ==
    ASSUME Typed
    PROVE  /\ Len(stack) \in Nat /\ (stack = <<>> <=> Len(stack) = 0)
           /\ \A j \in 1..Len(stack) : stack[j] \in Frame
           /\ stack # <<>> => /\ Len(stack) # 0 /\ Top = stack[Len(stack)]
                              /\ Top \in Frame
<1>1. stack \in Seq(Frame)
  BY DEF Typed
<1>2. Len(stack) \in Nat /\ (stack = <<>> <=> Len(stack) = 0)
  BY <1>1, EmptySeq, LenProperties
<1>3. \A j \in 1..Len(stack) : stack[j] \in Frame
  BY <1>1, ElementOfSeq
<1>4. stack # <<>> => Len(stack) \in 1..Len(stack)
  BY <1>2
<1>. QED
  BY <1>2, <1>3, <1>4 DEF Top, Last

LEMMA FrontKeeps ==
    ASSUME Typed, stack # <<>>, NEW g
    PROVE  Keeps(Front(stack), Len(stack) - 1, g)
<1>1. Len(stack) \in Nat \ {0} /\ \A j \in 1..Len(stack) : stack[j] \in Frame
  BY StackShape
<1>. DEFINE n == Len(stack)
<1>2. 1 \in Int /\ n - 1 \in Int /\ \A j \in 1..(n - 1) : stack[j] \in Frame
  BY <1>1
<1>3. /\ SubSeq(stack, 1, n - 1) \in Seq(Frame)
      /\ Len(SubSeq(stack, 1, n - 1)) = IF 1 <= n - 1 THEN (n - 1) - 1 + 1 ELSE 0
      /\ \A j \in 1..((n - 1) - 1 + 1) : SubSeq(stack, 1, n - 1)[j] = stack[1 + j - 1]
  <2>. HIDE DEF n
  <2>. QED
    BY <1>2, SubSeqProperties
<1>4. /\ Len(SubSeq(stack, 1, n - 1)) = n - 1
      /\ \A j \in 1..(n - 1) : SubSeq(stack, 1, n - 1)[j] = stack[j]
  <2>1. n \in Nat \ {0} /\ ((n - 1) - 1 + 1) = n - 1 /\ (\A j \in Int : 1 + j - 1 = j)
    BY <1>1
  <2>. HIDE DEF n
  <2>2. Len(SubSeq(stack, 1, n - 1)) = n - 1
    BY <1>3, <2>1
  <2>3. ASSUME NEW j \in 1..(n - 1) PROVE SubSeq(stack, 1, n - 1)[j] = stack[j]
    <3>1. j \in 1..((n - 1) - 1 + 1) /\ 1 + j - 1 = j
      BY <2>1
    <3>2. SubSeq(stack, 1, n - 1)[j] = stack[1 + j - 1]
      BY <1>3, <3>1
    <3>. QED
      BY <3>1, <3>2
  <2>. QED
    BY <2>2, <2>3
<1>. QED
  BY <1>1, <1>3, <1>4 DEF Keeps, Front

LEMMA AppendPushes ==
    ASSUME NEW s, NEW m, NEW g, NEW f \in Frame, Keeps(s, m, g)
    PROVE  Pushes(Append(s, f), m, g, f)
<1>1. s \in Seq(Frame) /\ m \in Nat /\ Len(s) = m
  BY LenProperties DEF Keeps
<1>2. /\ Append(s, f) \in Seq(Frame) /\ Len(Append(s, f)) = m + 1
      /\ \A j \in 1..(m + 1) : Append(s, f)[j] = IF j <= m THEN s[j] ELSE f
  BY <1>1, AppendProperties
<1>. QED
  BY <1>1, <1>2 DEF Keeps, Pushes

LEMMA ReplaceKeeps ==
    ASSUME Typed, stack # <<>>, NEW g \in Frame
    PROVE  Keeps(Append(Front(stack), g), Len(stack), g)
<1>1. Pushes(Append(Front(stack), g), Len(stack) - 1, g, g)
  BY FrontKeeps, AppendPushes
<1>. QED
  BY <1>1, StackShape DEF Pushes, Keeps

LEMMA EmptyKeeps ==
    ASSUME Typed, NEW g
    PROVE  Keeps(<<>>, 0, g)
BY StackShape, EmptySeq DEF Keeps

LEMMA CalledKeeps ==
    ASSUME Typed, PageRuns
    PROVE  \E g : /\ Keeps(Called, Len(stack), g)
                  /\ stack # <<>> => g \in PageFrames /\ stack[Len(stack)] \in PageFrames
<1>1. CASE stack = <<>>
  BY <1>1, EmptyKeeps, StackShape DEF Called
<1>2. CASE stack # <<>>
  <2>. DEFINE g == [Top EXCEPT !.free = FALSE]
  <2>1. Top = stack[Len(stack)] /\ Top \in PageFrames
    BY <1>2, StackShape, KindOfFrame DEF PageRuns, On
  <2>2. g \in PageFrames
    BY <2>1 DEF PageFrames
  <2>3. Keeps(Append(Front(stack), g), Len(stack), g)
    BY <1>2, <2>2, ReplaceKeeps DEF Frame
  <2>. QED
    BY <1>2, <2>1, <2>2, <2>3 DEF Called
<1>. QED
  BY <1>1, <1>2

-----------------------------------------------------------------------------
(* What follows for the frames of a stack that changes so.                 *)

\* The properties that have ended grow.
Grows(d) ==
    /\ d \in [Anim -> SUBSET UNION {Props(a) : a \in Anim}]
    /\ \A a \in Anim : ended[a] \subseteq d[a] /\ d[a] \subseteq Props(a)

LEMMA WaitsGrows ==
    ASSUME NEW f \in Frame, NEW d, Grows(d), Waits(f, ended)
    PROVE  Waits(f, d)
<1>1. f.k = "loop" => f.a \in Anim
  BY KindOfFrame DEF LoopFrames
<1>. QED
  BY <1>1 DEF Waits, Grows

LEMMA NestedKeeps ==
    ASSUME Typed, Nested, Grows(ended'), NEW m, NEW g, Keeps(stack', m, g)
    PROVE  Nested'
<1>. SUFFICES ASSUME NEW j \in 1..(Len(stack') - 1) PROVE Waits(stack'[j], ended')
  BY DEF Nested
<1>1. j \in 1..m /\ j # Len(stack) /\ j \in 1..(Len(stack) - 1) /\ stack'[j] = stack[j]
      /\ j \in 1..Len(stack)
  BY StackShape DEF Keeps
<1>. QED
  BY <1>1, WaitsGrows, StackShape DEF Nested

LEMMA NestedPushes ==
    ASSUME Typed, Nested, Grows(ended'), NEW m, NEW g, NEW f, Pushes(stack', m, g, f),
           m = Len(stack) /\ m # 0 => Waits(g, ended')
    PROVE  Nested'
<1>. SUFFICES ASSUME NEW j \in 1..(Len(stack') - 1) PROVE Waits(stack'[j], ended')
  BY DEF Nested
<1>1. /\ j \in 1..m /\ m \in 0..Len(stack) /\ Len(stack) \in Nat
      /\ stack'[j] = IF j = Len(stack) THEN g ELSE stack[j]
  BY StackShape DEF Pushes
<1>2. CASE j = Len(stack)
  BY <1>1, <1>2
<1>3. CASE j # Len(stack)
  <2>1. j \in 1..(Len(stack) - 1) /\ j \in 1..Len(stack) /\ stack'[j] = stack[j]
    BY <1>1, <1>3
  <2>. QED
    BY <2>1, WaitsGrows, StackShape DEF Nested
<1>. QED
  BY <1>2, <1>3

\* A loop of animate that was interrupted has nothing to do.
LEMMA WaitsIsAhead ==
    ASSUME NEW f, NEW d, NEW ts, NEW b, Waits(f, b)
    PROVE  Ahead(f, ts, d)
<1>1. CASE f.k = "loop"
  <2>1. f.todo = <<>>
    BY <1>1 DEF Waits
  <2>. DEFINE e == <<>>
  <2>2. Len(e) = 0 /\ DOMAIN e = {}
    BY EmptySeq
  <2>3. IsInjective(e) /\ 1..Len(e) = {}
    <3>. HIDE DEF e
    <3>. QED
      BY <2>2 DEF IsInjective
  <2>. QED
    BY <2>1, <2>3 DEF Ahead
<1>. QED
  BY <1>1 DEF Ahead

LEMMA AheadKeeps ==
    ASSUME Typed, Nested, NEW m, NEW g, Keeps(stack', m, g),
           m = Len(stack) /\ m # 0 => Ahead(g, timers', ended')
    PROVE  TopAhead'
<1>. SUFFICES ASSUME stack' # <<>> PROVE Ahead(stack'[Len(stack')], timers', ended')
  BY DEF TopAhead
<1>1. Len(stack') = m /\ m \in 0..Len(stack) /\ m # 0 /\ Len(stack) \in Nat
  BY StackShape, EmptySeq DEF Keeps
<1>2. CASE m = Len(stack)
  BY <1>1, <1>2 DEF Keeps
<1>3. CASE m # Len(stack)
  <2>1. m \in 1..(Len(stack) - 1) /\ stack'[m] = stack[m]
    BY <1>1, <1>3 DEF Keeps
  <2>. QED
    BY <1>1, <2>1, WaitsIsAhead DEF Nested
<1>. QED
  BY <1>2, <1>3

LEMMA AheadPushes ==
    ASSUME Typed, NEW m, NEW g, NEW f, Pushes(stack', m, g, f),
           Ahead(f, timers', ended')
    PROVE  TopAhead'
BY DEF TopAhead, Pushes

\* g is a call of the same animation as the innermost one was.
Same(g) ==
    g.k \in {"loop", "complete"} =>
        stack # <<>> /\ stack[Len(stack)].k \in {"loop", "complete"} /\ g.a = stack[Len(stack)].a

LEMMA OnStackKeeps ==
    ASSUME Typed, NEW t, NEW m, NEW g, Keeps(t, m, g), NEW a, OnStack(t, a),
           m = Len(stack) /\ m # 0 => Same(g)
    PROVE  OnStack(stack, a)
<1>1. PICK j \in 1..Len(t) : t[j].k \in {"loop", "complete"} /\ t[j].a = a
  BY DEF OnStack
<1>2. /\ j \in 1..m /\ j \in 1..Len(stack) /\ m \in 0..Len(stack) /\ Len(stack) \in Nat
      /\ t[j] = IF j = Len(stack) THEN g ELSE stack[j]
  BY StackShape DEF Keeps
<1>. QED
  BY <1>1, <1>2 DEF OnStack, Same

LEMMA OnStackPushes ==
    ASSUME Typed, NEW t, NEW m, NEW g, NEW f, Pushes(t, m, g, f), NEW a, OnStack(t, a),
           m = Len(stack) /\ m # 0 => Same(g)
    PROVE  OnStack(stack, a) \/ (f.k \in {"loop", "complete"} /\ f.a = a)
<1>1. PICK j \in 1..Len(t) : t[j].k \in {"loop", "complete"} /\ t[j].a = a
  BY DEF OnStack
<1>2. m \in 0..Len(stack) /\ Len(stack) \in Nat /\ Len(t) = m + 1 /\ t[m + 1] = f
  BY StackShape DEF Pushes
<1>3. CASE j = m + 1
  BY <1>1, <1>2, <1>3
<1>4. CASE j # m + 1
  <2>1. j \in 1..m
    BY <1>2, <1>4
  <2>2. j \in 1..Len(stack) /\ t[j] = IF j = Len(stack) THEN g ELSE stack[j]
    BY <1>2, <2>1 DEF Pushes
  <2>. QED
    BY <1>1, <1>2, <2>1, <2>2 DEF OnStack, Same
<1>. QED
  BY <1>3, <1>4

-----------------------------------------------------------------------------
(* The queues.                                                             *)

LEMMA QueueSame ==
    ASSUME QueueOrder, queue' = queue, begun' = begun
    PROVE  QueueOrder' /\ ToCome' = ToCome
BY DEF QueueOrder, ToCome

LEMMA QueueEmptied ==
    ASSUME Typed, QueueOrder, NEW e \in Elem, queue' = [queue EXCEPT ![e] = <<>>],
           begun' = begun
    PROVE  QueueOrder' /\ ToCome' \subseteq ToCome
<1>. DEFINE n == <<>>
<1>1. Len(n) = 0 /\ 1..Len(n) = {} /\ 2..Len(n) = {}
  BY EmptySeq
<1>2. queue' = [queue EXCEPT ![e] = n] /\ queue \in [Elem -> Seq(Anim)]
  BY DEF Typed
<1>. HIDE DEF n
<1>3. queue'[e] = n /\ \A d \in Elem : d # e => queue'[d] = queue[d]
  BY <1>2
<1>4. QueueOrder'
  BY <1>1, <1>3 DEF QueueOrder
<1>5. ToCome' \subseteq ToCome
  BY <1>1, <1>3 DEF ToCome
<1>. QED
  BY <1>4, <1>5

\* What comes second is the next one, and nowhere else.
LEMMA QueueDequeued ==
    ASSUME Typed, QueueOrder, NEW e \in Elem, NEW s, Dequeue(e, s), begun' = begun
    PROVE  /\ QueueOrder' /\ ToCome' \subseteq ToCome
           /\ Len(queue[e]) > 1 =>
               /\ queue[e][2] \in ToCome \ ToCome' /\ el(queue[e][2]) = e
               /\ queue'[e] # <<>> /\ Head(queue'[e]) = queue[e][2]
               /\ stack' = Append(s, Enter(queue[e][2]))
           /\ ~ (Len(queue[e]) > 1) => queue'[e] = <<>> /\ stack' = s
           /\ \A d \in Elem : d # e => queue'[d] = queue[d]
<1>. DEFINE q == queue[e]
<1>1. queue \in [Elem -> Seq(Anim)] /\ q \in Seq(Anim) /\ Len(q) \in Nat
  BY LenProperties DEF Typed
<1>2. CASE Len(q) > 1
  <2>1. /\ queue' = [queue EXCEPT ![e] = Tail(q)]
        /\ stack' = Append(s, Enter(q[2]))
    BY <1>2 DEF Dequeue
  <2>2. q # <<>> /\ 2 \in 1..Len(q) /\ 2 \in 2..Len(q) /\ 1 \in 1..(Len(q) - 1)
    BY <1>1, <1>2, EmptySeq
  <2>3. q[2] \in Anim
    BY <1>1, <2>2, ElementOfSeq
  <2>4. /\ Len(Tail(q)) = Len(q) - 1 /\ Tail(q) \in Seq(Anim)
        /\ \A i \in 1..(Len(q) - 1) : Tail(q)[i] = q[i + 1]
    BY <1>1, <2>2, HeadTailProperties
  <2>5. queue'[e] = Tail(q) /\ \A d \in Elem : d # e => queue'[d] = queue[d]
    BY <1>1, <2>1
  <2>6. /\ begun \subseteq Anim
        /\ \A i, j \in 1..Len(q) : q[i] = q[j] => i = j
        /\ \A i \in 1..Len(q) : el(q[i]) = e /\ What[q[i]].queued /\ q[i] \in begun
        /\ \A d \in Elem : \A i \in 1..Len(queue[d]) : el(queue[d][i]) = d
    BY DEF QueueOrder
  <2>7. \A i \in 1..(Len(q) - 1) : i + 1 \in 1..Len(q)
    BY <1>1
  <2>. DEFINE v == Tail(q)
  <2>8. /\ v \in Seq(Anim) /\ Len(v) = Len(q) - 1 /\ queue'[e] = v
        /\ \A i \in 1..(Len(q) - 1) : v[i] = q[i + 1]
    BY <2>4, <2>5
  <2>. HIDE DEF v, q
  <2>9. \A i, j \in 1..Len(v) : v[i] = v[j] => i = j
    <3>. SUFFICES ASSUME NEW i \in 1..Len(v), NEW j \in 1..Len(v), v[i] = v[j]
                  PROVE  i = j
      OBVIOUS
    <3>1. i + 1 \in 1..Len(q) /\ j + 1 \in 1..Len(q) /\ q[i + 1] = q[j + 1]
      BY <2>7, <2>8
    <3>. QED
      BY <1>1, <2>6, <2>8, <3>1
  <2>10. ASSUME NEW i \in 1..Len(v)
         PROVE  el(v[i]) = e /\ What[v[i]].queued /\ v[i] \in begun
    <3>1. i + 1 \in 1..Len(q) /\ v[i] = q[i + 1]
      BY <2>7, <2>8
    <3>. QED
      BY <2>6, <3>1
  <2>11. QueueOrder'
    <3>1. begun' \subseteq Anim
      BY <2>6
    <3>. SUFFICES ASSUME NEW d \in Elem
                  PROVE  /\ \A i, j \in 1..Len(queue'[d]) : queue'[d][i] = queue'[d][j] => i = j
                         /\ \A i \in 1..Len(queue'[d]) : /\ el(queue'[d][i]) = d
                                                        /\ What[queue'[d][i]].queued
                                                        /\ queue'[d][i] \in begun'
      BY <3>1 DEF QueueOrder
    <3>2. CASE d = e
      BY <2>8, <2>9, <2>10, <3>2
    <3>3. CASE d # e
      BY <2>5, <3>3 DEF QueueOrder
    <3>. QED
      BY <3>2, <3>3
  <2>12. ToCome' \subseteq ToCome
    <3>1. ASSUME NEW i \in 2..Len(v) PROVE i + 1 \in 2..Len(q) /\ v[i] = q[i + 1]
      BY <1>1, <2>8
    <3>. QED
      BY <2>5, <2>8, <3>1 DEF ToCome, q
  <2>13. q[2] \in ToCome
    BY <2>2, <2>3 DEF ToCome, q
  <2>14. q[2] \notin ToCome'
    <3>. SUFFICES ASSUME q[2] \in ToCome' PROVE FALSE
      OBVIOUS
    <3>1. q[2] \in begun'
      BY <2>2, <2>6
    <3>2. PICK d \in Elem : \E i \in 2..Len(queue'[d]) : queue'[d][i] = q[2]
      BY <3>1 DEF ToCome
    <3>3. PICK i \in 2..Len(queue'[d]) : queue'[d][i] = q[2]
      BY <3>2
    <3>4. CASE d = e
      <4>1. i \in 1..(Len(q) - 1) /\ v[i] = q[2]
        BY <1>1, <2>8, <3>3, <3>4
      <4>2. i + 1 \in 1..Len(q) /\ q[i + 1] = q[2]
        BY <2>7, <2>8, <4>1
      <4>3. i + 1 = 2
        BY <2>2, <2>6, <4>2
      <4>. QED
        BY <3>3, <4>1, <4>3
    <3>5. CASE d # e
      <4>1. Len(queue[d]) \in Nat
        BY <1>1, LenProperties
      <4>2. i \in 1..Len(queue[d]) /\ queue[d][i] = q[2]
        BY <2>5, <3>3, <3>5, <4>1
      <4>. QED
        BY <2>2, <2>6, <3>5, <4>2
    <3>. QED
      BY <3>4, <3>5
  <2>15. v # <<>> /\ Head(v) = q[2]
    <3>1. Len(v) # 0
      BY <1>2, <1>1, <2>8
    <3>2. v # <<>>
      BY <3>1, EmptySeq
    <3>3. Head(v) = v[1]
      BY <2>8, <3>2
    <3>. QED
      BY <2>2, <2>8, <3>2, <3>3
  <2>. QED
    BY <1>2, <2>1, <2>2, <2>5, <2>6, <2>8, <2>11, <2>12, <2>13, <2>14, <2>15 DEF q
<1>3. CASE ~ (Len(q) > 1)
  <2>1. queue' = [queue EXCEPT ![e] = <<>>] /\ stack' = s
    BY <1>3 DEF Dequeue
  <2>2. queue'[e] = <<>> /\ \A d \in Elem : d # e => queue'[d] = queue[d]
    BY <1>1, <2>1
  <2>. QED
    BY <1>3, <2>1, <2>2, QueueEmptied
<1>. QED
  BY <1>2, <1>3

\* What is not queued comes at once.
LEMMA QueuePassed ==
    ASSUME Typed, QueueOrder, NEW a \in Anim \ begun, begun' = begun \cup {a}, queue' = queue
    PROVE  QueueOrder' /\ ToCome' \subseteq ToCome \ {a} /\ a \in ToCome
<1>1. QueueOrder' /\ a \in ToCome
  BY DEF QueueOrder, ToCome
<1>2. ASSUME NEW e \in Elem, NEW i \in 2..Len(queue[e]) PROVE queue[e][i] \in begun
  <2>1. Len(queue[e]) \in Nat
    BY LenProperties DEF Typed
  <2>2. i \in 1..Len(queue[e])
    BY <2>1
  <2>. QED
    BY <2>2 DEF QueueOrder
<1>. QED
  BY <1>1, <1>2 DEF ToCome

\* What finds the queue empty comes at once, what does not waits.
LEMMA QueueAppended ==
    ASSUME Typed, QueueOrder, NEW a \in Anim \ begun, begun' = begun \cup {a},
           What[a].queued, queue' = [queue EXCEPT ![el(a)] = Append(queue[el(a)], a)]
    PROVE  /\ QueueOrder' /\ ToCome' \subseteq ToCome /\ a \in ToCome
           /\ queue[el(a)] = <<>> => a \notin ToCome' /\ queue'[el(a)] = <<a>>
           /\ queue[el(a)] # <<>> =>
               queue'[el(a)] # <<>> /\ Head(queue'[el(a)]) = Head(queue[el(a)])
           /\ \A d \in Elem : d # el(a) => queue'[d] = queue[d]
<1>. DEFINE e == el(a)
            q == queue[e]
            v == Append(q, a)
<1>1. /\ e \in Elem /\ queue \in [Elem -> Seq(Anim)] /\ q \in Seq(Anim) /\ Len(q) \in Nat
      /\ a \in Anim /\ a \notin begun
  BY LenProperties, ElOfAnim DEF Typed
<1>2. /\ v \in Seq(Anim) /\ Len(v) = Len(q) + 1
      /\ \A i \in 1..(Len(q) + 1) : v[i] = IF i <= Len(q) THEN q[i] ELSE a
  BY <1>1, AppendProperties
<1>3. queue'[e] = v /\ \A d \in Elem : d # e => queue'[d] = queue[d]
  BY <1>1
<1>4. /\ begun \subseteq Anim
      /\ \A i, j \in 1..Len(q) : q[i] = q[j] => i = j
      /\ \A i \in 1..Len(q) : el(q[i]) = e /\ What[q[i]].queued /\ q[i] \in begun
  BY <1>1 DEF QueueOrder
<1>5. el(a) = e
  OBVIOUS
<1>6. ASSUME NEW d \in Elem, NEW i \in 2..Len(queue[d]) PROVE queue[d][i] \in begun
  <2>1. Len(queue[d]) \in Nat
    BY LenProperties DEF Typed
  <2>2. i \in 1..Len(queue[d])
    BY <2>1
  <2>. QED
    BY <2>2 DEF QueueOrder
<1>7. (q = <<>> => v = <<a>> /\ Len(q) = 0) /\ (Len(q) = 0 => q = <<>>)
  <2>1. Append(<<>>, a) = <<a>>
    OBVIOUS
  <2>2. (q = <<>> => Len(q) = 0) /\ (Len(q) = 0 => q = <<>>)
    <3>. HIDE DEF q, v
    <3>. QED
      BY <1>1, EmptySeq
  <2>3. q = <<>> => v = <<a>>
    BY <2>1
  <2>. QED
    BY <2>2, <2>3
<1>8. q # <<>> => Head(q) = q[1] /\ Len(q) >= 1
  BY <1>1, <1>7
<1>9. v # <<>> /\ Head(v) = v[1]
  <2>1. Len(v) # 0
    BY <1>1, <1>2
  <2>2. v # <<>>
    BY <2>1, EmptySeq
  <2>. QED
    BY <1>2, <2>2
<1>. HIDE DEF e, q, v
<1>10. \A i, j \in 1..Len(v) : v[i] = v[j] => i = j
  <2>. SUFFICES ASSUME NEW i \in 1..Len(v), NEW j \in 1..Len(v), v[i] = v[j]
                PROVE  i = j
    OBVIOUS
  <2>1. i \in 1..(Len(q) + 1) /\ j \in 1..(Len(q) + 1)
    BY <1>2
  <2>. QED
    BY <1>1, <1>2, <1>4, <2>1
<1>11. \A i \in 1..Len(v) : el(v[i]) = e /\ What[v[i]].queued /\ v[i] \in begun'
  BY <1>1, <1>2, <1>4, <1>5
<1>12. QueueOrder'
  BY <1>1, <1>3, <1>4, <1>10, <1>11 DEF QueueOrder
<1>13. a \in ToCome
  BY <1>1 DEF ToCome
<1>14. ToCome' \subseteq ToCome
  <2>1. ASSUME NEW i \in 2..Len(v) PROVE v[i] = a \/ (i \in 2..Len(q) /\ v[i] = q[i])
    BY <1>1, <1>2
  <2>. QED
    BY <1>3, <1>13, <2>1 DEF ToCome, q
<1>15. ASSUME q = <<>> PROVE a \notin ToCome'
  <2>1. 2..Len(v) = {}
    BY <1>2, <1>7, <1>15
  <2>2. a \in begun'
    OBVIOUS
  <2>. SUFFICES ASSUME a \in ToCome' PROVE FALSE
    OBVIOUS
  <2>3. PICK d \in Elem : \E i \in 2..Len(queue'[d]) : queue'[d][i] = a
    BY <2>2 DEF ToCome
  <2>4. d # e
    BY <1>3, <2>1, <2>3
  <2>. QED
    BY <1>1, <1>3, <1>6, <2>3, <2>4
<1>16. q # <<>> => v # <<>> /\ Head(v) = Head(q)
  BY <1>1, <1>2, <1>8, <1>9
<1>. QED
  BY <1>3, <1>7, <1>12, <1>13, <1>14, <1>15, <1>16 DEF e, q

-----------------------------------------------------------------------------
LEMMA FreshStays ==
    ASSUME AllFresh, ToCome' \subseteq ToCome,
           \A a \in ToCome' : /\ ended'[a] = ended[a]
                              /\ OnStack(stack', a) => OnStack(stack, a)
                              /\ Timed(timers', a) => Timed(timers, a)
    PROVE  AllFresh'
BY DEF AllFresh, Fresh

-----------------------------------------------------------------------------
(* The actions keep the order, by the shape of what they do to the stack.  *)

LEMMA Entering ==
    ASSUME NEW a \in Anim
    PROVE  /\ Enter(a) \in Frame /\ Enter(a).a = a
           /\ Enter(a).k \in {"loop", "complete"}
           /\ Enter(a).k = "loop" => Enter(a).todo = What[a].props /\ ~Enter(a).due
           /\ Enter(a).k = "complete" => ~Enter(a).moved
BY EnterIsFrame DEF Enter, Loop, Complete

LEMMA PropsOf ==
    ASSUME NEW a \in Anim
    PROVE  /\ What[a].props \in Seq(Props(a)) /\ What[a].props # <<>>
           /\ Len(What[a].props) \in Nat \ {0}
           /\ IsInjective(What[a].props)
           /\ \A p \in Props(a) : \E i \in 1..Len(What[a].props) : What[a].props[i] = p
<1>1. /\ What[a].props \in Seq(Props(a)) /\ What[a].props # <<>>
      /\ IsInjective(What[a].props)
  BY FxAssumption DEF IsAnimation, Props
<1>2. Len(What[a].props) \in Nat \ {0} /\ DOMAIN What[a].props = 1..Len(What[a].props)
  BY <1>1, EmptySeq, LenProperties
<1>. QED
  BY <1>1, <1>2 DEF Props, ToSet

LEMMA EndedSame == ASSUME EndedTyped PROVE Grows(ended)
BY DEF EndedTyped, Grows

LEMMA OrderKeeps ==
    ASSUME Order, Typed', QueueOrder', ToCome' \subseteq ToCome,
           timers' = timers, ended' = ended, NEW m, NEW g, Keeps(stack', m, g),
           m = Len(stack) /\ m # 0 => Same(g) /\ Ahead(g, timers, ended)
    PROVE  Order'
<1>1. EndedTyped' /\ TimersDiffer' /\ Grows(ended')
  BY EndedSame DEF Order, EndedTyped, TimersDiffer
<1>2. Nested'
  BY <1>1, NestedKeeps DEF Order
<1>3. TopAhead'
  BY AheadKeeps DEF Order
<1>4. \A a : OnStack(stack', a) => OnStack(stack, a)
  BY OnStackKeeps DEF Order
<1>5. AllFresh'
  BY <1>4, FreshStays DEF Order
<1>. QED
  BY <1>1, <1>2, <1>3, <1>5 DEF Order

LEMMA OrderPushes ==
    ASSUME Order, Typed', QueueOrder', ToCome' \subseteq ToCome,
           timers' = timers, ended' = ended, NEW m, NEW g, NEW f, Pushes(stack', m, g, f),
           f.k \notin {"loop", "complete"},
           m = Len(stack) /\ m # 0 => Same(g) /\ Waits(g, ended)
    PROVE  Order'
<1>1. EndedTyped' /\ TimersDiffer' /\ Grows(ended')
  BY EndedSame DEF Order, EndedTyped, TimersDiffer
<1>2. Nested'
  BY <1>1, NestedPushes DEF Order
<1>3. TopAhead'
  BY AheadPushes DEF Order, Ahead
<1>4. \A a : OnStack(stack', a) => OnStack(stack, a)
  BY OnStackPushes DEF Order
<1>5. AllFresh'
  BY <1>4, FreshStays DEF Order
<1>. QED
  BY <1>1, <1>2, <1>3, <1>5 DEF Order

\* An animation that is entered is ahead with all of its properties.
LEMMA OrderEnters ==
    ASSUME Order, Typed', QueueOrder', ToCome' \subseteq ToCome,
           timers' = timers, ended' = ended, NEW m, NEW g,
           NEW a \in ToCome \ ToCome', Pushes(stack', m, g, Enter(a)),
           m = Len(stack) /\ m # 0 => Same(g) /\ Waits(g, ended)
    PROVE  Order'
<1>0. a \in Anim /\ Fresh(a)
  BY DEF ToCome, Order, AllFresh
<1>1. EndedTyped' /\ TimersDiffer' /\ Grows(ended')
  BY EndedSame DEF Order, EndedTyped, TimersDiffer
<1>2. Nested'
  BY <1>1, NestedPushes DEF Order
<1>3. Ahead(Enter(a), timers, ended)
  <2>1. \A j \in 1..Len(timers) : \A p : timers[j] # Timer(a, p)
    BY <1>0 DEF Fresh, Timed, Timer
  <2>2. ended[a] = {}
    BY <1>0 DEF Fresh
  <2>. DEFINE f == Enter(a)
  <2>3. f.a = a /\ (f.k = "loop" => f.todo = What[a].props) /\ IsInjective(What[a].props)
    BY <1>0, Entering, PropsOf
  <2>. HIDE DEF f
  <2>4. Ahead(f, timers, ended)
    BY <2>1, <2>2, <2>3 DEF Ahead
  <2>. QED
    BY <2>4 DEF f
<1>4. TopAhead'
  BY <1>3, AheadPushes DEF Order
<1>5. ASSUME NEW b \in ToCome', OnStack(stack', b) PROVE OnStack(stack, b)
  <2>1. OnStack(stack, b) \/ Enter(a).a = b
    BY <1>5, OnStackPushes DEF Order
  <2>. QED
    BY <1>0, <2>1, Entering
<1>6. AllFresh'
  BY <1>5, FreshStays DEF Order
<1>. QED
  BY <1>1, <1>2, <1>4, <1>6 DEF Order

\* The last step of a timer: one more property has ended; opt.complete is called when
\* it was the last one.
LEMMA LastStepShape ==
    ASSUME EndedTyped, NEW a \in Anim, NEW p \in Props(a), NEW s, NEW m, NEW g,
           Keeps(s, m, g), LastStep(Timer(a, p), s)
    PROVE  /\ Grows(ended') /\ EndedTyped'
           /\ ended'[a] = ended[a] \cup {p}
           /\ \A b \in Anim : b # a => ended'[b] = ended[b]
           /\ ended'[a] = Props(a) => Pushes(stack', m, g, Complete(a))
           /\ ended'[a] # Props(a) => Keeps(stack', m, g)
           /\ p \notin ended[a] => again' = again
<1>. DEFINE d == ended[a] \cup {p}
<1>1. Timer(a, p).a = a /\ Timer(a, p).p = p
  BY DEF Timer
<1>2. /\ ended' = [ended EXCEPT ![a] = d]
      /\ IF d = Props(a) THEN stack' = Append(s, Complete(a)) ELSE stack' = s
      /\ p \notin ended[a] => again' = again
  BY <1>1 DEF LastStep
<1>3. d \subseteq Props(a) /\ ended \in [Anim -> SUBSET UNION {Props(b) : b \in Anim}]
  BY DEF EndedTyped
<1>4. d \in SUBSET UNION {Props(b) : b \in Anim}
  BY <1>3
<1>. HIDE DEF d
<1>5. ended'[a] = d /\ \A b \in Anim : b # a => ended'[b] = ended[b]
  BY <1>2, <1>3
<1>6. ended' \in [Anim -> SUBSET UNION {Props(b) : b \in Anim}]
  BY <1>2, <1>3, <1>4
<1>7. \A b \in Anim : ended[b] \subseteq ended'[b] /\ ended'[b] \subseteq Props(b)
  BY <1>3, <1>5 DEF EndedTyped, d
<1>8. Grows(ended') /\ EndedTyped'
  BY <1>6, <1>7 DEF Grows, EndedTyped
<1>9. d = Props(a) => Pushes(stack', m, g, Complete(a))
  BY <1>2, CompleteIsFrame, AppendPushes
<1>10. d # Props(a) => Keeps(stack', m, g)
  BY <1>2
<1>. QED
  BY <1>2, <1>5, <1>8, <1>9, <1>10 DEF d

LEMMA OrderLastStep ==
    ASSUME Order, Typed', QueueOrder', ToCome' \subseteq ToCome, timers' = timers,
           NEW a \in Anim, NEW p \in Props(a), NEW s, NEW g,
           Len(stack) # 0, Keeps(s, Len(stack), g), LastStep(Timer(a, p), s),
           a \notin ToCome, Same(g), Ahead(g, timers, ended'),
           ended'[a] = Props(a) => Waits(g, ended')
    PROVE  Order'
<1>1. /\ Grows(ended') /\ EndedTyped'
      /\ \A b \in Anim : b # a => ended'[b] = ended[b]
      /\ ended'[a] = Props(a) => Pushes(stack', Len(stack), g, Complete(a))
      /\ ended'[a] # Props(a) => Keeps(stack', Len(stack), g)
  BY LastStepShape DEF Order
<1>2. TimersDiffer'
  BY DEF Order, TimersDiffer
<1>3. Nested'
  BY <1>1, NestedKeeps, NestedPushes DEF Order
<1>4. TopAhead'
  <2>1. Ahead(Complete(a), timers', ended')
    BY DEF Ahead, Complete
  <2>. QED
    BY <1>1, <2>1, AheadKeeps, AheadPushes DEF Order
<1>5. ASSUME NEW b \in ToCome' PROVE /\ ended'[b] = ended[b]
                                     /\ OnStack(stack', b) => OnStack(stack, b)
  <2>1. b \in Anim /\ b # a
    BY DEF ToCome
  <2>2. OnStack(stack', b) => OnStack(stack, b) \/ Complete(a).a = b
    BY <1>1, OnStackKeeps, OnStackPushes DEF Order
  <2>. QED
    BY <1>1, <2>1, <2>2 DEF Complete
<1>6. AllFresh'
  BY <1>5, FreshStays DEF Order
<1>. QED
  BY <1>1, <1>2, <1>3, <1>4, <1>6 DEF Order

-----------------------------------------------------------------------------
(* What each action does to the stack.                                     *)

\* The page calls from the innermost call, which becomes g, or from nowhere.
FromPage(g) == stack # <<>> => g \in PageFrames /\ stack[Len(stack)] \in PageFrames

\* The innermost call is of the kind k.
Inner(k) == stack # <<>> /\ Top = stack[Len(stack)] /\ Top.k = k

LEMMA InnerIs ==
    ASSUME Typed, NEW k, On(k)
    PROVE  /\ Inner(k) /\ Top \in Frame /\ Len(stack) \in Nat \ {0}
           /\ k = "loop" => Top \in LoopFrames
           /\ k = "complete" => Top \in CompleteFrames
           /\ k = "tick" => Top \in TickFrames
           /\ k = "stop" => Top \in StopFrames
           /\ k = "page" => Top \in PageFrames
BY StackShape, KindOfFrame DEF On, Inner

LEMMA AnimateShape ==
    ASSUME Typed, NEW a \in Anim, Animate(a)
    PROVE  \E g :
        /\ FromPage(g) /\ a \in Anim \ begun /\ begun' = begun \cup {a}
        /\ UNCHANGED <<timers, ended, over, removed, again, disturbed>>
        /\ \/ ~What[a].queued /\ queue' = queue /\ Pushes(stack', Len(stack), g, Enter(a))
           \/ /\ What[a].queued
              /\ queue' = [queue EXCEPT ![el(a)] = Append(queue[el(a)], a)]
              /\ queue[el(a)] = <<>> => Pushes(stack', Len(stack), g, Enter(a))
              /\ queue[el(a)] # <<>> => Keeps(stack', Len(stack), g)
<1>1. PICK g : Keeps(Called, Len(stack), g) /\ FromPage(g)
  BY CalledKeeps DEF Animate, FromPage
<1>2. Pushes(Append(Called, Enter(a)), Len(stack), g, Enter(a))
  BY <1>1, EnterIsFrame, AppendPushes
<1>3. a \notin begun /\ begun' = begun \cup {a}
  BY DEF Animate
<1>4. UNCHANGED <<timers, ended, over, removed, again, disturbed>>
  BY DEF Animate, ghosts
<1>5. CASE What[a].queued
  BY <1>1, <1>2, <1>3, <1>4, <1>5 DEF Animate, Enqueue, RunNow
<1>6. CASE ~What[a].queued
  BY <1>1, <1>2, <1>3, <1>4, <1>6 DEF Animate, RunNow
<1>. QED
  BY <1>5, <1>6

LEMMA PageShape ==
    ASSUME Typed, NEW e \in Elem, Display(e) \/ RemoveElement(e)
    PROVE  /\ \E g : FromPage(g) /\ Keeps(stack', Len(stack), g)
           /\ UNCHANGED <<timers, ended, begun, again, disturbed>>
           /\ \/ queue' = queue /\ removed' = removed
              \/ queue' = [queue EXCEPT ![e] = <<>>] /\ removed' = removed \cup {e}
           /\ over \subseteq over'
<1>1. PICK g : Keeps(Called, Len(stack), g) /\ FromPage(g)
  BY CalledKeeps DEF Display, RemoveElement, FromPage
<1>. QED
  BY <1>1 DEF Display, RemoveElement, ghosts

LEMMA StopShape ==
    ASSUME Typed, NEW e \in Elem, NEW clear \in BOOLEAN, NEW end \in BOOLEAN,
           Stop(e, clear, end)
    PROVE  /\ \E g : FromPage(g) /\ Pushes(stack', Len(stack), g, StopFrame(e, end))
           /\ UNCHANGED <<timers, ended, begun, removed, again>>
           /\ queue' = IF clear THEN [queue EXCEPT ![e] = <<>>] ELSE queue
           /\ over \subseteq over' /\ (~end => {t.a : t \in Has(e)} \subseteq over')
           /\ Disturbs(e)
<1>1. PICK g : Keeps(Called, Len(stack), g) /\ FromPage(g)
  BY CalledKeeps DEF Stop, FromPage
<1>2. Pushes(stack', Len(stack), g, StopFrame(e, end))
  BY <1>1, StopIsFrame, AppendPushes DEF Stop
<1>. QED
  BY <1>1, <1>2 DEF Stop, Emptied

LEMMA CustomShape ==
    ASSUME Typed, Custom
    PROVE  /\ Inner("loop") /\ Top \in LoopFrames /\ Top.a \in Anim /\ Top.todo # <<>>
           /\ Top.todo \in Seq(Props(Top.a)) /\ Head(Top.todo) \in Props(Top.a)
           /\ UNCHANGED <<queue, begun, over, removed, disturbed>>
           /\ \E g \in LoopFrames :
               /\ g.a = Top.a /\ g.todo = Tail(Top.todo)
               /\ What[Top.a].instant =>
                   /\ timers' = timers
                   /\ \E s : /\ Keeps(s, Len(stack), g)
                             /\ LastStep(Timer(Top.a, Head(Top.todo)), s)
               /\ ~What[Top.a].instant =>
                   /\ Keeps(stack', Len(stack), g)
                   /\ timers' = Append(timers, Timer(Top.a, Head(Top.todo)))
                   /\ ended' = ended /\ again' = again
<1>1. Inner("loop") /\ Top \in LoopFrames
  BY InnerIs DEF Custom
<1>2. /\ Top.todo # <<>> /\ Top.todo \in Seq(Props(Top.a)) /\ Top.a \in Anim
      /\ Top.shows \in BOOLEAN
  BY <1>1 DEF Custom, LoopFrames
<1>3. /\ Head(Top.todo) \in Props(Top.a) /\ Tail(Top.todo) \in Seq(Props(Top.a))
      /\ Tail(Top.todo) \in Seq(UNION {Props(a) : a \in Anim})
  <2>1. Tail(Top.todo) \in Seq(Props(Top.a)) /\ Head(Top.todo) \in Props(Top.a)
    BY <1>2, HeadTailProperties
  <2>. DEFINE U == UNION {Props(a) : a \in Anim}
  <2>2. Props(Top.a) \subseteq U
    BY <1>2
  <2>3. Tail(Top.todo) \in Seq(U)
    <3>. HIDE DEF U
    <3>. QED
      BY <2>1, <2>2, SeqMonotonic
  <2>. QED
    BY <2>1, <2>3
<1>. DEFINE g == [Top EXCEPT !.todo = Tail(@), !.due = Top.shows]
            s == Append(Front(stack), g)
            t == Timer(Top.a, Head(Top.todo))
<1>4. g \in LoopFrames /\ g.a = Top.a /\ g.todo = Tail(Top.todo)
  BY <1>1, <1>2, <1>3 DEF LoopFrames
<1>5. Keeps(s, Len(stack), g)
  <2>1. g \in Frame /\ stack # <<>>
    BY <1>1, <1>4 DEF Frame, Inner
  <2>. HIDE DEF g
  <2>. QED
    BY <2>1, ReplaceKeeps
<1>6. /\ IF What[Top.a].instant THEN LastStep(t, s) /\ timers' = timers
         ELSE timers' = Append(timers, t) /\ stack' = s /\ UNCHANGED <<ended, again>>
      /\ UNCHANGED <<queue, begun, over, removed, disturbed>>
  BY DEF Custom
<1>. HIDE DEF g, s
<1>. QED
  BY <1>1, <1>2, <1>3, <1>4, <1>5, <1>6

LEMMA ShownShape ==
    ASSUME Typed, Shown
    PROVE  /\ Inner("loop") /\ Top \in LoopFrames
           /\ UNCHANGED <<queue, timers, ended, begun, over, removed, again, disturbed>>
           /\ \E g \in LoopFrames : /\ g.a = Top.a /\ g.todo = Top.todo
                                    /\ Keeps(stack', Len(stack), g)
<1>1. Inner("loop") /\ Top \in LoopFrames
  BY InnerIs DEF Shown
<1>. DEFINE g == [Top EXCEPT !.due = FALSE]
<1>2. g \in LoopFrames /\ g.a = Top.a /\ g.todo = Top.todo
  BY <1>1 DEF LoopFrames
<1>3. stack' = Append(Front(stack), g)
  BY DEF Shown
<1>. HIDE DEF g
<1>4. Keeps(stack', Len(stack), g)
  BY <1>1, <1>2, <1>3, ReplaceKeeps DEF Frame, Inner
<1>. QED
  BY <1>1, <1>2, <1>4 DEF Shown, ghosts

\* A call of animate, of the interval or of the page returns.
LEMMA ReturnShape ==
    ASSUME Typed, LoopEnds \/ TickEnds \/ Return
    PROVE  /\ \/ Inner("loop") /\ Top.todo = <<>>
              \/ Inner("tick") /\ Top.cut = {}
              \/ Inner("page")
           /\ Keeps(stack', Len(stack) - 1, Top)
           /\ UNCHANGED <<queue, timers, ended, begun, over, removed, again, disturbed>>
<1>1. stack # <<>> /\ stack' = Front(stack)
  BY DEF LoopEnds, TickEnds, Return, On
<1>2. Keeps(stack', Len(stack) - 1, Top)
  BY <1>1, FrontKeeps
<1>3. \/ Inner("loop") /\ Top.todo = <<>>
      \/ Inner("tick") /\ Top.cut = {}
      \/ Inner("page")
  BY InnerIs DEF LoopEnds, TickEnds, Return
<1>. QED
  BY <1>2, <1>3 DEF LoopEnds, TickEnds, Return, ghosts

LEMMA MoveShape ==
    ASSUME Typed, Move
    PROVE  /\ Inner("complete") /\ Top \in CompleteFrames /\ ~Top.moved
           /\ Top.a \in Anim /\ el(Top.a) \in Elem
           /\ UNCHANGED <<timers, ended, begun, over, removed, again, disturbed>>
           /\ \E g \in CompleteFrames :
               /\ g.a = Top.a /\ g.moved
               /\ ~What[Top.a].queued => queue' = queue /\ Keeps(stack', Len(stack), g)
               /\ What[Top.a].queued =>
                   \E s : Keeps(s, Len(stack), g) /\ Dequeue(el(Top.a), s)
<1>1. Inner("complete") /\ Top \in CompleteFrames
  BY InnerIs DEF Move
<1>. DEFINE g == [Top EXCEPT !.moved = TRUE]
            s == Append(Front(stack), g)
<1>2. g \in CompleteFrames /\ g.a = Top.a /\ g.moved /\ Top.a \in Anim
  BY <1>1 DEF CompleteFrames
<1>3. /\ ~Top.moved
      /\ IF What[Top.a].queued THEN Dequeue(el(Top.a), s)
         ELSE stack' = s /\ UNCHANGED <<queue, mode>>
      /\ UNCHANGED <<timers, ended, begun, over, removed, again, disturbed>>
  BY DEF Move, ghosts
<1>. HIDE DEF g
<1>4. Keeps(s, Len(stack), g)
  BY <1>1, <1>2, ReplaceKeeps DEF Frame, Inner
<1>. HIDE DEF s
<1>. QED
  BY <1>1, <1>2, <1>3, <1>4, ElOfAnim

LEMMA CallPageShape ==
    ASSUME Typed, CallPage
    PROVE  /\ Inner("complete") /\ Top \in CompleteFrames /\ Top.moved
           /\ UNCHANGED <<queue, timers, ended, begun, removed, again, disturbed>>
           /\ over \subseteq over'
           /\ \/ Keeps(stack', Len(stack), Page) /\ Page \in PageFrames
              \/ Keeps(stack', Len(stack) - 1, Top)
<1>1. Inner("complete") /\ Top \in CompleteFrames
  BY InnerIs DEF CallPage
<1>2. stack # <<>>
  BY <1>1 DEF Inner
<1>3. stack' = Append(Front(stack), Page) \/ stack' = Front(stack)
  BY DEF CallPage
<1>4. Page \in PageFrames
  BY DEF Page, PageFrames
<1>. QED
  BY <1>1, <1>2, <1>3, <1>4, PageIsFrame, ReplaceKeeps, FrontKeeps DEF CallPage

LEMMA TickShape ==
    ASSUME Typed, Tick
    PROVE  /\ stack = <<>> /\ TickFrame \in TickFrames /\ TickFrame.cut = {}
           /\ Pushes(stack', 0, TickFrame, TickFrame)
           /\ UNCHANGED <<queue, timers, ended, begun, over, removed, again, disturbed>>
<1>1. stack = <<>> /\ stack' = <<TickFrame>>
  BY DEF Tick
<1>2. Pushes(Append(<<>>, TickFrame), 0, TickFrame, TickFrame)
  <2>. DEFINE n == <<>>
  <2>1. Keeps(n, 0, TickFrame)
    BY EmptyKeeps
  <2>. HIDE DEF n
  <2>2. Pushes(Append(n, TickFrame), 0, TickFrame, TickFrame)
    BY <2>1, TickIsFrame, AppendPushes
  <2>. QED
    BY <2>2 DEF n
<1>3. Append(<<>>, TickFrame) = <<TickFrame>>
  OBVIOUS
<1>. QED
  BY <1>1, <1>2, <1>3 DEF Tick, ghosts, TickFrame, TickFrames

LEMMA TickGoesOnShape ==
    ASSUME Typed, TickGoesOn
    PROVE  /\ Inner("tick") /\ Top \in TickFrames /\ Top.cut = {}
           /\ \E g \in TickFrames : g.cut = {} /\ Keeps(stack', Len(stack), g)
           /\ UNCHANGED <<queue, timers, ended, begun, over, removed, again, disturbed>>
<1>1. Inner("tick") /\ Top \in TickFrames /\ Top.cut = {}
  BY InnerIs DEF TickGoesOn, AtTimer
<1>. DEFINE g == [Top EXCEPT !.i = @ + 1]
<1>2. g \in TickFrames /\ g.cut = {}
  BY <1>1 DEF TickFrames
<1>3. stack' = Append(Front(stack), g)
  BY DEF TickGoesOn
<1>. HIDE DEF g
<1>4. Keeps(stack', Len(stack), g)
  BY <1>1, <1>2, <1>3, ReplaceKeeps DEF Frame, Inner
<1>. QED
  BY <1>1, <1>2, <1>4 DEF TickGoesOn, ghosts

LEMMA TickLastShape ==
    ASSUME Typed, NEW t \in AllTimers, TickLast(t)
    PROVE  /\ Inner("tick") /\ Top \in TickFrames /\ Top.cut = {}
           /\ Top.i \in 1..Len(timers) /\ timers[Top.i] = t
           /\ \E g \in TickFrames :
               /\ g.i = Top.i /\ g.cut = {t}
               /\ \E s : Keeps(s, Len(stack), g) /\ LastStep(t, s)
           /\ UNCHANGED <<queue, timers, begun, over, removed, disturbed>>
<1>1. Inner("tick") /\ Top \in TickFrames /\ Top.cut = {} /\ Top.i <= Len(timers)
  BY InnerIs DEF TickLast, AtTimer
<1>. DEFINE g == [Top EXCEPT !.cut = {t}]
            s == Append(Front(stack), g)
<1>2. g \in TickFrames /\ g.cut = {t} /\ g.i = Top.i /\ Top.i \in Nat \ {0}
  BY <1>1 DEF TickFrames
<1>3. LastStep(t, s) /\ timers[Top.i] = t
  BY DEF TickLast
<1>. HIDE DEF g
<1>4. Keeps(s, Len(stack), g)
  BY <1>1, <1>2, ReplaceKeeps DEF Frame, Inner
<1>. HIDE DEF s
<1>5. Top.i \in 1..Len(timers)
  BY <1>1, <1>2, LenProperties DEF Typed
<1>. QED
  BY <1>1, <1>2, <1>3, <1>4, <1>5 DEF TickLast

LEMMA StopNextShape ==
    ASSUME Typed, StopNext
    PROVE  /\ Inner("stop") /\ Top \in StopFrames /\ Top.cut = {}
           /\ Top.i \in Nat /\ Top.i <= Len(timers)
           /\ UNCHANGED <<queue, timers, begun, over, removed, disturbed>>
           /\ \E i \in 1..Len(timers) :
               /\ i <= Top.i /\ timers[i] \in AllTimers /\ el(timers[i].a) = Top.e
               /\ \A j \in 1..Top.i : el(timers[j].a) = Top.e => j <= i
               /\ \E g \in StopFrames :
                   /\ g.e = Top.e /\ g.end = Top.end /\ g.i = i /\ g.cut = {timers[i]}
                   /\ Top.end => \E s : Keeps(s, Len(stack), g) /\ LastStep(timers[i], s)
                   /\ ~Top.end => /\ Keeps(stack', Len(stack), g)
                                  /\ ended' = ended /\ again' = again
<1>1. /\ Inner("stop") /\ Top \in StopFrames /\ Top.cut = {} /\ Top.i <= Len(timers)
      /\ Top.i \in Nat /\ Top.e \in Elem
  BY InnerIs DEF StopNext, StopFrames
<1>2. PICK i \in Below :
         LET t == timers[i]
             s == Append(Front(stack), [Top EXCEPT !.i = i, !.cut = {t}])
         IN  /\ \A j \in Below : j <= i
             /\ IF Top.end THEN LastStep(t, s)
                ELSE stack' = s /\ UNCHANGED <<hidden, ended, again>>
  BY DEF StopNext
<1>. DEFINE t == timers[i]
            g == [Top EXCEPT !.i = i, !.cut = {t}]
            s == Append(Front(stack), g)
<1>3. i \in 1..Len(timers) /\ Len(timers) \in Nat /\ i <= Top.i /\ el(t.a) = Top.e
  <2>1. Len(timers) \in Nat
    BY LenProperties DEF Typed
  <2>2. i \in 1..Top.i /\ el(t.a) = Top.e
    BY DEF Below
  <2>. QED
    BY <1>1, <2>1, <2>2
<1>4. t \in AllTimers
  BY <1>3, ElementOfSeq DEF Typed
<1>5. g \in StopFrames /\ g.i = i /\ g.cut = {t} /\ g.e = Top.e /\ g.end = Top.end
  <2>1. i \in Nat /\ {t} \in SUBSET AllTimers /\ ({t} # {} => i # 0)
    BY <1>3, <1>4
  <2>. HIDE DEF t
  <2>2. g \in StopFrames
    BY <1>1, <2>1, StopMoves
  <2>. QED
    BY <1>1, <2>2 DEF StopFrames
<1>6. \A j \in 1..Top.i : el(timers[j].a) = Top.e => j <= i
  BY <1>2 DEF Below
<1>7. IF Top.end THEN LastStep(t, s) ELSE stack' = s /\ UNCHANGED <<hidden, ended, again>>
  BY <1>2
<1>. HIDE DEF g
<1>8. Keeps(s, Len(stack), g)
  BY <1>1, <1>5, ReplaceKeeps DEF Frame, Inner
<1>9. UNCHANGED <<queue, timers, begun, over, removed, disturbed>>
  BY DEF StopNext
<1>. HIDE DEF s
<1>. QED
  BY <1>1, <1>3, <1>4, <1>5, <1>6, <1>7, <1>8, <1>9

LEMMA StopEndsShape ==
    ASSUME Typed, StopEnds
    PROVE  /\ Inner("stop") /\ Top \in StopFrames /\ Top.cut = {} /\ Top.e \in Elem
           /\ \A j \in 1..Top.i : el(timers[j].a) # Top.e
           /\ UNCHANGED <<timers, ended, begun, over, removed, again, disturbed>>
           /\ Top.end => queue' = queue /\ Keeps(stack', Len(stack) - 1, Top)
           /\ ~Top.end =>
               \E s : Keeps(s, Len(stack) - 1, Top) /\ Dequeue(Top.e, s)
<1>1. Inner("stop") /\ Top \in StopFrames /\ Top.cut = {} /\ Top.e \in Elem
  BY InnerIs DEF StopEnds, StopFrames
<1>2. Keeps(Front(stack), Len(stack) - 1, Top)
  BY <1>1, FrontKeeps DEF Inner
<1>3. \A j \in 1..Top.i : el(timers[j].a) # Top.e
  BY DEF StopEnds, Below
<1>4. /\ IF Top.end THEN stack' = Front(stack) /\ UNCHANGED <<queue, mode>>
         ELSE Dequeue(Top.e, Front(stack))
      /\ UNCHANGED <<timers, ended, begun, over, removed, again, disturbed>>
  BY DEF StopEnds, ghosts
<1>. QED
  BY <1>1, <1>2, <1>3, <1>4

LEMMA UnwoundShape ==
    ASSUME Typed, StopBreaks \/ Throw
    PROVE  /\ \A g : Keeps(stack', 0, g)
           /\ UNCHANGED <<queue, timers, ended, begun, over, removed, again>>
           /\ ~disturbed' => ~disturbed /\ \A i \in 1..Len(stack) : stack[i].k = "page"
<1>1. /\ stack' = <<>>
      /\ UNCHANGED <<queue, timers, ended, begun, over, removed, again>>
      /\ disturbed' = (disturbed \/ \E i \in DOMAIN stack : stack[i].k # "page")
  BY DEF StopBreaks, Throw, Unwound
<1>2. DOMAIN stack = 1..Len(stack)
  BY LenProperties DEF Typed
<1>. QED
  BY <1>1, <1>2, EmptyKeeps

LEMMA SpliceShape ==
    ASSUME Typed, TickSplice \/ StopSplice
    PROVE  /\ Inner("tick") \/ Inner("stop")
           /\ Top.cut # {} /\ Top.i \in Nat \ {0} /\ Top \in Frame
           /\ \E g \in Frame :
               /\ g.k = Top.k /\ g.cut = {}
               /\ g.k = "stop" => g.i = Top.i - 1 /\ g.e = Top.e /\ g.end = Top.end
               /\ Keeps(stack', Len(stack), g)
           /\ Top.i \in 1..Len(timers) => timers' = RemoveAt(timers, Top.i)
           /\ Top.i \notin 1..Len(timers) => timers' = timers
           /\ UNCHANGED <<queue, ended, begun, over, removed, again, disturbed>>
<1>0. Len(timers) \in Nat
  BY LenProperties DEF Typed
<1>1. CASE TickSplice
  <2>1. Inner("tick") /\ Top \in TickFrames /\ Splice(Top.i) /\ Top.i \in Nat \ {0}
    BY <1>1, InnerIs DEF TickSplice, TickFrames
  <2>. DEFINE g == [Top EXCEPT !.i = Top.i, !.cut = {}]
  <2>2. g \in TickFrames /\ g.k = "tick" /\ g.cut = {} /\ Top.k = "tick"
    BY <2>1 DEF TickFrames
  <2>3. /\ stack' = Append(Front(stack), g) /\ Top.cut # {}
        /\ timers' = IF Top.i <= Len(timers) THEN RemoveAt(timers, Top.i) ELSE timers
        /\ UNCHANGED <<queue, ended, begun, over, removed, again, disturbed>>
    BY <2>1 DEF Splice, ghosts
  <2>. HIDE DEF g
  <2>4. g \in Frame /\ Top \in Frame
    BY <2>1, <2>2 DEF Frame
  <2>5. Keeps(stack', Len(stack), g)
    BY <2>1, <2>3, <2>4, ReplaceKeeps DEF Inner
  <2>6. Top.i \in 1..Len(timers) <=> Top.i <= Len(timers)
    BY <1>0, <2>1
  <2>. QED
    BY <2>1, <2>2, <2>3, <2>4, <2>5, <2>6
<1>2. CASE StopSplice
  <2>1. Inner("stop") /\ Top \in StopFrames /\ Splice(Top.i - 1) /\ Top.cut # {}
    BY <1>2, InnerIs DEF StopSplice, Splice
  <2>2. Top.i \in Nat \ {0} /\ Top.i - 1 \in Nat /\ {} \in SUBSET AllTimers
    BY <2>1 DEF StopFrames
  <2>. DEFINE g == [Top EXCEPT !.i = Top.i - 1, !.cut = {}]
  <2>3. g \in StopFrames
    BY <2>1, <2>2, StopMoves
  <2>4. /\ g.k = "stop" /\ g.cut = {} /\ Top.k = "stop" /\ g.i = Top.i - 1
        /\ g.e = Top.e /\ g.end = Top.end
    BY <2>1 DEF StopFrames
  <2>5. /\ stack' = Append(Front(stack), g)
        /\ timers' = IF Top.i <= Len(timers) THEN RemoveAt(timers, Top.i) ELSE timers
        /\ UNCHANGED <<queue, ended, begun, over, removed, again, disturbed>>
    BY <2>1 DEF Splice, ghosts
  <2>. HIDE DEF g
  <2>6. g \in Frame /\ Top \in Frame
    BY <2>1, <2>3 DEF Frame
  <2>7. Keeps(stack', Len(stack), g)
    BY <2>1, <2>5, <2>6, ReplaceKeeps DEF Inner
  <2>8. Top.i \in 1..Len(timers) <=> Top.i <= Len(timers)
    BY <1>0, <2>2
  <2>. QED
    BY <2>1, <2>2, <2>4, <2>5, <2>6, <2>7, <2>8
<1>. QED
  BY <1>1, <1>2

\* What is left when the element at place i is taken out.
LEMMA TakenOut ==
    ASSUME NEW S, NEW s \in Seq(S), NEW i \in 1..Len(s)
    PROVE  /\ RemoveAt(s, i) \in Seq(S) /\ Len(RemoveAt(s, i)) = Len(s) - 1
           /\ \A j \in 1..(Len(s) - 1) :
                RemoveAt(s, i)[j] = IF j < i THEN s[j] ELSE s[j + 1]
<1>. DEFINE n == Len(s)
            b == SubSeq(s, 1, i - 1)
            c == SubSeq(s, i + 1, n)
<1>1. n \in Nat /\ i \in 1..n /\ i \in Nat /\ \A j \in 1..n : s[j] \in S
  BY LenProperties, ElementOfSeq
<1>2. /\ 1 \in Int /\ i - 1 \in Int /\ i + 1 \in Int /\ n \in Int
      /\ (\A j \in 1..(i - 1) : s[j] \in S) /\ (\A j \in (i + 1)..n : s[j] \in S)
  BY <1>1
<1>. HIDE DEF n
<1>3. /\ b \in Seq(S) /\ Len(b) = (IF 1 <= i - 1 THEN (i - 1) - 1 + 1 ELSE 0)
      /\ \A j \in 1..((i - 1) - 1 + 1) : b[j] = s[1 + j - 1]
  BY <1>2, SubSeqProperties
<1>4. /\ c \in Seq(S) /\ Len(c) = (IF i + 1 <= n THEN n - (i + 1) + 1 ELSE 0)
      /\ \A j \in 1..(n - (i + 1) + 1) : c[j] = s[(i + 1) + j - 1]
  BY <1>2, SubSeqProperties
<1>. HIDE DEF b, c
<1>5. Len(b) = i - 1 /\ Len(c) = n - i
  BY <1>1, <1>3, <1>4
<1>6. ASSUME NEW j \in 1..(i - 1) PROVE b[j] = s[j]
  <2>1. j \in 1..((i - 1) - 1 + 1) /\ 1 + j - 1 = j
    BY <1>1
  <2>2. b[j] = s[1 + j - 1]
    BY <1>3, <2>1
  <2>. QED
    BY <2>1, <2>2
<1>7. ASSUME NEW j \in 1..(n - i) PROVE c[j] = s[i + j]
  <2>1. j \in 1..(n - (i + 1) + 1) /\ (i + 1) + j - 1 = i + j
    BY <1>1
  <2>2. c[j] = s[(i + 1) + j - 1]
    BY <1>4, <2>1
  <2>. QED
    BY <2>1, <2>2
<1>8. /\ b \o c \in Seq(S) /\ Len(b \o c) = Len(b) + Len(c)
      /\ \A j \in 1..(Len(b) + Len(c)) :
            (b \o c)[j] = IF j <= Len(b) THEN b[j] ELSE c[j - Len(b)]
  BY <1>3, <1>4, ConcatProperties
<1>. DEFINE r == b \o c
<1>9. /\ r \in Seq(S) /\ Len(r) = n - 1
      /\ \A j \in 1..(n - 1) : r[j] = IF j <= i - 1 THEN b[j] ELSE c[j - (i - 1)]
  <2>1. Len(b) + Len(c) = n - 1
    BY <1>1, <1>5
  <2>. QED
    BY <1>5, <1>8, <2>1
<1>. HIDE DEF r
<1>10. ASSUME NEW j \in 1..(n - 1) PROVE r[j] = IF j < i THEN s[j] ELSE s[j + 1]
  <2>1. CASE j < i
    <3>1. j \in 1..(i - 1) /\ j <= i - 1
      BY <1>1, <2>1
    <3>. QED
      BY <1>6, <1>9, <2>1, <3>1
  <2>2. CASE ~ (j < i)
    <3>1. j - (i - 1) \in 1..(n - i) /\ ~ (j <= i - 1) /\ i + (j - (i - 1)) = j + 1
      BY <1>1, <2>2
    <3>2. r[j] = c[j - (i - 1)]
      BY <1>9, <3>1
    <3>3. c[j - (i - 1)] = s[i + (j - (i - 1))]
      BY <1>7, <3>1
    <3>. QED
      BY <2>2, <3>1, <3>2, <3>3
  <2>. QED
    BY <2>1, <2>2
<1>. QED
  BY <1>9, <1>10 DEF RemoveAt, r, b, c, n

-----------------------------------------------------------------------------
(* Every action keeps the order.                                           *)

\* A call of the page, or of the library that goes on, is nobody's.
LEMMA PlainFrame ==
    ASSUME NEW g, g.k \notin {"loop", "complete"}, NEW ts, NEW d
    PROVE  Same(g) /\ Ahead(g, ts, d)
BY DEF Same, Ahead

LEMMA PageFrameIs ==
    ASSUME NEW g, FromPage(g), stack # <<>>
    PROVE  Same(g) /\ Waits(g, ended) /\ Ahead(g, timers, ended) /\ g.k = "page"
BY DEF FromPage, PageFrames, Same, Waits, Ahead, Loops

LEMMA PageKeepsOrder ==
    ASSUME Order, Typed',
           \/ \E a \in Anim : Animate(a)
           \/ \E e \in Elem :
               \/ Display(e) \/ RemoveElement(e)
               \/ \E clear, end \in BOOLEAN : Stop(e, clear, end)
    PROVE  Order'
<1>. USE DEF Order
<1>0. Len(stack) # 0 => stack # <<>>
  BY StackShape
<1>1. ASSUME NEW a \in Anim, Animate(a) PROVE Order'
  <2>1. PICK g :
        /\ FromPage(g) /\ a \in Anim \ begun /\ begun' = begun \cup {a}
        /\ UNCHANGED <<timers, ended, over, removed, again, disturbed>>
        /\ \/ ~What[a].queued /\ queue' = queue /\ Pushes(stack', Len(stack), g, Enter(a))
           \/ /\ What[a].queued
              /\ queue' = [queue EXCEPT ![el(a)] = Append(queue[el(a)], a)]
              /\ queue[el(a)] = <<>> => Pushes(stack', Len(stack), g, Enter(a))
              /\ queue[el(a)] # <<>> => Keeps(stack', Len(stack), g)
    BY <1>1, AnimateShape
  <2>2. Len(stack) # 0 => Same(g) /\ Waits(g, ended) /\ Ahead(g, timers, ended)
    BY <1>0, <2>1, PageFrameIs
  <2>3. CASE ~What[a].queued
    <3>1. QueueOrder' /\ ToCome' \subseteq ToCome /\ a \in ToCome \ ToCome'
      BY <2>1, <2>3, QueuePassed
    <3>. QED
      BY <2>1, <2>2, <2>3, <3>1, OrderEnters
  <2>4. CASE What[a].queued
    <3>1. /\ QueueOrder' /\ ToCome' \subseteq ToCome /\ a \in ToCome
          /\ queue[el(a)] = <<>> => a \notin ToCome'
      BY <2>1, <2>4, QueueAppended
    <3>2. CASE queue[el(a)] = <<>>
      BY <2>1, <2>2, <2>4, <3>1, <3>2, OrderEnters
    <3>3. CASE queue[el(a)] # <<>>
      BY <2>1, <2>2, <2>4, <3>1, <3>3, OrderKeeps
    <3>. QED
      BY <3>2, <3>3
  <2>. QED
    BY <2>3, <2>4
<1>2. ASSUME NEW e \in Elem, Display(e) \/ RemoveElement(e) PROVE Order'
  <2>1. PICK g : FromPage(g) /\ Keeps(stack', Len(stack), g)
    BY <1>2, PageShape
  <2>2. Len(stack) # 0 => Same(g) /\ Ahead(g, timers, ended)
    BY <1>0, <2>1, PageFrameIs
  <2>3. QueueOrder' /\ ToCome' \subseteq ToCome /\ timers' = timers /\ ended' = ended
    BY <1>2, PageShape, QueueSame, QueueEmptied
  <2>. QED
    BY <2>1, <2>2, <2>3, OrderKeeps
<1>3. ASSUME NEW e \in Elem, NEW clear \in BOOLEAN, NEW end \in BOOLEAN,
             Stop(e, clear, end)
      PROVE  Order'
  <2>1. PICK g : FromPage(g) /\ Pushes(stack', Len(stack), g, StopFrame(e, end))
    BY <1>3, StopShape
  <2>2. Len(stack) # 0 => Same(g) /\ Waits(g, ended)
    BY <1>0, <2>1, PageFrameIs
  <2>3. QueueOrder' /\ ToCome' \subseteq ToCome /\ timers' = timers /\ ended' = ended
    <3>1. /\ queue' = queue \/ queue' = [queue EXCEPT ![e] = <<>>]
          /\ begun' = begun /\ timers' = timers /\ ended' = ended
      BY <1>3, StopShape
    <3>. QED
      BY <3>1, QueueSame, QueueEmptied
  <2>4. StopFrame(e, end).k \notin {"loop", "complete"}
    BY DEF StopFrame
  <2>. QED
    BY <2>1, <2>2, <2>3, <2>4, OrderPushes
<1>. QED
  BY <1>1, <1>2, <1>3

LEMMA CustomKeepsOrder ==
    ASSUME Order, Typed', Custom
    PROVE  Order'
<1>. USE DEF Order
<1>. DEFINE a == Top.a
            p == Head(Top.todo)
            t == Timer(a, p)
<1>1. /\ Inner("loop") /\ Top \in LoopFrames /\ a \in Anim /\ Top.todo # <<>>
      /\ Top.todo \in Seq(Props(a)) /\ p \in Props(a)
      /\ UNCHANGED <<queue, begun, over, removed, disturbed>>
  BY CustomShape
<1>2. PICK g \in LoopFrames :
         /\ g.a = a /\ g.todo = Tail(Top.todo)
         /\ What[a].instant =>
             /\ timers' = timers
             /\ \E s : Keeps(s, Len(stack), g) /\ LastStep(t, s)
         /\ ~What[a].instant =>
             /\ Keeps(stack', Len(stack), g) /\ timers' = Append(timers, t)
             /\ ended' = ended /\ again' = again
  BY CustomShape
<1>3. QueueOrder' /\ ToCome' = ToCome
  BY <1>1, QueueSame
<1>4. /\ Len(stack) \in Nat \ {0} /\ stack[Len(stack)] = Top /\ stack # <<>>
      /\ Top.k = "loop" /\ g.k = "loop"
  BY <1>1, <1>2, StackShape DEF Inner, LoopFrames
<1>5. OnStack(stack, a) /\ Same(g)
  BY <1>2, <1>4 DEF OnStack, Same
<1>6. a \notin ToCome
  BY <1>5 DEF AllFresh, Fresh
<1>. DEFINE w == Top.todo
            v == Tail(Top.todo)
<1>7. /\ Len(w) \in Nat /\ Len(v) = Len(w) - 1 /\ v \in Seq(Props(a)) /\ p = w[1]
      /\ \A i \in 1..(Len(w) - 1) : v[i] = w[i + 1]
  <2>1. w \in Seq(Props(a)) /\ w # <<>>
    BY <1>1
  <2>2. Len(w) \in Nat
    BY <2>1, LenProperties
  <2>3. Head(w) = w[1]
    BY <2>1
  <2>4. /\ Tail(w) \in Seq(Props(a)) /\ Len(Tail(w)) = Len(w) - 1
        /\ \A i \in 1..Len(Tail(w)) : Tail(w)[i] = w[i + 1]
    BY <2>1, HeadTailProperties
  <2>. QED
    BY <2>2, <2>3, <2>4
<1>8. Ahead(Top, timers, ended) /\ DOMAIN w = 1..Len(w) /\ DOMAIN v = 1..Len(v)
  <2>1. w \in Seq(Props(a)) /\ v \in Seq(Props(a))
    BY <1>1, <1>7
  <2>2. DOMAIN w = 1..Len(w) /\ DOMAIN v = 1..Len(v)
    <3>. HIDE DEF w, v
    <3>. QED
      BY <2>1, LenProperties
  <2>. QED
    BY <1>4, <2>2 DEF TopAhead
<1>9. /\ \A i, j \in 1..Len(w) : w[i] = w[j] => i = j
      /\ \A i \in 1..Len(w) : w[i] \notin ended[a]
      /\ \A i \in 1..Len(w) : \A j \in 1..Len(timers) : timers[j] # Timer(a, w[i])
  BY <1>4, <1>8 DEF Ahead, IsInjective
<1>10. Len(w) # 0 /\ 1 \in 1..Len(w) /\ Len(w) >= 1
  BY <1>1, <1>7, EmptySeq
<1>11. g.todo = v
  BY <1>2
<1>. HIDE DEF w, v, p
\* What is left is ahead, but for p.
<1>12. /\ \A i, j \in 1..Len(v) : v[i] = v[j] => i = j
       /\ \A i \in 1..Len(v) : v[i] \notin ended[a] /\ v[i] # p
       /\ \A i \in 1..Len(v) : \A j \in 1..Len(timers) : timers[j] # Timer(a, v[i])
  <2>1. ASSUME NEW i \in 1..Len(v)
        PROVE  i \in Nat /\ i + 1 \in 1..Len(w) /\ v[i] = w[i + 1] /\ i + 1 # 1
    BY <1>7
  <2>2. ASSUME NEW i \in 1..Len(v), NEW j \in 1..Len(v), v[i] = v[j] PROVE i = j
    <3>1. i + 1 = j + 1
      BY <1>9, <2>1, <2>2
    <3>. QED
      BY <2>1, <3>1
  <2>3. ASSUME NEW i \in 1..Len(v) PROVE v[i] \notin ended[a] /\ v[i] # p
    BY <1>7, <1>9, <1>10, <2>1
  <2>4. ASSUME NEW i \in 1..Len(v), NEW j \in 1..Len(timers)
        PROVE  timers[j] # Timer(a, v[i])
    BY <1>9, <2>1
  <2>. QED
    BY <2>2, <2>3, <2>4
<1>13. CASE What[a].instant
  <2>1. timers' = timers /\ \E s : Keeps(s, Len(stack), g) /\ LastStep(t, s)
    BY <1>2, <1>13
  <2>2. PICK s : Keeps(s, Len(stack), g) /\ LastStep(t, s)
    BY <2>1
  <2>3. ended'[a] = ended[a] \cup {p} /\ Grows(ended')
    BY <1>1, <2>2, LastStepShape
  <2>4. Ahead(g, timers, ended')
    <3>1. \A i \in 1..Len(v) : v[i] \notin ended'[a]
      BY <1>12, <2>3
    <3>2. IsInjective(v)
      BY <1>8, <1>12 DEF IsInjective
    <3>. QED
      BY <1>2, <1>11, <1>12, <3>1, <3>2 DEF Ahead
  <2>5. ASSUME ended'[a] = Props(a) PROVE Waits(g, ended')
    <3>1. \A i \in 1..Len(v) : v[i] \in Props(a) /\ v[i] \notin ended'[a]
      BY <1>7, <1>12, <2>3, ElementOfSeq
    <3>2. Len(v) = 0
      <4>1. Len(v) \in Nat
        BY <1>7, <1>10
      <4>2. Len(v) # 0 => 1 \in 1..Len(v)
        BY <4>1
      <4>. QED
        BY <2>5, <3>1, <4>2
    <3>3. v = <<>>
      BY <1>7, <3>2, EmptySeq
    <3>. QED
      BY <1>2, <1>4, <1>11, <2>5, <3>3 DEF Waits, Loops
  <2>6. QueueOrder' /\ ToCome' \subseteq ToCome /\ timers' = timers /\ Len(stack) # 0
    BY <1>3, <1>4, <2>1
  <2>. HIDE DEF Order, a
  <2>. QED
    BY <1>1, <1>5, <1>6, <2>2, <2>4, <2>5, <2>6, OrderLastStep
<1>14. CASE ~What[a].instant
  <2>1. /\ Keeps(stack', Len(stack), g) /\ timers' = Append(timers, t) /\ ended' = ended
    BY <1>2, <1>14
  <2>2. /\ Len(timers) \in Nat /\ Len(timers') = Len(timers) + 1
        /\ \A i \in 1..(Len(timers) + 1) :
              timers'[i] = IF i <= Len(timers) THEN timers[i] ELSE t
    <3>1. timers \in Seq(AllTimers) /\ t \in AllTimers
      BY <1>1, TimerOfProp DEF Typed
    <3>. HIDE DEF t
    <3>. QED
      BY <2>1, <3>1, AppendProperties, LenProperties
  <2>3. \A j \in 1..Len(timers) : timers[j] # t
    BY <1>7, <1>9, <1>10
  <2>4. TimersDiffer'
    <3>. SUFFICES ASSUME NEW i \in 1..Len(timers'), NEW j \in 1..Len(timers'),
                         timers'[i] = timers'[j]
                  PROVE  i = j
      BY DEF TimersDiffer
    <3>1. i \in 1..(Len(timers) + 1) /\ j \in 1..(Len(timers) + 1)
      BY <2>2
    <3>2. ASSUME NEW k \in 1..(Len(timers) + 1), k # Len(timers) + 1
          PROVE  k \in 1..Len(timers) /\ timers'[k] = timers[k]
      BY <2>2, <3>2
    <3>3. timers'[Len(timers) + 1] = t
      BY <2>2
    <3>. QED
      BY <2>3, <3>1, <3>2, <3>3 DEF TimersDiffer
  <2>5. Ahead(g, timers', ended')
    <3>1. ASSUME NEW i \in 1..Len(v), NEW j \in 1..Len(timers')
          PROVE  timers'[j] # Timer(a, v[i])
      <4>1. CASE j <= Len(timers)
        BY <1>12, <2>2, <4>1
      <4>2. CASE ~ (j <= Len(timers))
        <5>1. timers'[j] = t
          BY <2>2, <4>2
        <5>2. t.p = p /\ Timer(a, v[i]).p = v[i]
          BY DEF Timer
        <5>. QED
          BY <1>12, <5>1, <5>2
      <4>. QED
        BY <4>1, <4>2
    <3>. QED
      BY <1>2, <1>8, <1>11, <1>12, <2>1, <3>1 DEF Ahead, IsInjective
  <2>6. Grows(ended') /\ EndedTyped'
    BY <2>1, EndedSame DEF EndedTyped
  <2>7. Nested' /\ TopAhead'
    BY <2>1, <2>5, <2>6, NestedKeeps, AheadKeeps
  <2>8. AllFresh'
    <3>1. ASSUME NEW b \in ToCome', Timed(timers', b) PROVE Timed(timers, b)
      <4>1. PICK j \in 1..Len(timers') : timers'[j].a = b
        BY <3>1 DEF Timed
      <4>2. CASE j <= Len(timers)
        BY <2>2, <4>1, <4>2 DEF Timed
      <4>3. CASE ~ (j <= Len(timers))
        <5>1. timers'[j] = t
          BY <2>2, <4>3
        <5>. QED
          BY <1>3, <1>6, <4>1, <5>1 DEF Timer
      <4>. QED
        BY <4>2, <4>3
    <3>2. \A b : OnStack(stack', b) => OnStack(stack, b)
      BY <1>5, <2>1, OnStackKeeps
    <3>. QED
      BY <1>3, <2>1, <3>1, <3>2, FreshStays
  <2>. QED
    BY <1>3, <2>4, <2>6, <2>7, <2>8
<1>. QED
  BY <1>13, <1>14

LEMMA QuietKeepsOrder ==
    ASSUME Order, Typed', Shown \/ LoopEnds \/ TickEnds \/ Return \/ CallPage \/ Tick \/ TickGoesOn
                          \/ StopBreaks \/ Throw
    PROVE  Order'
<1>. USE DEF Order
<1>1. CASE Shown
  <2>1. PICK g \in LoopFrames : /\ g.a = Top.a /\ g.todo = Top.todo
                                /\ Keeps(stack', Len(stack), g)
    BY <1>1, ShownShape
  <2>2. /\ Inner("loop") /\ Top \in LoopFrames /\ QueueOrder' /\ ToCome' \subseteq ToCome
        /\ timers' = timers /\ ended' = ended
    BY <1>1, ShownShape, QueueSame
  <2>3. stack # <<>> /\ Top = stack[Len(stack)] /\ Top.k = "loop" /\ g.k = "loop"
    BY <2>2 DEF Inner, LoopFrames
  <2>4. Same(g) /\ Ahead(g, timers, ended)
    BY <2>1, <2>3 DEF Same, TopAhead, Ahead
  <2>. QED
    BY <2>1, <2>2, <2>4, OrderKeeps
<1>2. CASE LoopEnds \/ TickEnds \/ Return
  <2>1. /\ Keeps(stack', Len(stack) - 1, Top) /\ QueueOrder' /\ ToCome' \subseteq ToCome
        /\ timers' = timers /\ ended' = ended
    BY <1>2, ReturnShape, QueueSame
  <2>2. Len(stack) - 1 # Len(stack)
    BY StackShape
  <2>. QED
    BY <2>1, <2>2, OrderKeeps
<1>3. CASE CallPage
  <2>1. /\ QueueOrder' /\ ToCome' \subseteq ToCome /\ timers' = timers /\ ended' = ended
        /\ \/ Keeps(stack', Len(stack), Page) /\ Page \in PageFrames
           \/ Keeps(stack', Len(stack) - 1, Top)
    BY <1>3, CallPageShape, QueueSame
  <2>2. Len(stack) - 1 # Len(stack)
    BY StackShape
  <2>3. Page \in PageFrames => Same(Page) /\ Ahead(Page, timers, ended)
    BY PlainFrame DEF PageFrames
  <2>. QED
    BY <2>1, <2>2, <2>3, OrderKeeps
<1>4. CASE Tick
  <2>1. /\ QueueOrder' /\ ToCome' \subseteq ToCome /\ timers' = timers /\ ended' = ended
        /\ Pushes(stack', 0, TickFrame, TickFrame)
    BY <1>4, TickShape, QueueSame
  <2>2. TickFrame.k \notin {"loop", "complete"}
    BY DEF TickFrame
  <2>. QED
    BY <2>1, <2>2, OrderPushes
<1>5. CASE TickGoesOn
  <2>1. PICK g \in TickFrames : Keeps(stack', Len(stack), g)
    BY <1>5, TickGoesOnShape
  <2>2. QueueOrder' /\ ToCome' \subseteq ToCome /\ timers' = timers /\ ended' = ended
    BY <1>5, TickGoesOnShape, QueueSame
  <2>3. Same(g) /\ Ahead(g, timers, ended)
    BY PlainFrame DEF TickFrames
  <2>. QED
    BY <2>1, <2>2, <2>3, OrderKeeps
<1>6. CASE StopBreaks \/ Throw
  <2>1. /\ QueueOrder' /\ ToCome' \subseteq ToCome /\ timers' = timers /\ ended' = ended
        /\ Keeps(stack', 0, Top)
    BY <1>6, UnwoundShape, QueueSame
  <2>. QED
    BY <2>1, OrderKeeps
<1>. QED
  BY <1>1, <1>2, <1>3, <1>4, <1>5, <1>6

LEMMA EnterPushes ==
    ASSUME NEW s, NEW m, NEW g, NEW a \in Anim, Keeps(s, m, g)
    PROVE  Pushes(Append(s, Enter(a)), m, g, Enter(a))
<1>1. Enter(a) \in Frame
  BY EnterIsFrame
<1>. QED
  BY <1>1, AppendPushes

LEMMA MoveKeepsOrder ==
    ASSUME Order, Typed', Move \/ StopEnds
    PROVE  Order'
<1>. USE DEF Order
<1>1. CASE Move
  <2>1. /\ Inner("complete") /\ Top \in CompleteFrames /\ Top.a \in Anim /\ el(Top.a) \in Elem
        /\ timers' = timers /\ ended' = ended /\ begun' = begun
    BY <1>1, MoveShape
  <2>2. PICK g \in CompleteFrames :
            /\ g.a = Top.a /\ g.moved
            /\ ~What[Top.a].queued => queue' = queue /\ Keeps(stack', Len(stack), g)
            /\ What[Top.a].queued =>
                \E s : Keeps(s, Len(stack), g) /\ Dequeue(el(Top.a), s)
    BY <1>1, MoveShape
  <2>3. g \in Frame /\ g.k = "complete"
    BY DEF CompleteFrames, Frame
  <2>4. Same(g) /\ Ahead(g, timers, ended) /\ Waits(g, ended)
    BY <2>1, <2>2, <2>3 DEF Same, Ahead, Waits, Inner, Loops, CompleteFrames
  <2>5. CASE ~What[Top.a].queued
    <3>1. QueueOrder' /\ ToCome' \subseteq ToCome
      BY <2>1, <2>2, <2>5, QueueSame
    <3>. QED
      BY <2>1, <2>2, <2>4, <2>5, <3>1, OrderKeeps
  <2>6. CASE What[Top.a].queued
    <3>. DEFINE e == el(Top.a)
    <3>1. PICK s : Keeps(s, Len(stack), g) /\ Dequeue(e, s)
      BY <2>2, <2>6
    <3>2. /\ QueueOrder' /\ ToCome' \subseteq ToCome
          /\ Len(queue[e]) > 1 => /\ queue[e][2] \in ToCome \ ToCome'
                                  /\ stack' = Append(s, Enter(queue[e][2]))
          /\ ~ (Len(queue[e]) > 1) => stack' = s
      BY <2>1, <3>1, QueueDequeued
    <3>3. CASE Len(queue[e]) > 1
      <4>1. Pushes(stack', Len(stack), g, Enter(queue[e][2]))
        <5>1. queue[e][2] \in Anim /\ stack' = Append(s, Enter(queue[e][2]))
          BY <3>2, <3>3 DEF ToCome
        <5>. QED
          BY <3>1, <5>1, EnterPushes
      <4>. QED
        BY <2>1, <2>4, <3>2, <3>3, <4>1, OrderEnters
    <3>4. CASE ~ (Len(queue[e]) > 1)
      BY <2>1, <2>4, <3>1, <3>2, <3>4, OrderKeeps
    <3>. QED
      BY <3>3, <3>4
  <2>. QED
    BY <2>5, <2>6
<1>2. CASE StopEnds
  <2>1. /\ Top.e \in Elem /\ timers' = timers /\ ended' = ended /\ begun' = begun
        /\ Top.end => queue' = queue /\ Keeps(stack', Len(stack) - 1, Top)
        /\ ~Top.end => \E s : Keeps(s, Len(stack) - 1, Top) /\ Dequeue(Top.e, s)
    BY <1>2, StopEndsShape
  <2>2. Len(stack) - 1 # Len(stack)
    BY StackShape
  <2>3. CASE Top.end
    <3>1. QueueOrder' /\ ToCome' \subseteq ToCome
      BY <2>1, <2>3, QueueSame
    <3>. QED
      BY <2>1, <2>2, <2>3, <3>1, OrderKeeps
  <2>4. CASE ~Top.end
    <3>. DEFINE e == Top.e
                m == Len(stack) - 1
    <3>1. PICK s : Keeps(s, m, Top) /\ Dequeue(e, s)
      BY <2>1, <2>4
    <3>2. /\ QueueOrder' /\ ToCome' \subseteq ToCome
          /\ Len(queue[e]) > 1 => /\ queue[e][2] \in ToCome \ ToCome'
                                  /\ stack' = Append(s, Enter(queue[e][2]))
          /\ ~ (Len(queue[e]) > 1) => stack' = s
      BY <2>1, <3>1, QueueDequeued
    <3>3. CASE Len(queue[e]) > 1
      <4>1. Pushes(stack', m, Top, Enter(queue[e][2]))
        <5>1. queue[e][2] \in Anim /\ stack' = Append(s, Enter(queue[e][2]))
          BY <3>2, <3>3 DEF ToCome
        <5>. QED
          BY <3>1, <5>1, EnterPushes
      <4>. HIDE DEF m
      <4>. QED
        BY <2>1, <2>2, <3>2, <3>3, <4>1, OrderEnters DEF m
    <3>4. CASE ~ (Len(queue[e]) > 1)
      BY <2>1, <2>2, <3>1, <3>2, <3>4, OrderKeeps
    <3>. QED
      BY <3>3, <3>4
  <2>. QED
    BY <2>3, <2>4
<1>. QED
  BY <1>1, <1>2

\* A loop over the timers makes the last step of one of them.
LEMMA ForcedKeepsOrder ==
    ASSUME Order, Typed', queue' = queue, begun' = begun, timers' = timers,
           stack # <<>>, NEW i \in 1..Len(timers), NEW s, NEW g, g.k \in Loops, g.cut # {},
           g.k = "stop" => g.end, Keeps(s, Len(stack), g), LastStep(timers[i], s)
    PROVE  Order'
<1>. USE DEF Order
<1>1. timers[i] \in AllTimers
  <2>1. timers \in Seq(AllTimers)
    BY DEF Typed
  <2>. HIDE DEF Order
  <2>. QED
    BY <2>1, ElementOfSeq
<1>2. PICK a \in Anim : \E p \in Props(a) : timers[i] = Timer(a, p)
  BY <1>1 DEF AllTimers
<1>. PICK p \in Props(a) : timers[i] = Timer(a, p)
  BY <1>2
<1>3. a \notin ToCome
  BY DEF AllFresh, Fresh, Timed, Timer
<1>4. QueueOrder' /\ ToCome' \subseteq ToCome /\ Len(stack) # 0
  BY QueueSame, StackShape
<1>5. Same(g) /\ Ahead(g, timers, ended') /\ Waits(g, ended')
  BY DEF Same, Ahead, Waits, Loops
<1>6. LastStep(Timer(a, p), s)
  OBVIOUS
<1>. HIDE DEF Order
<1>. QED
  BY <1>3, <1>4, <1>5, <1>6, OrderLastStep

LEMMA LoopsKeepOrder ==
    ASSUME Order, Typed', StopNext \/ \E t \in AllTimers : TickLast(t)
    PROVE  Order'
<1>0. Typed
  BY DEF Order
<1>1. ASSUME NEW t \in AllTimers, TickLast(t) PROVE Order'
  <2>1. PICK g \in TickFrames :
           /\ g.i = Top.i /\ g.cut = {t}
           /\ \E s : Keeps(s, Len(stack), g) /\ LastStep(t, s)
    BY <1>0, <1>1, TickLastShape
  <2>2. PICK s : Keeps(s, Len(stack), g) /\ LastStep(t, s)
    BY <2>1
  <2>3. /\ Inner("tick") /\ Top.i \in 1..Len(timers) /\ timers[Top.i] = t
        /\ UNCHANGED <<queue, timers, begun>>
    BY <1>0, <1>1, TickLastShape
  <2>4. g.k = "tick" /\ g.cut # {} /\ stack # <<>>
    BY <2>1, <2>3 DEF TickFrames, Inner
  <2>. QED
    BY <2>2, <2>3, <2>4, ForcedKeepsOrder DEF Loops
<1>2. CASE StopNext
  <2>1. PICK i \in 1..Len(timers) :
           \E g \in StopFrames :
               /\ g.e = Top.e /\ g.end = Top.end /\ g.i = i /\ g.cut = {timers[i]}
               /\ Top.end => \E s : Keeps(s, Len(stack), g) /\ LastStep(timers[i], s)
               /\ ~Top.end => Keeps(stack', Len(stack), g) /\ ended' = ended
    BY <1>0, <1>2, StopNextShape
  <2>2. PICK g \in StopFrames :
               /\ g.e = Top.e /\ g.end = Top.end /\ g.i = i /\ g.cut = {timers[i]}
               /\ Top.end => \E s : Keeps(s, Len(stack), g) /\ LastStep(timers[i], s)
               /\ ~Top.end => Keeps(stack', Len(stack), g) /\ ended' = ended
    BY <2>1
  <2>3. Inner("stop") /\ UNCHANGED <<queue, timers, begun>>
    BY <1>0, <1>2, StopNextShape
  <2>4. g.k = "stop" /\ g.cut # {} /\ stack # <<>>
    BY <2>2, <2>3 DEF StopFrames, Inner
  <2>5. CASE Top.end
    <3>1. PICK s : Keeps(s, Len(stack), g) /\ LastStep(timers[i], s)
      BY <2>2, <2>5
    <3>2. /\ g.k \in Loops /\ g.cut # {} /\ (g.k = "stop" => g.end) /\ stack # <<>>
          /\ queue' = queue /\ begun' = begun /\ timers' = timers
      BY <2>2, <2>3, <2>4, <2>5 DEF Loops
    <3>. QED
      BY <3>1, <3>2, ForcedKeepsOrder
  <2>6. CASE ~Top.end
    <3>1. Same(g) /\ Ahead(g, timers, ended)
      BY <2>4, PlainFrame
    <3>2. QueueOrder' /\ ToCome' \subseteq ToCome
      BY <2>3, QueueSame DEF Order
    <3>. QED
      BY <2>2, <2>3, <2>6, <3>1, <3>2, OrderKeeps
  <2>. QED
    BY <2>5, <2>6
<1>. QED
  BY <1>1, <1>2

LEMMA SpliceKeepsOrder ==
    ASSUME Order, Typed', TickSplice \/ StopSplice
    PROVE  Order'
<1>. USE DEF Order
<1>1. PICK g \in Frame : /\ g.k = Top.k /\ g.cut = {}
                         /\ Keeps(stack', Len(stack), g)
  BY SpliceShape
<1>2. /\ Inner("tick") \/ Inner("stop")
      /\ Top.i \in 1..Len(timers) => timers' = RemoveAt(timers, Top.i)
      /\ Top.i \notin 1..Len(timers) => timers' = timers
      /\ UNCHANGED <<queue, ended, begun>>
  BY SpliceShape
<1>3. QueueOrder' /\ ToCome' \subseteq ToCome
  BY <1>2, QueueSame
<1>4. g.k \notin {"loop", "complete"}
  BY <1>1, <1>2 DEF Inner
<1>5. Same(g) /\ Ahead(g, timers', ended)
  BY <1>4, PlainFrame
<1>6. CASE Top.i \notin 1..Len(timers)
  BY <1>1, <1>2, <1>3, <1>5, <1>6, OrderKeeps
<1>7. CASE Top.i \in 1..Len(timers)
  <2>. DEFINE i == Top.i
              n == Len(timers)
  <2>1. /\ Len(timers') = n - 1 /\ n \in Nat /\ i \in 1..n
        /\ \A j \in 1..(n - 1) : timers'[j] = IF j < i THEN timers[j] ELSE timers[j + 1]
    BY <1>2, <1>7, TakenOut, LenProperties DEF Typed
  <2>2. ASSUME NEW j \in 1..(n - 1)
        PROVE  \E k \in 1..n : timers'[j] = timers[k] /\ k = IF j < i THEN j ELSE j + 1
    <3>1. j \in 1..n /\ j + 1 \in 1..n
      BY <2>1
    <3>. QED
      BY <2>1, <3>1
  <2>3. TimersDiffer'
    <3>. SUFFICES ASSUME NEW j \in 1..(n - 1), NEW k \in 1..(n - 1), timers'[j] = timers'[k]
                  PROVE  j = k
      BY <2>1 DEF TimersDiffer
    <3>1. PICK x \in 1..n : timers'[j] = timers[x] /\ x = IF j < i THEN j ELSE j + 1
      BY <2>2
    <3>2. PICK y \in 1..n : timers'[k] = timers[y] /\ y = IF k < i THEN k ELSE k + 1
      BY <2>2
    <3>3. x = y
      BY <3>1, <3>2 DEF TimersDiffer
    <3>. QED
      BY <2>1, <3>1, <3>2, <3>3
  <2>4. EndedTyped' /\ Grows(ended')
    BY <1>2, EndedSame DEF EndedTyped
  <2>5. Nested' /\ TopAhead'
    BY <1>1, <1>2, <1>5, <2>4, NestedKeeps, AheadKeeps
  <2>6. ASSUME NEW a, Timed(timers', a) PROVE Timed(timers, a)
    BY <2>1, <2>2, <2>6 DEF Timed
  <2>7. \A a : OnStack(stack', a) => OnStack(stack, a)
    BY <1>1, <1>5, OnStackKeeps
  <2>8. AllFresh'
    BY <1>2, <1>3, <2>6, <2>7, FreshStays
  <2>. QED
    BY <1>3, <2>3, <2>4, <2>5, <2>8
<1>. QED
  BY <1>6, <1>7

LEMMA OrderStutters == Order /\ UNCHANGED vars => Order'
<1>. SUFFICES ASSUME Order, UNCHANGED vars PROVE Order'
  OBVIOUS
<1>1. UNCHANGED <<queue, timers, begun, ended, stack>>
  BY DEF vars
<1>. QED
  BY <1>1 DEF Order, Typed, EndedTyped, QueueOrder, AllFresh, Fresh, ToCome, Nested, TopAhead,
     TimersDiffer

LEMMA NextKeepsOrder == Order /\ [Next]_vars => Order'
<1>. SUFFICES ASSUME Order, [Next]_vars PROVE Order'
  OBVIOUS
<1>1. Typed'
  BY NextKeepsTypes DEF Order
<1>2. CASE UNCHANGED vars
  BY <1>2, OrderStutters
<1>3. CASE Calculates
  BY <1>1, <1>3, CustomKeepsOrder, QuietKeepsOrder, MoveKeepsOrder, LoopsKeepOrder,
     SpliceKeepsOrder
     DEF Calculates
<1>. QED
  BY <1>1, <1>2, <1>3, PageKeepsOrder, QuietKeepsOrder, LoopsKeepOrder DEF Next

LEMMA InitOrder == Init => Order
<1>. SUFFICES ASSUME Init PROVE Order
  OBVIOUS
<1>. DEFINE n == <<>>
<1>1. Len(n) = 0 /\ 1..Len(n) = {} /\ 2..Len(n) = {} /\ \A S : n \in Seq(S)
  BY EmptySeq
<1>2. /\ queue = [e \in Elem |-> n] /\ timers = n /\ stack = n /\ begun = {}
      /\ ended = [a \in Anim |-> {}]
  BY DEF Init
<1>. HIDE DEF n
<1>3. Typed
  BY <1>1, <1>2 DEF Typed
<1>4. EndedTyped
  BY <1>2 DEF EndedTyped
<1>5. QueueOrder /\ AllFresh /\ TimersDiffer
  BY <1>1, <1>2 DEF QueueOrder, AllFresh, Fresh, OnStack, Timed, TimersDiffer, ToCome
<1>6. Nested /\ TopAhead
  <2>1. 1..(Len(n) - 1) = {}
    BY <1>1
  <2>. QED
    BY <1>2, <2>1 DEF Nested, TopAhead, n
<1>. QED
  BY <1>3, <1>4, <1>5, <1>6 DEF Order

-----------------------------------------------------------------------------
(* The loops over the timers, while nobody has disturbed them.             *)

\* A loop that is to take out a timer.
Cutting(f) == f.k \in Loops /\ f.cut # {}

\* It has the right one, which has ended, unless it is being stopped where it is.
RightCut(f, ts, d) ==
    Cutting(f) =>
        /\ f.i \in 1..Len(ts) /\ f.cut = {ts[f.i]}
        /\ ts[f.i].p \in d[ts[f.i].a] \/ (f.k = "stop" /\ ~f.end)
        /\ f.k = "stop" => el(ts[f.i].a) = f.e

\* A stop that finds nothing to stop.
Idle(f, ts) == f.k = "stop" /\ f.cut = {} /\ \A j \in 1..Len(ts) : el(ts[j].a) # f.e

Cuts(s, ts, d) == \A k \in 1..Len(s) : RightCut(s[k], ts, d)

\* There is one loop, unless the innermost call is such a stop.
Alone(s, ts) ==
    \A j, k \in 1..Len(s) :
        j < k /\ s[j].k \in Loops /\ s[k].k \in Loops => k = Len(s) /\ Idle(s[k], ts)

\* A timer that has ended is about to be taken out.
EndedCut(s, ts, d) ==
    \A j \in 1..Len(ts) :
        ts[j].p \in d[ts[j].a] => \E k \in 1..Len(s) : Cutting(s[k]) /\ s[k].i = j

\* stop without gotoEnd has all timers of the element before it, and the page has
\* stopped their animations.
Halts(f) == f.k = "stop" /\ ~f.end
HaltsAll(f, ts, o) ==
    Halts(f) => \A j \in 1..Len(ts) : el(ts[j].a) = f.e => ts[j].a \in o /\ j <= f.i

\* Every property of a that has not ended has a timer or is still ahead.
Whole(a, f, ts, d) ==
    \A p \in Props(a) \ d[a] :
        \/ \E j \in 1..Len(ts) : ts[j] = Timer(a, p)
        \/ f.k = "loop" /\ f.a = a /\ \E i \in 1..Len(f.todo) : f.todo[i] = p

AllWhole(f, ts, d) ==
    \A a \in Anim : Timed(ts, a) \/ (f.k = "loop" /\ f.a = a) =>
        Whole(a, f, ts, d) \/ (Halts(f) /\ f.e = el(a))

\* The innermost call of a stack.
NoCall == [k |-> "none"]
Innermost(s) == IF Len(s) = 0 THEN NoCall ELSE s[Len(s)]

LoopsAlone == Cuts(stack, timers, ended) /\ Alone(stack, timers) /\ EndedCut(stack, timers, ended)
TimersWhole ==
    /\ HaltsAll(Innermost(stack), timers, over)
    /\ AllWhole(Innermost(stack), timers, ended)

Undisturbed == ~disturbed => LoopsAlone /\ TimersWhole /\ again = {}

-----------------------------------------------------------------------------
LEMMA CutsGrow ==
    ASSUME Typed, NEW f, NEW d, Grows(d), RightCut(f, timers, ended)
    PROVE  RightCut(f, timers, d)
<1>. SUFFICES ASSUME Cutting(f) PROVE RightCut(f, timers, d)
  BY DEF RightCut
<1>1. f.i \in 1..Len(timers) /\ timers[f.i].a \in Anim
  BY ElementOfSeq, AnimOfTimer DEF RightCut, Typed
<1>. QED
  BY <1>1 DEF RightCut, Grows

\* The timers that have just ended.
JustEnded(j) ==
    timers[j].p \in ended'[timers[j].a] /\ timers[j].p \notin ended[timers[j].a]

LEMMA AloneKeeps ==
    ASSUME Typed, LoopsAlone, Grows(ended'), timers' = timers,
           NEW m, NEW g, Keeps(stack', m, g),
           m = Len(stack) /\ m # 0 =>
               /\ RightCut(g, timers, ended')
               /\ g.k \in Loops => /\ stack[Len(stack)].k \in Loops
                                   /\ Idle(stack[Len(stack)], timers) => Idle(g, timers)
               /\ Cutting(stack[Len(stack)]) => Cutting(g) /\ g.i = stack[Len(stack)].i,
           \A j \in (m + 1)..Len(stack) : ~Cutting(stack[j]),
           \A j \in 1..Len(timers) : JustEnded(j) =>
               m = Len(stack) /\ m # 0 /\ Cutting(g) /\ g.i = j
    PROVE  LoopsAlone'
<1>. DEFINE n == Len(stack)
            t == stack'
            ts == timers
            d == ended'
<1>0. m \in 0..n /\ n \in Nat /\ Len(t) = m
  BY StackShape DEF Keeps
<1>1. ASSUME NEW j \in 1..m
      PROVE  /\ j \in 1..n /\ (j = n => m = n /\ m # 0)
             /\ t[j] = IF j = n THEN g ELSE stack[j]
  BY <1>0 DEF Keeps
<1>2. Cuts(stack, ts, ended) /\ Alone(stack, ts) /\ EndedCut(stack, ts, ended)
  BY DEF LoopsAlone
<1>3. Cuts(t, ts, d)
  <2>. SUFFICES ASSUME NEW k \in 1..Len(t) PROVE RightCut(t[k], ts, d)
    BY DEF Cuts
  <2>1. k \in 1..m
    BY <1>0
  <2>2. CASE k = n
    BY <1>1, <2>1, <2>2
  <2>3. CASE k # n
    <3>1. RightCut(stack[k], ts, ended) /\ t[k] = stack[k]
      BY <1>1, <1>2, <2>1, <2>3 DEF Cuts
    <3>. QED
      BY <3>1, CutsGrow
  <2>. QED
    BY <2>2, <2>3
<1>4. Alone(t, ts)
  <2>. SUFFICES ASSUME NEW j \in 1..Len(t), NEW k \in 1..Len(t), j < k,
                       t[j].k \in Loops, t[k].k \in Loops
                PROVE  k = Len(t) /\ Idle(t[k], ts)
    BY DEF Alone
  <2>1. j \in 1..m /\ k \in 1..m /\ j # n /\ t[j] = stack[j] /\ j \in 1..n /\ k \in 1..n
    BY <1>0, <1>1
  <2>2. stack[k].k \in Loops
    BY <1>1, <2>1
  <2>3. k = n /\ Idle(stack[k], ts)
    BY <1>2, <2>1, <2>2 DEF Alone
  <2>. QED
    BY <1>0, <1>1, <2>1, <2>3
<1>5. EndedCut(t, ts, d)
  <2>. SUFFICES ASSUME NEW j \in 1..Len(ts), ts[j].p \in d[ts[j].a]
                PROVE  \E k \in 1..Len(t) : Cutting(t[k]) /\ t[k].i = j
    BY DEF EndedCut
  <2>1. CASE JustEnded(j)
    <3>1. m \in 1..Len(t) /\ m \in 1..m /\ m = n /\ Cutting(g) /\ g.i = j
      BY <1>0, <2>1
    <3>2. t[m] = g
      BY <1>1, <3>1
    <3>. QED
      BY <3>1, <3>2
  <2>2. CASE ~JustEnded(j)
    <3>1. PICK k \in 1..n : Cutting(stack[k]) /\ stack[k].i = j
      BY <1>2, <2>2 DEF JustEnded, EndedCut
    <3>2. k \in 1..m
      BY <1>0, <3>1
    <3>3. CASE k = n
      BY <1>0, <1>1, <3>1, <3>2, <3>3
    <3>4. CASE k # n
      BY <1>0, <1>1, <3>1, <3>2, <3>4
    <3>. QED
      BY <3>3, <3>4
  <2>. QED
    BY <2>1, <2>2
<1>. QED
  BY <1>3, <1>4, <1>5 DEF LoopsAlone

LEMMA AlonePushes ==
    ASSUME Typed, LoopsAlone, Grows(ended'), timers' = timers,
           NEW m, NEW g, NEW f, Pushes(stack', m, g, f), ~Cutting(f),
           f.k \in Loops => \/ Idle(f, timers)
                            \/ \A j \in 1..m : stack[j].k \notin Loops /\ g.k \notin Loops,
           m = Len(stack) /\ m # 0 =>
               /\ RightCut(g, timers, ended')
               /\ g.k \in Loops => /\ stack[Len(stack)].k \in Loops
                                   /\ ~Idle(stack[Len(stack)], timers)
               /\ Cutting(stack[Len(stack)]) => Cutting(g) /\ g.i = stack[Len(stack)].i,
           \A j \in (m + 1)..Len(stack) : ~Cutting(stack[j]),
           \A j \in 1..Len(timers) : JustEnded(j) =>
               m = Len(stack) /\ m # 0 /\ Cutting(g) /\ g.i = j
    PROVE  LoopsAlone'
<1>. DEFINE n == Len(stack)
            t == stack'
            ts == timers
            d == ended'
<1>0. m \in 0..n /\ n \in Nat /\ Len(t) = m + 1 /\ t[m + 1] = f
  BY StackShape DEF Pushes
<1>1. ASSUME NEW j \in 1..m
      PROVE  /\ j \in 1..n /\ j \in 1..Len(t) /\ (j = n => m = n /\ m # 0)
             /\ t[j] = IF j = n THEN g ELSE stack[j]
  BY <1>0 DEF Pushes
<1>2. Cuts(stack, ts, ended) /\ Alone(stack, ts) /\ EndedCut(stack, ts, ended)
  BY DEF LoopsAlone
<1>3. Cuts(t, ts, d)
  <2>. SUFFICES ASSUME NEW k \in 1..Len(t) PROVE RightCut(t[k], ts, d)
    BY DEF Cuts
  <2>1. k \in 1..m \/ k = m + 1
    BY <1>0
  <2>2. CASE k = m + 1
    BY <1>0, <2>2 DEF RightCut
  <2>3. CASE k \in 1..m /\ k = n
    BY <1>1, <2>3
  <2>4. CASE k \in 1..m /\ k # n
    <3>1. RightCut(stack[k], ts, ended) /\ t[k] = stack[k]
      BY <1>1, <1>2, <2>4 DEF Cuts
    <3>. QED
      BY <3>1, CutsGrow
  <2>. QED
    BY <2>1, <2>2, <2>3, <2>4
<1>4. Alone(t, ts)
  <2>. SUFFICES ASSUME NEW j \in 1..Len(t), NEW k \in 1..Len(t), j < k,
                       t[j].k \in Loops, t[k].k \in Loops
                PROVE  k = Len(t) /\ Idle(t[k], ts)
    BY DEF Alone
  <2>1. j \in 1..m /\ (k \in 1..m \/ k = m + 1)
    BY <1>0
  <2>2. CASE k = m + 1
    <3>1. t[j] = IF j = n THEN g ELSE stack[j]
      BY <1>1, <2>1
    <3>. QED
      BY <1>0, <2>1, <2>2, <3>1
  <2>3. CASE k \in 1..m
    <3>1. j # n /\ t[j] = stack[j] /\ j \in 1..n /\ k \in 1..n
      BY <1>0, <1>1, <2>1, <2>3
    <3>2. stack[k].k \in Loops
      BY <1>1, <2>3
    <3>3. k = n /\ Idle(stack[k], ts)
      BY <1>2, <3>1, <3>2 DEF Alone
    <3>4. m = n /\ m # 0 /\ g.k \in Loops
      BY <1>1, <2>3, <3>3
    <3>. QED
      BY <3>3, <3>4
  <2>. QED
    BY <2>1, <2>2, <2>3
<1>5. EndedCut(t, ts, d)
  <2>. SUFFICES ASSUME NEW j \in 1..Len(ts), ts[j].p \in d[ts[j].a]
                PROVE  \E k \in 1..Len(t) : Cutting(t[k]) /\ t[k].i = j
    BY DEF EndedCut
  <2>1. CASE JustEnded(j)
    <3>1. m \in 1..m /\ m = n /\ Cutting(g) /\ g.i = j
      BY <1>0, <2>1
    <3>2. t[m] = g /\ m \in 1..Len(t)
      BY <1>1, <3>1
    <3>. QED
      BY <3>1, <3>2
  <2>2. CASE ~JustEnded(j)
    <3>1. PICK k \in 1..n : Cutting(stack[k]) /\ stack[k].i = j
      BY <1>2, <2>2 DEF JustEnded, EndedCut
    <3>2. k \in 1..m
      BY <1>0, <3>1
    <3>3. CASE k = n
      BY <1>1, <3>1, <3>2, <3>3
    <3>4. CASE k # n
      BY <1>1, <3>1, <3>2, <3>4
    <3>. QED
      BY <3>3, <3>4
  <2>. QED
    BY <2>1, <2>2
<1>. QED
  BY <1>3, <1>4, <1>5 DEF LoopsAlone

-----------------------------------------------------------------------------
(* The innermost call.                                                     *)

LEMMA InnermostIs ==
    ASSUME Typed
    PROVE  /\ stack = <<>> => Innermost(stack) = NoCall
           /\ stack # <<>> => Innermost(stack) = Top /\ Innermost(stack) = stack[Len(stack)]
BY StackShape DEF Innermost

\* It has nothing to do with what is shown next.
Passive(f, d) == f.k = "none" \/ Waits(f, d)

LEMMA InnermostKeeps ==
    ASSUME Typed, Nested, NEW m, NEW g, Keeps(stack', m, g)
    PROVE  /\ m = Len(stack) /\ m # 0 => Innermost(stack') = g
           /\ m # Len(stack) \/ m = 0 => Passive(Innermost(stack'), ended)
<1>1. Len(stack') = m /\ m \in 0..Len(stack) /\ Len(stack) \in Nat
  BY StackShape DEF Keeps
<1>2. CASE m = 0
  BY <1>1, <1>2 DEF Innermost, Passive, NoCall
<1>3. CASE m # 0 /\ m = Len(stack)
  BY <1>1, <1>3 DEF Keeps, Innermost
<1>4. CASE m # 0 /\ m # Len(stack)
  <2>1. m \in 1..(Len(stack) - 1) /\ m \in 1..m
    BY <1>1, <1>4
  <2>2. Innermost(stack') = stack[m]
    BY <1>1, <1>4, <2>1 DEF Keeps, Innermost
  <2>. QED
    BY <1>4, <2>1, <2>2 DEF Nested, Passive
<1>. QED
  BY <1>2, <1>3, <1>4

LEMMA InnermostPushes ==
    ASSUME Typed, NEW m, NEW g, NEW f, Pushes(stack', m, g, f)
    PROVE  Innermost(stack') = f
<1>1. Len(stack') = m + 1 /\ m \in Nat /\ stack'[m + 1] = f
  BY StackShape DEF Pushes
<1>. QED
  BY <1>1 DEF Innermost

\* Every property that has not ended has its timer.
TimerWhole(ts, d) ==
    \A a \in Anim : Timed(ts, a) => \A p \in Props(a) \ d[a] :
        \E j \in 1..Len(ts) : ts[j] = Timer(a, p)

LEMMA WholeByTimers ==
    ASSUME NEW f, NEW ts, NEW d, AllWhole(f, ts, d), ~Halts(f),
           f.k = "loop" => f.todo = <<>>
    PROVE  TimerWhole(ts, d)
<1>1. f.k = "loop" => 1..Len(f.todo) = {}
  <2>. DEFINE n == <<>>
  <2>1. Len(n) = 0
    BY EmptySeq
  <2>2. 1..Len(n) = {}
    <3>. HIDE DEF n
    <3>. QED
      BY <2>1
  <2>. QED
    BY <2>2
<1>. QED
  BY <1>1 DEF AllWhole, Whole, TimerWhole

LEMMA TimersMakeWhole ==
    ASSUME NEW f, NEW ts, NEW o, NEW d, TimerWhole(ts, d), ~Halts(f),
           f.k = "loop" => d[f.a] = Props(f.a)
    PROVE  HaltsAll(f, ts, o) /\ AllWhole(f, ts, d)
BY DEF HaltsAll, AllWhole, Whole, TimerWhole

LEMMA PassiveMakesWhole ==
    ASSUME NEW f, NEW ts, NEW o, NEW d, TimerWhole(ts, d), Passive(f, d)
    PROVE  HaltsAll(f, ts, o) /\ AllWhole(f, ts, d)
BY TimersMakeWhole DEF Passive, Waits, Halts

LEMMA EnterMakesWhole ==
    ASSUME NEW a \in Anim, NEW ts, NEW o, NEW d, TimerWhole(ts, d)
    PROVE  HaltsAll(Enter(a), ts, o) /\ AllWhole(Enter(a), ts, d)
<1>. DEFINE f == Enter(a)
<1>1. /\ f.a = a /\ f.k \in {"loop", "complete"}
      /\ f.k = "loop" => f.todo = What[a].props
      /\ \A p \in Props(a) : \E i \in 1..Len(What[a].props) : What[a].props[i] = p
  BY Entering, PropsOf
<1>. HIDE DEF f
<1>2. HaltsAll(f, ts, o) /\ AllWhole(f, ts, d)
  BY <1>1 DEF HaltsAll, Halts, AllWhole, Whole, TimerWhole
<1>. QED
  BY <1>2 DEF f

\* Nothing is innermost that goes through timers or properties.
LEMMA StillWhole ==
    ASSUME Typed, TimersWhole,
           stack # <<>> => /\ Top.k = "loop" => Top.todo = <<>>
                           /\ ~Halts(Top)
    PROVE  TimerWhole(timers, ended)
<1>1. ~Halts(Innermost(stack))
  BY InnermostIs DEF NoCall, Halts
<1>2. Innermost(stack).k = "loop" => Innermost(stack).todo = <<>>
  BY InnermostIs DEF NoCall
<1>. QED
  BY <1>1, <1>2, WholeByTimers DEF TimersWhole

LEMMA OnPageWhole ==
    ASSUME Typed, TimersWhole, NEW g, FromPage(g)
    PROVE  TimerWhole(timers, ended)
<1>1. stack # <<>> => Top.k = "page"
  BY StackShape DEF FromPage, PageFrames
<1>. QED
  BY <1>1, StillWhole DEF Halts

\* A call that is neither a loop over timers nor about to be one.
LEMMA PlainLoops ==
    ASSUME NEW g, g.k \notin Loops, NEW ts, NEW d
    PROVE  /\ RightCut(g, ts, d) /\ ~Cutting(g) /\ ~Idle(g, ts)
BY DEF RightCut, Cutting, Idle, Loops

LEMMA NothingJustEnded ==
    ASSUME ended' = ended
    PROVE  \A j : ~JustEnded(j)
BY DEF JustEnded

\* A stack that keeps its loops.
LEMMA QuietlyAlone ==
    ASSUME Typed, EndedTyped, LoopsAlone, timers' = timers, ended' = ended,
           NEW m, NEW g,
           m = Len(stack) /\ m # 0 => g.k \notin Loops /\ ~Cutting(stack[Len(stack)]),
           \A j \in (m + 1)..Len(stack) : ~Cutting(stack[j])
    PROVE  /\ Keeps(stack', m, g) => LoopsAlone'
           /\ \A f : Pushes(stack', m, g, f) /\ f.k \notin Loops => LoopsAlone'
<1>1. Grows(ended') /\ \A j : ~JustEnded(j)
  BY EndedSame, NothingJustEnded
<1>2. m = Len(stack) /\ m # 0 => RightCut(g, timers, ended')
  BY PlainLoops
<1>3. Keeps(stack', m, g) => LoopsAlone'
  BY <1>1, <1>2, AloneKeeps
<1>4. ASSUME NEW f, Pushes(stack', m, g, f), f.k \notin Loops PROVE LoopsAlone'
  <2>1. ~Cutting(f)
    BY <1>4, PlainLoops
  <2>. QED
    BY <1>1, <1>2, <1>4, <2>1, AlonePushes
<1>. QED
  BY <1>3, <1>4

LEMMA PageKeepsUndisturbed ==
    ASSUME Order, Order', Undisturbed,
           \/ \E a \in Anim : Animate(a)
           \/ \E e \in Elem :
               \/ Display(e) \/ RemoveElement(e)
               \/ \E clear, end \in BOOLEAN : Stop(e, clear, end)
    PROVE  Undisturbed'
<1>. SUFFICES ASSUME ~disturbed' PROVE (LoopsAlone /\ TimersWhole /\ again = {})'
  BY DEF Undisturbed
<1>0. Typed /\ EndedTyped /\ Nested
  BY DEF Order
<1>. DEFINE n == Len(stack)
<1>00. (stack = <<>> <=> n = 0) /\ n \in Nat /\ 1..n \subseteq 1..n /\ (n + 1)..n = {}
  BY <1>0, StackShape
<1>1. ASSUME NEW g, FromPage(g), n # 0
      PROVE  g.k = "page" /\ g.k \notin Loops /\ stack[n].k \notin Loops /\ ~Cutting(stack[n])
  BY <1>00, <1>1 DEF FromPage, PageFrames, Loops, Cutting
<1>2. ASSUME NEW a \in Anim, Animate(a) PROVE (LoopsAlone /\ TimersWhole /\ again = {})'
  <2>1. PICK g :
        /\ FromPage(g) /\ UNCHANGED <<timers, ended, over, again, disturbed>>
        /\ Pushes(stack', n, g, Enter(a)) \/ Keeps(stack', n, g)
    BY <1>0, <1>2, AnimateShape
  <2>2. LoopsAlone /\ TimersWhole /\ again = {}
    BY <2>1 DEF Undisturbed
  <2>3. TimerWhole(timers, ended)
    BY <1>0, <2>1, <2>2, OnPageWhole
  <2>4. Enter(a).k \notin Loops
    BY Entering DEF Loops
  <2>5. LoopsAlone'
    BY <1>0, <1>00, <1>1, <2>1, <2>2, <2>4, QuietlyAlone
  <2>6. TimersWhole'
    <3>1. CASE Pushes(stack', n, g, Enter(a))
      <4>1. Innermost(stack') = Enter(a)
        BY <1>0, <3>1, InnermostPushes
      <4>. QED
        BY <2>1, <2>3, <4>1, EnterMakesWhole DEF TimersWhole
    <3>2. CASE Keeps(stack', n, g)
      <4>1. n # 0 => Innermost(stack') = g /\ g.k = "page"
        BY <1>0, <1>1, <2>1, <3>2, InnermostKeeps
      <4>2. n = 0 => Passive(Innermost(stack'), ended)
        BY <1>0, <3>2, InnermostKeeps
      <4>. QED
        BY <2>1, <2>3, <4>1, <4>2, TimersMakeWhole, PassiveMakesWhole DEF TimersWhole, Halts
    <3>. QED
      BY <2>1, <3>1, <3>2
  <2>. QED
    BY <2>1, <2>2, <2>5, <2>6
<1>3. ASSUME NEW e \in Elem, Display(e) \/ RemoveElement(e)
      PROVE  (LoopsAlone /\ TimersWhole /\ again = {})'
  <2>1. PICK g : FromPage(g) /\ Keeps(stack', n, g)
    BY <1>0, <1>3, PageShape
  <2>2. timers' = timers /\ ended' = ended /\ again' = again /\ disturbed' = disturbed
    BY <1>0, <1>3, PageShape
  <2>3. LoopsAlone /\ TimersWhole /\ again = {}
    BY <2>2 DEF Undisturbed
  <2>4. TimerWhole(timers, ended)
    BY <1>0, <2>1, <2>3, OnPageWhole
  <2>5. LoopsAlone'
    BY <1>0, <1>00, <1>1, <2>1, <2>2, <2>3, QuietlyAlone
  <2>6. n # 0 => Innermost(stack') = g /\ g.k = "page"
    BY <1>0, <1>1, <2>1, InnermostKeeps
  <2>7. n = 0 => Passive(Innermost(stack'), ended)
    BY <1>0, <2>1, InnermostKeeps
  <2>8. TimersWhole'
    BY <2>2, <2>4, <2>6, <2>7, TimersMakeWhole, PassiveMakesWhole DEF TimersWhole, Halts
  <2>. QED
    BY <2>2, <2>3, <2>5, <2>8
<1>4. ASSUME NEW e \in Elem, NEW clear \in BOOLEAN, NEW end \in BOOLEAN,
             Stop(e, clear, end)
      PROVE  (LoopsAlone /\ TimersWhole /\ again = {})'
  <2>. DEFINE f == StopFrame(e, end)
  <2>1. PICK g : FromPage(g) /\ Pushes(stack', n, g, f)
    BY <1>0, <1>4, StopShape
  <2>2. /\ timers' = timers /\ ended' = ended /\ again' = again
        /\ ~end => {t.a : t \in Has(e)} \subseteq over'
        /\ Disturbs(e)
    BY <1>0, <1>4, StopShape
  <2>3. DOMAIN stack = 1..n /\ DOMAIN timers = 1..Len(timers) /\ Len(timers) \in Nat
    BY <1>0, LenProperties DEF Typed
  <2>4. ~disturbed /\ (Has(e) = {} \/ \A j \in 1..n : stack[j].k \notin Loops)
    BY <2>2, <2>3 DEF Disturbs, Loops
  <2>5. LoopsAlone /\ TimersWhole /\ again = {}
    BY <2>4 DEF Undisturbed
  <2>6. /\ f.k = "stop" /\ f.cut = {} /\ f.e = e /\ f.end = end /\ f.i = Len(timers)
        /\ ~Cutting(f) /\ f.k \in Loops
    BY DEF StopFrame, Cutting, Loops
  <2>7. \A j \in 1..Len(timers) : el(timers[j].a) = e => timers[j] \in Has(e)
    BY <2>3 DEF Has, ToSet
  <2>. HIDE DEF f
  <2>8. Idle(f, timers) \/ \A j \in 1..n : stack[j].k \notin Loops /\ g.k \notin Loops
    <3>1. CASE Has(e) = {}
      BY <2>6, <2>7, <3>1 DEF Idle
    <3>2. CASE \A j \in 1..n : stack[j].k \notin Loops
      <4>1. n = 0 => 1..n = {}
        OBVIOUS
      <4>. QED
        BY <1>1, <2>1, <3>2, <4>1
    <3>. QED
      BY <2>4, <3>1, <3>2
  <2>9. LoopsAlone'
    <3>1. Grows(ended') /\ \A j : ~JustEnded(j)
      BY <1>0, <2>2, EndedSame, NothingJustEnded
    <3>2. n # 0 => /\ RightCut(g, timers, ended') /\ g.k \notin Loops
                   /\ ~Cutting(stack[n])
      BY <1>1, <2>1, PlainLoops
    <3>3. \A j \in (n + 1)..n : ~Cutting(stack[j])
      BY <1>00
    <3>. QED
      BY <1>0, <2>1, <2>2, <2>5, <2>6, <2>8, <3>1, <3>2, <3>3, AlonePushes
  <2>10. TimerWhole(timers, ended)
    BY <1>0, <2>1, <2>5, OnPageWhole
  <2>11. Innermost(stack') = f
    BY <1>0, <2>1, InnermostPushes
  <2>12. HaltsAll(f, timers, over')
    BY <2>2, <2>3, <2>6, <2>7 DEF HaltsAll, Halts
  <2>13. AllWhole(f, timers, ended)
    BY <2>6, <2>10 DEF AllWhole, Whole, TimerWhole
  <2>. QED
    BY <2>2, <2>5, <2>9, <2>11, <2>12, <2>13 DEF TimersWhole
<1>. QED
  BY <1>2, <1>3, <1>4

\* What a call that starts an animation leaves: the next one of the queue may be entered.
LEMMA DequeueShape ==
    ASSUME NEW e \in Elem, NEW s, NEW m, NEW g, Keeps(s, m, g), Typed, Dequeue(e, s)
    PROVE  \/ Keeps(stack', m, g)
           \/ \E b \in Anim : Pushes(stack', m, g, Enter(b))
<1>1. CASE Len(queue[e]) > 1
  <2>1. queue[e] \in Seq(Anim) /\ Len(queue[e]) \in Nat
    BY LenProperties DEF Typed
  <2>2. queue[e][2] \in Anim
    <3>1. 2 \in 1..Len(queue[e])
      BY <1>1, <2>1
    <3>. QED
      BY <2>1, <3>1, ElementOfSeq
  <2>3. stack' = Append(s, Enter(queue[e][2]))
    BY <1>1 DEF Dequeue
  <2>. QED
    BY <2>2, <2>3, EnterPushes
<1>2. CASE ~ (Len(queue[e]) > 1)
  BY <1>2 DEF Dequeue
<1>. QED
  BY <1>1, <1>2

LEMMA TimerWholeGrows ==
    ASSUME NEW ts, NEW d, TimerWhole(ts, ended), Grows(d)
    PROVE  TimerWhole(ts, d)
BY DEF TimerWhole, Grows

LEMMA ShownKeepsUndisturbed ==
    ASSUME Order, Undisturbed, ~disturbed', Shown
    PROVE  (LoopsAlone /\ TimersWhole /\ again = {})'
<1>. DEFINE n == Len(stack)
<1>0. Typed /\ EndedTyped /\ Nested
  BY DEF Order
<1>1. PICK g \in LoopFrames : /\ g.a = Top.a /\ g.todo = Top.todo
                              /\ Keeps(stack', n, g)
  BY <1>0, ShownShape
<1>2. /\ Inner("loop") /\ Top \in LoopFrames
      /\ UNCHANGED <<timers, ended, over, again, disturbed>>
  BY <1>0, ShownShape
<1>3. LoopsAlone /\ TimersWhole /\ again = {}
  BY <1>2 DEF Undisturbed
<1>4. n # 0 /\ n \in Nat /\ Top = stack[n] /\ Top.k = "loop" /\ g.k = "loop"
  BY <1>0, <1>2, StackShape DEF Inner, LoopFrames
<1>5. g.k \notin Loops /\ ~Cutting(stack[n]) /\ (n + 1)..n = {}
  BY <1>4 DEF Loops, Cutting
<1>6. LoopsAlone'
  BY <1>0, <1>1, <1>2, <1>3, <1>5, QuietlyAlone
<1>7. Innermost(stack') = g /\ Innermost(stack) = Top
  BY <1>0, <1>1, <1>2, <1>4, InnermostKeeps, InnermostIs DEF Inner
<1>8. HaltsAll(g, timers, over) /\ AllWhole(g, timers, ended)
  BY <1>1, <1>3, <1>4, <1>7 DEF TimersWhole, HaltsAll, Halts, AllWhole, Whole
<1>. QED
  BY <1>2, <1>3, <1>6, <1>7, <1>8 DEF TimersWhole

LEMMA ReturnKeepsUndisturbed ==
    ASSUME Order, Undisturbed, ~disturbed', LoopEnds \/ TickEnds \/ Return
    PROVE  (LoopsAlone /\ TimersWhole /\ again = {})'
<1>. DEFINE n == Len(stack)
<1>0. Typed /\ EndedTyped /\ Nested
  BY DEF Order
<1>1. /\ \/ Inner("loop") /\ Top.todo = <<>>
         \/ Inner("tick") /\ Top.cut = {}
         \/ Inner("page")
      /\ Keeps(stack', n - 1, Top)
      /\ UNCHANGED <<timers, ended, over, again, disturbed>>
  BY <1>0, ReturnShape
<1>2. LoopsAlone /\ TimersWhole /\ again = {}
  BY <1>1 DEF Undisturbed
<1>3. stack # <<>> /\ n # 0 /\ n \in Nat /\ Top = stack[n]
  BY <1>0, <1>1, StackShape DEF Inner
<1>4. (Top.k = "loop" => Top.todo = <<>>) /\ ~Halts(Top) /\ ~Cutting(stack[n])
  BY <1>1, <1>3 DEF Inner, Halts, Cutting, Loops
<1>5. TimerWhole(timers, ended)
  BY <1>0, <1>2, <1>4, StillWhole
<1>6. n - 1 # n /\ \A j \in ((n - 1) + 1)..n : j = n
  BY <1>3
<1>7. \A j \in ((n - 1) + 1)..n : ~Cutting(stack[j])
  BY <1>4, <1>6
<1>. DEFINE m == n - 1
<1>8. LoopsAlone'
  <2>1. /\ \A j \in (m + 1)..Len(stack) : ~Cutting(stack[j])
        /\ m # Len(stack) /\ Keeps(stack', m, Top)
    BY <1>1, <1>6, <1>7
  <2>. HIDE DEF m
  <2>. QED
    BY <1>0, <1>1, <1>2, <2>1, QuietlyAlone
<1>9. Passive(Innermost(stack'), ended)
  BY <1>0, <1>1, <1>6, InnermostKeeps
<1>. QED
  BY <1>1, <1>2, <1>5, <1>8, <1>9, PassiveMakesWhole DEF TimersWhole

LEMMA CompleteKeepsUndisturbed ==
    ASSUME Order, Undisturbed, ~disturbed', CallPage \/ Move
    PROVE  (LoopsAlone /\ TimersWhole /\ again = {})'
<1>. DEFINE n == Len(stack)
<1>0. Typed /\ EndedTyped /\ Nested
  BY DEF Order
<1>1. /\ Inner("complete")
      /\ UNCHANGED <<timers, ended, again, disturbed>>
  BY <1>0, CallPageShape, MoveShape
<1>2. LoopsAlone /\ TimersWhole /\ again = {}
  BY <1>1 DEF Undisturbed
<1>3. stack # <<>> /\ n # 0 /\ n \in Nat /\ Top = stack[n] /\ Top.k = "complete"
  BY <1>0, <1>1, StackShape DEF Inner
<1>4. /\ ~Halts(Top) /\ ~Cutting(stack[n]) /\ (n + 1)..n = {}
      /\ n - 1 # n /\ \A j \in ((n - 1) + 1)..n : j = n
  BY <1>3 DEF Halts, Cutting, Loops
<1>5. TimerWhole(timers, ended)
  BY <1>0, <1>2, <1>3, <1>4, StillWhole
<1>6. \/ \E g : g.k \notin Loops \cup {"loop"} /\ Keeps(stack', n, g)
      \/ \E g : g.k \notin Loops /\ \E b \in Anim : Pushes(stack', n, g, Enter(b))
      \/ Keeps(stack', n - 1, Top)
  <2>1. CASE CallPage
    <3>1. Page.k = "page"
      BY DEF Page
    <3>2. Page.k \notin Loops \cup {"loop"}
      BY <3>1 DEF Loops
    <3>. QED
      BY <1>0, <2>1, <3>2, CallPageShape
  <2>2. CASE Move
    <3>1. PICK g \in CompleteFrames :
            /\ ~What[Top.a].queued => Keeps(stack', n, g)
            /\ What[Top.a].queued => \E s : Keeps(s, n, g) /\ Dequeue(el(Top.a), s)
      BY <1>0, <2>2, MoveShape
    <3>2. el(Top.a) \in Elem
      BY <1>0, <2>2, MoveShape
    <3>3. g.k \notin Loops \cup {"loop"}
      BY DEF CompleteFrames, Loops
    <3>4. Keeps(stack', n, g) \/ \E b \in Anim : Pushes(stack', n, g, Enter(b))
      BY <1>0, <3>1, <3>2, DequeueShape
    <3>. QED
      BY <3>3, <3>4
  <2>. QED
    BY <2>1, <2>2
<1>7. ASSUME NEW g, g.k \notin Loops \cup {"loop"}, Keeps(stack', n, g)
      PROVE  (LoopsAlone /\ TimersWhole /\ again = {})'
  <2>1. LoopsAlone'
    BY <1>0, <1>1, <1>2, <1>4, <1>7, QuietlyAlone
  <2>2. Innermost(stack') = g
    BY <1>0, <1>3, <1>7, InnermostKeeps
  <2>3. ~Halts(g) /\ g.k # "loop"
    BY <1>7 DEF Halts, Loops
  <2>4. HaltsAll(g, timers, over') /\ AllWhole(g, timers, ended)
    BY <1>5, <2>3, TimersMakeWhole
  <2>. QED
    BY <1>1, <1>2, <2>1, <2>2, <2>4 DEF TimersWhole
<1>8. ASSUME NEW g, g.k \notin Loops, NEW b \in Anim, Pushes(stack', n, g, Enter(b))
      PROVE  (LoopsAlone /\ TimersWhole /\ again = {})'
  <2>1. Enter(b).k \notin Loops
    BY Entering DEF Loops
  <2>2. LoopsAlone'
    BY <1>0, <1>1, <1>2, <1>4, <1>8, <2>1, QuietlyAlone
  <2>3. Innermost(stack') = Enter(b)
    BY <1>0, <1>8, InnermostPushes
  <2>4. HaltsAll(Enter(b), timers, over') /\ AllWhole(Enter(b), timers, ended)
    BY <1>5, EnterMakesWhole
  <2>. QED
    BY <1>1, <1>2, <2>2, <2>3, <2>4 DEF TimersWhole
<1>9. CASE Keeps(stack', n - 1, Top)
  <2>. DEFINE m == n - 1
  <2>1. /\ \A j \in (m + 1)..Len(stack) : ~Cutting(stack[j])
        /\ m # Len(stack) /\ Keeps(stack', m, Top)
    BY <1>4, <1>9
  <2>. HIDE DEF m
  <2>2. LoopsAlone'
    BY <1>0, <1>1, <1>2, <2>1, QuietlyAlone
  <2>3. Passive(Innermost(stack'), ended)
    BY <1>0, <2>1, InnermostKeeps
  <2>4. HaltsAll(Innermost(stack'), timers, over') /\ AllWhole(Innermost(stack'), timers, ended)
    BY <1>5, <2>3, PassiveMakesWhole
  <2>. QED
    BY <1>1, <1>2, <2>2, <2>4 DEF TimersWhole
<1>. QED
  BY <1>6, <1>7, <1>8, <1>9

LEMMA TicksKeepUndisturbed ==
    ASSUME Order, Undisturbed, ~disturbed', Tick \/ TickGoesOn
    PROVE  (LoopsAlone /\ TimersWhole /\ again = {})'
<1>. DEFINE n == Len(stack)
<1>0. Typed /\ EndedTyped /\ Nested
  BY DEF Order
<1>1. UNCHANGED <<timers, ended, over, again, disturbed>>
  BY <1>0, TickShape, TickGoesOnShape
<1>2. LoopsAlone /\ TimersWhole /\ again = {}
  BY <1>1 DEF Undisturbed
<1>3. /\ Grows(ended') /\ \A j : ~JustEnded(j)
      /\ n \in Nat /\ (n + 1)..n = {} /\ (stack = <<>> <=> n = 0)
  BY <1>0, <1>1, EndedSame, NothingJustEnded, StackShape
<1>4. CASE Tick
  <2>1. stack = <<>> /\ TickFrame.cut = {} /\ Pushes(stack', 0, TickFrame, TickFrame)
    BY <1>0, <1>4, TickShape
  <2>2. TimerWhole(timers, ended)
    BY <1>0, <1>2, <2>1, StillWhole
  <2>3. ~Halts(TickFrame) /\ TickFrame.k # "loop" /\ ~Cutting(TickFrame)
    BY <2>1 DEF TickFrame, Halts, Cutting
  <2>4. HaltsAll(TickFrame, timers, over) /\ AllWhole(TickFrame, timers, ended)
    BY <2>2, <2>3, TimersMakeWhole
  <2>5. Innermost(stack') = TickFrame
    BY <1>0, <2>1, InnermostPushes
  <2>6. LoopsAlone'
    <3>1. n = 0 /\ 1..0 = {} /\ (0 + 1)..n = {}
      BY <1>3, <2>1
    <3>. DEFINE m == 0
    <3>2. /\ Pushes(stack', m, TickFrame, TickFrame) /\ m = 0
          /\ 1..m = {} /\ (m + 1)..n = {}
      BY <2>1, <3>1
    <3>. HIDE DEF m
    <3>. QED
      BY <1>0, <1>1, <1>2, <1>3, <2>3, <3>2, AlonePushes
  <2>. QED
    BY <1>1, <1>2, <2>4, <2>5, <2>6 DEF TimersWhole
<1>5. CASE TickGoesOn
  <2>1. PICK g \in TickFrames : g.cut = {} /\ Keeps(stack', n, g)
    BY <1>0, <1>5, TickGoesOnShape
  <2>2. Inner("tick") /\ Top.cut = {}
    BY <1>0, <1>5, TickGoesOnShape
  <2>3. stack # <<>> /\ n # 0 /\ Top = stack[n] /\ Top.k = "tick" /\ g.k = "tick"
    BY <1>3, <2>2 DEF Inner, TickFrames
  <2>4. TimerWhole(timers, ended)
    BY <1>0, <1>2, <2>3, StillWhole DEF Halts
  <2>5. ~Halts(g) /\ g.k # "loop" /\ ~Cutting(g) /\ ~Cutting(stack[n]) /\ ~Idle(stack[n], timers)
    BY <2>1, <2>2, <2>3 DEF Halts, Cutting, Idle
  <2>6. HaltsAll(g, timers, over) /\ AllWhole(g, timers, ended)
    BY <2>4, <2>5, TimersMakeWhole
  <2>7. Innermost(stack') = g
    BY <1>0, <2>1, <2>3, InnermostKeeps
  <2>8. LoopsAlone'
    <3>1. RightCut(g, timers, ended') /\ stack[n].k \in Loops
      BY <2>3, <2>5 DEF RightCut, Loops
    <3>. QED
      BY <1>0, <1>1, <1>2, <1>3, <2>1, <2>5, <3>1, AloneKeeps
  <2>. QED
    BY <1>1, <1>2, <2>6, <2>7, <2>8 DEF TimersWhole
<1>. QED
  BY <1>4, <1>5

LEMMA EndsKeepUndisturbed ==
    ASSUME Order, Undisturbed, ~disturbed', StopEnds \/ StopBreaks \/ Throw
    PROVE  (LoopsAlone /\ TimersWhole /\ again = {})'
<1>. DEFINE n == Len(stack)
<1>0. Typed /\ EndedTyped /\ Nested
  BY DEF Order
<1>1. UNCHANGED <<timers, ended, over, again>> /\ ~disturbed
  BY <1>0, StopEndsShape, UnwoundShape
<1>2. LoopsAlone /\ TimersWhole /\ again = {}
  BY <1>1 DEF Undisturbed
<1>3. n \in Nat /\ (stack = <<>> <=> n = 0)
  BY <1>0, StackShape
<1>4. CASE StopBreaks \/ Throw
  <2>1. /\ \A g : Keeps(stack', 0, g)
        /\ \A i \in 1..n : stack[i].k = "page"
    BY <1>0, <1>4, UnwoundShape
  <2>2. \A i \in (0 + 1)..n : ~Cutting(stack[i])
    BY <2>1 DEF Cutting, Loops
  <2>3. stack # <<>> => Top.k = "page"
    BY <1>0, <1>3, <2>1, StackShape
  <2>4. TimerWhole(timers, ended)
    BY <1>0, <1>2, <2>3, StillWhole DEF Halts
  <2>. DEFINE m == 0
  <2>5. /\ \A j \in (m + 1)..Len(stack) : ~Cutting(stack[j])
        /\ m = 0 /\ \A g : Keeps(stack', m, g)
    BY <2>1, <2>2
  <2>. HIDE DEF m
  <2>6. LoopsAlone'
    BY <1>0, <1>1, <1>2, <2>5, QuietlyAlone
  <2>7. Passive(Innermost(stack'), ended)
    BY <1>0, <2>5, InnermostKeeps
  <2>8. HaltsAll(Innermost(stack'), timers, over) /\ AllWhole(Innermost(stack'), timers, ended)
    BY <2>4, <2>7, PassiveMakesWhole
  <2>. QED
    BY <1>1, <1>2, <2>6, <2>8 DEF TimersWhole
<1>5. CASE StopEnds
  <2>1. /\ Inner("stop") /\ Top \in StopFrames /\ Top.cut = {} /\ Top.e \in Elem
        /\ \A j \in 1..Top.i : el(timers[j].a) # Top.e
        /\ Top.end => Keeps(stack', n - 1, Top)
        /\ ~Top.end => \E s : Keeps(s, n - 1, Top) /\ Dequeue(Top.e, s)
    BY <1>0, <1>5, StopEndsShape
  <2>2. stack # <<>> /\ n # 0 /\ Top = stack[n] /\ Top.k = "stop" /\ ~Cutting(stack[n])
    BY <1>3, <2>1 DEF Inner, Cutting
  <2>3. TimerWhole(timers, ended)
    <3>1. CASE Top.end
      BY <1>0, <1>2, <2>2, <3>1, StillWhole DEF Halts
    <3>2. CASE ~Top.end
      <4>1. HaltsAll(Top, timers, over) /\ AllWhole(Top, timers, ended)
        BY <1>0, <1>2, <2>2, InnermostIs DEF TimersWhole
      <4>2. Top.i \in Nat /\ Len(timers) \in Nat
        BY <1>0, <2>1, LenProperties DEF StopFrames, Typed
      <4>3. \A j \in 1..Len(timers) : el(timers[j].a) # Top.e
        <5>1. \A j \in 1..Len(timers) : el(timers[j].a) = Top.e => j <= Top.i
          BY <2>2, <3>2, <4>1 DEF HaltsAll, Halts
        <5>. QED
          BY <2>1, <4>2, <5>1
      <4>. QED
        BY <2>2, <4>1, <4>3 DEF AllWhole, Whole, TimerWhole, Timed
    <3>. QED
      BY <3>1, <3>2
  <2>. DEFINE m == n - 1
  <2>4. m # n /\ \A j \in (m + 1)..n : j = n
    BY <1>3, <2>2
  <2>5. \A j \in (m + 1)..n : ~Cutting(stack[j])
    BY <2>2, <2>4
  <2>6. Keeps(stack', m, Top) \/ \E b \in Anim : Pushes(stack', m, Top, Enter(b))
    BY <1>0, <2>1, DequeueShape
  <2>. HIDE DEF m
  <2>7. CASE Keeps(stack', m, Top)
    <3>1. LoopsAlone'
      BY <1>0, <1>1, <1>2, <2>4, <2>5, <2>7, QuietlyAlone
    <3>2. Passive(Innermost(stack'), ended)
      BY <1>0, <2>4, <2>7, InnermostKeeps
    <3>3. HaltsAll(Innermost(stack'), timers, over) /\ AllWhole(Innermost(stack'), timers, ended)
      BY <2>3, <3>2, PassiveMakesWhole
    <3>. QED
      BY <1>1, <1>2, <3>1, <3>3 DEF TimersWhole
  <2>8. ASSUME NEW b \in Anim, Pushes(stack', m, Top, Enter(b))
        PROVE  (LoopsAlone /\ TimersWhole /\ again = {})'
    <3>1. Enter(b).k \notin Loops
      BY Entering DEF Loops
    <3>2. LoopsAlone'
      BY <1>0, <1>1, <1>2, <2>4, <2>5, <2>8, <3>1, QuietlyAlone
    <3>3. Innermost(stack') = Enter(b)
      BY <1>0, <2>8, InnermostPushes
    <3>4. HaltsAll(Enter(b), timers, over) /\ AllWhole(Enter(b), timers, ended)
      BY <2>3, EnterMakesWhole
    <3>. QED
      BY <1>1, <1>2, <3>2, <3>3, <3>4 DEF TimersWhole
  <2>. QED
    BY <2>6, <2>7, <2>8
<1>. QED
  BY <1>4, <1>5

\* The loop of animate after its first property: it has ended, or has its timer.
LEMMA HeadGone ==
    ASSUME NEW f, NEW g, NEW ts, NEW us, NEW d, NEW b,
           f.k = "loop", g.k = "loop", g.a = f.a, f.a \in Anim,
           f.todo \in Seq(Props(f.a)), f.todo # <<>>, g.todo = Tail(f.todo),
           AllWhole(f, ts, d),
           \A a \in Anim : d[a] \subseteq b[a],
           \A i \in 1..Len(ts) : \E j \in 1..Len(us) : us[j] = ts[i],
           \A a \in Anim : Timed(us, a) => Timed(ts, a) \/ a = f.a,
           \/ Head(f.todo) \in b[f.a]
           \/ \E j \in 1..Len(us) : us[j] = Timer(f.a, Head(f.todo))
    PROVE  AllWhole(g, us, b)
<1>. SUFFICES ASSUME NEW a \in Anim, Timed(us, a) \/ g.a = a, NEW p \in Props(a) \ b[a]
              PROVE  \/ \E j \in 1..Len(us) : us[j] = Timer(a, p)
                     \/ g.a = a /\ \E i \in 1..Len(g.todo) : g.todo[i] = p
  BY DEF AllWhole, Whole
<1>1. Whole(a, f, ts, d) /\ p \in Props(a) \ d[a]
  BY DEF AllWhole, Halts
<1>2. CASE \E j \in 1..Len(ts) : ts[j] = Timer(a, p)
  BY <1>2
<1>3. CASE f.a = a /\ \E i \in 1..Len(f.todo) : f.todo[i] = p
  <2>1. PICK i \in 1..Len(f.todo) : f.todo[i] = p
    BY <1>3
  <2>2. /\ Len(f.todo) \in Nat /\ Head(f.todo) = f.todo[1]
        /\ Len(g.todo) = Len(f.todo) - 1
        /\ \A j \in 1..Len(g.todo) : g.todo[j] = f.todo[j + 1]
    BY LenProperties, HeadTailProperties
  <2>3. CASE i = 1
    BY <1>3, <2>1, <2>2, <2>3
  <2>4. CASE i # 1
    <3>1. i - 1 \in 1..Len(g.todo) /\ (i - 1) + 1 = i
      BY <2>2, <2>4
    <3>2. g.todo[i - 1] = p
      BY <2>1, <2>2, <3>1
    <3>. QED
      BY <1>3, <3>1, <3>2
  <2>. QED
    BY <2>3, <2>4
<1>. QED
  BY <1>1, <1>2, <1>3 DEF Whole

LEMMA CustomKeepsUndisturbed ==
    ASSUME Order, Undisturbed, ~disturbed', Custom
    PROVE  (LoopsAlone /\ TimersWhole /\ again = {})'
<1>. DEFINE n == Len(stack)
            p == Head(Top.todo)
            a == Top.a
<1>0. Typed /\ EndedTyped /\ Nested /\ TopAhead
  BY DEF Order
<1>1. /\ Inner("loop") /\ Top \in LoopFrames /\ a \in Anim /\ Top.todo # <<>>
      /\ Top.todo \in Seq(Props(a)) /\ p \in Props(a)
      /\ UNCHANGED <<over, disturbed>>
  BY <1>0, CustomShape
<1>2. LoopsAlone /\ TimersWhole /\ again = {}
  BY <1>1 DEF Undisturbed
<1>3. n \in Nat /\ n # 0 /\ Top = stack[n] /\ Top.k = "loop" /\ stack # <<>>
  BY <1>0, <1>1, StackShape DEF Inner
<1>4. PICK g \in LoopFrames :
         /\ g.a = a /\ g.todo = Tail(Top.todo)
         /\ What[a].instant =>
             /\ timers' = timers
             /\ \E s : Keeps(s, n, g) /\ LastStep(Timer(a, p), s)
         /\ ~What[a].instant =>
             /\ Keeps(stack', n, g)
             /\ timers' = Append(timers, Timer(a, p))
             /\ ended' = ended /\ again' = again
  BY <1>0, <1>1, CustomShape
<1>5. g.k = "loop" /\ g.k \notin Loops /\ ~Cutting(stack[n]) /\ (n + 1)..n = {}
  BY <1>3 DEF LoopFrames, Loops, Cutting
<1>6. AllWhole(Top, timers, ended)
  BY <1>0, <1>2, <1>3, InnermostIs DEF TimersWhole
<1>7. p \notin ended[a] /\ \A j \in 1..Len(timers) : timers[j] # Timer(a, p)
  <2>1. Ahead(Top, timers, ended)
    BY <1>0, <1>3 DEF TopAhead
  <2>2. p = Top.todo[1] /\ 1 \in 1..Len(Top.todo)
    BY <1>1, EmptySeq, LenProperties, HeadTailProperties
  <2>. QED
    BY <1>3, <2>1, <2>2 DEF Ahead
<1>8. CASE What[a].instant
  <2>1. PICK s : Keeps(s, n, g) /\ LastStep(Timer(a, p), s)
    BY <1>4, <1>8
  <2>. DEFINE f == Complete(a)
  <2>2. /\ Grows(ended') /\ ended'[a] = ended[a] \cup {p}
        /\ \A b \in Anim : b # a => ended'[b] = ended[b]
        /\ ended'[a] = Props(a) => Pushes(stack', n, g, f)
        /\ ended'[a] # Props(a) => Keeps(stack', n, g)
        /\ again' = again
    BY <1>0, <1>1, <1>7, <2>1, LastStepShape
  <2>3. timers' = timers
    BY <1>4, <1>8
  <2>4. \A j \in 1..Len(timers) : ~JustEnded(j)
    <3>. SUFFICES ASSUME NEW j \in 1..Len(timers), JustEnded(j) PROVE FALSE
      OBVIOUS
    <3>1. timers[j] \in AllTimers
      BY <1>0, ElementOfSeq DEF Typed
    <3>2. PICK b \in Anim : \E q \in Props(b) : timers[j] = Timer(b, q)
      BY <3>1 DEF AllTimers
    <3>3. PICK q \in Props(b) : timers[j] = Timer(b, q)
      BY <3>2
    <3>4. b = a /\ q = p
      BY <2>2, <3>3 DEF JustEnded, Timer
    <3>. QED
      BY <1>7, <3>3, <3>4
  <2>5. AllWhole(g, timers, ended')
    <3>1. \A b \in Anim : ended[b] \subseteq ended'[b]
      BY <2>2 DEF Grows
    <3>. QED
      BY <1>1, <1>3, <1>4, <1>5, <1>6, <2>2, <3>1, HeadGone
  <2>6. RightCut(g, timers, ended')
    BY <1>5, PlainLoops
  <2>7. CASE ended'[a] = Props(a)
    <3>1. Pushes(stack', n, g, f)
      BY <2>2, <2>7
    <3>2. f.k = "complete" /\ f.k \notin Loops /\ ~Cutting(f) /\ ~Halts(f)
      BY DEF Complete, Loops, Cutting, Halts
    <3>. HIDE DEF f
    <3>3. LoopsAlone'
      BY <1>0, <1>2, <1>5, <2>2, <2>3, <2>4, <2>6, <3>1, <3>2, AlonePushes
    <3>4. Innermost(stack') = f
      BY <1>0, <3>1, InnermostPushes
    <3>5. TimerWhole(timers, ended')
      BY <1>4, <2>5, <2>7 DEF AllWhole, Whole, TimerWhole, Halts, LoopFrames
    <3>6. HaltsAll(f, timers, over) /\ AllWhole(f, timers, ended')
      BY <3>2, <3>5, TimersMakeWhole
    <3>. QED
      BY <1>1, <1>2, <2>2, <2>3, <3>3, <3>4, <3>6 DEF TimersWhole
  <2>8. CASE ended'[a] # Props(a)
    <3>1. Keeps(stack', n, g)
      BY <2>2, <2>8
    <3>3. LoopsAlone'
      BY <1>0, <1>2, <1>5, <2>2, <2>3, <2>4, <2>6, <3>1, AloneKeeps
    <3>4. Innermost(stack') = g
      BY <1>0, <1>3, <3>1, InnermostKeeps
    <3>5. HaltsAll(g, timers, over)
      BY <1>5 DEF HaltsAll, Halts
    <3>. QED
      BY <1>1, <1>2, <2>2, <2>3, <2>5, <3>3, <3>4, <3>5 DEF TimersWhole
  <2>. QED
    BY <2>7, <2>8
<1>9. CASE ~What[a].instant
  <2>1. /\ Keeps(stack', n, g) /\ timers' = Append(timers, Timer(a, p))
        /\ ended' = ended /\ again' = again
    BY <1>4, <1>9
  <2>. DEFINE t == Timer(a, p)
              l == Len(timers)
  <2>2. t \in AllTimers
    BY <1>1, TimerOfProp
  <2>3. /\ l \in Nat /\ Len(timers') = l + 1 /\ timers'[l + 1] = t
        /\ \A j \in 1..l : timers'[j] = timers[j]
    <3>. HIDE DEF t
    <3>. QED
      BY <1>0, <2>1, <2>2, AppendProperties, LenProperties DEF Typed, t
  <2>4. LoopsAlone'
    <3>0. Len(stack') = n /\ \A k \in 1..n : stack'[k] = IF k = n THEN g ELSE stack[k]
      BY <2>1 DEF Keeps
    <3>1. Cuts(stack', timers', ended')
      <4>. SUFFICES ASSUME NEW k \in 1..n PROVE RightCut(stack'[k], timers', ended)
        BY <2>1, <3>0 DEF Cuts
      <4>1. CASE k = n
        BY <1>5, <3>0, <4>1, PlainLoops
      <4>2. CASE k # n
        <5>1. RightCut(stack[k], timers, ended) /\ stack'[k] = stack[k]
          BY <1>2, <3>0, <4>2 DEF LoopsAlone, Cuts
        <5>2. stack[k].i \in 1..l => timers'[stack[k].i] = timers[stack[k].i]
          BY <2>3
        <5>. QED
          BY <2>3, <5>1, <5>2 DEF RightCut
      <4>. QED
        BY <4>1, <4>2
    <3>2. Alone(stack', timers')
      <4>. SUFFICES ASSUME NEW j \in 1..n, NEW k \in 1..n, j < k,
                           stack'[j].k \in Loops, stack'[k].k \in Loops
                    PROVE  FALSE
        BY <3>0 DEF Alone
      <4>1. k # n /\ j # n /\ stack'[k] = stack[k] /\ stack'[j] = stack[j]
        BY <1>5, <3>0
      <4>. QED
        BY <1>2, <4>1 DEF LoopsAlone, Alone
    <3>3. EndedCut(stack', timers', ended')
      <4>. SUFFICES ASSUME NEW j \in 1..(l + 1), timers'[j].p \in ended[timers'[j].a]
                    PROVE  \E k \in 1..n : Cutting(stack'[k]) /\ stack'[k].i = j
        BY <2>1, <2>3, <3>0 DEF EndedCut
      <4>1. j # l + 1
        BY <1>7, <2>3 DEF Timer
      <4>2. j \in 1..l /\ timers'[j] = timers[j]
        BY <2>3, <4>1
      <4>3. PICK k \in 1..n : Cutting(stack[k]) /\ stack[k].i = j
        BY <1>2, <4>2 DEF LoopsAlone, EndedCut
      <4>4. stack'[k] = stack[k]
        BY <1>5, <3>0, <4>3
      <4>. QED
        BY <4>3, <4>4
    <3>. QED
      BY <3>1, <3>2, <3>3 DEF LoopsAlone
  <2>5. AllWhole(g, timers', ended)
    <3>1. \A i \in 1..l : i \in 1..(l + 1)
      BY <2>3
    <3>2. \A i \in 1..l : \E j \in 1..Len(timers') : timers'[j] = timers[i]
      BY <2>3, <3>1
    <3>3. \E j \in 1..Len(timers') : timers'[j] = Timer(a, p)
      BY <2>3
    <3>4. ASSUME NEW b \in Anim, Timed(timers', b) PROVE Timed(timers, b) \/ b = a
      <4>1. PICK j \in 1..(l + 1) : timers'[j].a = b
        BY <2>3, <3>4 DEF Timed
      <4>2. j = l + 1 \/ j \in 1..l
        BY <2>3
      <4>. QED
        BY <2>3, <4>1, <4>2 DEF Timed, Timer
    <3>. HIDE DEF p, a
    <3>5. \A b \in Anim : ended[b] \subseteq ended[b]
      OBVIOUS
    <3>6. /\ Top.k = "loop" /\ g.k = "loop" /\ g.a = Top.a /\ Top.a \in Anim
          /\ Top.todo \in Seq(Props(Top.a)) /\ Top.todo # <<>> /\ g.todo = Tail(Top.todo)
      BY <1>1, <1>3, <1>4, <1>5 DEF a
    <3>. QED
      BY <1>6, <3>2, <3>3, <3>4, <3>5, <3>6, HeadGone DEF p, a
  <2>6. Innermost(stack') = g
    BY <1>0, <1>3, <2>1, InnermostKeeps
  <2>7. HaltsAll(g, timers', over)
    BY <1>5 DEF HaltsAll, Halts
  <2>. QED
    BY <1>1, <1>2, <2>1, <2>4, <2>5, <2>6, <2>7 DEF TimersWhole
<1>. QED
  BY <1>8, <1>9

\* Where a loop over the timers looks for one to end, none has ended: it would be about
\* to be taken out by another loop.
LEMMA NotYetEnded ==
    ASSUME Order, LoopsAlone, stack # <<>>, Top.k \in Loops, Top.cut = {}, ~Idle(Top, timers),
           NEW i \in 1..Len(timers)
    PROVE  timers[i].p \notin ended[timers[i].a]
<1>. DEFINE n == Len(stack)
<1>1. n \in Nat /\ n # 0 /\ Top = stack[n]
  BY StackShape DEF Order
<1>2. ~Cutting(stack[n])
  BY <1>1 DEF Cutting
<1>. SUFFICES ASSUME timers[i].p \in ended[timers[i].a] PROVE FALSE
  OBVIOUS
<1>3. PICK k \in 1..n : Cutting(stack[k])
  BY DEF LoopsAlone, EndedCut
<1>4. k # n /\ k < n /\ stack[k].k \in Loops /\ n \in 1..n
  BY <1>1, <1>2, <1>3 DEF Cutting
<1>. QED
  BY <1>1, <1>4 DEF LoopsAlone, Alone

\* A loop over the timers makes the last step of the one at its place, for the first
\* time.
LEMMA LastKeepsUndisturbed ==
    ASSUME Order, LoopsAlone, TimerWhole(timers, ended), again = {},
           timers' = timers, over' = over,
           NEW i \in 1..Len(timers), NEW s, NEW g,
           stack # <<>>, Top.k \in Loops, Top.cut = {}, ~Idle(Top, timers),
           Keeps(s, Len(stack), g), LastStep(timers[i], s),
           g.k \in Loops, g.i = i, g.cut = {timers[i]},
           g.k = "stop" => g.end /\ el(timers[i].a) = g.e
    PROVE  (LoopsAlone /\ TimersWhole /\ again = {})'
<1>. DEFINE n == Len(stack)
<1>0. Typed /\ EndedTyped /\ Nested /\ TimersDiffer
  BY DEF Order
<1>1. n \in Nat /\ n # 0 /\ Top = stack[n] /\ (n + 1)..n = {}
  BY <1>0, StackShape
<1>2. timers[i] \in AllTimers
  BY <1>0, ElementOfSeq DEF Typed
<1>3. PICK a \in Anim : \E p \in Props(a) : timers[i] = Timer(a, p)
  BY <1>2 DEF AllTimers
<1>. PICK p \in Props(a) : timers[i] = Timer(a, p)
  BY <1>3
<1>4. timers[i].a = a /\ timers[i].p = p
  BY DEF Timer
<1>5. ~Cutting(stack[n])
  BY <1>1 DEF Cutting
<1>6. p \notin ended[a]
  BY <1>4, NotYetEnded
<1>. DEFINE f == Complete(a)
<1>7. /\ Grows(ended') /\ ended'[a] = ended[a] \cup {p}
      /\ \A b \in Anim : b # a => ended'[b] = ended[b]
      /\ ended'[a] = Props(a) => Pushes(stack', n, g, f)
      /\ ended'[a] # Props(a) => Keeps(stack', n, g)
      /\ again' = again
  BY <1>0, <1>6, LastStepShape
<1>8. Cutting(g) /\ RightCut(g, timers, ended') /\ g.k # "loop" /\ ~Halts(g)
  <2>1. g.cut # {} /\ p \in ended'[a]
    BY <1>7
  <2>. QED
    BY <1>4, <2>1 DEF Cutting, RightCut, Halts, Loops
<1>9. ASSUME NEW j \in 1..Len(timers), JustEnded(j) PROVE j = i
  <2>1. timers[j] \in AllTimers
    BY <1>0, ElementOfSeq DEF Typed
  <2>2. PICK b \in Anim : \E q \in Props(b) : timers[j] = Timer(b, q)
    BY <2>1 DEF AllTimers
  <2>3. PICK q \in Props(b) : timers[j] = Timer(b, q)
    BY <2>2
  <2>4. b = a /\ q = p
    BY <1>7, <1>9, <2>3 DEF JustEnded, Timer
  <2>. QED
    BY <1>0, <2>3, <2>4 DEF TimersDiffer
<1>10. TimerWhole(timers, ended')
  BY <1>7, TimerWholeGrows
<1>11. CASE ended'[a] = Props(a)
  <2>1. Pushes(stack', n, g, f)
    BY <1>7, <1>11
  <2>2. f.k = "complete" /\ f.k \notin Loops /\ ~Cutting(f) /\ ~Halts(f)
    BY DEF Complete, Loops, Cutting, Halts
  <2>. HIDE DEF f
  <2>3. LoopsAlone'
    BY <1>0, <1>1, <1>5, <1>7, <1>8, <1>9, <2>1, <2>2, AlonePushes
  <2>4. Innermost(stack') = f
    BY <1>0, <2>1, InnermostPushes
  <2>5. HaltsAll(f, timers, over) /\ AllWhole(f, timers, ended')
    BY <1>10, <2>2, TimersMakeWhole
  <2>. QED
    BY <1>7, <2>3, <2>4, <2>5 DEF TimersWhole
<1>12. CASE ended'[a] # Props(a)
  <2>1. Keeps(stack', n, g)
    BY <1>7, <1>12
  <2>2. LoopsAlone'
    BY <1>0, <1>1, <1>5, <1>7, <1>8, <1>9, <2>1, AloneKeeps
  <2>3. Innermost(stack') = g
    BY <1>0, <1>1, <2>1, InnermostKeeps
  <2>4. HaltsAll(g, timers, over) /\ AllWhole(g, timers, ended')
    BY <1>8, <1>10, TimersMakeWhole
  <2>. QED
    BY <1>7, <2>2, <2>3, <2>4 DEF TimersWhole
<1>. QED
  BY <1>11, <1>12

LEMMA LoopsKeepUndisturbed ==
    ASSUME Order, Undisturbed, ~disturbed', StopNext \/ \E t \in AllTimers : TickLast(t)
    PROVE  (LoopsAlone /\ TimersWhole /\ again = {})'
<1>. DEFINE n == Len(stack)
<1>0. Typed /\ EndedTyped /\ Nested
  BY DEF Order
<1>1. ASSUME NEW t \in AllTimers, TickLast(t) PROVE (LoopsAlone /\ TimersWhole /\ again = {})'
  <2>1. /\ Inner("tick") /\ Top.cut = {} /\ Top.i \in 1..Len(timers) /\ timers[Top.i] = t
        /\ UNCHANGED <<timers, over, disturbed>>
    BY <1>0, <1>1, TickLastShape
  <2>2. PICK g \in TickFrames :
           /\ g.i = Top.i /\ g.cut = {t}
           /\ \E s : Keeps(s, n, g) /\ LastStep(t, s)
    BY <1>0, <1>1, TickLastShape
  <2>3. PICK s : Keeps(s, n, g) /\ LastStep(t, s)
    BY <2>2
  <2>4. LoopsAlone /\ TimersWhole /\ again = {}
    BY <2>1 DEF Undisturbed
  <2>5. stack # <<>> /\ Top.k = "tick" /\ g.k = "tick"
    BY <2>1 DEF Inner, TickFrames
  <2>6. TimerWhole(timers, ended)
    BY <1>0, <2>4, <2>5, StillWhole DEF Halts
  <2>7. Top.k \in Loops /\ g.k \in Loops /\ ~Idle(Top, timers) /\ g.k # "stop"
    BY <2>5 DEF Loops, Idle
  <2>. QED
    BY <2>1, <2>2, <2>3, <2>4, <2>5, <2>6, <2>7, LastKeepsUndisturbed
<1>2. CASE StopNext
  <2>1. /\ Inner("stop") /\ Top \in StopFrames /\ Top.cut = {} /\ Top.i \in Nat
        /\ UNCHANGED <<timers, over, disturbed>>
    BY <1>0, <1>2, StopNextShape
  <2>2. PICK i \in 1..Len(timers) :
           /\ i <= Top.i /\ el(timers[i].a) = Top.e
           /\ \A j \in 1..Top.i : el(timers[j].a) = Top.e => j <= i
           /\ \E g \in StopFrames :
               /\ g.e = Top.e /\ g.end = Top.end /\ g.i = i /\ g.cut = {timers[i]}
               /\ Top.end => \E s : Keeps(s, n, g) /\ LastStep(timers[i], s)
               /\ ~Top.end => Keeps(stack', n, g) /\ ended' = ended /\ again' = again
    BY <1>0, <1>2, StopNextShape
  <2>3. PICK g \in StopFrames :
               /\ g.e = Top.e /\ g.end = Top.end /\ g.i = i /\ g.cut = {timers[i]}
               /\ Top.end => \E s : Keeps(s, n, g) /\ LastStep(timers[i], s)
               /\ ~Top.end => Keeps(stack', n, g) /\ ended' = ended /\ again' = again
    BY <2>2
  <2>4. LoopsAlone /\ TimersWhole /\ again = {}
    BY <2>1 DEF Undisturbed
  <2>5. stack # <<>> /\ n # 0 /\ n \in Nat /\ Top = stack[n] /\ Top.k = "stop" /\ g.k = "stop"
    BY <1>0, <2>1, StackShape DEF Inner, StopFrames
  <2>6. Top.k \in Loops /\ g.k \in Loops /\ ~Idle(Top, timers)
    BY <2>2, <2>5 DEF Loops, Idle
  <2>7. CASE Top.end
    <3>1. TimerWhole(timers, ended)
      BY <1>0, <2>4, <2>5, <2>7, StillWhole DEF Halts
    <3>2. PICK s : Keeps(s, n, g) /\ LastStep(timers[i], s)
      BY <2>3, <2>7
    <3>3. g.k = "stop" => g.end /\ el(timers[i].a) = g.e
      BY <2>2, <2>3, <2>7
    <3>. QED
      BY <2>1, <2>3, <2>4, <2>5, <2>6, <3>1, <3>2, <3>3, LastKeepsUndisturbed
  <2>8. CASE ~Top.end
    <3>1. Keeps(stack', n, g) /\ ended' = ended /\ again' = again /\ timers' = timers
      BY <2>1, <2>3, <2>8
    <3>2. Grows(ended') /\ \A j : ~JustEnded(j)
      BY <1>0, <3>1, EndedSame, NothingJustEnded
    <3>3. RightCut(g, timers, ended') /\ ~Cutting(stack[n]) /\ (n + 1)..n = {}
      BY <2>1, <2>2, <2>3, <2>5, <2>8 DEF RightCut, Cutting
    <3>4. LoopsAlone'
      BY <1>0, <2>4, <2>5, <2>6, <3>1, <3>2, <3>3, AloneKeeps
    <3>5. Innermost(stack') = g
      BY <1>0, <2>5, <3>1, InnermostKeeps
    <3>6. HaltsAll(Top, timers, over) /\ AllWhole(Top, timers, ended)
      BY <1>0, <2>4, <2>5, InnermostIs DEF TimersWhole
    <3>7. HaltsAll(g, timers, over)
      <4>1. \A j \in 1..Len(timers) : el(timers[j].a) = Top.e =>
                timers[j].a \in over /\ j <= Top.i
        BY <2>5, <2>8, <3>6 DEF HaltsAll, Halts
      <4>2. Len(timers) \in Nat
        BY <1>0, LenProperties DEF Typed
      <4>3. \A j \in 1..Len(timers) : el(timers[j].a) = Top.e => j \in 1..Top.i
        BY <2>1, <4>1, <4>2
      <4>. QED
        BY <2>2, <2>3, <4>1, <4>3 DEF HaltsAll
    <3>8. AllWhole(g, timers, ended)
      BY <2>3, <2>5, <3>6 DEF AllWhole, Whole, Halts
    <3>. QED
      BY <2>1, <2>4, <3>1, <3>4, <3>5, <3>7, <3>8 DEF TimersWhole
  <2>. QED
    BY <2>7, <2>8
<1>. QED
  BY <1>1, <1>2

\* The timer taken out is the one that ended, or that stop takes from the element.
LEMMA SpliceKeepsUndisturbed ==
    ASSUME Order, Undisturbed, ~disturbed', TickSplice \/ StopSplice
    PROVE  (LoopsAlone /\ TimersWhole /\ again = {})'
<1>. DEFINE n == Len(stack)
            l == Len(timers)
            i == Top.i
<1>0. Typed /\ EndedTyped /\ Nested
  BY DEF Order
<1>1. PICK g \in Frame :
         /\ g.k = Top.k /\ g.cut = {}
         /\ g.k = "stop" => g.i = i - 1 /\ g.e = Top.e /\ g.end = Top.end
         /\ Keeps(stack', n, g)
  BY <1>0, SpliceShape
<1>2. /\ Inner("tick") \/ Inner("stop")
      /\ Top.cut # {} /\ i \in Nat \ {0}
      /\ i \in 1..l => timers' = RemoveAt(timers, i)
      /\ UNCHANGED <<ended, over, again, disturbed>>
  BY <1>0, SpliceShape
<1>3. LoopsAlone /\ TimersWhole /\ again = {}
  BY <1>2 DEF Undisturbed
<1>4. n \in Nat /\ n # 0 /\ n \in 1..n /\ Top = stack[n] /\ Top.k \in Loops /\ Cutting(Top)
  BY <1>0, <1>2, StackShape DEF Inner, Loops, Cutting
<1>5. /\ i \in 1..l
      /\ timers[i].p \in ended[timers[i].a] \/ (Top.k = "stop" /\ ~Top.end)
      /\ Top.k = "stop" => el(timers[i].a) = Top.e
  BY <1>3, <1>4 DEF LoopsAlone, Cuts, RightCut
<1>6. ASSUME NEW k \in 1..n, k # n PROVE stack[k].k \notin Loops
  <2>1. k < n
    BY <1>4, <1>6
  <2>2. ~Idle(stack[n], timers)
    BY <1>2, <1>4 DEF Idle
  <2>. QED
    BY <1>3, <1>4, <2>1, <2>2 DEF LoopsAlone, Alone
<1>7. /\ Len(timers') = l - 1 /\ l \in Nat
      /\ \A j \in 1..(l - 1) : timers'[j] = IF j < i THEN timers[j] ELSE timers[j + 1]
  BY <1>0, <1>2, <1>5, TakenOut, LenProperties DEF Typed
<1>8. ASSUME NEW j \in 1..(l - 1)
      PROVE  \E k \in 1..l : timers'[j] = timers[k] /\ k # i /\ (k < i => j = k)
  <2>1. j \in 1..l /\ j + 1 \in 1..l
    BY <1>7
  <2>. QED
    BY <1>5, <1>7, <2>1
<1>9. ASSUME NEW k \in 1..l, k # i
      PROVE  \E j \in 1..(l - 1) : timers'[j] = timers[k]
  <2>1. CASE k < i
    <3>1. k \in 1..(l - 1)
      BY <1>5, <1>7, <2>1
    <3>. QED
      BY <1>7, <2>1, <3>1
  <2>2. CASE ~ (k < i)
    <3>1. k - 1 \in 1..(l - 1) /\ ~ (k - 1 < i) /\ (k - 1) + 1 = k
      BY <1>5, <1>7, <1>9, <2>2
    <3>. QED
      BY <1>7, <3>1
  <2>. QED
    BY <2>1, <2>2
<1>10. Len(stack') = n /\ \A k \in 1..n : stack'[k] = IF k = n THEN g ELSE stack[k]
  BY <1>1 DEF Keeps
<1>11. LoopsAlone'
  <2>1. \A k \in 1..n : ~Cutting(stack'[k])
    BY <1>1, <1>6, <1>10 DEF Cutting
  <2>2. Cuts(stack', timers', ended')
    BY <1>10, <2>1 DEF Cuts, RightCut
  <2>3. Alone(stack', timers')
    <3>. SUFFICES ASSUME NEW j \in 1..n, NEW k \in 1..n, j < k, stack'[j].k \in Loops
                  PROVE  FALSE
      BY <1>10 DEF Alone
    <3>1. j # n
      BY <1>4
    <3>. QED
      BY <1>6, <1>10, <3>1
  <2>4. EndedCut(stack', timers', ended')
    <3>. SUFFICES ASSUME NEW j \in 1..(l - 1), timers'[j].p \in ended[timers'[j].a]
                  PROVE  FALSE
      BY <1>2, <1>7 DEF EndedCut
    <3>1. PICK x \in 1..l : timers'[j] = timers[x] /\ x # i
      BY <1>8
    <3>2. PICK k \in 1..n : Cutting(stack[k]) /\ stack[k].i = x
      BY <1>3, <3>1 DEF LoopsAlone, EndedCut
    <3>3. k = n
      BY <1>6, <3>2 DEF Cutting
    <3>. QED
      BY <1>4, <3>1, <3>2, <3>3
  <2>. QED
    BY <2>2, <2>3, <2>4 DEF LoopsAlone
<1>12. Innermost(stack') = g /\ Innermost(stack) = Top
  BY <1>0, <1>1, <1>2, <1>4, InnermostKeeps, InnermostIs DEF Inner
<1>13. HaltsAll(Top, timers, over) /\ AllWhole(Top, timers, ended)
  BY <1>3, <1>12 DEF TimersWhole
<1>14. HaltsAll(g, timers', over)
  <2>. SUFFICES ASSUME Halts(g), NEW j \in 1..(l - 1), el(timers'[j].a) = g.e
                PROVE  timers'[j].a \in over /\ j <= g.i
    BY <1>7 DEF HaltsAll
  <2>1. PICK k \in 1..l : timers'[j] = timers[k] /\ k # i /\ (k < i => j = k)
    BY <1>8
  <2>2. timers[k].a \in over /\ k <= i
    BY <1>1, <1>13, <2>1 DEF HaltsAll, Halts
  <2>3. k < i /\ j = k
    BY <1>2, <2>1, <2>2
  <2>. QED
    BY <1>1, <1>2, <2>1, <2>2, <2>3 DEF Halts
<1>15. AllWhole(g, timers', ended)
  <2>1. Top.k # "loop" /\ g.k # "loop"
    BY <1>1, <1>4 DEF Loops
  <2>. SUFFICES ASSUME NEW a \in Anim, Timed(timers', a), ~ (Halts(g) /\ g.e = el(a)),
                       NEW p \in Props(a) \ ended[a]
                PROVE  \E j \in 1..(l - 1) : timers'[j] = Timer(a, p)
    BY <1>7, <2>1 DEF AllWhole, Whole
  <2>2. Timed(timers, a)
    <3>1. PICK j \in 1..(l - 1) : timers'[j].a = a
      BY <1>7 DEF Timed
    <3>2. PICK k \in 1..l : timers'[j] = timers[k]
      BY <1>8
    <3>. QED
      BY <3>1, <3>2 DEF Timed
  <2>3. ~ (Halts(Top) /\ Top.e = el(a))
    BY <1>1 DEF Halts
  <2>4. PICK k \in 1..l : timers[k] = Timer(a, p)
    BY <1>13, <2>1, <2>2, <2>3 DEF AllWhole, Whole
  <2>5. k # i
    BY <1>5, <2>3, <2>4 DEF Timer, Halts
  <2>. QED
    BY <1>9, <2>4, <2>5
<1>. QED
  BY <1>2, <1>3, <1>11, <1>12, <1>14, <1>15 DEF TimersWhole

LEMMA NextKeepsUndisturbed == Order /\ Order' /\ Undisturbed /\ [Next]_vars => Undisturbed'
<1>. SUFFICES ASSUME Order, Order', Undisturbed, [Next]_vars PROVE Undisturbed'
  OBVIOUS
<1>1. CASE UNCHANGED vars
  <2>1. UNCHANGED <<timers, ended, stack, over, again, disturbed>>
    BY <1>1 DEF vars, ghosts
  <2>. QED
    BY <2>1 DEF Undisturbed, LoopsAlone, TimersWhole, Innermost
<1>2. CASE Calculates \/ Return \/ Throw \/ Tick \/ TickGoesOn
           \/ \E t \in AllTimers : TickLast(t)
  <2>. SUFFICES ASSUME ~disturbed' PROVE (LoopsAlone /\ TimersWhole /\ again = {})'
    BY DEF Undisturbed
  <2>1. CASE Custom
    BY <2>1, CustomKeepsUndisturbed
  <2>2. CASE Shown
    BY <2>2, ShownKeepsUndisturbed
  <2>3. CASE LoopEnds \/ TickEnds \/ Return
    BY <2>3, ReturnKeepsUndisturbed
  <2>4. CASE Move \/ CallPage
    BY <2>4, CompleteKeepsUndisturbed
  <2>5. CASE TickSplice \/ StopSplice
    BY <2>5, SpliceKeepsUndisturbed
  <2>6. CASE StopNext \/ \E t \in AllTimers : TickLast(t)
    BY <2>6, LoopsKeepUndisturbed
  <2>7. CASE StopEnds \/ StopBreaks \/ Throw
    BY <2>7, EndsKeepUndisturbed
  <2>8. CASE Tick \/ TickGoesOn
    BY <2>8, TicksKeepUndisturbed
  <2>. QED
    BY <1>2, <2>1, <2>2, <2>3, <2>4, <2>5, <2>6, <2>7, <2>8 DEF Calculates
<1>. QED
  BY <1>1, <1>2, PageKeepsUndisturbed DEF Next

LEMMA InitUndisturbed == Init => Undisturbed
<1>. SUFFICES ASSUME Init PROVE Undisturbed
  OBVIOUS
<1>. DEFINE n == <<>>
<1>1. Len(n) = 0 /\ 1..Len(n) = {}
  BY EmptySeq
<1>2. timers = n /\ stack = n /\ again = {}
  BY DEF Init
<1>. HIDE DEF n
<1>3. LoopsAlone
  BY <1>1, <1>2 DEF LoopsAlone, Cuts, Alone, EndedCut
<1>4. TimersWhole
  BY <1>1, <1>2 DEF TimersWhole, Innermost, NoCall, HaltsAll, Halts, AllWhole, Timed
<1>. QED
  BY <1>2, <1>3, <1>4 DEF Undisturbed

LEMMA LoopsFollow == Order /\ Undisturbed => LoopsAreRight
<1>. SUFFICES ASSUME Order, Undisturbed, ~disturbed PROVE LoopsAreRight
  BY DEF LoopsAreRight, NoneIsLost, StepsEnd
<1>1. LoopsAlone /\ TimersWhole /\ again = {} /\ Typed
  BY DEF Undisturbed, Order
<1>2. DOMAIN timers = 1..Len(timers) /\ DOMAIN stack = 1..Len(stack) /\ Len(stack) \in Nat
  BY <1>1, LenProperties DEF Typed
<1>. DEFINE f == Innermost(stack)
<1>3. HaltsAll(f, timers, over) /\ AllWhole(f, timers, ended)
  BY <1>1 DEF TimersWhole
<1>4. ASSUME NEW a \in Anim \ over, Running(a), NEW p \in Props(a) \ ended[a]
      PROVE  \/ Timer(a, p) \in ToSet(timers)
             \/ \E i \in DOMAIN stack :
                   stack[i].k = "loop" /\ stack[i].a = a /\ p \in ToSet(stack[i].todo)
  <2>1. PICK j \in 1..Len(timers) : timers[j].a = a
    BY <1>2, <1>4 DEF Running, ToSet
  <2>2. ~ (Halts(f) /\ f.e = el(a))
    BY <1>3, <2>1 DEF HaltsAll
  <2>3. Whole(a, f, timers, ended)
    BY <1>3, <2>1, <2>2 DEF AllWhole, Timed
  <2>4. CASE \E i \in 1..Len(timers) : timers[i] = Timer(a, p)
    BY <1>2, <2>4 DEF ToSet
  <2>5. CASE f.k = "loop" /\ f.a = a /\ \E i \in 1..Len(f.todo) : f.todo[i] = p
    <3>1. Len(stack) # 0 /\ f = stack[Len(stack)] /\ Len(stack) \in DOMAIN stack
      BY <1>2, <2>5 DEF Innermost, NoCall
    <3>2. f \in LoopFrames
      BY <1>1, <1>2, <2>5, <3>1, StackShape, KindOfFrame
    <3>3. f.todo \in Seq(Props(f.a))
      BY <3>2 DEF LoopFrames
    <3>4. p \in ToSet(f.todo)
      BY <2>5, <3>3, LenProperties DEF ToSet
    <3>. QED
      BY <2>5, <3>1, <3>4
  <2>. QED
    BY <2>3, <2>4, <2>5 DEF Whole
<1>. QED
  BY <1>1, <1>4 DEF LoopsAreRight, NoneIsLost, StepsEnd

\* The loops over the timers, by index, take out the timers that ended and no others,
\* whatever the complete functions of the page do to the list meanwhile, as long as they
\* neither throw nor stop what is running.
THEOREM LoopsRight == Spec => []LoopsAreRight
<1>1. Order /\ Undisturbed /\ [Next]_vars => (Order /\ Undisturbed)'
  BY NextKeepsOrder, NextKeepsUndisturbed
<1>. QED
  BY <1>1, InitOrder, InitUndisturbed, LoopsFollow, PTL DEF Spec

-----------------------------------------------------------------------------
(* The other variables.                                                    *)

Plain == hidden \subseteq Elem /\ interval \in BOOLEAN /\ mode \in [Anim -> Kinds]

LEMMA EnteredIsPlain ==
    ASSUME NEW a \in Anim, mode \in [Anim -> Kinds], Entered(a)
    PROVE  mode' \in [Anim -> Kinds]
<1>1. Resolved(a) \in Kinds
  BY FxAssumption DEF Resolved, IsAnimation, Kinds
<1>. QED
  BY <1>1 DEF Entered

LEMMA DequeueIsPlain ==
    ASSUME NEW e \in Elem, NEW s, Typed, mode \in [Anim -> Kinds], Dequeue(e, s)
    PROVE  mode' \in [Anim -> Kinds]
<1>1. CASE Len(queue[e]) > 1
  <2>1. queue[e] \in Seq(Anim) /\ Len(queue[e]) \in Nat
    BY LenProperties DEF Typed
  <2>2. queue[e][2] \in Anim
    <3>1. 2 \in 1..Len(queue[e])
      BY <1>1, <2>1
    <3>. QED
      BY <2>1, <3>1, ElementOfSeq
  <2>3. Entered(queue[e][2])
    BY <1>1 DEF Dequeue
  <2>. QED
    BY <2>2, <2>3, EnteredIsPlain
<1>2. CASE ~ (Len(queue[e]) > 1)
  BY <1>2 DEF Dequeue
<1>. QED
  BY <1>1, <1>2

LEMMA LastStepIsPlain ==
    ASSUME NEW t \in AllTimers, NEW s, hidden \subseteq Elem, LastStep(t, s)
    PROVE  hidden' \subseteq Elem
<1>1. el(t.a) \in Elem
  BY AnimOfTimer, ElOfAnim
<1>. QED
  BY <1>1 DEF LastStep

LEMMA NextKeepsPlain == Typed /\ Plain /\ [Next]_vars => Plain'
<1>. SUFFICES ASSUME Typed, Plain, [Next]_vars PROVE Plain'
  OBVIOUS
<1>. USE DEF Plain
<1>1. CASE UNCHANGED vars
  BY <1>1 DEF vars
<1>2. ASSUME NEW a \in Anim, Animate(a) PROVE Plain'
  <2>1. Entered(a) \/ mode' = mode
    BY <1>2 DEF Animate, Enqueue, RunNow
  <2>2. UNCHANGED <<hidden, interval>>
    BY <1>2 DEF Animate
  <2>. QED
    BY <2>1, <2>2, EnteredIsPlain
<1>3. ASSUME NEW e \in Elem, Display(e) \/ RemoveElement(e)
      PROVE  Plain'
  BY <1>3 DEF Display, RemoveElement
<1>4. ASSUME NEW e \in Elem, NEW clear \in BOOLEAN, NEW end \in BOOLEAN, Stop(e, clear, end)
      PROVE  Plain'
  BY <1>4 DEF Stop
<1>5. CASE Custom
  <2>1. Top.a \in Anim /\ Head(Top.todo) \in Props(Top.a)
    BY <1>5, CustomShape
  <2>2. Timer(Top.a, Head(Top.todo)) \in AllTimers
    BY <2>1, TimerOfProp
  <2>3. hidden' \subseteq Elem
    BY <1>5, <2>2, LastStepIsPlain DEF Custom
  <2>. QED
    BY <1>5, <2>3 DEF Custom
<1>6. CASE Move
  <2>1. el(Top.a) \in Elem
    BY <1>6, MoveShape
  <2>2. mode' \in [Anim -> Kinds]
    BY <1>6, <2>1, DequeueIsPlain DEF Move
  <2>. QED
    BY <1>6, <2>2 DEF Move
<1>7. CASE StopEnds
  <2>1. Top.e \in Elem
    BY <1>7, StopEndsShape
  <2>2. mode' \in [Anim -> Kinds]
    BY <1>7, <2>1, DequeueIsPlain DEF StopEnds
  <2>. QED
    BY <1>7, <2>2 DEF StopEnds
<1>8. CASE StopNext
  <2>1. PICK i \in Below :
           LET t == timers[i]
               s == Append(Front(stack), [Top EXCEPT !.i = i, !.cut = {t}])
           IN  /\ \A j \in Below : j <= i
               /\ IF Top.end THEN LastStep(t, s)
                  ELSE stack' = s /\ UNCHANGED <<hidden, ended, again>>
    BY <1>8 DEF StopNext
  <2>2. timers[i] \in AllTimers
    <3>1. Inner("stop") /\ Top \in StopFrames /\ Top.i \in Nat /\ Top.i <= Len(timers)
      BY <1>8, StopNextShape
    <3>2. i \in 1..Top.i /\ Len(timers) \in Nat
      BY LenProperties DEF Below, Typed
    <3>3. i \in 1..Len(timers)
      BY <3>1, <3>2
    <3>. QED
      BY <3>3, ElementOfSeq DEF Typed
  <2>3. hidden' \subseteq Elem
    BY <2>1, <2>2, LastStepIsPlain
  <2>. QED
    BY <1>8, <2>3 DEF StopNext
<1>9. ASSUME NEW t \in AllTimers, TickLast(t) PROVE Plain'
  <2>1. hidden' \subseteq Elem
    BY <1>9, LastStepIsPlain DEF TickLast
  <2>. QED
    BY <1>9, <2>1 DEF TickLast
<1>10. CASE Shown \/ LoopEnds \/ CallPage \/ TickSplice \/ TickEnds \/ StopSplice \/ StopBreaks
            \/ Return \/ Throw \/ Tick \/ TickGoesOn
  BY <1>10 DEF Shown, LoopEnds, CallPage, TickSplice, TickEnds, StopSplice, Splice, StopBreaks,
     Return, Throw, Unwound, Tick, TickGoesOn
<1>. QED
  BY <1>1, <1>2, <1>3, <1>4, <1>5, <1>6, <1>7, <1>8, <1>9, <1>10 DEF Next, Calculates

LEMMA TypesFollow == Order /\ Plain => TypeOK
<1>. SUFFICES ASSUME Order, Plain PROVE TypeOK
  OBVIOUS
<1>1. Typed /\ QueueOrder /\ TimersDiffer /\ EndedTyped
  BY DEF Order
<1>2. ASSUME NEW e \in Elem PROVE ToSet(queue[e]) \subseteq {a \in Anim : el(a) = e}
  <2>1. queue[e] \in Seq(Anim)
    BY <1>1 DEF Typed
  <2>2. DOMAIN queue[e] = 1..Len(queue[e])
    BY <2>1, LenProperties
  <2>3. \A i \in 1..Len(queue[e]) : queue[e][i] \in Anim /\ el(queue[e][i]) = e
    BY <1>1, <2>1, ElementOfSeq DEF QueueOrder
  <2>. QED
    BY <2>2, <2>3 DEF ToSet
<1>3. /\ DOMAIN timers = 1..Len(timers)
      /\ \A i \in 1..Len(timers) : timers[i] \in AllTimers
  BY <1>1, LenProperties, ElementOfSeq DEF Typed
<1>4. ToSet(timers) \subseteq AllTimers /\ IsInjective(timers)
  BY <1>1, <1>3 DEF ToSet, IsInjective, TimersDiffer
<1>5. ASSUME NEW i \in DOMAIN stack
      PROVE  stack[i].k \in {"loop", "complete", "page", "tick", "stop"}
  <2>1. stack[i] \in Frame
    BY <1>1, LenProperties, ElementOfSeq DEF Typed
  <2>. QED
    BY <2>1 DEF Frame, LoopFrames, CompleteFrames, TickFrames, StopFrames, PageFrames
<1>6. DOMAIN queue = Elem
  BY <1>1 DEF Typed
<1>. QED
  BY <1>1, <1>2, <1>4, <1>5, <1>6 DEF TypeOK, Plain, EndedTyped

\* The variables keep their types; an animation stands in the queue of its element, and
\* a timer is in the list once.
THEOREM TypeCorrect == Spec => []TypeOK
<1>1. Init => Plain
  BY FxAssumption DEF Init, Plain, IsAnimation
<1>2. Order /\ Plain /\ [Next]_vars => (Order /\ Plain)'
  BY NextKeepsOrder, NextKeepsPlain DEF Order
<1>. QED
  BY <1>1, <1>2, InitOrder, TypesFollow, PTL DEF Spec

-----------------------------------------------------------------------------
(* What runs is the head of the queue.  An animation runs as long as one   *)
(* of its timers has not ended, while animate makes its timers, and until  *)
(* opt.complete has looked at the queue.                                   *)

Drives(f, a) ==
    \/ f.k = "loop" /\ f.a = a /\ f.todo # <<>>
    \/ f.k = "complete" /\ f.a = a /\ ~f.moved
Going(ts, d, a) == \E j \in 1..Len(ts) : ts[j].a = a /\ ts[j].p \notin d[a]

Lives(e, f, ts, d) == {a \in Anim : el(a) = e /\ (Drives(f, a) \/ Going(ts, d, a))}
Heads(q) == IF q = <<>> THEN {} ELSE {Head(q)}

\* stop with gotoEnd has all that runs before it.
Forces(e, f, ts, d) ==
    /\ f.k = "stop" /\ f.end /\ f.e = e
    /\ \A j \in 1..Len(ts) : el(ts[j].a) = e /\ ts[j].p \notin d[ts[j].a] => j <= f.i

\* The head of the queue runs, or is about to be started by stop; or the queue has been
\* emptied by stop, which brings what runs to its end.
HeadOk(e, f, q, ts, d) ==
    \/ Halts(f) /\ f.e = e
    \/ Lives(e, f, ts, d) = Heads(q)
    \/ /\ q = <<>>
       /\ \E a \in Anim : /\ Lives(e, f, ts, d) = {a}
                          /\ Forces(e, f, ts, d) \/ (f.k = "complete" /\ ~f.moved /\ f.a = a)

\* When opt.complete is called all timers have ended.
Finished(f, ts, d) == f.k = "complete" /\ ~f.moved => ~Going(ts, d, f.a)

Heading ==
    /\ Finished(Innermost(stack), timers, ended)
    /\ \A e \in Elem \ removed :
        AllWait(e) => HeadOk(e, Innermost(stack), queue[e], timers, ended)

HeadInv == ~disturbed => Heading

-----------------------------------------------------------------------------
\* A call that has nothing to do with what runs.
Still(f) == \A a \in Anim : ~Drives(f, a)

LEMMA StillIs ==
    ASSUME NEW f, NEW ts, NEW d
    PROVE  /\ Passive(f, d) \/ f.k \notin {"loop", "complete"} => Still(f) /\ Finished(f, ts, d)
           /\ f.k = "loop" => Finished(f, ts, d)
           /\ f.k = "complete" /\ f.moved => Still(f) /\ Finished(f, ts, d)
           /\ f.k = "loop" /\ f.todo = <<>> => Still(f)
<1>1. Passive(f, d) => /\ f.k = "loop" => f.todo = <<>>
                       /\ f.k = "complete" => f.moved
  BY DEF Passive, Waits
<1>. QED
  BY <1>1 DEF Still, Drives, Finished

LEMMA EnterDrives ==
    ASSUME NEW a \in Anim
    PROVE  \A b \in Anim : Drives(Enter(a), b) <=> b = a
<1>. DEFINE f == Enter(a)
<1>1. /\ f.a = a /\ f.k \in {"loop", "complete"}
      /\ f.k = "loop" => f.todo # <<>>
      /\ f.k = "complete" => ~f.moved
  BY Entering, PropsOf
<1>. HIDE DEF f
<1>2. \A b \in Anim : Drives(f, b) <=> b = a
  BY <1>1 DEF Drives
<1>. QED
  BY <1>2 DEF f

\* Where neither stop nor opt.complete is at work the head of the queue runs.
LEMMA Settled ==
    ASSUME NEW e \in Elem \ removed, AllWait(e), Heading, NEW f, f = Innermost(stack),
           f.k = "stop" => f.e # e,
           f.k = "complete" => f.moved \/ el(f.a) # e
    PROVE  Lives(e, f, timers, ended) = Heads(queue[e])
<1>1. HeadOk(e, f, queue[e], timers, ended)
  BY DEF Heading
<1>2. ~ (Halts(f) /\ f.e = e) /\ ~Forces(e, f, timers, ended)
  BY DEF Halts, Forces
<1>3. ASSUME NEW a \in Anim, Lives(e, f, timers, ended) = {a},
             f.k = "complete" /\ ~f.moved /\ f.a = a
      PROVE  FALSE
  <2>1. el(a) = e
    BY <1>3 DEF Lives
  <2>. QED
    BY <1>3, <2>1
<1>. QED
  BY <1>1, <1>2, <1>3 DEF HeadOk

LEMMA LivesSame ==
    ASSUME NEW e, NEW f, NEW g, NEW ts, NEW us, NEW d, NEW b,
           \A a \in Anim : el(a) = e =>
                (Drives(f, a) \/ Going(ts, d, a) <=> Drives(g, a) \/ Going(us, b, a))
    PROVE  Lives(e, f, ts, d) = Lives(e, g, us, b)
BY DEF Lives

\* A step outside of stop and opt.complete that leaves running what runs.
LEMMA RunsOn ==
    ASSUME Heading, queue' = queue, removed' = removed,
           NEW f, f = Innermost(stack), f.k # "stop", f.k = "complete" => f.moved,
           NEW g, g = Innermost(stack'), Finished(g, timers', ended'),
           \A a \in Anim : Drives(f, a) \/ Going(timers, ended, a)
                           <=> Drives(g, a) \/ Going(timers', ended', a)
    PROVE  Heading'
<1>1. ASSUME NEW e \in Elem \ removed, AllWait(e)
      PROVE  HeadOk(e, g, queue[e], timers', ended')
  <2>1. Lives(e, f, timers, ended) = Heads(queue[e])
    BY <1>1, Settled
  <2>2. Lives(e, g, timers', ended') = Heads(queue[e])
    BY <2>1, LivesSame
  <2>. QED
    BY <2>2 DEF HeadOk
<1>2. \A e : AllWait(e)' <=> AllWait(e)
  BY DEF AllWait
<1>. QED
  BY <1>1, <1>2 DEF Heading

\* A step that has nothing to do with what runs.
LEMMA HeadsStay ==
    ASSUME Heading, timers' = timers, ended' = ended, queue' = queue, removed' = removed,
           NEW f, f = Innermost(stack), f.k # "stop", f.k = "complete" => f.moved,
           NEW g, g = Innermost(stack'), Finished(g, timers, ended),
           \A a \in Anim : Drives(f, a) <=> Drives(g, a)
    PROVE  Heading'
BY RunsOn

LEMMA QuietKeepsHeads ==
    ASSUME Order, Heading, ~disturbed',
           Shown \/ LoopEnds \/ TickEnds \/ Return \/ CallPage \/ Tick \/ TickGoesOn
           \/ StopBreaks \/ Throw
    PROVE  Heading'
<1>. DEFINE n == Len(stack)
            f == Innermost(stack)
            h == Innermost(stack')
<1>0. Typed /\ EndedTyped /\ Nested
  BY DEF Order
<1>00. /\ n \in Nat /\ (stack = <<>> <=> n = 0)
       /\ stack # <<>> => f = Top /\ Top = stack[n]
       /\ stack = <<>> => f = NoCall
  BY <1>0, StackShape, InnermostIs
<1>000. NoCall.k = "none"
  BY DEF NoCall
<1>1. CASE Shown
  <2>1. PICK g \in LoopFrames : /\ g.a = Top.a /\ g.todo = Top.todo
                                /\ Keeps(stack', n, g)
    BY <1>0, <1>1, ShownShape
  <2>2. /\ Inner("loop") /\ UNCHANGED <<queue, timers, ended, removed>>
    BY <1>0, <1>1, ShownShape
  <2>3. f = Top /\ Top.k = "loop" /\ g.k = "loop" /\ n # 0
    BY <1>00, <2>2 DEF Inner, LoopFrames
  <2>4. h = g
    BY <1>0, <2>1, <2>3, InnermostKeeps
  <2>5. \A a \in Anim : Drives(f, a) <=> Drives(h, a)
    BY <2>1, <2>3, <2>4 DEF Drives
  <2>6. Finished(h, timers, ended)
    BY <2>3, <2>4, StillIs
  <2>. HIDE DEF f, h
  <2>. QED
    BY <2>2, <2>3, <2>5, <2>6, HeadsStay DEF f, h
<1>2. CASE LoopEnds \/ TickEnds \/ Return
  <2>1. /\ \/ Inner("loop") /\ Top.todo = <<>>
           \/ Inner("tick") /\ Top.cut = {}
           \/ Inner("page")
        /\ Keeps(stack', n - 1, Top)
        /\ UNCHANGED <<queue, timers, ended, removed>>
    BY <1>0, <1>2, ReturnShape
  <2>2. f.k \in {"loop", "tick", "page"} /\ (f.k = "loop" => f.todo = <<>>)
    BY <1>00, <2>1 DEF Inner
  <2>3. n - 1 # n
    BY <1>00
  <2>4. Passive(h, ended)
    BY <1>0, <2>1, <2>3, InnermostKeeps
  <2>. HIDE DEF f, h
  <2>5. Still(f) /\ Still(h) /\ Finished(h, timers, ended)
    BY <2>2, <2>4, StillIs
  <2>. QED
    BY <2>1, <2>2, <2>5, HeadsStay DEF f, h, Still
<1>3. CASE CallPage
  <2>1. /\ Inner("complete") /\ Top.moved
        /\ UNCHANGED <<queue, timers, ended, removed>>
        /\ Keeps(stack', n, Page) \/ Keeps(stack', n - 1, Top)
    BY <1>0, <1>3, CallPageShape
  <2>2. f.k = "complete" /\ f.moved /\ n # 0
    BY <1>00, <2>1 DEF Inner
  <2>3. n - 1 # n
    BY <1>00
  <2>4. h = Page \/ Passive(h, ended)
    BY <1>0, <2>1, <2>2, <2>3, InnermostKeeps
  <2>5. Page.k = "page"
    BY DEF Page
  <2>. HIDE DEF f, h
  <2>6. Still(f) /\ Still(h) /\ Finished(h, timers, ended)
    BY <2>2, <2>4, <2>5, StillIs
  <2>. QED
    BY <2>1, <2>2, <2>6, HeadsStay DEF f, h, Still
<1>4. CASE Tick
  <2>1. /\ stack = <<>> /\ Pushes(stack', 0, TickFrame, TickFrame)
        /\ UNCHANGED <<queue, timers, ended, removed>>
    BY <1>0, <1>4, TickShape
  <2>2. h = TickFrame /\ TickFrame.k = "tick"
    BY <1>0, <2>1, InnermostPushes DEF TickFrame
  <2>3. f.k = "none"
    BY <1>00, <1>000, <2>1
  <2>. HIDE DEF f, h
  <2>4. Still(f) /\ Still(h) /\ Finished(h, timers, ended)
    BY <2>2, <2>3, StillIs
  <2>. QED
    BY <2>1, <2>3, <2>4, HeadsStay DEF f, h, Still
<1>5. CASE TickGoesOn
  <2>1. PICK g \in TickFrames : Keeps(stack', n, g)
    BY <1>0, <1>5, TickGoesOnShape
  <2>2. Inner("tick") /\ UNCHANGED <<queue, timers, ended, removed>>
    BY <1>0, <1>5, TickGoesOnShape
  <2>3. f.k = "tick" /\ n # 0
    BY <1>00, <2>2 DEF Inner
  <2>4. h = g /\ g.k = "tick"
    BY <1>0, <2>1, <2>3, InnermostKeeps DEF TickFrames
  <2>. HIDE DEF f, h
  <2>5. Still(f) /\ Still(h) /\ Finished(h, timers, ended)
    BY <2>3, <2>4, StillIs
  <2>. QED
    BY <2>2, <2>3, <2>5, HeadsStay DEF f, h, Still
<1>6. CASE StopBreaks \/ Throw
  <2>1. /\ Keeps(stack', 0, Top)
        /\ UNCHANGED <<queue, timers, ended, removed>>
        /\ \A i \in 1..n : stack[i].k = "page"
    BY <1>0, <1>6, UnwoundShape
  <2>2. f.k \in {"none", "page"}
    BY <1>00, <1>000, <2>1
  <2>3. Passive(h, ended)
    <3>. DEFINE m == 0
    <3>1. Keeps(stack', m, Top) /\ m = 0
      BY <2>1
    <3>. HIDE DEF m
    <3>. QED
      BY <1>0, <3>1, InnermostKeeps
  <2>. HIDE DEF f, h
  <2>4. Still(f) /\ Still(h) /\ Finished(h, timers, ended)
    BY <2>2, <2>3, StillIs
  <2>. QED
    BY <2>1, <2>2, <2>4, HeadsStay DEF f, h, Still
<1>. QED
  BY <1>1, <1>2, <1>3, <1>4, <1>5, <1>6

-----------------------------------------------------------------------------
LEMMA AnimateKeepsHeads ==
    ASSUME Order, Heading, NEW a \in Anim, Animate(a)
    PROVE  Heading'
<1>. DEFINE n == Len(stack)
            f == Innermost(stack)
            h == Innermost(stack')
<1>0. Typed /\ EndedTyped /\ Nested /\ QueueOrder /\ AllFresh
  BY DEF Order
<1>1. PICK g :
        /\ FromPage(g) /\ a \in Anim \ begun /\ begun' = begun \cup {a}
        /\ UNCHANGED <<timers, ended, removed>>
        /\ \/ ~What[a].queued /\ queue' = queue /\ Pushes(stack', n, g, Enter(a))
           \/ /\ What[a].queued
              /\ queue' = [queue EXCEPT ![el(a)] = Append(queue[el(a)], a)]
              /\ queue[el(a)] = <<>> => Pushes(stack', n, g, Enter(a))
              /\ queue[el(a)] # <<>> => Keeps(stack', n, g)
  BY <1>0, AnimateShape
<1>2. f.k \in {"none", "page"}
  BY <1>0, <1>1, StackShape, InnermostIs DEF FromPage, PageFrames, NoCall
<1>3. \/ h = Enter(a) /\ (What[a].queued => queue[el(a)] = <<>>)
      \/ Passive(h, ended) \/ h.k = "page"
  <2>1. Pushes(stack', n, g, Enter(a)) => h = Enter(a)
    BY <1>0, InnermostPushes
  <2>2. Keeps(stack', n, g) => Passive(h, ended) \/ h.k = "page"
    <3>1. n # 0 => g.k = "page"
      BY <1>0, <1>1, StackShape DEF FromPage, PageFrames
    <3>. QED
      BY <1>0, <3>1, InnermostKeeps
  <2>. HIDE DEF h, n
  <2>. QED
    BY <1>1, <2>1, <2>2
<1>4. Enter(a).a = a /\ ~Timed(timers, a)
  <2>1. a \in ToCome
    BY <1>1 DEF ToCome
  <2>. QED
    BY <1>0, <2>1, Entering DEF AllFresh, Fresh
<1>5. ~Going(timers, ended, a) /\ (\A b \in Anim : Drives(Enter(a), b) <=> b = a)
  BY <1>4, EnterDrives DEF Going, Timed
<1>. HIDE DEF f, h
<1>6. Finished(h, timers, ended)
  BY <1>3, <1>4, <1>5, StillIs DEF Finished
<1>7. Still(f)
  BY <1>2, StillIs
<1>8. ASSUME NEW e \in Elem \ removed, AllWait(e)
      PROVE  HeadOk(e, h, queue'[e], timers, ended)
  <2>1. Lives(e, f, timers, ended) = Heads(queue[e])
    BY <1>2, <1>8, Settled DEF f
  <2>2. CASE h = Enter(a) /\ e = el(a)
    <3>1. What[a].queued /\ queue[e] = <<>>
      BY <1>3, <1>8, <2>2, EnterDrives, <1>5, StillIs DEF AllWait, Still, Passive
    <3>2. queue'[e] = <<a>>
      BY <1>0, <1>1, <2>2, <3>1, QueueAppended
    <3>3. Heads(queue[e]) = {} /\ Heads(queue'[e]) = {a}
      BY <3>1, <3>2 DEF Heads
    <3>4. Lives(e, h, timers, ended) = {a}
      BY <1>5, <2>1, <2>2, <3>3 DEF Lives
    <3>. QED
      BY <3>3, <3>4 DEF HeadOk
  <2>3. CASE ~ (h = Enter(a) /\ e = el(a))
    <3>1. \A b \in Anim : el(b) = e => ~Drives(h, b)
      BY <1>3, <1>5, <2>3, StillIs DEF Still
    <3>2. Lives(e, h, timers, ended) = Lives(e, f, timers, ended)
      BY <1>7, <3>1, LivesSame DEF Still
    <3>3. Heads(queue'[e]) = Heads(queue[e])
      <4>1. CASE ~What[a].queued
        BY <1>1, <4>1
      <4>2. CASE What[a].queued /\ e # el(a)
        BY <1>0, <1>1, <4>2, QueueAppended
      <4>3. CASE What[a].queued /\ e = el(a)
        <5>1. queue[e] # <<>>
          BY <1>0, <1>1, <2>3, <4>3, InnermostPushes DEF h
        <5>. QED
          BY <1>0, <1>1, <4>3, <5>1, QueueAppended DEF Heads
      <4>. QED
        BY <4>1, <4>2, <4>3
    <3>. QED
      BY <2>1, <3>2, <3>3 DEF HeadOk
  <2>. QED
    BY <2>2, <2>3
<1>9. \A e : AllWait(e)' <=> AllWait(e)
  BY DEF AllWait
<1>. QED
  BY <1>1, <1>6, <1>8, <1>9 DEF Heading, h

LEMMA PageKeepsHeads ==
    ASSUME Order, Heading, NEW e \in Elem, Display(e) \/ RemoveElement(e)
    PROVE  Heading'
<1>. DEFINE n == Len(stack)
            f == Innermost(stack)
            h == Innermost(stack')
<1>0. Typed /\ EndedTyped /\ Nested
  BY DEF Order
<1>1. /\ \E g : FromPage(g) /\ Keeps(stack', n, g)
      /\ timers' = timers /\ ended' = ended
      /\ \/ queue' = queue /\ removed' = removed
         \/ queue' = [queue EXCEPT ![e] = <<>>] /\ removed' = removed \cup {e}
  BY <1>0, PageShape
<1>2. PICK g : FromPage(g) /\ Keeps(stack', n, g)
  BY <1>1
<1>3. f.k \in {"none", "page"}
  BY <1>0, <1>2, StackShape, InnermostIs DEF FromPage, PageFrames, NoCall
<1>4. Passive(h, ended) \/ h.k = "page"
  <2>1. n # 0 => g.k = "page"
    BY <1>0, <1>2, StackShape DEF FromPage, PageFrames
  <2>. QED
    BY <1>0, <1>2, <2>1, InnermostKeeps
<1>. HIDE DEF f, h
<1>5. Still(f) /\ Still(h) /\ Finished(h, timers, ended)
  BY <1>3, <1>4, StillIs
<1>6. ASSUME NEW d \in Elem \ removed', AllWait(d)
      PROVE  HeadOk(d, h, queue'[d], timers, ended)
  <2>1. d \in Elem \ removed /\ queue'[d] = queue[d]
    BY <1>0, <1>1 DEF Typed
  <2>2. Lives(d, f, timers, ended) = Heads(queue[d])
    BY <1>3, <1>6, <2>1, Settled DEF f
  <2>3. Lives(d, h, timers, ended) = Lives(d, f, timers, ended)
    BY <1>5, LivesSame DEF Still
  <2>. QED
    BY <2>1, <2>2, <2>3 DEF HeadOk
<1>7. \A d : AllWait(d)' <=> AllWait(d)
  BY DEF AllWait
<1>. QED
  BY <1>1, <1>5, <1>6, <1>7 DEF Heading, h

LEMMA StopKeepsHeads ==
    ASSUME Order, Heading, NEW e \in Elem, NEW clear \in BOOLEAN, NEW end \in BOOLEAN,
           Stop(e, clear, end)
    PROVE  Heading'
<1>. DEFINE n == Len(stack)
            f == Innermost(stack)
            h == Innermost(stack')
<1>0. Typed /\ EndedTyped /\ Nested
  BY DEF Order
<1>1. /\ \E g : FromPage(g) /\ Pushes(stack', n, g, StopFrame(e, end))
      /\ UNCHANGED <<timers, ended, removed>>
      /\ queue' = IF clear THEN [queue EXCEPT ![e] = <<>>] ELSE queue
  BY <1>0, StopShape
<1>2. PICK g : FromPage(g) /\ Pushes(stack', n, g, StopFrame(e, end))
  BY <1>1
<1>3. f.k \in {"none", "page"}
  BY <1>0, <1>2, StackShape, InnermostIs DEF FromPage, PageFrames, NoCall
<1>4. h.k = "stop" /\ h.e = e /\ h.end = end /\ h.i = Len(timers)
  BY <1>0, <1>2, InnermostPushes DEF StopFrame
<1>. HIDE DEF f, h
<1>5. Still(f) /\ Still(h) /\ Finished(h, timers, ended)
  BY <1>3, <1>4, StillIs
<1>6. ASSUME NEW d \in Elem \ removed, AllWait(d)
      PROVE  HeadOk(d, h, queue'[d], timers, ended)
  <2>1. Lives(d, f, timers, ended) = Heads(queue[d])
    BY <1>3, <1>6, Settled DEF f
  <2>2. Lives(d, h, timers, ended) = Lives(d, f, timers, ended)
    BY <1>5, LivesSame DEF Still
  <2>3. CASE queue'[d] = queue[d]
    BY <2>1, <2>2, <2>3 DEF HeadOk
  <2>4. CASE queue'[d] # queue[d]
    <3>1. d = e /\ queue'[e] = <<>>
      BY <1>0, <1>1, <2>4 DEF Typed
    <3>2. CASE ~end
      BY <1>4, <3>1, <3>2 DEF HeadOk, Halts
    <3>3. CASE end
      <4>1. Forces(e, h, timers, ended)
        <5>1. Len(timers) \in Nat
          BY <1>0, LenProperties DEF Typed
        <5>. QED
          BY <1>4, <3>3, <5>1 DEF Forces
      <4>2. queue[e] # <<>>
        BY <2>4, <3>1
      <4>3. Lives(e, h, timers, ended) = {Head(queue[e])}
        BY <2>1, <2>2, <3>1, <4>2 DEF Heads
      <4>4. Head(queue[e]) \in Anim
        BY <4>3 DEF Lives
      <4>. QED
        BY <3>1, <4>1, <4>3, <4>4 DEF HeadOk
    <3>. QED
      BY <3>2, <3>3
  <2>. QED
    BY <2>3, <2>4
<1>7. \A d : AllWait(d)' <=> AllWait(d)
  BY DEF AllWait
<1>. QED
  BY <1>1, <1>5, <1>6, <1>7 DEF Heading, h

-----------------------------------------------------------------------------
\* The last step of a timer leaves its animation running: another property has not
\* ended, or opt.complete is called.
LEMMA LastLives ==
    ASSUME Typed, NEW a \in Anim, NEW p \in Props(a), NEW d,
           d[a] = ended[a] \cup {p}, d[a] \subseteq Props(a),
           \A b \in Anim : b # a => d[b] = ended[b],
           NEW f, NEW h,
           \A b \in Anim : Drives(f, b) => b = a,
           Drives(f, a) \/ Going(timers, ended, a),
           d[a] = Props(a) => h = Complete(a),
           d[a] # Props(a) => /\ h.k # "complete" /\ ~Halts(h) /\ AllWhole(h, timers, d)
                              /\ h.k = "loop" => h.a = a
                              /\ Timed(timers, a) \/ h.k = "loop"
    PROVE  /\ \A b \in Anim : Drives(f, b) \/ Going(timers, ended, b)
                              <=> Drives(h, b) \/ Going(timers, d, b)
           /\ Finished(h, timers, d)
<1>1. /\ Complete(a).k = "complete" /\ Complete(a).a = a /\ ~Complete(a).moved
  BY DEF Complete
<1>2. ASSUME NEW j \in 1..Len(timers), timers[j].a = a PROVE timers[j].p \in Props(a)
  <2>1. timers[j] \in AllTimers
    BY ElementOfSeq DEF Typed
  <2>2. PICK b \in Anim : \E q \in Props(b) : timers[j] = Timer(b, q)
    BY <2>1 DEF AllTimers
  <2>. QED
    BY <1>2, <2>2 DEF Timer
<1>3. \A b \in Anim : Drives(h, b) => b = a
  BY <1>1 DEF Drives
<1>4. \A b \in Anim : b # a => (Going(timers, ended, b) <=> Going(timers, d, b))
  BY DEF Going
<1>5. Drives(h, a) \/ Going(timers, d, a)
  <2>1. CASE d[a] = Props(a)
    BY <1>1, <2>1 DEF Drives
  <2>2. CASE d[a] # Props(a)
    <3>1. PICK q \in Props(a) : q \notin d[a]
      BY <2>2
    <3>2. Timed(timers, a) \/ (h.k = "loop" /\ h.a = a)
      BY <2>2
    <3>3. Whole(a, h, timers, d)
      BY <2>2, <3>2 DEF AllWhole
    <3>4. CASE \E j \in 1..Len(timers) : timers[j] = Timer(a, q)
      BY <3>1, <3>4 DEF Going, Timer
    <3>5. CASE h.k = "loop" /\ h.a = a /\ \E i \in 1..Len(h.todo) : h.todo[i] = q
      <4>. DEFINE e == <<>>
      <4>1. Len(e) = 0 /\ 1..Len(e) = {}
        BY EmptySeq
      <4>2. h.todo # e
        <5>. HIDE DEF e
        <5>. QED
          BY <3>5, <4>1
      <4>. QED
        BY <3>5, <4>2 DEF Drives
    <3>. QED
      BY <3>1, <3>3, <3>4, <3>5 DEF Whole
  <2>. QED
    BY <2>1, <2>2
<1>6. Finished(h, timers, d)
  BY <1>1, <1>2 DEF Finished, Going
<1>. QED
  BY <1>3, <1>4, <1>5, <1>6

LEMMA CustomKeepsHeads ==
    ASSUME Order, Heading, LoopsAlone', TimersWhole', Custom
    PROVE  Heading'
<1>. DEFINE n == Len(stack)
            p == Head(Top.todo)
            a == Top.a
            f == Innermost(stack)
            h == Innermost(stack')
<1>0. Typed /\ EndedTyped /\ Nested /\ TopAhead
  BY DEF Order
<1>1. /\ Inner("loop") /\ a \in Anim /\ Top.todo # <<>>
      /\ Top.todo \in Seq(Props(a)) /\ p \in Props(a)
      /\ UNCHANGED <<queue, removed>>
  BY <1>0, CustomShape
<1>3. n \in Nat /\ n # 0 /\ Top = stack[n] /\ Top.k = "loop" /\ stack # <<>> /\ f = Top
  BY <1>0, <1>1, StackShape, InnermostIs DEF Inner
<1>4. PICK g \in LoopFrames :
         /\ g.a = a /\ g.todo = Tail(Top.todo)
         /\ What[a].instant =>
             /\ timers' = timers
             /\ \E s : Keeps(s, n, g) /\ LastStep(Timer(a, p), s)
         /\ ~What[a].instant =>
             /\ Keeps(stack', n, g)
             /\ timers' = Append(timers, Timer(a, p))
             /\ ended' = ended
  BY <1>0, <1>1, CustomShape
<1>5. g.k = "loop"
  BY DEF LoopFrames
<1>6. \A b \in Anim : Drives(f, b) <=> b = a
  BY <1>1, <1>3 DEF Drives
<1>7. p \notin ended[a]
  <2>1. Ahead(Top, timers, ended)
    BY <1>0, <1>3 DEF TopAhead
  <2>2. p = Top.todo[1] /\ 1 \in 1..Len(Top.todo)
    BY <1>1, EmptySeq, LenProperties, HeadTailProperties
  <2>. QED
    BY <1>3, <2>1, <2>2 DEF Ahead
<1>8. CASE What[a].instant
  <2>1. PICK s : Keeps(s, n, g) /\ LastStep(Timer(a, p), s)
    BY <1>4, <1>8
  <2>2. /\ ended'[a] = ended[a] \cup {p} /\ Grows(ended')
        /\ \A b \in Anim : b # a => ended'[b] = ended[b]
        /\ ended'[a] = Props(a) => Pushes(stack', n, g, Complete(a))
        /\ ended'[a] # Props(a) => Keeps(stack', n, g)
        /\ timers' = timers
    BY <1>0, <1>1, <1>4, <1>8, <2>1, LastStepShape
  <2>3. ended'[a] \subseteq Props(a)
    BY <1>1, <2>2 DEF Grows
  <2>4. ended'[a] = Props(a) => h = Complete(a)
    BY <1>0, <2>2, InnermostPushes
  <2>5. ended'[a] # Props(a) => h = g
    BY <1>0, <1>3, <2>2, InnermostKeeps
  <2>6. AllWhole(h, timers, ended')
    BY <2>2 DEF TimersWhole
  <2>7. ~Halts(g) /\ g.k # "complete"
    BY <1>5 DEF Halts
  <2>. HIDE DEF a, p, f, h, n
  <2>8. /\ \A b \in Anim : Drives(f, b) \/ Going(timers, ended, b)
                           <=> Drives(h, b) \/ Going(timers, ended', b)
        /\ Finished(h, timers, ended')
    <3>1. ended'[a] # Props(a) =>
            /\ h.k # "complete" /\ ~Halts(h) /\ AllWhole(h, timers, ended')
            /\ h.k = "loop" /\ h.a = a
      BY <1>4, <1>5, <2>5, <2>6, <2>7
    <3>2. (\A b \in Anim : Drives(f, b) => b = a) /\ Drives(f, a) /\ a \in Anim /\ p \in Props(a)
      BY <1>1, <1>6
    <3>. QED
      BY <1>0, <2>2, <2>3, <2>4, <3>1, <3>2, LastLives
  <2>. QED
    BY <1>1, <1>3, <2>2, <2>8, RunsOn DEF f, h
<1>9. CASE ~What[a].instant
  <2>1. /\ Keeps(stack', n, g) /\ timers' = Append(timers, Timer(a, p))
        /\ ended' = ended
    BY <1>4, <1>9
  <2>. DEFINE t == Timer(a, p)
              l == Len(timers)
  <2>2. t \in AllTimers /\ t.a = a /\ t.p = p
    BY <1>1, TimerOfProp DEF Timer
  <2>3. /\ l \in Nat /\ Len(timers') = l + 1 /\ timers'[l + 1] = t
        /\ \A j \in 1..l : timers'[j] = timers[j]
    <3>. HIDE DEF t
    <3>. QED
      BY <1>0, <2>1, <2>2, AppendProperties, LenProperties DEF Typed, t
  <2>4. h = g
    BY <1>0, <1>3, <2>1, InnermostKeeps
  <2>. HIDE DEF a, p, f, h, n, t
  <2>5. \A b \in Anim : Drives(h, b) => b = a
    BY <1>4, <1>5, <2>4 DEF Drives
  <2>6. l + 1 \in 1..(l + 1) /\ \A j \in 1..(l + 1) : j = l + 1 \/ j \in 1..l
    BY <2>3
  <2>7. Going(timers', ended, a)
    BY <1>7, <2>2, <2>3, <2>6 DEF Going
  <2>8. ASSUME NEW b \in Anim, b # a
        PROVE  Going(timers', ended, b) <=> Going(timers, ended, b)
    <3>1. \A j \in 1..l : j \in 1..(l + 1)
      BY <2>3
    <3>. QED
      BY <2>2, <2>3, <2>6, <2>8, <3>1 DEF Going
  <2>9. Finished(h, timers', ended)
    BY <1>5, <2>4, StillIs
  <2>10. \A b \in Anim : Drives(f, b) \/ Going(timers, ended, b)
                         <=> Drives(h, b) \/ Going(timers', ended', b)
    BY <1>6, <2>1, <2>5, <2>7, <2>8
  <2>. QED
    BY <1>1, <1>3, <2>1, <2>9, <2>10, RunsOn DEF f, h
<1>. QED
  BY <1>8, <1>9

LEMMA TickLastKeepsHeads ==
    ASSUME Order, LoopsAlone, Heading, TimersWhole', NEW t \in AllTimers, TickLast(t)
    PROVE  Heading'
<1>. DEFINE n == Len(stack)
            f == Innermost(stack)
            h == Innermost(stack')
<1>0. Typed /\ EndedTyped /\ Nested
  BY DEF Order
<1>1. /\ Inner("tick") /\ Top.cut = {} /\ Top.i \in 1..Len(timers) /\ timers[Top.i] = t
      /\ UNCHANGED <<queue, timers, removed>>
  BY <1>0, TickLastShape
<1>2. PICK g \in TickFrames : \E s : Keeps(s, n, g) /\ LastStep(t, s)
  BY <1>0, TickLastShape
<1>3. PICK s : Keeps(s, n, g) /\ LastStep(t, s)
  BY <1>2
<1>4. n # 0 /\ stack # <<>> /\ f = Top /\ Top.k = "tick" /\ g.k = "tick"
  BY <1>0, <1>1, StackShape, InnermostIs DEF Inner, TickFrames
<1>5. PICK a \in Anim : \E p \in Props(a) : t = Timer(a, p)
  BY DEF AllTimers
<1>. PICK p \in Props(a) : t = Timer(a, p)
  BY <1>5
<1>6. p \notin ended[a] /\ Going(timers, ended, a) /\ Timed(timers, a)
  <2>1. Top.k \in Loops /\ ~Idle(Top, timers)
    BY <1>4 DEF Loops, Idle
  <2>2. p \notin ended[a]
    BY <1>1, <1>4, <2>1, NotYetEnded DEF Timer
  <2>. QED
    BY <1>1, <2>2 DEF Going, Timed, Timer
<1>7. /\ ended'[a] = ended[a] \cup {p} /\ Grows(ended')
      /\ \A b \in Anim : b # a => ended'[b] = ended[b]
      /\ ended'[a] = Props(a) => Pushes(stack', n, g, Complete(a))
      /\ ended'[a] # Props(a) => Keeps(stack', n, g)
  BY <1>0, <1>3, LastStepShape
<1>8. ended'[a] = Props(a) => h = Complete(a)
  BY <1>0, <1>7, InnermostPushes
<1>9. ended'[a] # Props(a) => h = g
  BY <1>0, <1>4, <1>7, InnermostKeeps
<1>10. AllWhole(h, timers, ended') /\ ended'[a] \subseteq Props(a)
  BY <1>1, <1>7 DEF TimersWhole, Grows
<1>. HIDE DEF f, h, n
<1>11. Still(f)
  BY <1>4, StillIs
<1>12. /\ \A b \in Anim : Drives(f, b) \/ Going(timers, ended, b)
                          <=> Drives(h, b) \/ Going(timers, ended', b)
       /\ Finished(h, timers, ended')
  <2>1. ended'[a] # Props(a) =>
            /\ h.k # "complete" /\ ~Halts(h) /\ AllWhole(h, timers, ended')
            /\ h.k # "loop" /\ Timed(timers, a)
    BY <1>4, <1>6, <1>9, <1>10 DEF Halts
  <2>2. (\A b \in Anim : Drives(f, b) => b = a) /\ Going(timers, ended, a)
    BY <1>6, <1>11 DEF Still
  <2>. QED
    BY <1>0, <1>7, <1>8, <1>10, <2>1, <2>2, LastLives
<1>. QED
  BY <1>1, <1>4, <1>12, RunsOn DEF f, h

LEMMA StopNextKeepsHeads ==
    ASSUME Order, LoopsAlone, Heading, TimersWhole', StopNext
    PROVE  Heading'
<1>. DEFINE n == Len(stack)
            f == Innermost(stack)
            h == Innermost(stack')
<1>0. Typed /\ EndedTyped /\ Nested
  BY DEF Order
<1>1. /\ Inner("stop") /\ Top \in StopFrames /\ Top.cut = {} /\ Top.i \in Nat
      /\ UNCHANGED <<queue, timers, removed>>
  BY <1>0, StopNextShape
<1>2. PICK i \in 1..Len(timers) :
         /\ i <= Top.i /\ timers[i] \in AllTimers /\ el(timers[i].a) = Top.e
         /\ \A j \in 1..Top.i : el(timers[j].a) = Top.e => j <= i
         /\ \E g \in StopFrames :
             /\ g.e = Top.e /\ g.end = Top.end /\ g.i = i
             /\ Top.end => \E s : Keeps(s, n, g) /\ LastStep(timers[i], s)
             /\ ~Top.end => Keeps(stack', n, g) /\ ended' = ended
  BY <1>0, StopNextShape
<1>3. PICK g \in StopFrames :
             /\ g.e = Top.e /\ g.end = Top.end /\ g.i = i
             /\ Top.end => \E s : Keeps(s, n, g) /\ LastStep(timers[i], s)
             /\ ~Top.end => Keeps(stack', n, g) /\ ended' = ended
  BY <1>2
<1>4. n # 0 /\ stack # <<>> /\ f = Top /\ Top.k = "stop" /\ g.k = "stop"
  BY <1>0, <1>1, StackShape, InnermostIs DEF Inner, StopFrames
<1>5. \A e : AllWait(e)' <=> AllWait(e)
  BY DEF AllWait
<1>6. Still(f)
  BY <1>4, StillIs
<1>7. CASE Top.end
  <2>1. PICK s : Keeps(s, n, g) /\ LastStep(timers[i], s)
    BY <1>3, <1>7
  <2>2. PICK a \in Anim : \E p \in Props(a) : timers[i] = Timer(a, p)
    BY <1>2 DEF AllTimers
  <2>. PICK p \in Props(a) : timers[i] = Timer(a, p)
    BY <2>2
  <2>3. /\ p \notin ended[a] /\ Going(timers, ended, a) /\ Timed(timers, a)
        /\ el(a) = Top.e
    <3>1. Top.k \in Loops /\ ~Idle(Top, timers)
      BY <1>2, <1>4 DEF Loops, Idle
    <3>2. p \notin ended[a]
      BY <1>1, <1>4, <3>1, NotYetEnded DEF Timer
    <3>. QED
      BY <1>2, <3>2 DEF Going, Timed, Timer
  <2>4. /\ ended'[a] = ended[a] \cup {p} /\ Grows(ended')
        /\ \A b \in Anim : b # a => ended'[b] = ended[b]
        /\ ended'[a] = Props(a) => Pushes(stack', n, g, Complete(a))
        /\ ended'[a] # Props(a) => Keeps(stack', n, g)
    BY <1>0, <2>1, LastStepShape
  <2>5. ended'[a] = Props(a) => h = Complete(a)
    BY <1>0, <2>4, InnermostPushes
  <2>6. ended'[a] # Props(a) => h = g
    BY <1>0, <1>4, <2>4, InnermostKeeps
  <2>7. AllWhole(h, timers, ended') /\ ended'[a] \subseteq Props(a)
    BY <1>1, <2>4 DEF TimersWhole, Grows
  <2>. HIDE DEF f, h, n
  <2>8. /\ \A b \in Anim : Drives(f, b) \/ Going(timers, ended, b)
                           <=> Drives(h, b) \/ Going(timers, ended', b)
        /\ Finished(h, timers, ended')
    <3>1. ended'[a] # Props(a) =>
              /\ h.k # "complete" /\ ~Halts(h) /\ AllWhole(h, timers, ended')
              /\ h.k # "loop" /\ Timed(timers, a)
      BY <1>3, <1>4, <1>7, <2>3, <2>6, <2>7 DEF Halts
    <3>2. (\A b \in Anim : Drives(f, b) => b = a) /\ Going(timers, ended, a)
      BY <1>6, <2>3 DEF Still
    <3>. QED
      BY <1>0, <2>4, <2>5, <2>7, <3>1, <3>2, LastLives
  <2>9. ASSUME NEW e \in Elem \ removed, AllWait(e)
        PROVE  HeadOk(e, h, queue[e], timers, ended')
    <3>1. Lives(e, h, timers, ended') = Lives(e, f, timers, ended)
      BY <2>8, LivesSame
    <3>2. CASE e # Top.e
      <4>1. Lives(e, f, timers, ended) = Heads(queue[e])
        BY <1>4, <2>9, <3>2, Settled DEF f
      <4>. QED
        BY <3>1, <4>1 DEF HeadOk
    <3>3. CASE e = Top.e
      <4>1. HeadOk(e, f, queue[e], timers, ended)
        BY <2>9 DEF Heading, f
      <4>2. CASE Lives(e, f, timers, ended) = Heads(queue[e])
        BY <3>1, <4>2 DEF HeadOk
      <4>3. CASE /\ queue[e] = <<>> /\ Forces(e, f, timers, ended)
                 /\ \E b \in Anim : Lives(e, f, timers, ended) = {b}
        <5>1. a \in Lives(e, f, timers, ended)
          BY <2>3, <3>3 DEF Lives
        <5>2. Lives(e, h, timers, ended') = {a}
          BY <3>1, <4>3, <5>1
        <5>3. CASE ended'[a] = Props(a)
          <6>1. h.k = "complete" /\ ~h.moved /\ h.a = a
            BY <2>5, <5>3 DEF Complete
          <6>. QED
            BY <4>3, <5>2, <6>1 DEF HeadOk
        <5>4. CASE ended'[a] # Props(a)
          <6>1. h = g /\ h.k = "stop" /\ h.end /\ h.e = e /\ h.i = i
            BY <1>3, <1>4, <1>7, <2>6, <3>3, <5>4
          <6>2. ASSUME NEW j \in 1..Len(timers), el(timers[j].a) = e,
                       timers[j].p \notin ended'[timers[j].a]
                PROVE  j <= i
            <7>1. timers[j].a \in Anim
              BY <1>0, ElementOfSeq, AnimOfTimer DEF Typed
            <7>2. timers[j].p \notin ended[timers[j].a]
              BY <2>4, <6>2, <7>1
            <7>3. j <= Top.i
              BY <1>4, <4>3, <6>2, <7>2 DEF Forces
            <7>4. j \in 1..Top.i
              <8>1. Len(timers) \in Nat
                BY <1>0, LenProperties DEF Typed
              <8>. QED
                BY <1>1, <7>3, <8>1
            <7>. QED
              BY <1>2, <3>3, <6>2, <7>4
          <6>3. Forces(e, h, timers, ended')
            BY <6>1, <6>2 DEF Forces
          <6>. QED
            BY <4>3, <5>2, <6>3 DEF HeadOk
        <5>. QED
          BY <5>3, <5>4
      <4>. QED
        BY <1>4, <1>7, <4>1, <4>2, <4>3 DEF HeadOk, Halts
    <3>. QED
      BY <3>2, <3>3
  <2>. QED
    BY <1>1, <1>5, <2>8, <2>9 DEF Heading, h
<1>8. CASE ~Top.end
  <2>1. Keeps(stack', n, g) /\ ended' = ended
    BY <1>3, <1>8
  <2>2. h = g
    BY <1>0, <1>4, <2>1, InnermostKeeps
  <2>. HIDE DEF f, h, n
  <2>3. Still(h) /\ Finished(h, timers, ended)
    BY <1>4, <2>2, StillIs
  <2>4. ASSUME NEW e \in Elem \ removed, AllWait(e)
        PROVE  HeadOk(e, h, queue[e], timers, ended)
    <3>1. CASE e = Top.e
      BY <1>3, <1>4, <1>8, <2>2, <3>1 DEF HeadOk, Halts
    <3>2. CASE e # Top.e
      <4>1. Lives(e, f, timers, ended) = Heads(queue[e])
        BY <1>4, <2>4, <3>2, Settled DEF f
      <4>2. Lives(e, h, timers, ended) = Lives(e, f, timers, ended)
        BY <1>6, <2>3, LivesSame DEF Still
      <4>. QED
        BY <4>1, <4>2 DEF HeadOk
    <3>. QED
      BY <3>1, <3>2
  <2>. QED
    BY <1>1, <1>5, <2>1, <2>3, <2>4 DEF Heading, h
<1>. QED
  BY <1>7, <1>8

LEMMA SpliceKeepsHeads ==
    ASSUME Order, LoopsAlone, Heading, TickSplice \/ StopSplice
    PROVE  Heading'
<1>. DEFINE n == Len(stack)
            l == Len(timers)
            i == Top.i
            f == Innermost(stack)
            h == Innermost(stack')
<1>0. Typed /\ EndedTyped /\ Nested
  BY DEF Order
<1>1. PICK g \in Frame :
         /\ g.k = Top.k /\ g.cut = {}
         /\ g.k = "stop" => g.i = i - 1 /\ g.e = Top.e /\ g.end = Top.end
         /\ Keeps(stack', n, g)
  BY <1>0, SpliceShape
<1>2. /\ Inner("tick") \/ Inner("stop")
      /\ Top.cut # {} /\ i \in Nat \ {0}
      /\ i \in 1..l => timers' = RemoveAt(timers, i)
      /\ UNCHANGED <<queue, ended, removed>>
  BY <1>0, SpliceShape
<1>3. /\ n \in Nat /\ n # 0 /\ n \in 1..n /\ Top = stack[n] /\ f = Top
      /\ Top.k \in Loops /\ Cutting(Top)
  BY <1>0, <1>2, StackShape, InnermostIs DEF Inner, Loops, Cutting
<1>4. /\ i \in 1..l
      /\ timers[i].p \in ended[timers[i].a] \/ (Top.k = "stop" /\ ~Top.end)
      /\ Top.k = "stop" => el(timers[i].a) = Top.e
  BY <1>3 DEF LoopsAlone, Cuts, RightCut
<1>5. /\ Len(timers') = l - 1 /\ l \in Nat
      /\ \A j \in 1..(l - 1) : timers'[j] = IF j < i THEN timers[j] ELSE timers[j + 1]
  BY <1>0, <1>2, <1>4, TakenOut, LenProperties DEF Typed
<1>6. ASSUME NEW j \in 1..(l - 1)
      PROVE  \E k \in 1..l : timers'[j] = timers[k] /\ k # i /\ (k < i => j = k)
  <2>1. j \in 1..l /\ j + 1 \in 1..l
    BY <1>5
  <2>. QED
    BY <1>4, <1>5, <2>1
<1>7. ASSUME NEW k \in 1..l, k # i
      PROVE  \E j \in 1..(l - 1) : timers'[j] = timers[k]
  <2>1. CASE k < i
    <3>1. k \in 1..(l - 1)
      BY <1>4, <1>5, <2>1
    <3>. QED
      BY <1>5, <2>1, <3>1
  <2>2. CASE ~ (k < i)
    <3>1. k - 1 \in 1..(l - 1) /\ ~ (k - 1 < i) /\ (k - 1) + 1 = k
      BY <1>4, <1>5, <1>7, <2>2
    <3>. QED
      BY <1>5, <3>1
  <2>. QED
    BY <2>1, <2>2
<1>8. h = g
  BY <1>0, <1>1, <1>3, InnermostKeeps
<1>9. Top.k \in {"tick", "stop"} /\ h.k = Top.k
  BY <1>1, <1>3, <1>8 DEF Loops
<1>10. Still(f) /\ Still(h) /\ Finished(h, timers', ended)
  BY <1>3, <1>9, StillIs
<1>11. ASSUME NEW b \in Anim, ~ (Top.k = "stop" /\ ~Top.end /\ el(b) = Top.e)
       PROVE  Going(timers', ended, b) <=> Going(timers, ended, b)
  <2>1. ASSUME Going(timers', ended, b) PROVE Going(timers, ended, b)
    <3>1. PICK j \in 1..(l - 1) : timers'[j].a = b /\ timers'[j].p \notin ended[b]
      BY <1>5, <2>1 DEF Going
    <3>2. PICK k \in 1..l : timers'[j] = timers[k]
      BY <1>6
    <3>. QED
      BY <3>1, <3>2 DEF Going
  <2>2. ASSUME Going(timers, ended, b) PROVE Going(timers', ended, b)
    <3>1. PICK k \in 1..l : timers[k].a = b /\ timers[k].p \notin ended[b]
      BY <2>2 DEF Going
    <3>2. k # i
      BY <1>4, <1>11, <3>1
    <3>3. PICK j \in 1..(l - 1) : timers'[j] = timers[k]
      BY <1>7, <3>2
    <3>. QED
      BY <1>5, <3>1, <3>3 DEF Going
  <2>. QED
    BY <2>1, <2>2
<1>12. ASSUME NEW e \in Elem \ removed, AllWait(e)
       PROVE  HeadOk(e, h, queue[e], timers', ended)
  <2>1. CASE Halts(f) /\ f.e = e
    BY <1>1, <1>3, <1>8, <2>1 DEF HeadOk, Halts
  <2>2. CASE ~ (Halts(f) /\ f.e = e)
    <3>1. Lives(e, h, timers', ended) = Lives(e, f, timers, ended)
      <4>1. ASSUME NEW b \in Anim, el(b) = e
            PROVE  Going(timers', ended, b) <=> Going(timers, ended, b)
        BY <1>3, <1>11, <2>2, <4>1 DEF Halts
      <4>. HIDE DEF f, h
      <4>. QED
        BY <1>10, <4>1, LivesSame DEF Still
    <3>2. HeadOk(e, f, queue[e], timers, ended)
      BY <1>12 DEF Heading
    <3>3. Forces(e, f, timers, ended) => Forces(e, h, timers', ended)
      <4>. SUFFICES ASSUME Forces(e, f, timers, ended), NEW j \in 1..(l - 1),
                           el(timers'[j].a) = e, timers'[j].p \notin ended[timers'[j].a]
                    PROVE  j <= h.i
        BY <1>1, <1>3, <1>5, <1>8 DEF Forces
      <4>1. PICK k \in 1..l : timers'[j] = timers[k] /\ k # i /\ (k < i => j = k)
        BY <1>6
      <4>2. k <= i
        BY <1>3, <4>1 DEF Forces
      <4>3. k < i /\ j = k
        BY <1>2, <4>1, <4>2
      <4>. QED
        BY <1>1, <1>2, <1>3, <1>8, <4>3 DEF Forces
    <3>4. ~ (f.k = "complete")
      BY <1>3, <1>9
    <3>. HIDE DEF f, h
    <3>. QED
      BY <2>2, <3>1, <3>2, <3>3, <3>4 DEF HeadOk
  <2>. QED
    BY <2>1, <2>2
<1>13. \A e : AllWait(e)' <=> AllWait(e)
  BY DEF AllWait
<1>. HIDE DEF h, f
<1>. QED
  BY <1>2, <1>10, <1>12, <1>13 DEF Heading, h

\* dequeue starts the next animation of the queue, and no other.
LEMMA DequeueHeads ==
    ASSUME Order, NEW e \in Elem, NEW s, NEW m, NEW g, Keeps(s, m, g), Dequeue(e, s),
           begun' = begun, NEW h, h = Innermost(stack'),
           Keeps(stack', m, g) => Still(h) /\ Finished(h, timers, ended)
    PROVE  /\ Finished(h, timers, ended)
           /\ \A b \in Anim : Drives(h, b) => el(b) = e
           /\ \A d \in Elem : d # e => queue'[d] = queue[d]
           /\ (\A b \in Anim : el(b) = e => ~Going(timers, ended, b)) =>
                Lives(e, h, timers, ended) = Heads(queue'[e])
<1>0. Typed /\ QueueOrder /\ AllFresh
  BY DEF Order
<1>. DEFINE q == queue[e]
            b == queue[e][2]
<1>1. /\ Len(q) > 1 => /\ b \in ToCome /\ el(b) = e
                       /\ queue'[e] # <<>> /\ Head(queue'[e]) = b
                       /\ stack' = Append(s, Enter(b))
      /\ ~ (Len(q) > 1) => queue'[e] = <<>> /\ stack' = s
      /\ \A d \in Elem : d # e => queue'[d] = queue[d]
  BY <1>0, QueueDequeued
<1>. HIDE DEF q, b
<1>2. CASE Len(q) > 1
  <2>1. b \in Anim /\ Fresh(b)
    BY <1>0, <1>1, <1>2 DEF ToCome, AllFresh
  <2>2. Pushes(stack', m, g, Enter(b))
    BY <1>1, <1>2, <2>1, EnterPushes
  <2>3. h = Enter(b)
    BY <1>0, <2>2, InnermostPushes
  <2>4. \A c \in Anim : Drives(h, c) <=> c = b
    BY <2>1, <2>3, EnterDrives
  <2>5. Finished(h, timers, ended)
    BY <2>1, <2>3, Entering DEF Finished, Going, Fresh, Timed
  <2>6. Heads(queue'[e]) = {b}
    BY <1>1, <1>2 DEF Heads
  <2>. QED
    BY <1>1, <1>2, <2>1, <2>4, <2>5, <2>6 DEF Lives
<1>3. CASE ~ (Len(q) > 1)
  <2>1. Still(h) /\ Finished(h, timers, ended)
    BY <1>1, <1>3
  <2>2. Heads(queue'[e]) = {}
    BY <1>1, <1>3 DEF Heads
  <2>. QED
    BY <1>1, <2>1, <2>2 DEF Lives, Still
<1>. QED
  BY <1>2, <1>3

LEMMA MoveKeepsHeads ==
    ASSUME Order, Heading, Move
    PROVE  Heading'
<1>. DEFINE n == Len(stack)
            a == Top.a
            f == Innermost(stack)
            h == Innermost(stack')
<1>0. Typed /\ EndedTyped /\ Nested
  BY DEF Order
<1>1. /\ Inner("complete") /\ ~Top.moved /\ a \in Anim /\ el(a) \in Elem
      /\ UNCHANGED <<timers, ended, begun, removed>>
  BY <1>0, MoveShape
<1>2. PICK g \in CompleteFrames :
         /\ g.moved
         /\ ~What[a].queued => queue' = queue /\ Keeps(stack', n, g)
         /\ What[a].queued => \E s : Keeps(s, n, g) /\ Dequeue(el(a), s)
  BY <1>0, MoveShape
<1>3. n # 0 /\ f = Top /\ f.k = "complete" /\ ~f.moved /\ f.a = a
  BY <1>0, <1>1, StackShape, InnermostIs DEF Inner
<1>4. g.k = "complete"
  BY DEF CompleteFrames
<1>5. Keeps(stack', n, g) => h = g
  BY <1>0, <1>3, InnermostKeeps
<1>6. \A e : AllWait(e)' <=> AllWait(e)
  BY DEF AllWait
<1>. HIDE DEF h, f, n
<1>7. Keeps(stack', n, g) => Still(h) /\ Finished(h, timers, ended)
  BY <1>2, <1>4, <1>5, StillIs
<1>8. \A b \in Anim : Drives(f, b) <=> b = a
  BY <1>3 DEF Drives
\* What belongs to another element is not concerned.
<1>9. ASSUME NEW d \in Elem \ removed, AllWait(d), d # el(a), queue'[d] = queue[d],
             \A b \in Anim : Drives(h, b) => el(b) = el(a)
      PROVE  HeadOk(d, h, queue'[d], timers, ended)
  <2>1. Lives(d, f, timers, ended) = Heads(queue[d])
    BY <1>3, <1>9, Settled DEF f
  <2>2. Lives(d, h, timers, ended) = Lives(d, f, timers, ended)
    BY <1>8, <1>9, LivesSame
  <2>. QED
    BY <1>9, <2>1, <2>2 DEF HeadOk
<1>10. CASE ~What[a].queued
  <2>1. Still(h) /\ Finished(h, timers, ended) /\ queue' = queue
    BY <1>2, <1>7, <1>10
  <2>2. ASSUME NEW d \in Elem \ removed, AllWait(d)
        PROVE  HeadOk(d, h, queue'[d], timers, ended)
    <3>1. d # el(a)
      BY <1>1, <1>10, <2>2 DEF AllWait
    <3>. QED
      BY <1>9, <2>1, <2>2, <3>1 DEF Still
  <2>. QED
    BY <1>1, <1>6, <2>1, <2>2 DEF Heading, h
<1>11. CASE What[a].queued
  <2>1. PICK s : Keeps(s, n, g) /\ Dequeue(el(a), s)
    BY <1>2, <1>11
  <2>2. /\ Finished(h, timers, ended)
        /\ \A b \in Anim : Drives(h, b) => el(b) = el(a)
        /\ \A d \in Elem : d # el(a) => queue'[d] = queue[d]
        /\ (\A b \in Anim : el(b) = el(a) => ~Going(timers, ended, b)) =>
             Lives(el(a), h, timers, ended) = Heads(queue'[el(a)])
    <3>. DEFINE e == el(a)
    <3>1. Keeps(s, n, g) /\ Dequeue(e, s) /\ e \in Elem /\ begun' = begun /\ h = Innermost(stack')
      BY <1>1, <2>1 DEF h
    <3>. HIDE DEF e
    <3>2. /\ Finished(h, timers, ended)
          /\ \A b \in Anim : Drives(h, b) => el(b) = e
          /\ \A d \in Elem : d # e => queue'[d] = queue[d]
          /\ (\A b \in Anim : el(b) = e => ~Going(timers, ended, b)) =>
               Lives(e, h, timers, ended) = Heads(queue'[e])
      BY <1>7, <3>1, DequeueHeads
    <3>. QED
      BY <3>2 DEF e
  <2>3. ASSUME NEW d \in Elem \ removed, AllWait(d)
        PROVE  HeadOk(d, h, queue'[d], timers, ended)
    <3>1. CASE d # el(a)
      BY <1>9, <2>2, <2>3, <3>1
    <3>2. CASE d = el(a)
      <4>1. HeadOk(d, f, queue[d], timers, ended)
        BY <2>3 DEF Heading, f
      <4>2. a \in Lives(d, f, timers, ended)
        BY <1>1, <1>8, <3>2 DEF Lives
      <4>3. \E b : Lives(d, f, timers, ended) = {b}
        <5>1. Lives(d, f, timers, ended) = Heads(queue[d])
              \/ \E b \in Anim : Lives(d, f, timers, ended) = {b}
          BY <1>3, <4>1 DEF HeadOk, Halts
        <5>. QED
          BY <4>2, <5>1 DEF Heads
      <4>4. Lives(d, f, timers, ended) = {a}
        BY <4>2, <4>3
      <4>5. ~Going(timers, ended, a)
        BY <1>3 DEF Heading, Finished, f
      <4>6. \A b \in Anim : el(b) = d => ~Going(timers, ended, b)
        <5>1. \A b \in Anim : el(b) = d /\ Going(timers, ended, b) => b \in Lives(d, f, timers, ended)
          BY DEF Lives
        <5>. QED
          BY <4>4, <4>5, <5>1
      <4>. QED
        BY <2>2, <3>2, <4>6 DEF HeadOk
    <3>. QED
      BY <3>1, <3>2
  <2>. QED
    BY <1>1, <1>6, <2>2, <2>3 DEF Heading, h
<1>. QED
  BY <1>10, <1>11

LEMMA StopEndsKeepsHeads ==
    ASSUME Order, TimersWhole, Heading, StopEnds
    PROVE  Heading'
<1>. DEFINE n == Len(stack)
            f == Innermost(stack)
            h == Innermost(stack')
<1>0. Typed /\ EndedTyped /\ Nested
  BY DEF Order
<1>1. /\ Inner("stop") /\ Top \in StopFrames /\ Top.e \in Elem
      /\ \A j \in 1..Top.i : el(timers[j].a) # Top.e
      /\ UNCHANGED <<timers, ended, begun, removed>>
      /\ Top.end => queue' = queue /\ Keeps(stack', n - 1, Top)
      /\ ~Top.end => \E s : Keeps(s, n - 1, Top) /\ Dequeue(Top.e, s)
  BY <1>0, StopEndsShape
<1>2. /\ n \in Nat /\ n # 0 /\ n - 1 # n /\ stack # <<>> /\ f = Top /\ Top.k = "stop"
      /\ Top.i \in Nat /\ Len(timers) \in Nat
  BY <1>0, <1>1, StackShape, InnermostIs, LenProperties DEF Inner, StopFrames, Typed
<1>. DEFINE m == n - 1
<1>3. Keeps(stack', m, Top) => Passive(h, ended)
  BY <1>0, <1>2, InnermostKeeps
<1>4. \A e : AllWait(e)' <=> AllWait(e)
  BY DEF AllWait
<1>5. \A j \in 1..Len(timers) : el(timers[j].a) = Top.e => ~ (j <= Top.i)
  BY <1>1, <1>2
<1>6. ~Top.end => \A j \in 1..Len(timers) : el(timers[j].a) # Top.e
  <2>1. HaltsAll(Top, timers, over)
    BY <1>2 DEF TimersWhole
  <2>. QED
    BY <1>2, <1>5, <2>1 DEF HaltsAll, Halts
<1>7. (Top.end => queue' = queue /\ Keeps(stack', m, Top))
      /\ (~Top.end => \E s : Keeps(s, m, Top) /\ Dequeue(Top.e, s))
  BY <1>1
<1>. HIDE DEF h, f, m
<1>8. Keeps(stack', m, Top) => Still(h) /\ Finished(h, timers, ended)
  BY <1>3, StillIs
<1>9. Still(f)
  BY <1>2, StillIs
<1>10. ASSUME NEW d \in Elem \ removed, AllWait(d), d # Top.e, queue'[d] = queue[d],
              \A b \in Anim : el(b) = d => ~Drives(h, b)
       PROVE  HeadOk(d, h, queue'[d], timers, ended)
  <2>1. Lives(d, f, timers, ended) = Heads(queue[d])
    BY <1>2, <1>10, Settled DEF f
  <2>2. Lives(d, h, timers, ended) = Lives(d, f, timers, ended)
    BY <1>9, <1>10, LivesSame DEF Still
  <2>. QED
    BY <1>10, <2>1, <2>2 DEF HeadOk
<1>11. CASE Top.end
  <2>1. Still(h) /\ Finished(h, timers, ended) /\ queue' = queue
    BY <1>7, <1>8, <1>11
  <2>2. ASSUME NEW d \in Elem \ removed, AllWait(d)
        PROVE  HeadOk(d, h, queue'[d], timers, ended)
    <3>1. CASE d # Top.e
      BY <1>10, <2>1, <2>2, <3>1 DEF Still
    <3>2. CASE d = Top.e
      <4>1. HeadOk(d, f, queue[d], timers, ended)
        BY <2>2 DEF Heading, f
      <4>2. Lives(d, h, timers, ended) = Lives(d, f, timers, ended)
        BY <1>9, <2>1, LivesSame DEF Still
      <4>3. CASE Forces(d, f, timers, ended)
        <5>1. \A b \in Anim : el(b) = d => ~Going(timers, ended, b)
          BY <1>2, <1>5, <3>2, <4>3 DEF Forces, Going
        <5>2. Lives(d, f, timers, ended) = {}
          BY <1>9, <5>1 DEF Lives, Still
        <5>. QED
          BY <1>2, <1>11, <2>1, <4>1, <4>2, <5>2 DEF HeadOk, Halts
      <4>. QED
        BY <1>2, <1>11, <2>1, <4>1, <4>2, <4>3 DEF HeadOk, Halts
    <3>. QED
      BY <3>1, <3>2
  <2>. QED
    BY <1>1, <1>4, <2>1, <2>2 DEF Heading, h
<1>12. CASE ~Top.end
  <2>1. PICK s : Keeps(s, m, Top) /\ Dequeue(Top.e, s)
    BY <1>7, <1>12
  <2>. DEFINE e == Top.e
  <2>2. \A b \in Anim : el(b) = e => ~Going(timers, ended, b)
    BY <1>6, <1>12 DEF Going
  <2>3. Keeps(s, m, Top) /\ Dequeue(e, s) /\ e \in Elem /\ begun' = begun /\ h = Innermost(stack')
    BY <1>1, <2>1 DEF h
  <2>. HIDE DEF e
  <2>4. /\ Finished(h, timers, ended)
        /\ \A b \in Anim : Drives(h, b) => el(b) = e
        /\ \A d \in Elem : d # e => queue'[d] = queue[d]
        /\ (\A b \in Anim : el(b) = e => ~Going(timers, ended, b)) =>
             Lives(e, h, timers, ended) = Heads(queue'[e])
    BY <1>8, <2>3, DequeueHeads
  <2>5. ASSUME NEW d \in Elem \ removed, AllWait(d)
        PROVE  HeadOk(d, h, queue'[d], timers, ended)
    <3>1. CASE d # e
      BY <1>10, <2>4, <2>5, <3>1 DEF e
    <3>2. CASE d = e
      BY <2>2, <2>4, <3>2 DEF HeadOk
    <3>. QED
      BY <3>1, <3>2
  <2>. QED
    BY <1>1, <1>4, <2>4, <2>5 DEF Heading, h
<1>. QED
  BY <1>11, <1>12

LEMMA NextKeepsHeads ==
    Order /\ Order' /\ Undisturbed /\ Undisturbed' /\ HeadInv /\ [Next]_vars => HeadInv'
<1>. SUFFICES ASSUME Order, Order', Undisturbed, Undisturbed', HeadInv, [Next]_vars, ~disturbed'
              PROVE  Heading'
  BY DEF HeadInv
<1>1. CASE UNCHANGED vars
  <2>1. UNCHANGED <<queue, timers, ended, stack, removed, disturbed>>
    BY <1>1 DEF vars, ghosts
  <2>. QED
    BY <2>1 DEF HeadInv, Heading, Innermost, AllWait
<1>2. ASSUME Next PROVE ~disturbed
  <2>1. CASE \E e \in Elem : \E clear, end \in BOOLEAN : Stop(e, clear, end)
    BY <2>1 DEF Stop, Disturbs
  <2>2. CASE \/ \E a \in Anim : Animate(a)
             \/ \E e \in Elem : Display(e) \/ RemoveElement(e)
    BY <2>2 DEF Animate, Display, RemoveElement, ghosts
  <2>3. CASE Calculates \/ Return \/ Throw
    BY <2>3 DEF Calculates, Return, Throw, Unwound, StopBreaks, Custom, Shown, LoopEnds, Move,
       CallPage, TickSplice, StopSplice, Splice, TickEnds, StopNext, StopEnds, ghosts
  <2>4. CASE Tick \/ TickGoesOn \/ \E t \in AllTimers : TickLast(t)
    BY <2>4 DEF Tick, TickGoesOn, TickLast, ghosts
  <2>. QED
    BY <1>2, <2>1, <2>2, <2>3, <2>4 DEF Next
<1>3. CASE Next
  <2>1. Heading /\ LoopsAlone /\ TimersWhole /\ LoopsAlone' /\ TimersWhole'
    BY <1>2, <1>3 DEF HeadInv, Undisturbed
  <2>2. CASE \/ \E a \in Anim : Animate(a)
             \/ \E e \in Elem :
                 \/ Display(e) \/ RemoveElement(e)
                 \/ \E clear, end \in BOOLEAN : Stop(e, clear, end)
    BY <2>1, <2>2, AnimateKeepsHeads, PageKeepsHeads, StopKeepsHeads
  <2>3. CASE Shown \/ LoopEnds \/ TickEnds \/ Return \/ CallPage \/ Tick \/ TickGoesOn
             \/ StopBreaks \/ Throw
    BY <2>1, <2>3, QuietKeepsHeads
  <2>4. CASE Custom
    BY <2>1, <2>4, CustomKeepsHeads
  <2>5. CASE Move
    BY <2>1, <2>5, MoveKeepsHeads
  <2>6. CASE StopEnds
    BY <2>1, <2>6, StopEndsKeepsHeads
  <2>7. CASE TickSplice \/ StopSplice
    BY <2>1, <2>7, SpliceKeepsHeads
  <2>8. CASE StopNext
    BY <2>1, <2>8, StopNextKeepsHeads
  <2>9. CASE \E t \in AllTimers : TickLast(t)
    BY <2>1, <2>9, TickLastKeepsHeads
  <2>. QED
    BY <1>3, <2>2, <2>3, <2>4, <2>5, <2>6, <2>7, <2>8, <2>9 DEF Next, Calculates
<1>. QED
  BY <1>1, <1>3

LEMMA InitHeads == Init => HeadInv
<1>. SUFFICES ASSUME Init PROVE Heading
  BY DEF HeadInv
<1>. DEFINE n == <<>>
            f == NoCall
<1>1. Len(n) = 0 /\ 1..Len(n) = {}
  BY EmptySeq
<1>2. timers = n /\ stack = n /\ queue = [e \in Elem |-> n] /\ Heads(n) = {}
  BY DEF Init, Heads
<1>. HIDE DEF n
<1>3. Innermost(stack) = f /\ f.k = "none"
  BY <1>1, <1>2 DEF Innermost, NoCall
<1>. HIDE DEF f
<1>4. Still(f) /\ Finished(f, timers, ended)
  BY <1>3, StillIs
<1>5. \A e : Lives(e, f, timers, ended) = {}
  BY <1>1, <1>2, <1>4 DEF Lives, Still, Going
<1>6. ASSUME NEW e \in Elem PROVE HeadOk(e, f, queue[e], timers, ended)
  BY <1>2, <1>5 DEF HeadOk
<1>. QED
  BY <1>3, <1>4, <1>6 DEF Heading

LEMMA HeadsFollow == Order /\ Undisturbed /\ HeadInv => HeadRuns
<1>. SUFFICES ASSUME Order, Undisturbed, HeadInv, stack = <<>>, ~disturbed,
                     NEW e \in Elem \ removed, AllWait(e)
              PROVE  {a \in Anim : el(a) = e /\ Running(a)}
                        = IF queue[e] = <<>> THEN {} ELSE {Head(queue[e])}
  BY DEF HeadRuns
<1>1. LoopsAlone /\ Heading /\ Typed
  BY DEF Undisturbed, HeadInv, Order
<1>2. Len(stack) = 0 /\ Innermost(stack) = NoCall /\ NoCall.k = "none"
  BY <1>1, StackShape, InnermostIs DEF NoCall
<1>3. Lives(e, NoCall, timers, ended) = Heads(queue[e])
  <2>. DEFINE f == NoCall
  <2>1. f = Innermost(stack) /\ f.k = "none"
    BY <1>2
  <2>. HIDE DEF f
  <2>2. Lives(e, f, timers, ended) = Heads(queue[e])
    BY <1>1, <2>1, Settled
  <2>. QED
    BY <2>2 DEF f
<1>4. DOMAIN timers = 1..Len(timers)
  BY <1>1, LenProperties DEF Typed
<1>5. \A j \in 1..Len(timers) : timers[j].p \notin ended[timers[j].a]
  <2>1. 1..Len(stack) = {}
    BY <1>2
  <2>. QED
    BY <1>1, <2>1 DEF LoopsAlone, EndedCut
<1>6. \A a \in Anim : Running(a) <=> Going(timers, ended, a)
  BY <1>4, <1>5 DEF Running, Going, ToSet
<1>7. \A a \in Anim : ~Drives(NoCall, a)
  BY <1>2 DEF Drives
<1>. QED
  BY <1>3, <1>6, <1>7 DEF Lives, Heads

\* While the script is idle, the first animation in the queue of an element runs and no
\* other one does, for an element all of whose animations go through its queue.
THEOREM QueueHeadRuns == Spec => []HeadRuns
<1>1. Order /\ Undisturbed /\ HeadInv /\ [Next]_vars => (Order /\ Undisturbed /\ HeadInv)'
  BY NextKeepsOrder, NextKeepsUndisturbed, NextKeepsHeads
<1>. QED
  BY <1>1, InitOrder, InitUndisturbed, InitHeads, HeadsFollow, PTL DEF Spec
=============================================================================
