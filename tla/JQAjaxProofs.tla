---------------------------- MODULE JQAjaxProofs ----------------------------
(***************************************************************************)
(* Proofs about JQAjax for every set of requests, every settings, hooks    *)
(* and faults: a request has one outcome.                                  *)
(*                                                                         *)
(* What can still call success or complete of a request is a step of a     *)
(* call in progress, or something that leads to one: an evaluation, the    *)
(* load of a script, or a response that nobody has reacted to.  The        *)
(* invariant OneSource says that a request has one of these at a time, and *)
(* none after it has completed.                                            *)
(***************************************************************************)
EXTENDS JQAjax, SequenceTheorems, FiniteSetTheorems, TLAPS

Names == {"start", "inject", "open", "beforeSend", "ajaxSend", "arm", "send", "error",
          "ajaxError", "check", "evaluate", "remember", "success", "ajaxSuccess",
          "complete", "ajaxComplete", "uncount", "close"}
RunFrames == [k : {"run"}, r : Req, todo : SUBSET Names, local : BOOLEAN]
PageFrames == [k : {"page"}, r : Req, step : Hooks]
Frame == RunFrames \cup PageFrames

\* A function of the page is called by a call of the library.
Stacked(s) ==
    /\ s \in Seq(Frame)
    /\ \A i \in DOMAIN s : s[i].k = "page" => i > 1 /\ s[i - 1].k = "run"

Typed ==
    /\ set \in [Req -> [via : Ways, global : BOOLEAN, timeout : BOOLEAN, ifModified : BOOLEAN]]
    /\ waits \in [Req -> {None, "poll", "script"}]
    /\ calls \in [Req -> [success : Nat, error : Nat, complete : Nat]]
    /\ timedOut \subseteq Req
    /\ Stacked(stack)

\* The call at place i of a stack has step x of request r still to do.
Owns(s, i, r, x) ==
    i \in DOMAIN s /\ s[i].k = "run" /\ s[i].r = r /\ x \in s[i].todo

Pending(r, x) == \E i \in DOMAIN stack : Owns(stack, i, r, x)

Once(r, x) == \A i, j \in DOMAIN stack : Owns(stack, i, r, x) /\ Owns(stack, j, r, x) => i = j

\* The steps that matter here.
Critical == {"inject", "arm", "check", "evaluate", "success", "complete"}

\* Before ajax is called there is nothing of the request.
Unknown(r) ==
    /\ waits[r] = None
    /\ r \notin done /\ r \notin timer
    /\ \A x \in Critical : ~Pending(r, x)

\* Nothing has been called of the request, and no step is there that would.
Uncalled(r) ==
    /\ calls[r].success = 0 /\ calls[r].complete = 0
    /\ ~Pending(r, "success") /\ ~Pending(r, "complete") /\ ~Pending(r, "evaluate")

\* Only what is not a script element reacts to responses.
Reacts(r) ==
    waits[r] = "poll" \/ r \in timer \/ r \in done \/ Pending(r, "arm") \/ Pending(r, "check")

ScriptOnce(r) ==
    /\ Pending(r, "inject") => waits[r] # "script" /\ Remote(r)
    /\ Once(r, "inject")
    /\ waits[r] = "script" => Remote(r)
    /\ waits[r] = "script" \/ Pending(r, "inject") => Uncalled(r)

CalledOnce(r) ==
    /\ Once(r, "complete") /\ Once(r, "success")
    /\ Pending(r, "complete") => calls[r].complete = 0
    /\ Pending(r, "success") => calls[r].success = 0
    /\ calls[r].complete <= 1 /\ calls[r].success <= 1
    /\ ~Pending(r, "evaluate")

NeverSucceeds(r) ==
    /\ r \in done
    /\ calls[r].success = 0
    /\ ~Pending(r, "success") /\ ~Pending(r, "evaluate")

Accounted(r) ==
    /\ r \notin begun => Unknown(r) /\ Uncalled(r)
    /\ Reacts(r) => ~Remote(r)
    /\ ~Remote(r) /\ r \notin done => Uncalled(r)
    /\ ScriptOnce(r)
    /\ set[r].via # "local" => CalledOnce(r)
    /\ r \in timedOut => NeverSucceeds(r)

OneSource == \A r \in Req : Accounted(r)

-----------------------------------------------------------------------------
(* What happens to stacks.                                                 *)

LEMMA StackFacts ==
    ASSUME NEW s, Stacked(s)
    PROVE  /\ s \in Seq(Frame) /\ Len(s) \in Nat /\ DOMAIN s = 1..Len(s)
           /\ \A i \in 1..Len(s) : s[i] \in Frame
           /\ s # <<>> => Len(s) > 0
BY LenProperties, ElementOfSeq, EmptySeq DEF Stacked

LEMMA EmptyIsStacked ==
    /\ Stacked(<<>>)
    /\ \A i, q, x : ~Owns(<<>>, i, q, x)
<1>1. <<>> \in Seq(Frame) /\ DOMAIN <<>> = {}
  BY EmptySeq
<1>. QED
  BY <1>1 DEF Stacked, Owns

LEMMA PrefixIsStacked ==
    ASSUME NEW s, Stacked(s), NEW n \in 0..Len(s)
    PROVE  /\ Stacked(SubSeq(s, 1, n))
           /\ Len(SubSeq(s, 1, n)) = n
           /\ \A i, q, x : Owns(SubSeq(s, 1, n), i, q, x) => Owns(s, i, q, x)
           /\ \A i \in 1..n : SubSeq(s, 1, n)[i] = s[i]
<1>. DEFINE u == SubSeq(s, 1, n)
<1>1. Len(s) \in Nat /\ DOMAIN s = 1..Len(s) /\ \A i \in 1..Len(s) : s[i] \in Frame
  BY StackFacts
<1>2. /\ u \in Seq(Frame) /\ Len(u) = n
      /\ \A i \in 1..n : u[i] = s[i]
  BY <1>1, SubSeqProperties
<1>3. DOMAIN u = 1..n
  BY <1>1, <1>2, LenProperties
<1>. HIDE DEF u
<1>4. \A i \in DOMAIN u : u[i].k = "page" => i > 1 /\ u[i - 1].k = "run"
  <2>. SUFFICES ASSUME NEW i \in 1..n, u[i].k = "page"
                PROVE  i > 1 /\ u[i - 1].k = "run"
    BY <1>3
  <2>1. i \in DOMAIN s /\ s[i].k = "page"
    BY <1>1, <1>2
  <2>2. i > 1 /\ s[i - 1].k = "run"
    BY <2>1 DEF Stacked
  <2>. QED
    BY <1>1, <1>2, <2>2
<1>5. \A i, q, x : Owns(u, i, q, x) => Owns(s, i, q, x)
  BY <1>1, <1>2, <1>3 DEF Owns
<1>. QED
  BY <1>2, <1>4, <1>5 DEF Stacked, u

LEMMA PushFrame ==
    ASSUME NEW s, Stacked(s), NEW f \in Frame,
           f.k = "page" => s # <<>> /\ Last(s).k = "run"
    PROVE  /\ Stacked(Append(s, f))
           /\ Len(Append(s, f)) = Len(s) + 1
           /\ Append(s, f) # <<>> /\ Last(Append(s, f)) = f
           /\ \A i, q, x : Owns(Append(s, f), i, q, x) =>
                 \/ Owns(s, i, q, x)
                 \/ i = Len(s) + 1 /\ f.k = "run" /\ f.r = q /\ x \in f.todo
<1>. DEFINE u == Append(s, f)
<1>1. Len(s) \in Nat /\ DOMAIN s = 1..Len(s) /\ s \in Seq(Frame) /\ (s # <<>> => Len(s) > 0)
  BY StackFacts
<1>2. /\ u \in Seq(Frame) /\ u # <<>> /\ Len(u) = Len(s) + 1
      /\ \A i \in 1..Len(s) : u[i] = s[i]
      /\ u[Len(s) + 1] = f
  BY <1>1, AppendProperties
<1>3. DOMAIN u = 1..(Len(s) + 1)
  BY <1>1, <1>2, LenProperties
<1>. HIDE DEF u
<1>4. \A i \in DOMAIN u : u[i].k = "page" => i > 1 /\ u[i - 1].k = "run"
  <2>. SUFFICES ASSUME NEW i \in 1..(Len(s) + 1), u[i].k = "page"
                PROVE  i > 1 /\ u[i - 1].k = "run"
    BY <1>3
  <2>1. CASE i = Len(s) + 1
    <3>1. s # <<>> /\ s[Len(s)].k = "run"
      BY <1>2, <2>1 DEF Last
    <3>2. Len(s) \in 1..Len(s) /\ i - 1 = Len(s)
      BY <1>1, <2>1, <3>1
    <3>3. u[i - 1] = s[Len(s)]
      BY <1>2, <3>2
    <3>. QED
      BY <3>1, <3>2, <3>3
  <2>2. CASE i # Len(s) + 1
    <3>1. i \in DOMAIN s /\ s[i].k = "page"
      BY <1>1, <1>2, <2>2
    <3>2. i > 1 /\ s[i - 1].k = "run"
      BY <3>1 DEF Stacked
    <3>. QED
      BY <1>1, <1>2, <2>2, <3>2
  <2>. QED
    BY <2>1, <2>2
<1>5. ASSUME NEW i, NEW q, NEW x, Owns(u, i, q, x)
      PROVE  \/ Owns(s, i, q, x)
             \/ i = Len(s) + 1 /\ f.k = "run" /\ f.r = q /\ x \in f.todo
  BY <1>1, <1>2, <1>3, <1>5 DEF Owns
<1>6. Last(u) = f
  BY <1>2 DEF Last
<1>. QED
  BY <1>2, <1>4, <1>5, <1>6 DEF Stacked, u

LEMMA RunIsFrame ==
    ASSUME NEW r \in Req, NEW todo \in SUBSET Names, NEW local \in BOOLEAN
    PROVE  /\ Run(r, todo, local) \in Frame
           /\ Run(r, todo, local).k = "run" /\ Run(r, todo, local).r = r
           /\ Run(r, todo, local).todo = todo
BY DEF Run, Frame, RunFrames

LEMMA FrontFacts ==
    ASSUME NEW s, Stacked(s), s # <<>>
    PROVE  /\ Len(s) \in Nat \ {0}
           /\ Last(s) \in Frame
           /\ Stacked(Front(s)) /\ Len(Front(s)) = Len(s) - 1
           /\ \A i, q, x : Owns(Front(s), i, q, x) => Owns(s, i, q, x) /\ i # Len(s)
           /\ Last(s).k = "run" => Last(s) \in RunFrames
           /\ Last(s).k = "page" => Front(s) # <<>> /\ Last(Front(s)) \in RunFrames
<1>1. Len(s) \in Nat \ {0} /\ DOMAIN s = 1..Len(s) /\ s[Len(s)] \in Frame
  BY StackFacts
<1>2. Len(s) - 1 \in 0..Len(s)
  BY <1>1
<1>. DEFINE u == SubSeq(s, 1, Len(s) - 1)
<1>3. /\ Stacked(u) /\ Len(u) = Len(s) - 1
      /\ \A i, q, x : Owns(u, i, q, x) => Owns(s, i, q, x)
      /\ \A i \in 1..Len(s) - 1 : u[i] = s[i]
  BY <1>2, PrefixIsStacked
<1>. HIDE DEF u
<1>4. \A i, q, x : Owns(u, i, q, x) => i # Len(s)
  BY <1>1, <1>3, StackFacts DEF Owns
<1>5. ASSUME Last(s).k = "page" PROVE u # <<>> /\ Last(u) \in RunFrames
  <2>. DEFINE n == Len(s)
  <2>1. n \in DOMAIN s /\ s[n].k = "page"
    BY <1>1, <1>5 DEF Last
  <2>2. n > 1 /\ s[n - 1].k = "run"
    BY <2>1 DEF Stacked
  <2>3. n - 1 \in 1..n - 1 /\ n - 1 \in DOMAIN s
    BY <1>1, <2>2
  <2>4. u[Len(u)] = s[n - 1] /\ s[n - 1] \in Frame
    BY <1>1, <1>3, <2>3, StackFacts
  <2>5. u # <<>>
    BY <1>1, <1>3, <2>2, EmptySeq
  <2>. QED
    BY <2>2, <2>4, <2>5 DEF Last, Frame, RunFrames, PageFrames
<1>6. Last(s).k = "run" => Last(s) \in RunFrames
  BY <1>1 DEF Last, Frame, RunFrames, PageFrames
<1>. QED
  BY <1>1, <1>3, <1>4, <1>5, <1>6 DEF Last, Front, u

\* The top call goes on to what is still to do, and may call the page.
LEMMA CalledFacts ==
    ASSUME Stacked(stack), On("run"), NEW todo \in SUBSET Names, NEW step
    PROVE  /\ Stacked(Called(todo, step))
           /\ \A i, q, x : Owns(Called(todo, step), i, q, x) =>
                 \/ Owns(stack, i, q, x) /\ i # Len(stack)
                 \/ i = Len(stack) /\ q = Top.r /\ x \in todo
<1>. DEFINE f == [Top EXCEPT !.todo = todo]
            s == Append(Front(stack), f)
<1>1. stack # <<>> /\ Top \in RunFrames
  BY FrontFacts DEF On, Top
<1>2. f \in Frame /\ f.k = "run" /\ f.r = Top.r /\ f.todo = todo /\ Top.r \in Req
  BY <1>1 DEF RunFrames, Frame
<1>. HIDE DEF f
<1>3. /\ Stacked(Front(stack)) /\ Len(Front(stack)) + 1 = Len(stack)
      /\ \A i, q, x : Owns(Front(stack), i, q, x) => Owns(stack, i, q, x) /\ i # Len(stack)
  BY <1>1, FrontFacts
<1>4. /\ Stacked(s) /\ s # <<>> /\ Last(s).k = "run"
      /\ \A i, q, x : Owns(s, i, q, x) =>
            \/ Owns(stack, i, q, x) /\ i # Len(stack)
            \/ i = Len(stack) /\ q = Top.r /\ x \in todo
  BY <1>2, <1>3, PushFrame
<1>5. CASE step \in Hooks
  <2>1. Page(Top.r, step) \in Frame /\ Page(Top.r, step).k = "page"
    BY <1>2, <1>5 DEF Page, Frame, PageFrames
  <2>2. /\ Stacked(Append(s, Page(Top.r, step)))
        /\ \A i, q, x : Owns(Append(s, Page(Top.r, step)), i, q, x) => Owns(s, i, q, x)
    <3>. HIDE DEF s
    <3>. QED
      BY <1>4, <2>1, PushFrame
  <2>. QED
    BY <1>4, <1>5, <2>2 DEF Called, f
<1>6. CASE step \notin Hooks
  BY <1>4, <1>6 DEF Called, f
<1>. QED
  BY <1>5, <1>6

\* An exception leaves what is below an evaluation.
LEMMA UncaughtFacts ==
    ASSUME Stacked(stack)
    PROVE  /\ Stacked(Uncaught(stack))
           /\ \A i, q, x : Owns(Uncaught(stack), i, q, x) => Owns(stack, i, q, x)
<1>. DEFINE below == {i \in DOMAIN stack :
                         \E j \in DOMAIN stack : i < j /\ stack[j].k = "run" /\ stack[j].local}
<1>1. Len(stack) \in Nat /\ DOMAIN stack = 1..Len(stack)
  BY StackFacts
<1>2. IsFiniteSet(1..Len(stack)) /\ Cardinality(1..Len(stack)) = Len(stack)
  <2>1. 1 \in Int /\ Len(stack) \in Int /\ Len(stack) - 1 + 1 = Len(stack)
    BY <1>1
  <2>2. /\ IsFiniteSet(1..Len(stack))
        /\ Cardinality(1..Len(stack)) = IF 1 > Len(stack) THEN 0 ELSE Len(stack) - 1 + 1
    BY <2>1, FS_Interval
  <2>. QED
    BY <1>1, <2>1, <2>2
<1>3. below \subseteq 1..Len(stack)
  BY <1>1
<1>. HIDE DEF below
<1>4. Cardinality(below) \in 0..Len(stack)
  <2>. DEFINE S == 1..Len(stack)
  <2>1. IsFiniteSet(S) /\ Cardinality(S) = Len(stack) /\ below \in SUBSET S
    BY <1>2, <1>3
  <2>. HIDE DEF S
  <2>2. IsFiniteSet(below) /\ Cardinality(below) <= Cardinality(S)
    BY <2>1, FS_Subset
  <2>3. Cardinality(below) \in Nat
    BY <2>2, FS_CardinalityType
  <2>. QED
    BY <1>1, <2>1, <2>2, <2>3
<1>. QED
  BY <1>4, PrefixIsStacked DEF Uncaught, below

\* The top call does a step.
LEMMA AdvanceFacts ==
    ASSUME Stacked(stack), NEW step, At(step), NEW hook
    PROVE  /\ Stacked(Called(Top.todo \ {step}, hook))
           /\ \A i, q, x : Owns(Called(Top.todo \ {step}, hook), i, q, x) => Owns(stack, i, q, x)
           /\ Top \in RunFrames /\ Top.r \in Req /\ Top.todo \in SUBSET Names
           /\ Pending(Top.r, step)
           /\ Once(Top.r, step) =>
                 \A i : ~Owns(Called(Top.todo \ {step}, hook), i, Top.r, step)
<1>1. stack # <<>> /\ On("run") /\ step \in Top.todo
  BY DEF At, On
<1>2. Top \in RunFrames /\ Len(stack) \in DOMAIN stack
  BY <1>1, FrontFacts, StackFacts DEF On, Top
<1>3. Top.k = "run" /\ Top.r \in Req /\ Top.todo \in SUBSET Names
  BY <1>2 DEF RunFrames
<1>4. \A q, x : q = Top.r /\ x \in Top.todo <=> Owns(stack, Len(stack), q, x)
  BY <1>2, <1>3 DEF Owns, Top, Last
<1>. DEFINE todo == Top.todo \ {step}
            u == Called(todo, hook)
<1>5. todo \in SUBSET Names /\ \A x \in todo : x \in Top.todo /\ x # step
  BY <1>3
<1>. HIDE DEF todo
<1>6. /\ Stacked(u)
      /\ \A i, q, x : Owns(u, i, q, x) =>
            \/ Owns(stack, i, q, x) /\ i # Len(stack)
            \/ i = Len(stack) /\ q = Top.r /\ x \in todo
  BY <1>1, <1>5, CalledFacts
<1>. HIDE DEF u
<1>7. \A i, q, x : Owns(u, i, q, x) => Owns(stack, i, q, x)
  BY <1>4, <1>5, <1>6
<1>8. Pending(Top.r, step)
  BY <1>1, <1>2, <1>4 DEF Pending
<1>9. ASSUME Once(Top.r, step), NEW i, Owns(u, i, Top.r, step) PROVE FALSE
  <2>1. Owns(stack, i, Top.r, step) /\ i # Len(stack)
    BY <1>5, <1>6, <1>9
  <2>2. Owns(stack, Len(stack), Top.r, step)
    BY <1>1, <1>4
  <2>. QED
    BY <1>9, <2>1, <2>2 DEF Once, Owns
<1>. QED
  BY <1>2, <1>3, <1>6, <1>7, <1>8, <1>9 DEF u, todo

-----------------------------------------------------------------------------
(* What a step does to the sources of a request.                           *)

\* The requests and steps of a stack are those there were, or new ones in T of
\* the frame at place n.
Gains(r, n, T) ==
    \A i, x : Owns(stack', i, r, x) => Owns(stack, i, r, x) \/ (i = n /\ x \in T)

LEMMA GainFacts ==
    ASSUME NEW r, NEW n, NEW T, Gains(r, n, T), NEW x
    PROVE  /\ ~Pending(r, x) => Once(r, x)'
           /\ x \notin T => (Pending(r, x)' => Pending(r, x)) /\ (Once(r, x) => Once(r, x)')
BY DEF Gains, Pending, Once, Owns

\* Of a request nothing has happened, but that the library may have ceased to wait.
Rests(r) ==
    /\ set' = set
    /\ r \in begun <=> r \in begun'
    /\ r \in done <=> r \in done'
    /\ r \in timedOut <=> r \in timedOut'
    /\ r \in timer' => r \in timer
    /\ waits'[r] \in {waits[r], None}
    /\ calls'[r].success = calls[r].success /\ calls'[r].complete = calls[r].complete
    /\ \A i : \A x \in Critical : Owns(stack', i, r, x) => Owns(stack, i, r, x)

LEMMA RestFacts ==
    ASSUME NEW r \in Req, Accounted(r), Rests(r)
    PROVE  Accounted(r)'
<1>1. ASSUME NEW x \in Critical
      PROVE  (Pending(r, x)' => Pending(r, x)) /\ (Once(r, x) => Once(r, x)')
  BY <1>1 DEF Rests, Pending, Once, Owns
<1>2. /\ Pending(r, "inject")' => Pending(r, "inject")
      /\ Pending(r, "arm")' => Pending(r, "arm")
      /\ Pending(r, "check")' => Pending(r, "check")
      /\ Pending(r, "evaluate")' => Pending(r, "evaluate")
      /\ Pending(r, "success")' => Pending(r, "success")
      /\ Pending(r, "complete")' => Pending(r, "complete")
      /\ Once(r, "inject") => Once(r, "inject")'
      /\ Once(r, "success") => Once(r, "success")'
      /\ Once(r, "complete") => Once(r, "complete")'
  BY <1>1 DEF Critical
<1>3. (r \notin begun => Unknown(r) /\ Uncalled(r))' /\ (Uncalled(r) => Uncalled(r)')
  <2>1. Uncalled(r) => Uncalled(r)'
    BY <1>2 DEF Uncalled, Rests
  <2>2. Unknown(r) => Unknown(r)'
    BY <1>1 DEF Unknown, Rests
  <2>. QED
    BY <2>1, <2>2 DEF Accounted, Rests
<1>4. /\ waits'[r] = "poll" => waits[r] = "poll"
      /\ waits'[r] = "script" => waits[r] = "script"
      /\ Remote(r)' <=> Remote(r)
  BY AjaxAssumption DEF Rests, Remote
<1>5. Reacts(r)' => Reacts(r)
  BY <1>2, <1>4 DEF Reacts, Rests
<1>6. ScriptOnce(r)'
  BY <1>2, <1>3, <1>4 DEF ScriptOnce, Accounted
<1>7. CalledOnce(r) => CalledOnce(r)'
  BY <1>2 DEF CalledOnce, Rests
<1>8. NeverSucceeds(r) => NeverSucceeds(r)'
  BY <1>2 DEF NeverSucceeds, Rests
<1>. QED
  BY <1>3, <1>4, <1>5, <1>6, <1>7, <1>8 DEF Accounted, Rests

LEMMA AfterDoneIsSteps ==
    ASSUME NEW r, NEW late \in BOOLEAN
    PROVE  /\ AfterDone(r, late) \in SUBSET Names
           /\ AfterDone(r, late) \cap Critical \subseteq {"success", "evaluate", "complete"}
           /\ set[r].via # "local" => "evaluate" \notin AfterDone(r, late)
           /\ late => "success" \notin AfterDone(r, late) /\ "evaluate" \notin AfterDone(r, late)
BY DEF AfterDone, Status, Fails, Succeeds, Completes, Critical, Names

\* What React does to the stack s, from which it is called.
LEMMA ReactFacts ==
    ASSUME Typed, NEW r \in Req, NEW late \in BOOLEAN, NEW s, Stacked(s), React(r, late, s)
    PROVE  /\ Stacked(stack') /\ waits' \in [Req -> {None, "poll", "script"}]
           /\ timedOut' \subseteq Req
           /\ \A q \in Req : waits'[q] \in {waits[q], None}
           /\ \/ /\ UNCHANGED <<done, timedOut>>
                 /\ \A i, q : \A x \in Critical : Owns(stack', i, q, x) => Owns(s, i, q, x)
              \/ /\ r \notin done /\ done' = done \cup {r}
                 /\ timedOut' = IF late THEN timedOut \cup {r} ELSE timedOut
                 /\ waits'[r] = None
                 /\ \A i, q, x : Owns(stack', i, q, x) =>
                       \/ Owns(s, i, q, x)
                       \/ i = Len(s) + 1 /\ q = r /\ x \in AfterDone(r, late)
<1>. DEFINE quiet == Run(r, {"uncount"}, FALSE)
            ends == Run(r, AfterDone(r, late), FALSE)
<1>1. quiet \in Frame /\ quiet.k = "run" /\ quiet.todo = {"uncount"}
  BY RunIsFrame DEF Names
<1>2. ends \in Frame /\ ends.k = "run" /\ ends.r = r /\ ends.todo = AfterDone(r, late)
  <2>. DEFINE todo == AfterDone(r, late)
  <2>1. todo \in SUBSET Names
    BY AfterDoneIsSteps
  <2>. HIDE DEF todo
  <2>2. Run(r, todo, FALSE) \in Frame /\ Run(r, todo, FALSE).k = "run"
        /\ Run(r, todo, FALSE).r = r /\ Run(r, todo, FALSE).todo = todo
    BY <2>1, RunIsFrame
  <2>. QED
    BY <2>2 DEF todo
<1>. HIDE DEF quiet, ends
<1>3. /\ Stacked(Append(s, quiet))
      /\ \A i, q : \A x \in Critical : Owns(Append(s, quiet), i, q, x) => Owns(s, i, q, x)
  <2>1. /\ Stacked(Append(s, quiet))
        /\ \A i, q, x : Owns(Append(s, quiet), i, q, x) =>
              Owns(s, i, q, x) \/ x \in quiet.todo
    BY <1>1, PushFrame
  <2>. QED
    BY <1>1, <2>1 DEF Critical
<1>4. /\ Stacked(Append(s, ends))
      /\ \A i, q, x : Owns(Append(s, ends), i, q, x) =>
            \/ Owns(s, i, q, x)
            \/ i = Len(s) + 1 /\ q = r /\ x \in AfterDone(r, late)
  BY <1>2, PushFrame
<1>5. CASE ready[r] = 0 /\ waits[r] = "poll"
  BY <1>3, <1>5 DEF React, Typed, quiet
<1>6. CASE ~(ready[r] = 0 /\ waits[r] = "poll")
           /\ ready[r] # 0 /\ r \notin done /\ (ready[r] = 4 \/ late)
  BY <1>4, <1>6 DEF React, Typed, ends
<1>7. CASE ~(ready[r] = 0 /\ waits[r] = "poll")
           /\ ~(ready[r] # 0 /\ r \notin done /\ (ready[r] = 4 \/ late))
  BY <1>7 DEF React, Typed
<1>. QED
  BY <1>5, <1>6, <1>7

LEMMA TypedInit == Init => Typed
<1>. SUFFICES ASSUME Init PROVE Typed
  OBVIOUS
<1>1. set \in [Req -> [via : Ways, global : BOOLEAN, timeout : BOOLEAN, ifModified : BOOLEAN]]
  BY AjaxAssumption DEF Init, IsSettings
<1>. QED
  BY <1>1, EmptyIsStacked DEF Init, Typed

LEMMA TypedNext == Typed /\ [Next]_vars => Typed'
<1>. SUFFICES ASSUME Typed, [Next]_vars PROVE Typed'
  OBVIOUS
<1>1. Stacked(stack)
  BY DEF Typed
<1>2. ASSUME NEW step, At(step), NEW hook, stack' = Called(Top.todo \ {step}, hook)
      PROVE  Stacked(stack') /\ Top.r \in Req
  BY <1>1, <1>2, AdvanceFacts
<1>3. ASSUME NEW r \in Req, NEW todo \in SUBSET Names, NEW local \in BOOLEAN,
             NEW s, Stacked(s), stack' = Append(s, Run(r, todo, local))
      PROVE  Stacked(stack')
  BY <1>3, PushFrame, RunIsFrame
<1>4. CASE Start
  BY <1>2, <1>4 DEF Start, Advance, Typed, ghosts
<1>5. CASE Inject
  BY <1>2, <1>5 DEF Inject, Advance, Typed, ghosts
<1>6. CASE Open
  BY <1>2, <1>6 DEF Open, Advance, Typed, ghosts
<1>7. CASE Arm
  <2>1. Stacked(stack') /\ Top.r \in Req
    BY <1>2, <1>7 DEF Arm, Advance
  <2>2. waits' = waits \/ waits' = [waits EXCEPT ![Top.r] = "poll"]
    BY <1>7 DEF Arm
  <2>. QED
    BY <1>7, <2>1, <2>2 DEF Arm, Typed, ghosts
<1>8. CASE Send
  BY <1>2, <1>8 DEF Send, Advance, Typed, ghosts
<1>9. CASE Uncount
  BY <1>2, <1>9 DEF Uncount, Advance, Typed
<1>10. CASE Remember
  BY <1>2, <1>10 DEF Remember, Advance, Typed, ghosts
<1>11. CASE Close
  BY <1>2, <1>11 DEF Close, Advance, Typed, ghosts
<1>12. ASSUME NEW step \in Callbacks, Callback(step) PROVE Typed'
  <2>1. Stacked(stack') /\ Top.r \in Req
    BY <1>2, <1>12 DEF Callback
  <2>2. calls' \in [Req -> [success : Nat, error : Nat, complete : Nat]]
    <3>1. calls[Top.r] \in [success : Nat, error : Nat, complete : Nat]
      BY <2>1 DEF Typed
    <3>2. CASE step \in {"success", "error", "complete"}
      <4>1. calls' = [calls EXCEPT ![Top.r] = [calls[Top.r] EXCEPT ![step] = calls[Top.r][step] + 1]]
        BY <1>12, <3>2 DEF Callback
      <4>2. [calls[Top.r] EXCEPT ![step] = calls[Top.r][step] + 1]
               \in [success : Nat, error : Nat, complete : Nat]
        BY <3>1, <3>2
      <4>. QED
        BY <2>1, <4>1, <4>2 DEF Typed
    <3>3. CASE step \notin {"success", "error", "complete"}
      BY <1>12, <3>3 DEF Callback, Typed
    <3>. QED
      BY <3>2, <3>3
  <2>. QED
    BY <1>12, <2>1, <2>2 DEF Callback, Typed
<1>13. CASE SendThrows
  <2>1. On("run") /\ Top \in RunFrames
    BY <1>1, <1>13, AdvanceFacts DEF SendThrows, At
  <2>2. Fails \cup (Top.todo \ {"send"}) \in SUBSET Names
    BY <2>1 DEF RunFrames, Fails, Names
  <2>3. Stacked(stack')
    BY <1>1, <1>13, <2>1, <2>2, CalledFacts DEF SendThrows
  <2>. QED
    BY <1>13, <2>3 DEF SendThrows, Typed, ghosts
<1>14. CASE OpenThrows \/ Throw
  BY <1>1, <1>14, UncaughtFacts DEF OpenThrows, Throw, Typed
<1>15. CASE Finished \/ Return
  BY <1>1, <1>15, FrontFacts DEF Finished, Return, On, Typed, ghosts
<1>16. CASE Evaluate
  <2>. DEFINE s == Called(Top.todo \ {"evaluate"}, None)
  <2>1. \/ Append(Front(stack), [Top EXCEPT !.todo = @ \ {"evaluate"}]) = s
        \/ None \in Hooks
    BY DEF Called
  <2>2. Top \in RunFrames /\ stack # <<>>
    BY <1>1, <1>16, AdvanceFacts DEF Evaluate, At, On
  <2>3. /\ [Top EXCEPT !.todo = @ \ {"evaluate"}] \in Frame
        /\ [Top EXCEPT !.todo = @ \ {"evaluate"}].k = "run"
    BY <2>2 DEF RunFrames, Frame
  <2>4. Stacked(Append(Front(stack), [Top EXCEPT !.todo = @ \ {"evaluate"}]))
    BY <1>1, <2>2, <2>3, FrontFacts, PushFrame
  <2>5. Succeeds \cup Completes \in SUBSET Names /\ Top.r \in Req
    BY <2>2 DEF Succeeds, Completes, RunFrames, Names
  <2>6. Stacked(stack')
    BY <1>3, <1>16, <2>4, <2>5 DEF Evaluate
  <2>. QED
    BY <1>16, <2>6 DEF Evaluate, Typed, ghosts
<1>17. CASE Check
  <2>1. stack # <<>> /\ Top \in RunFrames
    BY <1>1, <1>17, AdvanceFacts DEF Check, At, On
  <2>2. Top.r \in Req /\ Stacked(Front(stack)) /\ React(Top.r, FALSE, Front(stack))
    BY <1>1, <1>17, <2>1, FrontFacts DEF Check, RunFrames
  <2>3. Stacked(stack') /\ waits' \in [Req -> {None, "poll", "script"}] /\ timedOut' \subseteq Req
    BY <2>2, ReactFacts
  <2>. QED
    BY <1>17, <2>3 DEF Check, Typed
<1>18. CASE Refuse
  <2>. DEFINE s == Front(stack)
              f == [Last(s) EXCEPT !.todo = {"uncount", "close"}]
  <2>1. stack # <<>> /\ Last(stack).k = "page"
    BY <1>18 DEF Refuse, On, Top
  <2>2. Stacked(s) /\ s # <<>> /\ Last(s) \in RunFrames
    BY <1>1, <2>1, FrontFacts
  <2>3. f \in Frame /\ f.k = "run"
    BY <2>2 DEF RunFrames, Frame, Names
  <2>4. stack' = Append(Front(s), f)
    BY <1>18 DEF Refuse
  <2>. HIDE DEF s, f
  <2>5. Stacked(stack')
    BY <2>2, <2>3, <2>4, FrontFacts, PushFrame
  <2>. QED
    BY <1>18, <2>5 DEF Refuse, Typed, ghosts
<1>19. ASSUME NEW r \in Req, Begin(r) PROVE Typed'
  <2>1. {"start"} \cup AjaxSteps(r) \in SUBSET Names
    <3>1. CASE Remote(r)
      BY <3>1 DEF AjaxSteps, Names
    <3>2. CASE ~Remote(r)
      BY <3>2 DEF AjaxSteps, Names
    <3>. QED
      BY <3>1, <3>2
  <2>2. Stacked(stack')
    BY <1>1, <1>3, <1>19, <2>1 DEF Begin
  <2>. QED
    BY <1>19, <2>2 DEF Begin, Typed, ghosts
<1>20. ASSUME NEW r \in Req, Abort(r) \/ Answer(r) PROVE Typed'
  BY <1>20 DEF Abort, Answer, Typed, ghosts
<1>21. ASSUME NEW r \in Req, Poll(r) PROVE Typed'
  <2>1. Stacked(stack') /\ waits' \in [Req -> {None, "poll", "script"}] /\ timedOut' \subseteq Req
    BY <1>1, <1>21, ReactFacts DEF Poll
  <2>. QED
    BY <1>21, <2>1 DEF Poll, Typed
<1>22. ASSUME NEW r \in Req, TimeOut(r) PROVE Typed'
  <2>1. Stacked(stack') /\ waits' \in [Req -> {None, "poll", "script"}] /\ timedOut' \subseteq Req
    BY <1>1, <1>22, ReactFacts DEF TimeOut, Typed
  <2>. QED
    BY <1>22, <2>1 DEF TimeOut, Typed
<1>23. ASSUME NEW r \in Req, Load(r) PROVE Typed'
  <2>1. Succeeds \cup Completes \in SUBSET Names
    <3>1. Succeeds \subseteq Names /\ Completes \subseteq Names
      BY DEF Succeeds, Completes, Names
    <3>. QED
      BY <3>1
  <2>2. stack' = Append(<<>>, Run(r, Succeeds \cup Completes, FALSE))
    BY <1>23 DEF Load
  <2>3. Stacked(stack')
    BY <1>3, <2>1, <2>2, EmptyIsStacked
  <2>. QED
    BY <1>23, <2>3 DEF Load, Typed, ghosts
<1>24. CASE UNCHANGED vars
  BY <1>24 DEF vars, ghosts, Typed
<1>. QED
  BY <1>4, <1>5, <1>6, <1>7, <1>8, <1>9, <1>10, <1>11, <1>12, <1>13, <1>14, <1>15, <1>16,
     <1>17, <1>18, <1>19, <1>20, <1>21, <1>22, <1>23, <1>24 DEF Next, Steps

-----------------------------------------------------------------------------
(* One source, step by step.                                               *)

LEMMA AllRest ==
    ASSUME OneSource, \A r \in Req : Rests(r)
    PROVE  OneSource'
<1>1. \A r \in Req : Accounted(r)'
  BY RestFacts DEF OneSource
<1>. QED
  BY <1>1 DEF OneSource

\* Of the other requests nothing happens.
LEMMA OneMoves ==
    ASSUME OneSource, NEW r \in Req, Accounted(r)', \A q \in Req \ {r} : Rests(q)
    PROVE  OneSource'
<1>1. \A q \in Req : Accounted(q)'
  BY RestFacts DEF OneSource
<1>. QED
  BY <1>1 DEF OneSource

\* Steps that call nothing and wait for nothing.
LEMMA QuietSteps ==
    ASSUME Typed, OneSource,
           \/ Start \/ Open \/ Send \/ Uncount \/ Remember \/ Close \/ Finished
           \/ OpenThrows \/ SendThrows \/ Throw \/ Return \/ Refuse
           \/ \E r \in Req : Abort(r) \/ Answer(r)
           \/ UNCHANGED vars
    PROVE  OneSource'
<1>1. Stacked(stack)
  BY DEF Typed
<1>2. /\ UNCHANGED <<set, begun, waits, timer, done, calls, timedOut>>
      /\ \A i, q : \A x \in Critical : Owns(stack', i, q, x) => Owns(stack, i, q, x)
  <2>1. CASE Start
    BY <1>1, <2>1, AdvanceFacts DEF Start, Advance, ghosts
  <2>2. CASE Open
    BY <1>1, <2>2, AdvanceFacts DEF Open, Advance, ghosts
  <2>3. CASE Send
    BY <1>1, <2>3, AdvanceFacts DEF Send, Advance, ghosts
  <2>4. CASE Uncount
    BY <1>1, <2>4, AdvanceFacts DEF Uncount, Advance
  <2>5. CASE Remember
    BY <1>1, <2>5, AdvanceFacts DEF Remember, Advance, ghosts
  <2>6. CASE Close
    BY <1>1, <2>6, AdvanceFacts DEF Close, Advance, ghosts
  <2>7. CASE Finished \/ Return
    BY <1>1, <2>7, FrontFacts DEF Finished, Return, On, ghosts
  <2>8. CASE OpenThrows \/ Throw
    BY <1>1, <2>8, UncaughtFacts DEF OpenThrows, Throw
  <2>9. CASE SendThrows
    <3>. DEFINE todo == Fails \cup (Top.todo \ {"send"})
    <3>1. On("run") /\ Top \in RunFrames /\ stack # <<>>
      BY <1>1, <2>9, AdvanceFacts DEF SendThrows, At, On
    <3>2. Len(stack) \in DOMAIN stack /\ Top.todo \in SUBSET Names /\ Top.k = "run"
      BY <1>1, <3>1, StackFacts DEF RunFrames
    <3>3. todo \in SUBSET Names /\ \A x \in todo \cap Critical : x \in Top.todo
      BY <3>2 DEF Fails, Names, Critical
    <3>4. stack' = Called(todo, None)
      BY <2>9 DEF SendThrows
    <3>. HIDE DEF todo
    <3>5. \A i, q, x : Owns(Called(todo, None), i, q, x) =>
             \/ Owns(stack, i, q, x) /\ i # Len(stack)
             \/ i = Len(stack) /\ q = Top.r /\ x \in todo
      BY <1>1, <3>1, <3>3, CalledFacts
    <3>6. \A x \in Top.todo : Owns(stack, Len(stack), Top.r, x)
      BY <3>2 DEF Owns, Top, Last
    <3>7. \A i, q : \A x \in Critical : Owns(stack', i, q, x) => Owns(stack, i, q, x)
      BY <3>3, <3>4, <3>5, <3>6
    <3>. QED
      BY <2>9, <3>7 DEF SendThrows, ghosts
  <2>10. CASE Refuse
    <3>. DEFINE s == Front(stack)
                f == [Last(s) EXCEPT !.todo = {"uncount", "close"}]
    <3>1. stack # <<>> /\ Last(stack).k = "page"
      BY <2>10 DEF Refuse, On, Top
    <3>2. /\ Stacked(s) /\ s # <<>> /\ Last(s) \in RunFrames
          /\ \A i, q, x : Owns(s, i, q, x) => Owns(stack, i, q, x)
      BY <1>1, <3>1, FrontFacts
    <3>3. f \in Frame /\ f.k = "run" /\ f.todo = {"uncount", "close"}
      BY <3>2 DEF RunFrames, Frame, Names
    <3>4. stack' = Append(Front(s), f)
      BY <2>10 DEF Refuse
    <3>. HIDE DEF s, f
    <3>5. Stacked(Front(s)) /\ \A i, q, x : Owns(Front(s), i, q, x) => Owns(s, i, q, x)
      BY <3>2, FrontFacts
    <3>6. \A i, q, x : Owns(stack', i, q, x) => Owns(Front(s), i, q, x) \/ x \in f.todo
      BY <3>3, <3>4, <3>5, PushFrame
    <3>7. \A i, q : \A x \in Critical : Owns(stack', i, q, x) => Owns(stack, i, q, x)
      BY <3>2, <3>3, <3>5, <3>6 DEF Critical
    <3>. QED
      BY <2>10, <3>7 DEF Refuse, ghosts
  <2>11. ASSUME NEW r \in Req, Abort(r) \/ Answer(r)
         PROVE  UNCHANGED <<set, begun, waits, timer, done, calls, timedOut, stack>>
    BY <2>11 DEF Abort, Answer, ghosts
  <2>12. CASE UNCHANGED vars
    BY <2>12 DEF vars, ghosts
  <2>. QED
    BY <2>1, <2>2, <2>3, <2>4, <2>5, <2>6, <2>7, <2>8, <2>9, <2>10, <2>11, <2>12
<1>3. ASSUME NEW r \in Req PROVE Rests(r)
  BY <1>2 DEF Rests
<1>. QED
  BY <1>3, AllRest

LEMMA BeginStep ==
    ASSUME Typed, OneSource, NEW r \in Req, Begin(r)
    PROVE  OneSource'
<1>. DEFINE f == Run(r, {"start"} \cup AjaxSteps(r), FALSE)
            n == Len(stack) + 1
<1>1. f \in Frame /\ f.k = "run" /\ f.r = r /\ f.todo = {"start"} \cup AjaxSteps(r)
  <2>. DEFINE todo == {"start"} \cup AjaxSteps(r)
  <2>1. todo \in SUBSET Names
    BY DEF AjaxSteps, Names
  <2>. HIDE DEF todo
  <2>2. /\ Run(r, todo, FALSE) \in Frame /\ Run(r, todo, FALSE).k = "run"
        /\ Run(r, todo, FALSE).r = r /\ Run(r, todo, FALSE).todo = todo
    BY <2>1, RunIsFrame
  <2>. QED
    BY <2>2 DEF todo
<1>2. Stacked(stack) /\ stack' = Append(stack, f)
  BY DEF Begin, Typed
<1>. HIDE DEF f
<1>3. \A i, q, x : Owns(stack', i, q, x) =>
         Owns(stack, i, q, x) \/ (i = n /\ q = r /\ x \in f.todo)
  BY <1>1, <1>2, PushFrame
<1>4. ASSUME NEW q \in Req \ {r} PROVE Rests(q)
  <2>1. /\ UNCHANGED <<set, waits, timer, done, calls, timedOut>>
        /\ begun' = begun \cup {r}
    BY DEF Begin, ghosts
  <2>2. \A i, x : Owns(stack', i, q, x) => Owns(stack, i, q, x)
    BY <1>3
  <2>. QED
    BY <2>1, <2>2 DEF Rests
<1>5. Accounted(r)'
  <2>1. r \notin begun /\ Unknown(r) /\ Uncalled(r)
    BY DEF Begin, OneSource, Accounted
  <2>2. Gains(r, n, f.todo)
    BY <1>3 DEF Gains
  <2>3. /\ Remote(r) => "arm" \notin f.todo /\ "check" \notin f.todo
        /\ ~Remote(r) => "inject" \notin f.todo
        /\ "success" \notin f.todo /\ "complete" \notin f.todo /\ "evaluate" \notin f.todo
    BY <1>1 DEF AjaxSteps
  <2>4. /\ UNCHANGED <<set, waits, timer, done, calls, timedOut>>
        /\ r \in begun'
        /\ Remote(r)' <=> Remote(r)
    BY DEF Begin, ghosts, Remote
  <2>5. \A x \in Critical : ~Pending(r, x)
    BY <2>1 DEF Unknown
  <2>6. /\ ~Pending(r, "success")' /\ ~Pending(r, "complete")' /\ ~Pending(r, "evaluate")'
        /\ Remote(r) => ~Pending(r, "arm")' /\ ~Pending(r, "check")'
        /\ ~Remote(r) => ~Pending(r, "inject")'
        /\ Once(r, "inject")' /\ Once(r, "success")' /\ Once(r, "complete")'
    BY <2>2, <2>3, <2>5, GainFacts DEF Critical
  <2>7. Uncalled(r)'
    BY <2>1, <2>4, <2>6 DEF Uncalled
  <2>8. ScriptOnce(r)'
    BY <2>1, <2>4, <2>6, <2>7, AjaxAssumption DEF ScriptOnce, Unknown
  <2>9. CalledOnce(r)'
    BY <2>6, <2>7 DEF CalledOnce, Uncalled
  <2>10. Reacts(r)' => ~Remote(r)'
    BY <2>1, <2>4, <2>6, AjaxAssumption DEF Reacts, Unknown
  <2>11. r \in timedOut' => FALSE
    BY <2>1, <2>4 DEF OneSource, Accounted, NeverSucceeds, Unknown
  <2>. QED
    BY <2>4, <2>7, <2>8, <2>9, <2>10, <2>11 DEF Accounted
<1>. QED
  BY <1>4, <1>5, OneMoves

\* What is pending of a request was begun, and what was called of it agrees.
LEMMA SourceFacts ==
    ASSUME OneSource, NEW r \in Req
    PROVE  /\ Accounted(r)
           /\ (\E x \in Critical : Pending(r, x)) \/ Reacts(r) => r \in begun
           /\ waits[r] # None => r \in begun
           /\ Pending(r, "success") \/ Pending(r, "complete") \/ Pending(r, "evaluate") =>
                 /\ ~Uncalled(r)
                 /\ waits[r] # "script" /\ ~Pending(r, "inject")
                 /\ Remote(r) \/ r \in done
<1>1. Accounted(r)
  BY DEF OneSource
<1>2. (\E x \in Critical : Pending(r, x)) \/ Reacts(r) => r \in begun
  <2>1. Reacts(r) => waits[r] = "poll" \/ r \in timer \/ r \in done
                     \/ \E x \in Critical : Pending(r, x)
    BY DEF Reacts, Critical
  <2>. QED
    BY <1>1, <2>1, AjaxAssumption DEF Accounted, Unknown
<1>3. waits[r] # None => r \in begun
  BY <1>1 DEF Accounted, Unknown
<1>4. Pending(r, "success") \/ Pending(r, "complete") \/ Pending(r, "evaluate") => ~Uncalled(r)
  BY DEF Uncalled
<1>. QED
  BY <1>1, <1>2, <1>3, <1>4 DEF Accounted, ScriptOnce

LEMMA InjectStep ==
    ASSUME Typed, OneSource, Inject
    PROVE  OneSource'
<1>0. Top.r \in Req
  BY AdvanceFacts DEF Inject, Typed
<1>. SUFFICES ASSUME NEW r \in Req, r = Top.r PROVE OneSource'
  BY <1>0
<1>1. /\ r \in Req /\ Pending(r, "inject")
      /\ \A i, q, x : Owns(stack', i, q, x) => Owns(stack, i, q, x)
      /\ Once(r, "inject") => \A i : ~Owns(stack', i, r, "inject")
  BY AdvanceFacts DEF Inject, Advance, Typed
<1>2. /\ UNCHANGED <<set, begun, timer, done, calls, timedOut>>
      /\ waits' = [waits EXCEPT ![r] = "script"]
  BY DEF Inject, ghosts
<1>3. ASSUME NEW q \in Req \ {r} PROVE Rests(q)
  BY <1>1, <1>2, <1>3 DEF Rests, Typed
<1>4. Accounted(r)'
  <2>1. Accounted(r) /\ r \in begun
    BY <1>1, SourceFacts DEF Critical
  <2>2. Remote(r) /\ Uncalled(r) /\ Once(r, "inject") /\ ~Reacts(r)
    BY <1>1, <2>1 DEF Accounted, ScriptOnce
  <2>3. \A x : (Pending(r, x)' => Pending(r, x)) /\ (Once(r, x) => Once(r, x)')
    BY <1>1 DEF Pending, Once, Owns
  <2>4. ~Pending(r, "inject")'
    BY <1>1, <2>2 DEF Pending
  <2>5. /\ waits'[r] = "script" /\ r \in begun' /\ (Remote(r)' <=> Remote(r))
        /\ Uncalled(r)'
    BY <1>1, <1>2, <2>1, <2>2, <2>3 DEF Typed, Remote, Uncalled
  <2>6. ~Reacts(r)'
    BY <1>2, <2>2, <2>3, <2>5 DEF Reacts
  <2>7. ScriptOnce(r)'
    BY <2>2, <2>3, <2>4, <2>5 DEF ScriptOnce
  <2>8. CalledOnce(r) => CalledOnce(r)'
    BY <1>2, <2>3 DEF CalledOnce
  <2>9. NeverSucceeds(r) => NeverSucceeds(r)'
    BY <1>2, <2>3 DEF NeverSucceeds
  <2>. QED
    BY <1>2, <2>1, <2>2, <2>5, <2>6, <2>7, <2>8, <2>9 DEF Accounted
<1>. QED
  BY <1>1, <1>3, <1>4, OneMoves

LEMMA ArmStep ==
    ASSUME Typed, OneSource, Arm
    PROVE  OneSource'
<1>0. Top.r \in Req
  BY AdvanceFacts DEF Arm, Typed
<1>. SUFFICES ASSUME NEW r \in Req, r = Top.r PROVE OneSource'
  BY <1>0
<1>1. /\ r \in Req /\ Pending(r, "arm")
      /\ \A i, q, x : Owns(stack', i, q, x) => Owns(stack, i, q, x)
  BY AdvanceFacts DEF Arm, Advance, Typed
<1>2. /\ UNCHANGED <<set, begun, done, calls, timedOut>>
      /\ waits' = waits \/ waits' = [waits EXCEPT ![r] = "poll"]
      /\ \A q \in timer' : q \in timer \/ q = r
  BY DEF Arm, ghosts
<1>3. ASSUME NEW q \in Req \ {r} PROVE Rests(q)
  BY <1>1, <1>2, <1>3 DEF Rests, Typed
<1>4. Accounted(r)'
  <2>1. Accounted(r) /\ r \in begun
    BY <1>1, SourceFacts DEF Critical
  <2>2. ~Remote(r)
    BY <1>1, <2>1 DEF Accounted, Reacts
  <2>3. ~Pending(r, "inject") /\ waits[r] # "script"
    BY <2>1, <2>2 DEF Accounted, ScriptOnce
  <2>4. \A x : (Pending(r, x)' => Pending(r, x)) /\ (Once(r, x) => Once(r, x)')
    BY <1>1 DEF Pending, Once, Owns
  <2>5. /\ waits'[r] # "script" /\ r \in begun' /\ (Remote(r)' <=> Remote(r))
        /\ Uncalled(r) => Uncalled(r)'
    BY <1>1, <1>2, <2>1, <2>3, <2>4 DEF Typed, Remote, Uncalled
  <2>6. ScriptOnce(r)'
    BY <2>1, <2>3, <2>4, <2>5 DEF ScriptOnce, Accounted
  <2>7. CalledOnce(r) => CalledOnce(r)'
    BY <1>2, <2>4 DEF CalledOnce
  <2>8. NeverSucceeds(r) => NeverSucceeds(r)'
    BY <1>2, <2>4 DEF NeverSucceeds
  <2>. QED
    BY <1>2, <2>1, <2>2, <2>5, <2>6, <2>7, <2>8 DEF Accounted
<1>. QED
  BY <1>1, <1>3, <1>4, OneMoves

LEMMA CallbackStep ==
    ASSUME Typed, OneSource, NEW step \in Callbacks, Callback(step)
    PROVE  OneSource'
<1>0. Top.r \in Req
  BY AdvanceFacts DEF Callback, Typed
<1>. SUFFICES ASSUME NEW r \in Req, r = Top.r PROVE OneSource'
  BY <1>0
<1>1. /\ r \in Req /\ Pending(r, step)
      /\ \A i, q, x : Owns(stack', i, q, x) => Owns(stack, i, q, x)
      /\ Once(r, step) => \A i : ~Owns(stack', i, r, step)
  BY AdvanceFacts DEF Callback, Typed
<1>2. UNCHANGED <<set, begun, waits, timer, done, timedOut>>
  BY DEF Callback
<1>3. /\ \A q \in Req \ {r} : calls'[q] = calls[q]
      /\ calls'[r].success = calls[r].success + (IF step = "success" THEN 1 ELSE 0)
      /\ calls'[r].complete = calls[r].complete + (IF step = "complete" THEN 1 ELSE 0)
  <2>1. calls[r] \in [success : Nat, error : Nat, complete : Nat]
    BY <1>1 DEF Typed
  <2>2. CASE step \in {"success", "error", "complete"}
    <3>1. calls' = [calls EXCEPT ![r] = [calls[r] EXCEPT ![step] = calls[r][step] + 1]]
      BY <2>2 DEF Callback
    <3>2. \A q \in Req : calls'[q] = IF q = r THEN [calls[r] EXCEPT ![step] = calls[r][step] + 1]
                                     ELSE calls[q]
      BY <1>1, <3>1 DEF Typed
    <3>. QED
      BY <1>1, <2>1, <2>2, <3>2
  <2>3. CASE step \notin {"success", "error", "complete"}
    BY <2>1, <2>3 DEF Callback
  <2>. QED
    BY <2>2, <2>3
<1>4. ASSUME NEW q \in Req \ {r} PROVE Rests(q)
  BY <1>1, <1>2, <1>3, <1>4 DEF Rests
<1>5. \A x : (Pending(r, x)' => Pending(r, x)) /\ (Once(r, x) => Once(r, x)')
  BY <1>1 DEF Pending, Once, Owns
<1>6. calls[r] \in [success : Nat, error : Nat, complete : Nat]
  BY <1>1 DEF Typed
<1>7. CASE step \notin {"success", "complete"}
  <2>1. Rests(r)
    BY <1>1, <1>2, <1>3, <1>6, <1>7 DEF Rests
  <2>. QED
    BY <1>1, <1>4, <2>1, AllRest
<1>8. CASE step \in {"success", "complete"}
  <2>1. /\ Accounted(r) /\ r \in begun /\ ~Uncalled(r)
        /\ waits[r] # "script" /\ ~Pending(r, "inject")
        /\ Remote(r) \/ r \in done
    BY <1>1, <1>8, SourceFacts DEF Critical
  <2>2. Reacts(r)' => Reacts(r)
    BY <1>2, <1>5 DEF Reacts
  <2>3. Remote(r)' <=> Remote(r)
    BY <1>2 DEF Remote
  <2>4. ScriptOnce(r)'
    BY <1>2, <1>5, <2>1, <2>3 DEF ScriptOnce, Accounted
  <2>5. ASSUME CalledOnce(r) PROVE CalledOnce(r)'
    <3>1. Once(r, step) /\ calls[r][step] = 0
      BY <1>1, <1>8, <2>5 DEF CalledOnce
    <3>2. ~Pending(r, step)'
      BY <1>1, <3>1 DEF Pending
    <3>. QED
      BY <1>3, <1>5, <1>6, <1>8, <2>5, <3>1, <3>2 DEF CalledOnce
  <2>6. ASSUME NeverSucceeds(r) PROVE NeverSucceeds(r)'
    <3>1. step # "success"
      BY <1>1, <2>6 DEF NeverSucceeds
    <3>. QED
      BY <1>2, <1>3, <1>5, <1>6, <2>6, <3>1 DEF NeverSucceeds
  <2>7. Accounted(r)'
    BY <1>2, <2>1, <2>2, <2>3, <2>4, <2>5, <2>6 DEF Accounted
  <2>. QED
    BY <1>1, <1>4, <2>7, OneMoves
<1>. QED
  BY <1>7, <1>8

LEMMA EvaluateStep ==
    ASSUME Typed, OneSource, Evaluate
    PROVE  OneSource'
<1>0. /\ stack # <<>> /\ Top \in RunFrames /\ Stacked(stack)
      /\ Top.r \in Req /\ Pending(Top.r, "evaluate")
  BY AdvanceFacts DEF Evaluate, At, On, Typed
<1>. SUFFICES ASSUME NEW r \in Req, r = Top.r PROVE OneSource'
  BY <1>0
<1>. DEFINE f == [Top EXCEPT !.todo = @ \ {"evaluate"}]
            s == Append(Front(stack), f)
            T == Succeeds \cup Completes
            n == Len(s) + 1
<1>1. /\ f \in Frame /\ f.k = "run" /\ f.r = Top.r
      /\ \A x \in f.todo : x \in Top.todo
      /\ Top.k = "run" /\ Len(stack) \in DOMAIN stack
  BY <1>0, StackFacts DEF RunFrames, Frame
<1>2. /\ Stacked(Front(stack)) /\ Len(Front(stack)) + 1 = Len(stack)
      /\ \A i, q, x : Owns(Front(stack), i, q, x) => Owns(stack, i, q, x)
  BY <1>0, FrontFacts
<1>3. \A x \in Top.todo : Owns(stack, Len(stack), Top.r, x)
  BY <1>1 DEF Owns, Top, Last
<1>4. Stacked(s) /\ \A i, q, x : Owns(s, i, q, x) => Owns(stack, i, q, x)
  <2>. HIDE DEF f
  <2>1. /\ Stacked(s)
        /\ \A i, q, x : Owns(s, i, q, x) =>
              Owns(Front(stack), i, q, x) \/ (i = Len(stack) /\ q = f.r /\ x \in f.todo)
    BY <1>1, <1>2, PushFrame
  <2>. QED
    BY <1>1, <1>2, <1>3, <2>1
<1>5. T \in SUBSET Names /\ T \cap Critical = {"success", "complete"}
  BY DEF Succeeds, Completes, Names, Critical
<1>6. stack' = Append(s, Run(r, T, TRUE))
  BY DEF Evaluate
<1>. HIDE DEF f, s, T
<1>7. \A i, q, x : Owns(stack', i, q, x) =>
         Owns(stack, i, q, x) \/ (i = n /\ q = r /\ x \in T)
  <2>1. /\ Run(r, T, TRUE) \in Frame /\ Run(r, T, TRUE).k = "run"
        /\ Run(r, T, TRUE).r = r /\ Run(r, T, TRUE).todo = T
    BY <1>5, RunIsFrame
  <2>. QED
    BY <1>4, <1>6, <2>1, PushFrame
<1>8. UNCHANGED <<set, begun, waits, timer, done, calls, timedOut>>
  BY DEF Evaluate, ghosts
<1>9. ASSUME NEW q \in Req \ {r} PROVE Rests(q)
  BY <1>7, <1>8 DEF Rests
<1>10. Accounted(r)'
  <2>1. /\ Accounted(r) /\ r \in begun
        /\ waits[r] # "script" /\ ~Pending(r, "inject")
        /\ Remote(r) \/ r \in done
    BY <1>0, SourceFacts DEF Critical
  <2>2. set[r].via = "local"
    BY <1>0, <2>1 DEF Accounted, CalledOnce
  <2>3. r \notin timedOut
    BY <1>0, <2>1 DEF Accounted, NeverSucceeds
  <2>4. Gains(r, n, T)
    BY <1>7 DEF Gains
  <2>5. /\ Pending(r, "inject")' => Pending(r, "inject")
        /\ Pending(r, "arm")' => Pending(r, "arm")
        /\ Pending(r, "check")' => Pending(r, "check")
        /\ Once(r, "inject") => Once(r, "inject")'
    BY <1>5, <2>4, GainFacts DEF Critical
  <2>6. ScriptOnce(r)'
    BY <1>8, <2>1, <2>5 DEF Accounted, ScriptOnce, Remote
  <2>7. Reacts(r)' => Reacts(r)
    BY <1>8, <2>5 DEF Reacts
  <2>8. ~Remote(r) /\ r \in done
    BY <2>1, <2>2 DEF Remote
  <2>. QED
    BY <1>8, <2>1, <2>2, <2>3, <2>6, <2>7, <2>8 DEF Accounted, Remote
<1>. QED
  BY <1>9, <1>10, OneMoves

\* The response or the timeout of r is reacted to.  It is reacted to once.
LEMMA ReactStep ==
    ASSUME Typed, OneSource, NEW r \in Req, NEW late \in BOOLEAN, NEW s, Stacked(s),
           \A i, q, x : Owns(s, i, q, x) => Owns(stack, i, q, x),
           React(r, late, s), Reacts(r),
           UNCHANGED <<set, begun, calls>>, \A q \in timer' : q \in timer
    PROVE  OneSource'
<1>1. \A q \in Req : waits'[q] \in {waits[q], None}
  BY ReactFacts
<1>2. CASE /\ UNCHANGED <<done, timedOut>>
           /\ \A i, q : \A x \in Critical : Owns(stack', i, q, x) => Owns(s, i, q, x)
  <2>1. ASSUME NEW q \in Req PROVE Rests(q)
    BY <1>1, <1>2 DEF Rests
  <2>. QED
    BY <2>1, AllRest
<1>3. CASE /\ r \notin done /\ done' = done \cup {r}
           /\ timedOut' = IF late THEN timedOut \cup {r} ELSE timedOut
           /\ waits'[r] = None
           /\ \A i, q, x : Owns(stack', i, q, x) =>
                 \/ Owns(s, i, q, x)
                 \/ i = Len(s) + 1 /\ q = r /\ x \in AfterDone(r, late)
  <2>. DEFINE n == Len(s) + 1
              T == AfterDone(r, late)
  <2>1. ASSUME NEW q \in Req \ {r} PROVE Rests(q)
    <3>1. /\ q \in done <=> q \in done'
          /\ q \in timedOut <=> q \in timedOut'
      BY <1>3
    <3>2. \A i, x : Owns(stack', i, q, x) => Owns(stack, i, q, x)
      BY <1>3
    <3>. QED
      BY <1>1, <3>1, <3>2 DEF Rests
  <2>2. /\ Accounted(r) /\ r \in begun /\ ~Remote(r)
    BY SourceFacts DEF Accounted
  <2>3. Uncalled(r) /\ r \notin timedOut /\ ~Pending(r, "inject") /\ Once(r, "inject")
    BY <1>3, <2>2 DEF Accounted, NeverSucceeds, ScriptOnce
  <2>4. Gains(r, n, T)
    BY <1>3 DEF Gains
  <2>5. /\ T \cap Critical \subseteq {"success", "evaluate", "complete"}
        /\ set[r].via # "local" => "evaluate" \notin T
        /\ late => "success" \notin T /\ "evaluate" \notin T
    BY AfterDoneIsSteps
  <2>. HIDE DEF n, T
  <2>6. /\ ~Pending(r, "inject")' /\ Once(r, "inject")'
        /\ Once(r, "success")' /\ Once(r, "complete")'
        /\ "evaluate" \notin T => ~Pending(r, "evaluate")'
        /\ "success" \notin T => ~Pending(r, "success")'
    BY <2>3, <2>4, <2>5, GainFacts DEF Critical, Uncalled
  <2>7. ScriptOnce(r)'
    BY <1>3, <2>6, AjaxAssumption DEF ScriptOnce
  <2>8. set'[r].via # "local" => CalledOnce(r)'
    BY <2>3, <2>5, <2>6 DEF CalledOnce, Uncalled
  <2>9. r \in timedOut' => NeverSucceeds(r)'
    BY <1>3, <2>3, <2>5, <2>6 DEF NeverSucceeds, Uncalled
  <2>10. Accounted(r)'
    BY <1>3, <2>2, <2>7, <2>8, <2>9 DEF Accounted, Remote
  <2>. QED
    BY <2>1, <2>10, OneMoves
<1>. QED
  BY <1>2, <1>3, ReactFacts

LEMMA ReactingSteps ==
    ASSUME Typed, OneSource,
           Check \/ \E r \in Req : Poll(r) \/ TimeOut(r)
    PROVE  OneSource'
<1>1. Stacked(stack)
  BY DEF Typed
<1>2. CASE Check
  <2>1. /\ stack # <<>> /\ Top.r \in Req /\ Pending(Top.r, "check")
    BY <1>1, <1>2, AdvanceFacts DEF Check, At, On
  <2>. SUFFICES ASSUME NEW r \in Req, r = Top.r PROVE OneSource'
    BY <2>1
  <2>2. Stacked(Front(stack)) /\ \A i, q, x : Owns(Front(stack), i, q, x) => Owns(stack, i, q, x)
    BY <1>1, <2>1, FrontFacts
  <2>3. Reacts(r)
    BY <2>1 DEF Reacts
  <2>. QED
    BY <1>2, <2>2, <2>3, ReactStep DEF Check
<1>3. ASSUME NEW r \in Req, Poll(r) PROVE OneSource'
  <2>1. Reacts(r)
    BY <1>3 DEF Poll, Reacts
  <2>. QED
    BY <1>1, <1>3, <2>1, ReactStep DEF Poll
<1>4. ASSUME NEW r \in Req, TimeOut(r) PROVE OneSource'
  <2>1. Reacts(r) /\ UNCHANGED <<set, begun, calls>> /\ \A q \in timer' : q \in timer
    BY <1>4 DEF TimeOut, Reacts
  <2>2. CASE r \in done
    <3>1. UNCHANGED <<waits, done, stack, timedOut>>
      BY <1>4, <2>2 DEF TimeOut
    <3>2. ASSUME NEW q \in Req PROVE Rests(q)
      BY <2>1, <3>1 DEF Rests
    <3>. QED
      BY <3>2, AllRest
  <2>3. CASE r \notin done
    <3>1. React(r, TRUE, stack)
      BY <1>4, <2>3 DEF TimeOut
    <3>. QED
      BY <1>1, <2>1, <3>1, ReactStep
  <2>. QED
    BY <2>2, <2>3
<1>. QED
  BY <1>2, <1>3, <1>4

LEMMA LoadStep ==
    ASSUME Typed, OneSource, NEW r \in Req, Load(r)
    PROVE  OneSource'
<1>. DEFINE T == Succeeds \cup Completes
<1>1. T \in SUBSET Names /\ T \cap Critical = {"success", "complete"}
  BY DEF Succeeds, Completes, Names, Critical
<1>2. stack = <<>> /\ waits[r] = "script" /\ stack' = Append(<<>>, Run(r, T, FALSE))
  BY DEF Load
<1>. HIDE DEF T
<1>3. /\ Run(r, T, FALSE) \in Frame /\ Run(r, T, FALSE).k = "run"
      /\ Run(r, T, FALSE).r = r /\ Run(r, T, FALSE).todo = T
  BY <1>1, RunIsFrame
<1>4. \A i, q, x : Owns(stack', i, q, x) => i = Len(<<>>) + 1 /\ q = r /\ x \in T
  BY <1>2, <1>3, EmptyIsStacked, PushFrame
<1>5. /\ UNCHANGED <<set, begun, timer, done, calls, timedOut>>
      /\ waits' = [waits EXCEPT ![r] = None]
  BY DEF Load, ghosts
<1>6. ASSUME NEW q \in Req \ {r} PROVE Rests(q)
  BY <1>4, <1>5 DEF Rests, Typed
<1>7. Accounted(r)'
  <2>1. Accounted(r) /\ r \in begun
    BY <1>2, SourceFacts, AjaxAssumption
  <2>2. Remote(r) /\ Uncalled(r)
    BY <1>2, <2>1 DEF Accounted, ScriptOnce
  <2>3. r \notin done /\ r \notin timer /\ r \notin timedOut
    BY <2>1, <2>2 DEF Accounted, Reacts, NeverSucceeds
  <2>4. /\ ~Pending(r, "inject")' /\ ~Pending(r, "arm")' /\ ~Pending(r, "check")'
        /\ ~Pending(r, "evaluate")'
        /\ Once(r, "inject")' /\ Once(r, "success")' /\ Once(r, "complete")'
    BY <1>1, <1>4 DEF Pending, Once, Critical
  <2>5. waits'[r] = None
    BY <1>5 DEF Typed
  <2>6. ScriptOnce(r)'
    BY <2>4, <2>5, AjaxAssumption DEF ScriptOnce
  <2>7. CalledOnce(r)'
    BY <1>5, <2>2, <2>4 DEF CalledOnce, Uncalled
  <2>8. ~Reacts(r)'
    BY <1>5, <2>3, <2>4, <2>5, AjaxAssumption DEF Reacts
  <2>. QED
    BY <1>5, <2>1, <2>2, <2>3, <2>6, <2>7, <2>8 DEF Accounted, Remote
<1>. QED
  BY <1>6, <1>7, OneMoves

-----------------------------------------------------------------------------
LEMMA OneSourceInit == Init => OneSource
<1>. SUFFICES ASSUME Init, NEW r \in Req PROVE Accounted(r)
  BY DEF OneSource
<1>1. \A x : ~Pending(r, x) /\ Once(r, x)
  BY EmptyIsStacked DEF Init, Pending, Once
<1>2. /\ waits[r] = None /\ done = {} /\ timer = {} /\ timedOut = {}
      /\ calls[r].success = 0 /\ calls[r].complete = 0
  BY DEF Init
<1>3. Unknown(r) /\ Uncalled(r) /\ ~Reacts(r)
  BY <1>1, <1>2, AjaxAssumption DEF Unknown, Uncalled, Reacts
<1>. QED
  BY <1>1, <1>2, <1>3, AjaxAssumption DEF Accounted, ScriptOnce, CalledOnce

LEMMA OneSourceNext == Typed /\ OneSource /\ [Next]_vars => OneSource'
BY QuietSteps, BeginStep, InjectStep, ArmStep, CallbackStep, EvaluateStep, ReactingSteps,
   LoadStep DEF Next, Steps

\* Every call in progress is one the library can make, and every function of the
\* page that runs was called by a call of the library (the stack that ajax,
\* onreadystatechange and their callbacks build).
THEOREM StackTyped == Spec => []Typed
BY TypedInit, TypedNext, PTL DEF Spec

\* A request has one outcome: success and complete are called at most once, unless
\* it is JSONP from the own host, and never success after a timeout, however many
\* requests there are and however polls, timeouts, answers, aborts and callbacks
\* interleave (requestDone in onreadystatechange of jQuery.ajax).
THEOREM OutcomeOnce == Spec => []OneOutcome
<1>1. Init => Typed /\ OneSource
  BY TypedInit, OneSourceInit
<1>2. (Typed /\ OneSource) /\ [Next]_vars => (Typed /\ OneSource)'
  BY TypedNext, OneSourceNext
<1>3. Typed /\ OneSource => OneOutcome
  <2>. SUFFICES ASSUME Typed, OneSource PROVE OneOutcome
    OBVIOUS
  <2>1. CompletesOnce
    BY DEF OneSource, Accounted, CalledOnce, CompletesOnce
  <2>2. TimeoutExcludesSuccess
    <3>. SUFFICES ASSUME NEW r \in timedOut PROVE calls[r].success = 0
      BY DEF TimeoutExcludesSuccess
    <3>. QED
      BY DEF OneSource, Accounted, NeverSucceeds, Typed
  <2>. QED
    BY <2>1, <2>2 DEF OneOutcome
<1>. QED
  BY <1>1, <1>2, <1>3, PTL DEF Spec
=============================================================================
