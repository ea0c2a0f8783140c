--------------------------- MODULE JQAjaxCountProofs ---------------------------
(***************************************************************************)
(* Proofs about JQAjax, continued: jQuery.active is exact, an aborted      *)
(* request is silent, and no callback is called more than twice.           *)
(*                                                                         *)
(* ActiveIsExact is not inductive: a step that counts down must know that  *)
(* the request is counted, and that nobody else will count it down.  The   *)
(* invariant Charged is the ledger of each request that says so.           *)
(*   InCharge   a request is waited for, or left to one call in progress,  *)
(*              or lost, or not begun, and only one of these;              *)
(*   Evaluated  the response of a JSONP request is evaluated once, and so  *)
(*              counted down twice at most;                                *)
(*   Silent     nothing of an aborted request is left that calls the page. *)
(* It rests on Known: Shape says which steps a call may have to do         *)
(* together, and Placed that a call about to send, or to report that send  *)
(* has thrown, is the innermost, so that no abort and no timeout comes     *)
(* between the two.                                                        *)
(*                                                                         *)
(* A step of the library changes what one request has to expect and leaves *)
(* the others as they were: Kept and Still say so, one lemma for each      *)
(* action shows the ledger of its request, and OthersStill the rest.  The  *)
(* count then follows from the set of requests in progress, which a step   *)
(* leaves, or changes by one request; only an exception drops several.     *)
(*                                                                         *)
(* The types need one more ledger, Tally, of how often each callback was   *)
(* called and still may be: error when send throws and again at the end    *)
(* (ErrorsTwice), complete inside the response and after it                *)
(* (CompletesTwice).                                                       *)
(***************************************************************************)
EXTENDS JQAjaxProofs

\* The steps by which a request comes off the count in the end.
Duties == {"start", "inject", "arm", "check", "uncount"}

\* The steps of ajax itself, before there is a response.
Early == {"start", "inject", "open", "beforeSend", "ajaxSend", "arm", "send", "check"}

\* A call that has such a step of its own request to do.
Bears(f) == f.k = "run" /\ ~f.local /\ f.todo \cap Duties # {}

\* The steps that a call of the library may have to do together.
Shape(f) ==
    /\ f.local => f.todo \subseteq Succeeds \cup Completes
    /\ "start" \in f.todo => "inject" \in f.todo \/ "arm" \in f.todo
    /\ "inject" \in f.todo => f.todo \subseteq {"start", "inject"}
    /\ f.todo \cap {"open", "beforeSend", "ajaxSend"} # {} => "arm" \in f.todo
    /\ "arm" \in f.todo =>
          f.todo \subseteq Early /\ ("check" \in f.todo <=> set[f.r].via = "sync")
    /\ "check" \in f.todo => set[f.r].via = "sync"
    /\ "send" \in f.todo => f.todo \subseteq Early
    /\ "close" \in f.todo => f.todo \subseteq Fails \cup Completes \cup {"close"}

\* After arm nothing is called of the page before send and error are done; and
\* beforeSend is called before arm.
Bare(f) == "error" \in f.todo \/ ("send" \in f.todo /\ "arm" \notin f.todo)
Placed(s) ==
    \A i \in DOMAIN s :
        /\ s[i].k = "run" => Shape(s[i]) /\ (Bare(s[i]) => i = Len(s))
        /\ s[i].k = "page" /\ s[i].step = "beforeSend" =>
              "arm" \in s[i - 1].todo /\ "start" \notin s[i - 1].todo /\ ~s[i - 1].local

Known ==
    /\ begun \subseteq Req /\ lost \subseteq Req /\ doubled \subseteq Req
    /\ active \in Int
    /\ ready \in [Req -> {None, 0, 1, 4}]
    /\ Placed(stack)

Bearer(i, r) == i \in DOMAIN stack /\ stack[i].r = r /\ Bears(stack[i])

\* The completion of r in its own response.
Inner(i, r) == Owns(stack, i, r, "uncount") /\ stack[i].local

\* Who is responsible for r: what the library waits for, or one call in progress.
InCharge(r) ==
    /\ \A i, j : Bearer(i, r) /\ Bearer(j, r) => i = j
    /\ r \notin begun \/ waits[r] # None \/ r \in lost => \A i : ~Bearer(i, r)
    /\ r \in lost => waits[r] = None
    /\ r \notin begun =>
          /\ r \notin lost /\ r \notin done /\ waits[r] = None /\ ready[r] # 0
          /\ ~Pending(r, "close")
    /\ r \in done => \A x \in Early : ~Pending(r, x)
    /\ r \in timer => r \in done \/ ready[r] = 0 \/ waits[r] = "poll"
    /\ ready[r] = 0 => r \notin flying
    /\ ready[r] = 0 \/ Pending(r, "close") => ~Pending(r, "open") /\ ~Pending(r, "send")

\* A response is evaluated once, and completes its request inside once.
Evaluated(r) ==
    /\ r \notin done => ~Pending(r, "evaluate") /\ r \notin doubled /\ \A i : ~Inner(i, r)
    /\ Once(r, "evaluate")
    /\ \A i, j : Inner(i, r) /\ Inner(j, r) => i = j
    /\ Pending(r, "evaluate") => r \notin doubled /\ \A i : ~Inner(i, r)
    /\ r \in doubled => \A i : ~Inner(i, r)

Silent(r) ==
    r \in silenced =>
        ready[r] = 0 /\ r \notin done /\ ~Remote(r) /\ ~Pending(r, "error")

Ledger(r) == InCharge(r) /\ Evaluated(r) /\ Silent(r)
Charged == \A r \in Req : Ledger(r)

CountInv == Known /\ Charged /\ ActiveIsExact
-----------------------------------------------------------------------------
(* The order of the steps.                                                 *)

LEMMA OrderIs == ToSet(Order) = Names /\ DOMAIN Order = 1..18
<1>1. DOMAIN Order = 1..18
  BY DEF Order
<1>2. ASSUME NEW i \in 1..18 PROVE Order[i] \in Names
  BY DEF Order, Names
<1>3. ASSUME NEW x \in Names PROVE \E i \in 1..18 : Order[i] = x
  BY DEF Order, Names
<1>. QED
  BY <1>1, <1>2, <1>3 DEF ToSet

\* The place of a step in the order.
Rank == [x \in Names |->
            CASE x = "start" -> 1 [] x = "inject" -> 2 [] x = "open" -> 3
              [] x = "beforeSend" -> 4 [] x = "ajaxSend" -> 5 [] x = "arm" -> 6
              [] x = "send" -> 7 [] x = "error" -> 8 [] x = "ajaxError" -> 9
              [] x = "check" -> 10 [] x = "evaluate" -> 11 [] x = "remember" -> 12
              [] x = "success" -> 13 [] x = "ajaxSuccess" -> 14 [] x = "complete" -> 15
              [] x = "ajaxComplete" -> 16 [] x = "uncount" -> 17 [] x = "close" -> 18]

LEMMA RankIs ==
    /\ Rank["start"] = 1 /\ Rank["inject"] = 2 /\ Rank["open"] = 3
    /\ Rank["beforeSend"] = 4 /\ Rank["ajaxSend"] = 5 /\ Rank["arm"] = 6
    /\ Rank["send"] = 7 /\ Rank["error"] = 8 /\ Rank["ajaxError"] = 9
    /\ Rank["check"] = 10 /\ Rank["evaluate"] = 11 /\ Rank["remember"] = 12
    /\ Rank["success"] = 13 /\ Rank["ajaxSuccess"] = 14 /\ Rank["complete"] = 15
    /\ Rank["ajaxComplete"] = 16 /\ Rank["uncount"] = 17 /\ Rank["close"] = 18
BY DEF Rank, Names

LEMMA RankOf ==
    /\ \A i \in 1..18 : Rank[Order[i]] = i
    /\ \A x \in Names : Rank[x] \in 1..18 /\ Order[Rank[x]] = x
<1>1. ASSUME NEW i \in 1..18 PROVE Rank[Order[i]] = i
  BY DEF Rank, Names, Order
<1>2. ASSUME NEW x \in Names PROVE Rank[x] \in 1..18 /\ Order[Rank[x]] = x
  <2>1. PICK i \in 1..18 : Order[i] = x
    BY OrderIs DEF ToSet
  <2>. QED
    BY <1>1, <2>1
<1>. QED
  BY <1>1, <1>2

\* A step is done when those before it are.
LEMMA FirstStep ==
    ASSUME NEW step \in Names, At(step), NEW x \in Names, Rank[x] < Rank[step]
    PROVE  x \notin Top.todo
<1>1. Before[step] = {Order[i] : i \in {j \in 1..18 : \A k \in 1..j : Order[k] # step}}
  BY OrderIs DEF Before
<1>2. \A k \in 1..Rank[x] : Order[k] # step
  BY RankOf
<1>3. x \in Before[step]
  BY <1>1, <1>2, RankOf
<1>. QED
  BY <1>3 DEF At

-----------------------------------------------------------------------------
(* What happens to the frames.                                             *)

LEMMA CalledIs ==
    ASSUME Stacked(stack), On("run"), NEW todo \in SUBSET Names, NEW step,
           stack' = Called(todo, step)
    PROVE  /\ Len(stack) - 1 \in Nat /\ DOMAIN stack = 1..Len(stack)
           /\ Top \in RunFrames /\ stack[Len(stack)] = Top
           /\ Stacked(stack')
           /\ \A i \in 1..(Len(stack) - 1) : stack'[i] = stack[i]
           /\ stack'[Len(stack)] = [Top EXCEPT !.todo = todo]
           /\ step \notin Hooks => DOMAIN stack' = 1..Len(stack) /\ Len(stack') = Len(stack)
           /\ step \in Hooks => /\ DOMAIN stack' = 1..(Len(stack) + 1)
                                /\ stack'[Len(stack) + 1] = Page(Top.r, step)
                                /\ Len(stack') = Len(stack) + 1
<1>. DEFINE f == [Top EXCEPT !.todo = todo]
            u == Front(stack)
            s == Append(u, f)
            n == Len(stack)
<1>1. stack # <<>> /\ Top \in RunFrames
  BY FrontFacts DEF On, Top
<1>2. f \in Frame /\ f.k = "run" /\ Top.r \in Req
  BY <1>1 DEF RunFrames, Frame
<1>. HIDE DEF f
<1>3. n \in Nat \ {0} /\ DOMAIN stack = 1..n /\ stack[n] = Top
  BY <1>1, FrontFacts, StackFacts DEF Top, Last
<1>4. n - 1 \in 0..n
  BY <1>3
<1>5. Stacked(u) /\ Len(u) = n - 1 /\ \A i \in 1..(n - 1) : u[i] = stack[i]
  BY <1>4, PrefixIsStacked DEF Front
<1>. HIDE DEF u
<1>6. Len(u) + 1 = n /\ u \in Seq(Frame)
  BY <1>3, <1>5, StackFacts
<1>7. /\ Stacked(s) /\ Len(s) = n /\ s # <<>> /\ Last(s).k = "run"
      /\ s[n] = f /\ \A i \in 1..(n - 1) : s[i] = stack[i]
  <2>1. Stacked(s) /\ Len(s) = n /\ s # <<>> /\ Last(s).k = "run"
    BY <1>2, <1>5, <1>6, PushFrame
  <2>2. s[n] = f /\ \A i \in 1..Len(u) : s[i] = u[i]
    BY <1>2, <1>6, AppendProperties
  <2>. QED
    BY <1>5, <2>1, <2>2
<1>. HIDE DEF s
<1>8. s \in Seq(Frame) /\ DOMAIN s = 1..n
  BY <1>7, StackFacts
<1>9. CASE step \notin Hooks
  <2>1. stack' = s
    BY <1>9 DEF Called, s, u, f
  <2>2. /\ Stacked(stack') /\ Len(stack') = n /\ DOMAIN stack' = 1..n
        /\ stack'[n] = f /\ \A i \in 1..(n - 1) : stack'[i] = stack[i]
    BY <1>7, <1>8, <2>1
  <2>3. n - 1 \in Nat
    BY <1>3
  <2>. QED
    BY <1>1, <1>3, <1>9, <2>2, <2>3 DEF f
<1>10. CASE step \in Hooks
  <2>. DEFINE p == Page(Top.r, step)
  <2>1. stack' = Append(s, p)
    BY <1>10 DEF Called, s, u, f
  <2>2. p \in Frame
    BY <1>2, <1>10 DEF Page, Frame, PageFrames
  <2>. HIDE DEF p
  <2>3. Stacked(stack') /\ Len(stack') = n + 1
    BY <1>7, <2>1, <2>2, PushFrame
  <2>4. stack'[n + 1] = p /\ \A i \in 1..n : stack'[i] = s[i]
    BY <1>7, <1>8, <2>1, <2>2, AppendProperties
  <2>5. DOMAIN stack' = 1..(n + 1)
    BY <2>3, StackFacts
  <2>6. \A i \in 1..(n - 1) : stack'[i] = stack[i]
    BY <1>3, <1>7, <2>4
  <2>7. stack'[n] = f
    BY <1>3, <1>7, <2>4
  <2>8. n - 1 \in Nat
    BY <1>3
  <2>. QED
    BY <1>1, <1>3, <1>10, <2>3, <2>4, <2>5, <2>6, <2>7, <2>8 DEF f, p
<1>. QED
  BY <1>9, <1>10

LEMMA PushIs ==
    ASSUME NEW s, Stacked(s), NEW f \in RunFrames
    PROVE  /\ Stacked(Append(s, f)) /\ Len(Append(s, f)) = Len(s) + 1
           /\ Len(s) \in Nat /\ DOMAIN s = 1..Len(s)
           /\ DOMAIN Append(s, f) = 1..(Len(s) + 1)
           /\ \A i \in 1..Len(s) : Append(s, f)[i] = s[i]
           /\ Append(s, f)[Len(s) + 1] = f
<1>1. f \in Frame /\ f.k = "run"
  BY DEF Frame, RunFrames
<1>2. Stacked(Append(s, f)) /\ Len(Append(s, f)) = Len(s) + 1
  BY <1>1, PushFrame
<1>3. DOMAIN Append(s, f) = 1..(Len(s) + 1) /\ Len(s) \in Nat /\ s \in Seq(Frame) /\ DOMAIN s = 1..Len(s)
  BY <1>2, StackFacts
<1>4. /\ \A i \in 1..Len(s) : Append(s, f)[i] = s[i]
      /\ Append(s, f)[Len(s) + 1] = f
  BY <1>1, <1>3, AppendProperties
<1>. QED
  BY <1>2, <1>3, <1>4

\* The calls below the first n go on as they were.
LEMMA PlacedPrefix ==
    ASSUME NEW s, Stacked(s), Placed(s), NEW n \in 0..Len(s)
    PROVE  Placed(SubSeq(s, 1, n))
<1>. DEFINE u == SubSeq(s, 1, n)
<1>1. Len(s) \in Nat /\ DOMAIN s = 1..Len(s)
  BY StackFacts
<1>2. Stacked(u) /\ Len(u) = n /\ \A i \in 1..n : u[i] = s[i]
  BY PrefixIsStacked
<1>3. DOMAIN u = 1..n
  BY <1>2, StackFacts
<1>. HIDE DEF u
<1>4. ASSUME NEW i \in 1..n
      PROVE  /\ u[i].k = "run" => Shape(u[i]) /\ (Bare(u[i]) => i = Len(u))
             /\ u[i].k = "page" /\ u[i].step = "beforeSend" =>
                  "arm" \in u[i - 1].todo /\ "start" \notin u[i - 1].todo /\ ~u[i - 1].local
  <2>1. i \in DOMAIN s /\ u[i] = s[i]
    BY <1>1, <1>2
  <2>2. u[i].k = "run" => Shape(u[i]) /\ (Bare(u[i]) => i = Len(s))
    BY <2>1 DEF Placed
  <2>3. i = Len(s) => i = Len(u)
    <3>1. i <= n /\ n <= Len(s) /\ i \in Nat /\ n \in Nat
      BY <1>1
    <3>2. \A m \in Nat : n <= m /\ i = m => i = n
      BY <3>1
    <3>3. i = Len(s) => i = n
      BY <1>1, <3>1, <3>2
    <3>. QED
      BY <1>2, <3>3
  <2>4. ASSUME u[i].k = "page" PROVE i > 1 /\ u[i - 1] = s[i - 1]
    <3>1. i > 1
      BY <1>2, <1>3, <2>4 DEF Stacked
    <3>. QED
      BY <1>1, <1>2, <3>1
  <2>. QED
    BY <2>1, <2>2, <2>3, <2>4 DEF Placed
<1>. QED
  BY <1>3, <1>4 DEF Placed, u

\* No call is bare that is not the innermost.
Covered(s) == \A i \in DOMAIN s : s[i].k = "run" => ~Bare(s[i])

LEMMA PlacedPush ==
    ASSUME NEW s, Stacked(s), Placed(s), Covered(s), NEW f \in RunFrames, Shape(f)
    PROVE  Placed(Append(s, f))
<1>. DEFINE u == Append(s, f)
<1>1. /\ Len(s) \in Nat /\ DOMAIN s = 1..Len(s) /\ Len(u) = Len(s) + 1 /\ DOMAIN u = 1..(Len(s) + 1)
      /\ \A i \in 1..Len(s) : u[i] = s[i]
      /\ u[Len(s) + 1] = f /\ Stacked(u)
  BY PushIs
<1>. HIDE DEF u
<1>2. f.k = "run"
  BY DEF RunFrames
<1>3. ASSUME NEW i \in 1..Len(s)
      PROVE  /\ u[i].k = "run" => Shape(u[i]) /\ ~Bare(u[i])
             /\ u[i].k = "page" /\ u[i].step = "beforeSend" =>
                  "arm" \in u[i - 1].todo /\ "start" \notin u[i - 1].todo /\ ~u[i - 1].local
  <2>1. i \in DOMAIN s /\ u[i] = s[i] /\ i \in DOMAIN u
    BY <1>1
  <2>2. ASSUME u[i].k = "page" PROVE u[i - 1] = s[i - 1]
    <3>1. i > 1
      BY <1>1, <2>1, <2>2 DEF Stacked
    <3>. QED
      BY <1>1, <3>1
  <2>. QED
    BY <2>1, <2>2 DEF Placed, Covered
<1>4. \A i \in 1..(Len(s) + 1) : i \in 1..Len(s) \/ i = Len(s) + 1
  BY <1>1
<1>5. Placed(u)
  BY <1>1, <1>2, <1>3, <1>4 DEF Placed
<1>. QED
  BY <1>5 DEF u

\* Below the innermost call every call is covered; so is every call when a function
\* of the page is the innermost.
LEMMA CoveredBelow ==
    ASSUME NEW s, Stacked(s), Placed(s), s # <<>>
    PROVE  /\ Stacked(Front(s)) /\ Placed(Front(s)) /\ Covered(Front(s))
           /\ Last(s).k = "page" => Covered(s)
<1>1. Len(s) \in Nat \ {0} /\ DOMAIN s = 1..Len(s)
  BY FrontFacts, StackFacts
<1>2. Len(s) - 1 \in 0..Len(s)
  BY <1>1
<1>3. /\ Stacked(Front(s)) /\ Len(Front(s)) = Len(s) - 1
      /\ \A i \in 1..(Len(s) - 1) : Front(s)[i] = s[i]
  BY <1>2, PrefixIsStacked DEF Front
<1>4. Placed(Front(s))
  BY <1>2, PlacedPrefix DEF Front
<1>5. DOMAIN Front(s) = 1..(Len(s) - 1)
  BY <1>3, StackFacts
<1>6. Covered(Front(s))
  BY <1>1, <1>3, <1>5 DEF Covered, Placed
<1>7. Last(s).k = "page" => Covered(s)
  BY <1>1 DEF Covered, Placed, Last
<1>. QED
  BY <1>3, <1>4, <1>6, <1>7

LEMMA PlacedPrime ==
    ASSUME UNCHANGED set, Placed(stack')
    PROVE  Placed(stack)'
BY DEF Placed, Shape, Bare

LEMMA CalledPlaced ==
    ASSUME Stacked(stack), Placed(stack), On("run"), NEW todo \in SUBSET Names, NEW step,
           stack' = Called(todo, step), UNCHANGED set,
           Shape([Top EXCEPT !.todo = todo]),
           step \in Hooks => ~Bare([Top EXCEPT !.todo = todo]),
           step \in Hooks /\ step = "beforeSend" =>
              "arm" \in todo /\ "start" \notin todo /\ ~Top.local
    PROVE  Placed(stack)'
<1>. DEFINE n == Len(stack)
            f == [Top EXCEPT !.todo = todo]
<1>1. /\ n - 1 \in Nat /\ DOMAIN stack = 1..n
      /\ Top \in RunFrames
      /\ Stacked(stack')
      /\ \A i \in 1..(n - 1) : stack'[i] = stack[i]
      /\ stack'[n] = f
      /\ step \notin Hooks => DOMAIN stack' = 1..n /\ Len(stack') = n
      /\ step \in Hooks => /\ DOMAIN stack' = 1..(n + 1)
                           /\ stack'[n + 1] = Page(Top.r, step)
                           /\ Len(stack') = n + 1
  BY CalledIs
<1>2. f.k = "run" /\ f.todo = todo /\ f.local = Top.local
  BY <1>1 DEF RunFrames
<1>3. n \in Nat
  BY <1>1, StackFacts
<1>4. Shape(f) /\ (step \in Hooks => ~Bare(f))
  OBVIOUS
<1>. HIDE DEF f
<1>5. ASSUME NEW i \in 1..(n - 1)
      PROVE  /\ stack'[i].k = "run" => Shape(stack'[i]) /\ ~Bare(stack'[i])
             /\ stack'[i].k = "page" /\ stack'[i].step = "beforeSend" =>
                  "arm" \in stack'[i - 1].todo /\ "start" \notin stack'[i - 1].todo /\ ~stack'[i - 1].local
  <2>1. i \in DOMAIN stack /\ stack'[i] = stack[i] /\ i # n
    BY <1>1, <1>3
  <2>2. ASSUME stack[i].k = "page" PROVE stack'[i - 1] = stack[i - 1]
    <3>1. i > 1
      BY <2>1, <2>2 DEF Stacked
    <3>. QED
      BY <1>1, <1>3, <3>1
  <2>. QED
    BY <2>1, <2>2 DEF Placed
<1>6. CASE step \notin Hooks
  <2>1. \A i \in 1..n : i \in 1..(n - 1) \/ i = n
    BY <1>3
  <2>2. Placed(stack')
    BY <1>1, <1>2, <1>4, <1>5, <1>6, <2>1 DEF Placed
  <2>. QED
    BY <2>2, PlacedPrime
<1>7. CASE step \in Hooks
  <2>1. \A i \in 1..(n + 1) : i \in 1..(n - 1) \/ i = n \/ (i = n + 1 /\ i - 1 = n)
    BY <1>3
  <2>2. /\ stack'[n + 1].k = "page" /\ stack'[n + 1].step = step
        /\ DOMAIN stack' = 1..(n + 1) /\ Len(stack') = n + 1
    <3>1. Page(Top.r, step).k = "page" /\ Page(Top.r, step).step = step
      BY DEF Page
    <3>. QED
      BY <1>1, <1>7, <3>1
  <2>3. Placed(stack')
    <3>. SUFFICES ASSUME NEW i \in 1..(n + 1)
                  PROVE  /\ stack'[i].k = "run" => Shape(stack'[i]) /\ ~Bare(stack'[i])
                         /\ stack'[i].k = "page" /\ stack'[i].step = "beforeSend" =>
                              /\ "arm" \in stack'[i - 1].todo /\ "start" \notin stack'[i - 1].todo
                              /\ ~stack'[i - 1].local
      BY <2>2 DEF Placed
    <3>1. CASE i \in 1..(n - 1)
      BY <1>5, <3>1
    <3>2. CASE i = n
      BY <1>1, <1>2, <1>4, <1>7, <3>2
    <3>3. CASE i = n + 1 /\ i - 1 = n
      BY <1>1, <1>2, <2>2, <3>3
    <3>. QED
      BY <2>1, <3>1, <3>2, <3>3
  <2>. QED
    BY <2>3, PlacedPrime
<1>. QED
  BY <1>6, <1>7

-----------------------------------------------------------------------------
(* The calls keep their shape.                                             *)

LEMMA TopShape ==
    ASSUME Typed, Placed(stack), On("run")
    PROVE  /\ stack # <<>> /\ Top \in RunFrames /\ Top.r \in Req /\ Top.todo \in SUBSET Names
           /\ Top.k = "run" /\ Shape(Top)
<1>1. Stacked(stack) /\ stack # <<>> /\ Top \in RunFrames
  BY FrontFacts DEF Typed, On, Top
<1>2. Top.k = "run" /\ Top.r \in Req /\ Top.todo \in SUBSET Names
  BY <1>1 DEF RunFrames
<1>3. Len(stack) \in DOMAIN stack
  BY <1>1, StackFacts
<1>. QED
  BY <1>1, <1>2, <1>3 DEF Placed, Top, Last

LEMMA StepShape ==
    ASSUME Typed, Placed(stack), NEW step \in Names \ {"check"}, At(step)
    PROVE  /\ Shape([Top EXCEPT !.todo = Top.todo \ {step}])
           /\ step \in Callbacks \cup {"start", "evaluate", "uncount"} =>
                ~Bare([Top EXCEPT !.todo = Top.todo \ {step}])
           /\ step = "beforeSend" =>
                "arm" \in Top.todo \ {step} /\ "start" \notin Top.todo /\ ~Top.local
           /\ step # "start" => "start" \notin Top.todo
<1>. DEFINE todo == Top.todo \ {step}
            f == [Top EXCEPT !.todo = todo]
<1>1. Top \in RunFrames /\ Top.todo \in SUBSET Names /\ Shape(Top) /\ step \in Top.todo
  BY TopShape DEF At
<1>2. f.k = "run" /\ f.r = Top.r /\ f.todo = todo /\ f.local = Top.local
  BY <1>1 DEF RunFrames
<1>. HIDE DEF f
<1>3. step # "start" => "start" \notin Top.todo
  BY FirstStep, RankIs DEF Names
<1>4. step = "arm" => Top.todo \cap {"open", "beforeSend", "ajaxSend"} = {}
  BY FirstStep, RankIs DEF Names
<1>5. Shape(f)
  BY <1>1, <1>2, <1>3, <1>4 DEF Shape
<1>6. ASSUME step \in Callbacks \cup {"start", "evaluate", "uncount"} PROVE ~Bare(f)
  <2>1. CASE step \in {"start", "beforeSend", "ajaxSend"}
    <3>1. "error" \notin Top.todo /\ ("send" \in Top.todo => "arm" \in Top.todo)
      BY <1>1, <2>1 DEF Shape, Early
    <3>. QED
      BY <1>2, <2>1, <3>1 DEF Bare
  <2>2. CASE step \notin {"start", "beforeSend", "ajaxSend"}
    <3>1. step = "error" \/ "error" \notin Top.todo
      BY <1>6, <2>2, FirstStep, RankIs DEF Callbacks, Names
    <3>2. "send" \notin Top.todo
      BY <1>6, <2>2, FirstStep, RankIs DEF Callbacks, Names
    <3>. QED
      BY <1>2, <3>1, <3>2 DEF Bare
  <2>. QED
    BY <2>1, <2>2
<1>7. step = "beforeSend" => "arm" \in todo /\ ~Top.local
  BY <1>1 DEF Shape, Succeeds, Completes
<1>. QED
  BY <1>3, <1>5, <1>6, <1>7 DEF f

LEMMA StepPlaced ==
    ASSUME Typed, Placed(stack), NEW step \in Names \ {"check"}, At(step), NEW hook,
           stack' = Called(Top.todo \ {step}, hook), UNCHANGED set,
           \/ hook = None
           \/ hook = step /\ step \in Callbacks
           \/ hook = "ajaxStart" /\ step = "start"
           \/ hook = "ajaxStop" /\ step = "uncount"
    PROVE  Placed(stack)'
<1>. DEFINE todo == Top.todo \ {step}
            f == [Top EXCEPT !.todo = todo]
<1>1. Stacked(stack) /\ On("run") /\ todo \in SUBSET Names
  BY TopShape DEF At, Typed
<1>2. Shape(f)
  BY StepShape
<1>3. hook \in Hooks => ~Bare(f)
  BY StepShape, AjaxAssumption
<1>4. ASSUME hook \in Hooks, hook = "beforeSend"
      PROVE  "arm" \in todo /\ "start" \notin todo /\ ~Top.local
  <2>1. step = "beforeSend"
    BY <1>4, AjaxAssumption
  <2>. QED
    BY <2>1, StepShape
<1>. QED
  BY <1>1, <1>2, <1>3, <1>4, CalledPlaced

LEMMA UncaughtIs ==
    ASSUME Stacked(stack)
    PROVE  /\ Len(Uncaught(stack)) \in 0..Len(stack)
           /\ Uncaught(stack) = SubSeq(stack, 1, Len(Uncaught(stack)))
<1>. DEFINE below == {i \in DOMAIN stack :
                         \E j \in DOMAIN stack : i < j /\ stack[j].k = "run" /\ stack[j].local}
            S == 1..Len(stack)
<1>1. Len(stack) \in Nat /\ DOMAIN stack = S
  BY StackFacts
<1>2. 1 \in Int /\ Len(stack) \in Int
  BY <1>1
<1>3. IsFiniteSet(S) /\ Cardinality(S) = IF 1 > Len(stack) THEN 0 ELSE Len(stack) - 1 + 1
  BY <1>2, FS_Interval
<1>4. Cardinality(S) = Len(stack)
  BY <1>1, <1>3
<1>5. below \in SUBSET S
  BY <1>1
<1>. HIDE DEF below, S
<1>6. IsFiniteSet(below) /\ Cardinality(below) <= Cardinality(S)
  BY <1>3, <1>5, FS_Subset
<1>7. Cardinality(below) \in Nat
  BY <1>6, FS_CardinalityType
<1>8. Cardinality(below) \in 0..Len(stack)
  BY <1>1, <1>4, <1>6, <1>7
<1>9. Uncaught(stack) = SubSeq(stack, 1, Cardinality(below))
  BY DEF Uncaught, below
<1>10. Len(SubSeq(stack, 1, Cardinality(below))) = Cardinality(below)
  BY <1>8, PrefixIsStacked
<1>. QED
  BY <1>8, <1>9, <1>10

LEMMA AfterDoneShape ==
    ASSUME NEW r \in Req, NEW late \in BOOLEAN
    PROVE  /\ Run(r, AfterDone(r, late), FALSE) \in RunFrames
           /\ Shape(Run(r, AfterDone(r, late), FALSE))
           /\ "uncount" \in AfterDone(r, late)
           /\ AfterDone(r, late) \cap Early = {}
<1>. DEFINE todo == AfterDone(r, late)
<1>1. todo \in SUBSET Names
  BY AfterDoneIsSteps
<1>2. /\ todo \cap Early = {} /\ "uncount" \in todo
      /\ "close" \in todo => todo \subseteq Fails \cup Completes \cup {"close"}
  BY DEF AfterDone, Status, Fails, Succeeds, Completes, Early
<1>. HIDE DEF todo
<1>4. "start" \notin todo /\ "inject" \notin todo /\ "open" \notin todo /\ "arm" \notin todo
      /\ "check" \notin todo /\ "send" \notin todo /\ "beforeSend" \notin todo /\ "ajaxSend" \notin todo
  BY <1>2 DEF Early
<1>. DEFINE f == Run(r, todo, FALSE)
<1>5. f.todo = todo /\ f.local = FALSE /\ f.r = r
  BY DEF Run
<1>6. f \in RunFrames
  BY <1>1 DEF Run, RunFrames
<1>. HIDE DEF f
<1>7. f.todo \cap {"open", "beforeSend", "ajaxSend"} = {}
  BY <1>4, <1>5
<1>8. Shape(f)
  BY <1>2, <1>4, <1>5, <1>7 DEF Shape
<1>. QED
  BY <1>2, <1>6, <1>8 DEF todo, f

LEMMA UncountShape ==
    ASSUME NEW r \in Req
    PROVE  Run(r, {"uncount"}, FALSE) \in RunFrames /\ Shape(Run(r, {"uncount"}, FALSE))
BY DEF Run, RunFrames, Shape, Names

LEMMA CompletesShape ==
    ASSUME NEW r \in Req, NEW local \in BOOLEAN
    PROVE  /\ Run(r, Succeeds \cup Completes, local) \in RunFrames
           /\ Shape(Run(r, Succeeds \cup Completes, local))
<1>1. Succeeds \cup Completes \in SUBSET Names
  BY DEF Succeeds, Completes, Names
<1>2. (Succeeds \cup Completes) \cap {"start", "inject", "open", "beforeSend", "ajaxSend", "arm",
                                       "check", "send", "close"} = {}
  BY DEF Succeeds, Completes
<1>. DEFINE todo == Succeeds \cup Completes
<1>3. todo \subseteq Succeeds \cup Completes
  OBVIOUS
<1>. HIDE DEF todo
<1>4. todo \in SUBSET Names /\ todo \cap {"start", "inject", "open", "beforeSend", "ajaxSend", "arm",
                                       "check", "send", "close"} = {}
  BY <1>1, <1>2 DEF todo
<1>5. Run(r, todo, local) \in RunFrames /\ Shape(Run(r, todo, local))
  BY <1>3, <1>4 DEF Run, RunFrames, Shape
<1>. QED
  BY <1>5 DEF todo

LEMMA BeginShape ==
    ASSUME Typed, NEW r \in Req
    PROVE  /\ Run(r, {"start"} \cup AjaxSteps(r), FALSE) \in RunFrames
           /\ Shape(Run(r, {"start"} \cup AjaxSteps(r), FALSE))
           /\ "inject" \in AjaxSteps(r) \/ "arm" \in AjaxSteps(r)
           /\ "uncount" \notin AjaxSteps(r)
<1>. DEFINE f == Run(r, {"start"} \cup AjaxSteps(r), FALSE)
<1>1. f.k = "run" /\ f.r = r /\ f.todo = {"start"} \cup AjaxSteps(r) /\ f.local = FALSE
  BY DEF Run
<1>2. CASE Remote(r)
  <2>1. AjaxSteps(r) = {"inject"}
    BY <1>2 DEF AjaxSteps
  <2>2. Shape(f)
    BY <1>1, <2>1 DEF Shape
  <2>3. f \in RunFrames
    BY <2>1 DEF Run, RunFrames, Names
  <2>. QED
    BY <2>1, <2>2, <2>3
<1>3. CASE ~Remote(r)
  <2>1. AjaxSteps(r) = {"open", "beforeSend", "ajaxSend", "arm", "send"}
                       \cup (IF set[r].via = "sync" THEN {"check"} ELSE {})
    BY <1>3 DEF AjaxSteps
  <2>2. f.todo \subseteq Early /\ "arm" \in f.todo /\ ("check" \in f.todo <=> set[r].via = "sync")
        /\ "inject" \notin f.todo
    BY <1>1, <2>1 DEF Early
  <2>3. Shape(f)
    BY <1>1, <2>2 DEF Shape, Early
  <2>4. {"start"} \cup AjaxSteps(r) \in SUBSET Names
    BY <2>1 DEF Names
  <2>5. f \in RunFrames
    BY <2>4 DEF Run, RunFrames
  <2>. QED
    BY <2>1, <2>3, <2>5
<1>. QED
  BY <1>2, <1>3

LEMMA PushPlaced ==
    ASSUME NEW s, Stacked(s), Placed(s), Covered(s), NEW f \in RunFrames, Shape(f),
           stack' = Append(s, f), UNCHANGED set
    PROVE  Placed(stack)'
BY PlacedPush, PlacedPrime

LEMMA PageCovers ==
    ASSUME Typed, Placed(stack), PageRuns
    PROVE  Covered(stack)
<1>1. CASE stack = <<>>
  BY <1>1, EmptyIsStacked DEF Covered
<1>2. CASE stack # <<>>
  BY <1>2, CoveredBelow DEF PageRuns, On, Top, Typed
<1>. QED
  BY <1>1, <1>2

LEMMA EmptyPlaced == Placed(<<>>) /\ Covered(<<>>)
BY EmptyIsStacked DEF Placed, Covered

LEMMA ReactPlaced ==
    ASSUME NEW r \in Req, NEW late \in BOOLEAN, NEW s, Stacked(s), Placed(s), Covered(s),
           React(r, late, s), UNCHANGED set
    PROVE  Placed(stack)'
<1>1. \/ stack' = Append(s, Run(r, {"uncount"}, FALSE))
      \/ stack' = Append(s, Run(r, AfterDone(r, late), FALSE))
      \/ stack' = s
  BY DEF React
<1>2. CASE stack' = s
  BY <1>2, PlacedPrime
<1>3. CASE stack' = Append(s, Run(r, {"uncount"}, FALSE))
  BY <1>3, UncountShape, PushPlaced
<1>4. CASE stack' = Append(s, Run(r, AfterDone(r, late), FALSE))
  BY <1>4, AfterDoneShape, PushPlaced
<1>. QED
  BY <1>1, <1>2, <1>3, <1>4

LEMMA PlacedNext == Typed /\ Placed(stack) /\ [Next]_vars => Placed(stack)'
<1>. SUFFICES ASSUME Typed, Placed(stack), [Next]_vars PROVE Placed(stack)'
  OBVIOUS
<1>1. Stacked(stack)
  BY DEF Typed
<1>2. ASSUME NEW step \in Names \ {"check"}, At(step),
             stack' = Called(Top.todo \ {step}, None), UNCHANGED set
      PROVE  Placed(stack)'
  BY <1>2, StepPlaced
<1>3. CASE Start
  <2>1. At("start") /\ "start" \in Names \ {"check"} /\ UNCHANGED set
    BY <1>3 DEF Start, Names
  <2>2. PICK hook : /\ hook \in {None, "ajaxStart"}
                    /\ stack' = Called(Top.todo \ {"start"}, hook)
    BY <1>3 DEF Start, Advance
  <2>. QED
    BY <2>1, <2>2, StepPlaced
<1>4. CASE Inject
  BY <1>2, <1>4 DEF Inject, Advance, Names
<1>5. CASE Open
  BY <1>2, <1>5 DEF Open, Advance, Names
<1>6. CASE Arm
  BY <1>2, <1>6 DEF Arm, Advance, Names
<1>7. CASE Send
  BY <1>2, <1>7 DEF Send, Advance, Names
<1>8. CASE Uncount
  <2>1. At("uncount") /\ "uncount" \in Names \ {"check"} /\ UNCHANGED set
    BY <1>8 DEF Uncount, Names
  <2>2. PICK hook : /\ hook \in {None, "ajaxStop"}
                    /\ stack' = Called(Top.todo \ {"uncount"}, hook)
    BY <1>8 DEF Uncount, Advance
  <2>. QED
    BY <2>1, <2>2, StepPlaced
<1>9. CASE Remember
  BY <1>2, <1>9 DEF Remember, Advance, Names
<1>10. CASE Close
  BY <1>2, <1>10 DEF Close, Advance, Names
<1>11. ASSUME NEW step \in Callbacks, Callback(step) PROVE Placed(stack)'
  <2>1. step \in Names \ {"check"}
    BY DEF Callbacks, Names
  <2>. QED
    BY <1>11, <2>1, StepPlaced DEF Callback
<1>12. CASE SendThrows
  <2>. DEFINE todo == Fails \cup (Top.todo \ {"send"})
              f == [Top EXCEPT !.todo = todo]
  <2>1. /\ Top \in RunFrames /\ Top.todo \in SUBSET Names /\ Shape(Top)
        /\ At("send") /\ "send" \in Top.todo /\ On("run")
    BY <1>12, TopShape DEF SendThrows, At
  <2>2. Top.todo \subseteq {"send", "check"}
    <3>1. Top.todo \subseteq Early
      BY <2>1 DEF Shape
    <3>2. Top.todo \cap {"start", "inject", "open", "beforeSend", "ajaxSend", "arm"} = {}
      BY <2>1, FirstStep, RankIs DEF Names
    <3>. QED
      BY <3>1, <3>2 DEF Early
  <2>3. todo \subseteq {"error", "ajaxError", "check"} /\ ("check" \in todo => "check" \in Top.todo)
    BY <2>2 DEF Fails
  <2>4. todo \in SUBSET Names /\ stack' = Called(todo, None) /\ UNCHANGED set
    BY <1>12, <2>3 DEF SendThrows, Names
  <2>. HIDE DEF todo
  <2>5. f.todo = todo /\ f.local = Top.local /\ f.r = Top.r
    BY <2>1 DEF RunFrames
  <2>6. ~Top.local
    BY <2>1 DEF Shape, Succeeds, Completes
  <2>7. Shape(f)
    BY <2>1, <2>3, <2>5, <2>6 DEF Shape
  <2>. QED
    BY <1>1, <2>1, <2>4, <2>7, CalledPlaced, AjaxAssumption
<1>13. CASE OpenThrows \/ Throw
  <2>1. stack' = Uncaught(stack) /\ UNCHANGED set
    BY <1>13 DEF OpenThrows, Throw
  <2>2. Placed(stack')
    BY <1>1, <2>1, UncaughtIs, PlacedPrefix
  <2>. QED
    BY <2>1, <2>2, PlacedPrime
<1>14. CASE Finished \/ Return
  <2>1. stack' = Front(stack) /\ UNCHANGED set /\ stack # <<>>
    BY <1>14 DEF Finished, Return, On
  <2>. QED
    BY <1>1, <2>1, CoveredBelow, PlacedPrime
<1>15. CASE Evaluate
  <2>. DEFINE todo == Top.todo \ {"evaluate"}
              f == [Top EXCEPT !.todo = todo]
              s == Append(Front(stack), f)
  <2>1. At("evaluate") /\ "evaluate" \in Names \ {"check"} /\ stack # <<>> /\ Top \in RunFrames
    BY <1>15, TopShape DEF Evaluate, At, Names
  <2>2. Shape(f) /\ ~Bare(f)
    BY <2>1, StepShape
  <2>3. f \in RunFrames /\ Top.r \in Req
    BY <2>1 DEF RunFrames
  <2>4. stack' = Append(s, Run(Top.r, Succeeds \cup Completes, TRUE)) /\ UNCHANGED set
    BY <1>15 DEF Evaluate
  <2>. HIDE DEF f
  <2>5. Stacked(Front(stack)) /\ Placed(Front(stack)) /\ Covered(Front(stack))
    BY <1>1, <2>1, CoveredBelow
  <2>6. Placed(s) /\ Stacked(s)
    BY <2>2, <2>3, <2>5, PlacedPush, PushIs
  <2>7. Covered(s)
    <3>. DEFINE u == Front(stack)
    <3>. HIDE DEF u
    <3>1. /\ Len(u) \in Nat /\ DOMAIN u = 1..Len(u) /\ DOMAIN Append(u, f) = 1..(Len(u) + 1)
          /\ \A i \in 1..Len(u) : Append(u, f)[i] = u[i]
          /\ Append(u, f)[Len(u) + 1] = f
      BY <2>3, <2>5, PushIs DEF u
    <3>2. \A i \in 1..(Len(u) + 1) : i \in 1..Len(u) \/ i = Len(u) + 1
      BY <3>1
    <3>3. Covered(Append(u, f))
      BY <2>2, <2>5, <3>1, <3>2 DEF Covered, u
    <3>. QED
      BY <3>3 DEF u
  <2>. HIDE DEF s
  <2>. QED
    BY <2>3, <2>4, <2>6, <2>7, CompletesShape, PushPlaced
<1>16. CASE Check
  <2>1. At("check") /\ stack # <<>> /\ Top.r \in Req /\ UNCHANGED set
        /\ React(Top.r, FALSE, Front(stack))
    BY <1>16, TopShape DEF Check, At
  <2>2. Stacked(Front(stack)) /\ Placed(Front(stack)) /\ Covered(Front(stack))
    BY <1>1, <2>1, CoveredBelow
  <2>. QED
    BY <2>1, <2>2, ReactPlaced
<1>17. CASE Refuse
  <2>. DEFINE s == Front(stack)
              f == [Last(s) EXCEPT !.todo = {"uncount", "close"}]
  <2>1. stack # <<>> /\ Last(stack).k = "page" /\ Last(stack).step = "beforeSend"
    BY <1>17 DEF Refuse, On, Top
  <2>2. Stacked(s) /\ Placed(s) /\ s # <<>> /\ Last(s) \in RunFrames
    BY <1>1, <2>1, FrontFacts, CoveredBelow
  <2>3. f \in RunFrames /\ f.todo = {"uncount", "close"} /\ f.local = Last(s).local
    BY <2>2 DEF RunFrames, Names
  <2>4. stack' = Append(Front(s), f) /\ UNCHANGED set
    BY <1>17 DEF Refuse
  <2>5. ~Last(s).local
    <3>1. Len(stack) \in DOMAIN stack /\ Len(stack) - 1 \in 0..Len(stack)
      BY <1>1, <2>1, FrontFacts, StackFacts
    <3>2. ~stack[Len(stack) - 1].local
      BY <2>1, <3>1 DEF Placed, Last
    <3>3. Len(s) = Len(stack) - 1 /\ \A i \in 1..(Len(stack) - 1) : s[i] = stack[i]
      BY <1>1, <3>1, PrefixIsStacked DEF Front
    <3>4. Len(stack) - 1 \in 1..(Len(stack) - 1)
      BY <2>2, <3>1, <3>3, StackFacts
    <3>. QED
      BY <3>2, <3>3, <3>4 DEF Last
  <2>. HIDE DEF s, f
  <2>6. Shape(f)
    BY <2>3, <2>5 DEF Shape, Completes, Fails
  <2>7. Stacked(Front(s)) /\ Placed(Front(s)) /\ Covered(Front(s))
    BY <2>2, CoveredBelow
  <2>. QED
    BY <2>3, <2>4, <2>6, <2>7, PushPlaced
<1>18. ASSUME NEW r \in Req, Begin(r) PROVE Placed(stack)'
  <2>1. /\ PageRuns /\ stack' = Append(stack, Run(r, {"start"} \cup AjaxSteps(r), FALSE))
        /\ UNCHANGED set
    BY <1>18 DEF Begin
  <2>2. Covered(stack)
    BY <2>1, PageCovers
  <2>. QED
    BY <1>1, <2>1, <2>2, BeginShape, PushPlaced
<1>19. ASSUME NEW r \in Req, Abort(r) \/ Answer(r) PROVE Placed(stack)'
  <2>1. UNCHANGED <<stack, set>>
    BY <1>19 DEF Abort, Answer, ghosts
  <2>. QED
    BY <2>1, PlacedPrime
<1>20. ASSUME NEW r \in Req, Poll(r) PROVE Placed(stack)'
  <2>1. stack = <<>> /\ React(r, FALSE, stack) /\ UNCHANGED set
    BY <1>20 DEF Poll
  <2>. QED
    BY <1>1, <2>1, EmptyPlaced, ReactPlaced
<1>21. ASSUME NEW r \in Req, TimeOut(r) PROVE Placed(stack)'
  <2>1. stack = <<>> /\ UNCHANGED set /\ (stack' = stack \/ React(r, TRUE, stack))
    BY <1>21 DEF TimeOut
  <2>. QED
    BY <1>1, <2>1, EmptyPlaced, ReactPlaced, PlacedPrime
<1>22. ASSUME NEW r \in Req, Load(r) PROVE Placed(stack)'
  <2>1. stack' = Append(<<>>, Run(r, Succeeds \cup Completes, FALSE)) /\ UNCHANGED set
    BY <1>22 DEF Load
  <2>. QED
    BY <2>1, EmptyPlaced, EmptyIsStacked, CompletesShape, PushPlaced
<1>23. CASE UNCHANGED vars
  <2>1. UNCHANGED <<stack, set>>
    BY <1>23 DEF vars
  <2>. QED
    BY <2>1, PlacedPrime
<1>. QED
  BY <1>3, <1>4, <1>5, <1>6, <1>7, <1>8, <1>9, <1>10, <1>11, <1>12, <1>13, <1>14, <1>15, <1>16,
     <1>17, <1>18, <1>19, <1>20, <1>21, <1>22, <1>23 DEF Next, Steps

-----------------------------------------------------------------------------
(* What a step leaves alone.                                               *)

LEMMA KnownNext == Typed /\ Known /\ [Next]_vars => Known'
<1>. SUFFICES ASSUME Typed, Known, [Next]_vars PROVE Known'
  OBVIOUS
<1>1. Placed(stack)'
  BY PlacedNext DEF Known
<1>2. stack # <<>> => Top.r \in Req
  BY FrontFacts DEF Typed, Top, Frame, RunFrames, PageFrames
<1>3. At("open") \/ At("send") \/ At("close") \/ At("check") \/ At("uncount") => stack # <<>>
  BY DEF At, On
<1>4. UNCHANGED vars => UNCHANGED <<begun, lost, doubled, active, ready>>
  BY DEF vars, net, ghosts
<1>5. begun' \subseteq Req
  BY <1>4 DEF Known, Next, Steps, Start, Inject, Open, Arm, Send, Check, Uncount, Evaluate,
     Remember, Close, Finished, Callback, OpenThrows, SendThrows, Return, Refuse, Throw,
     Begin, Abort, Poll, TimeOut, Load, Answer
<1>6. active' \in Int
  <2>1. CASE Start
    BY <2>1 DEF Start, Known
  <2>2. CASE Uncount
    BY <2>2 DEF Uncount, Known
  <2>3. CASE ~Start /\ ~Uncount
    <3>1. active' = active
      BY <1>4, <2>3 DEF Next, Steps, Inject, Open, Arm, Send, Check, Evaluate,
         Remember, Close, Finished, Callback, OpenThrows, SendThrows, Return, Refuse, Throw,
         Begin, Abort, Poll, TimeOut, Load, Answer
    <3>. QED
      BY <3>1 DEF Known
  <2>. QED
    BY <2>1, <2>2, <2>3
<1>7. doubled' \subseteq Req
  BY <1>2, <1>3, <1>4 DEF Known, Next, Steps, Start, Inject, Open, Arm, Send, Check, Uncount, Evaluate,
     Remember, Close, Finished, Callback, OpenThrows, SendThrows, Return, Refuse, Throw,
     Begin, Abort, Poll, TimeOut, Load, Answer, ghosts
<1>8. Dropped(stack) \subseteq Req
  <2>1. \A j \in DOMAIN stack : Carries(stack[j]) => stack[j].r \in Req
    BY StackFacts DEF Typed, Frame, RunFrames, PageFrames, Carries
  <2>. QED
    BY <2>1 DEF Dropped
<1>9. lost' \subseteq Req
  BY <1>2, <1>3, <1>4, <1>8 DEF Known, Next, Steps, Start, Inject, Open, Arm, Send, Check, Uncount, Evaluate,
     Remember, Close, Finished, Callback, OpenThrows, SendThrows, Return, Refuse, Throw,
     Begin, Abort, Poll, TimeOut, Load, Answer, ghosts
<1>10. ready' \in [Req -> {None, 0, 1, 4}]
  BY <1>2, <1>3, <1>4, <1>8 DEF Known, Next, Steps, Start, Inject, Open, Arm, Send, Check, Uncount, Evaluate,
     Remember, Close, Finished, Callback, OpenThrows, SendThrows, Return, Refuse, Throw,
     Begin, Abort, Poll, TimeOut, Load, Answer, net, ghosts
<1>. QED
  BY <1>1, <1>5, <1>6, <1>7, <1>9, <1>10 DEF Known

-----------------------------------------------------------------------------
\* Of request q there are no calls and no steps that there were not before.
Kept(q) ==
    \A i \in DOMAIN stack' :
        stack'[i].k = "run" /\ stack'[i].r = q =>
            /\ i \in DOMAIN stack /\ stack[i].k = "run" /\ stack[i].r = q
            /\ stack[i].local = stack'[i].local /\ stack'[i].todo \subseteq stack[i].todo

LEMMA KeptFacts ==
    ASSUME NEW q, Kept(q)
    PROVE  /\ \A i : (Bearer(i, q)' => Bearer(i, q)) /\ (Inner(i, q)' => Inner(i, q))
           /\ \A x : (Pending(q, x)' => Pending(q, x)) /\ (Once(q, x) => Once(q, x)')
<1>1. ASSUME NEW i, Bearer(i, q)' PROVE Bearer(i, q)
  BY <1>1 DEF Kept, Bearer, Bears
<1>2. ASSUME NEW i, NEW x, Owns(stack', i, q, x) PROVE Owns(stack, i, q, x)
  BY <1>2 DEF Kept, Owns
<1>3. ASSUME NEW i, Inner(i, q)' PROVE Inner(i, q)
  BY <1>2, <1>3 DEF Kept, Owns, Inner
<1>4. ASSUME NEW x PROVE (Pending(q, x)' => Pending(q, x)) /\ (Once(q, x) => Once(q, x)')
  BY <1>2 DEF Pending, Once, Owns
<1>. QED
  BY <1>1, <1>3, <1>4

\* Nothing else happens to q.
Still(q) ==
    /\ set' = set
    /\ (q \in begun' <=> q \in begun) /\ (q \in done' <=> q \in done)
    /\ (q \in lost' <=> q \in lost) /\ (q \in doubled' <=> q \in doubled)
    /\ (q \in silenced' <=> q \in silenced)
    /\ waits'[q] = waits[q] /\ ready'[q] = ready[q]
    /\ q \in timer' => q \in timer
    /\ q \in flying' => q \in flying

LEMMA StillFacts ==
    ASSUME NEW q, Ledger(q), Kept(q), Still(q)
    PROVE  Ledger(q)'
<1>1. /\ \A i : (Bearer(i, q)' => Bearer(i, q)) /\ (Inner(i, q)' => Inner(i, q))
      /\ \A x : (Pending(q, x)' => Pending(q, x)) /\ (Once(q, x) => Once(q, x)')
  BY KeptFacts
<1>2. InCharge(q)'
  BY <1>1 DEF Ledger, InCharge, Still
<1>3. Evaluated(q)'
  BY <1>1 DEF Ledger, Evaluated, Still
<1>4. Silent(q)'
  BY <1>1 DEF Ledger, Silent, Still, Remote
<1>. QED
  BY <1>2, <1>3, <1>4 DEF Ledger

\* Nothing happens to the other requests.
LEMMA OthersStill ==
    ASSUME Charged, NEW r \in Req, Ledger(r)',
           \A q \in Req \ {r} : Kept(q) /\ Still(q)
    PROVE  Charged'
<1>1. \A q \in Req : Ledger(q)'
  BY StillFacts DEF Charged
<1>. QED
  BY <1>1 DEF Charged

LEMMA AllStill ==
    ASSUME Charged, \A q \in Req : Kept(q) /\ Still(q)
    PROVE  Charged'
<1>1. \A q \in Req : Ledger(q)'
  BY StillFacts DEF Charged
<1>. QED
  BY <1>1 DEF Charged

\* The top call does a step.
LEMMA StepKept ==
    ASSUME Typed, Known, NEW step, At(step), NEW hook,
           stack' = Called(Top.todo \ {step}, hook)
    PROVE  /\ \A q : Kept(q)
           /\ stack # <<>> /\ Top \in RunFrames /\ Top.r \in Req /\ Shape(Top)
           /\ step \in Top.todo
           /\ Len(stack) \in DOMAIN stack /\ stack[Len(stack)] = Top
           /\ \A i \in DOMAIN stack' : i \in 1..Len(stack) \/ stack'[i].k = "page"
           /\ \A x : x \in Top.todo => Pending(Top.r, x)
           /\ \A x : Once(Top.r, x) /\ x \in Top.todo => \A i : Owns(stack, i, Top.r, x) => i = Len(stack)
           /\ Len(stack) \in DOMAIN stack'
           /\ stack'[Len(stack)] = [Top EXCEPT !.todo = Top.todo \ {step}]
           /\ \A i \in DOMAIN stack' : i \in DOMAIN stack /\ i # Len(stack) => stack'[i] = stack[i]
<1>. DEFINE n == Len(stack)
            todo == Top.todo \ {step}
            f == [Top EXCEPT !.todo = todo]
<1>1. /\ stack # <<>> /\ Top \in RunFrames /\ Top.r \in Req /\ Shape(Top) /\ step \in Top.todo
      /\ On("run") /\ Top.k = "run" /\ todo \in SUBSET Names
  BY TopShape DEF Known, At
<1>2. /\ Stacked(stack) /\ n - 1 \in Nat /\ DOMAIN stack = 1..n
      /\ stack[n] = Top
      /\ \A i \in 1..(n - 1) : stack'[i] = stack[i]
      /\ stack'[n] = f
      /\ hook \notin Hooks => DOMAIN stack' = 1..n
      /\ hook \in Hooks => DOMAIN stack' = 1..(n + 1) /\ stack'[n + 1] = Page(Top.r, hook)
  BY <1>1, CalledIs DEF Typed
<1>3. f.k = "run" /\ f.r = Top.r /\ f.local = Top.local /\ f.todo = todo
  BY <1>1 DEF RunFrames
<1>4. Page(Top.r, hook).k = "page"
  BY DEF Page
<1>5. n \in Nat \ {0} /\ n \in DOMAIN stack
  BY <1>1, <1>2, StackFacts
<1>. HIDE DEF f, n
<1>a. 1..(n - 1) \subseteq 1..n /\ \A i \in 1..n : i \in 1..(n - 1) \/ i = n
  BY <1>5
<1>6. \A i \in DOMAIN stack' : i \in 1..(n - 1) \/ i = n \/ (stack'[i].k = "page" /\ i = n + 1)
  BY <1>2, <1>4, <1>5
<1>7. n \in DOMAIN stack'
  BY <1>2, <1>5
<1>8. ASSUME NEW q PROVE Kept(q)
  <2>. SUFFICES ASSUME NEW i \in DOMAIN stack', stack'[i].k = "run", stack'[i].r = q
                PROVE  /\ i \in DOMAIN stack /\ stack[i].k = "run" /\ stack[i].r = q
                       /\ stack[i].local = stack'[i].local /\ stack'[i].todo \subseteq stack[i].todo
    BY DEF Kept
  <2>1. CASE i \in 1..(n - 1)
    BY <1>2, <1>a, <2>1
  <2>2. CASE i = n
    BY <1>1, <1>2, <1>3, <1>5, <2>2
  <2>. QED
    BY <1>6, <2>1, <2>2
<1>9. ASSUME NEW x \in Top.todo PROVE Owns(stack, n, Top.r, x)
  BY <1>1, <1>2, <1>5 DEF Owns
<1>10. ASSUME NEW i \in DOMAIN stack', i \in DOMAIN stack, i # n PROVE stack'[i] = stack[i]
  BY <1>2, <1>a, <1>10
<1>11. \A x : x \in Top.todo => Pending(Top.r, x)
  BY <1>9 DEF Pending, Owns
<1>12. \A x : Once(Top.r, x) /\ x \in Top.todo => \A i : Owns(stack, i, Top.r, x) => i = n
  BY <1>9 DEF Once, Owns
<1>13. ASSUME NEW i \in DOMAIN stack' PROVE i \in 1..n \/ stack'[i].k = "page"
  <2>1. n \in 1..n
    BY <1>5
  <2>. QED
    BY <1>6, <1>a, <2>1
<1>. QED
  BY <1>1, <1>2, <1>5, <1>7, <1>8, <1>10, <1>11, <1>12, <1>13 DEF f, n

\* The top call, if it has to see to the end of its request, is the only one.
LEMMA TopBears ==
    ASSUME Typed, Known, Charged, On("run"), Top.todo \cap Duties # {}, ~Top.local
    PROVE  /\ Top.r \in Req /\ Top.r \in begun /\ waits[Top.r] = None /\ Top.r \notin lost
           /\ Bearer(Len(stack), Top.r)
           /\ \A i : Bearer(i, Top.r) => i = Len(stack)
<1>1. stack # <<>> /\ Top \in RunFrames /\ Top.r \in Req /\ Top.k = "run" /\ Stacked(stack)
  BY TopShape DEF Known, Typed
<1>2. Len(stack) \in DOMAIN stack /\ stack[Len(stack)] = Top
  BY <1>1, StackFacts DEF Top, Last
<1>3. Bearer(Len(stack), Top.r)
  BY <1>1, <1>2 DEF Bearer, Bears
<1>4. InCharge(Top.r)
  BY <1>1 DEF Charged, Ledger
<1>. QED
  BY <1>1, <1>3, <1>4 DEF InCharge

\* A call with a step of ajax to do is responsible, or about to send.
LEMMA EarlyBears ==
    ASSUME Typed, Known, NEW i, NEW r, NEW x \in Early, Owns(stack, i, r, x)
    PROVE  /\ ~stack[i].local
           /\ Bearer(i, r) \/ (x = "send" /\ i = Len(stack))
           /\ x # "send" => Bearer(i, r)
<1>1. i \in DOMAIN stack /\ stack[i].k = "run" /\ stack[i].r = r /\ x \in stack[i].todo
  BY DEF Owns
<1>2. Shape(stack[i]) /\ (Bare(stack[i]) => i = Len(stack))
  BY <1>1 DEF Known, Placed
<1>3. ~stack[i].local
  BY <1>1, <1>2 DEF Shape, Early, Succeeds, Completes
<1>4. CASE x \in Duties
  BY <1>1, <1>3, <1>4 DEF Bearer, Bears, Duties
<1>5. CASE x \in {"open", "beforeSend", "ajaxSend"}
  <2>1. "arm" \in stack[i].todo
    BY <1>1, <1>2, <1>5 DEF Shape
  <2>. QED
    BY <1>1, <1>3, <1>5, <2>1 DEF Bearer, Bears, Duties
<1>6. CASE x = "send"
  <2>1. "arm" \in stack[i].todo => Bearer(i, r)
    BY <1>1, <1>3 DEF Bearer, Bears, Duties
  <2>2. "arm" \notin stack[i].todo => i = Len(stack)
    BY <1>1, <1>2, <1>6 DEF Bare
  <2>. QED
    BY <1>3, <1>6, <2>1, <2>2
<1>. QED
  BY <1>3, <1>4, <1>5, <1>6 DEF Early, Duties

-----------------------------------------------------------------------------
(* Steps that change only what is still to do, and the waiting.            *)

LEMMA FrontKept ==
    ASSUME Typed, stack # <<>>, stack' = Front(stack)
    PROVE  \A q : Kept(q)
<1>1. Len(stack) \in Nat \ {0} /\ DOMAIN stack = 1..Len(stack)
  BY FrontFacts, StackFacts DEF Typed
<1>2. Len(stack) - 1 \in 0..Len(stack)
  BY <1>1
<1>3. /\ Stacked(Front(stack)) /\ Len(Front(stack)) = Len(stack) - 1
      /\ \A i \in 1..(Len(stack) - 1) : Front(stack)[i] = stack[i]
  BY <1>2, PrefixIsStacked DEF Front, Typed
<1>4. DOMAIN stack' = 1..(Len(stack) - 1)
  BY <1>3, StackFacts
<1>. QED
  BY <1>1, <1>3, <1>4 DEF Kept

LEMMA UncaughtKept ==
    ASSUME Typed, stack' = Uncaught(stack)
    PROVE  /\ \A q : Kept(q)
           /\ Len(Uncaught(stack)) \in 0..Len(stack)
           /\ DOMAIN stack' = 1..Len(Uncaught(stack))
           /\ \A i \in DOMAIN stack' : i \in DOMAIN stack /\ stack'[i] = stack[i]
<1>1. Len(stack) \in Nat /\ DOMAIN stack = 1..Len(stack)
  BY StackFacts DEF Typed
<1>. DEFINE n == Len(Uncaught(stack))
<1>2. n \in 0..Len(stack) /\ stack' = SubSeq(stack, 1, n)
  BY UncaughtIs DEF Typed
<1>3. Stacked(stack') /\ Len(stack') = n /\ \A i \in 1..n : stack'[i] = stack[i]
  BY <1>2, PrefixIsStacked DEF Typed
<1>4. DOMAIN stack' = 1..n
  BY <1>3, StackFacts
<1>. HIDE DEF n
<1>5. \A i \in DOMAIN stack' : i \in DOMAIN stack /\ stack'[i] = stack[i]
  BY <1>1, <1>2, <1>3, <1>4
<1>. QED
  BY <1>2, <1>4, <1>5 DEF Kept, n

\* Steps that change nothing but what is still to do, and counts.
LEMMA IdleSteps ==
    ASSUME Typed, Known, Charged,
           \/ Start \/ Remember \/ Finished \/ Return \/ UNCHANGED vars
           \/ \E step \in Callbacks : Callback(step)
    PROVE  Charged'
<1>1. UNCHANGED <<set, begun, done, lost, doubled, silenced, waits, ready, timer, flying>>
  <2>1. CASE Start
    BY <2>1 DEF Start, net, ghosts
  <2>2. CASE Remember \/ Finished \/ Return \/ UNCHANGED vars
    BY <2>2 DEF Remember, Finished, Return, net, ghosts, vars
  <2>3. ASSUME NEW step \in Callbacks, Callback(step)
        PROVE  UNCHANGED <<set, begun, done, lost, doubled, silenced, waits, ready, timer, flying>>
    BY <2>3 DEF Callback, net
  <2>. QED
    BY <2>1, <2>2, <2>3
<1>2. \A q : Kept(q)
  <2>1. CASE Start
    <3>1. \E hook : stack' = Called(Top.todo \ {"start"}, hook)
      BY <2>1 DEF Start, Advance
    <3>. QED
      BY <2>1, <3>1, StepKept DEF Start
  <2>2. CASE Remember
    BY <2>2, StepKept DEF Remember, Advance
  <2>3. CASE Finished \/ Return
    BY <2>3, FrontKept DEF Finished, Return, On
  <2>4. CASE UNCHANGED vars
    BY <2>4 DEF vars, Kept
  <2>5. ASSUME NEW step \in Callbacks, Callback(step) PROVE \A q : Kept(q)
    BY <2>5, StepKept DEF Callback
  <2>. QED
    BY <2>1, <2>2, <2>3, <2>4, <2>5
<1>3. \A q \in Req : Kept(q) /\ Still(q)
  BY <1>1, <1>2 DEF Still
<1>. QED
  BY <1>3, AllStill

\* The library begins to wait.
LEMMA WaitSteps ==
    ASSUME Typed, Known, Charged, Inject \/ Arm
    PROVE  Charged'
<1>. DEFINE step == IF Inject THEN "inject" ELSE "arm"
            n == Len(stack)
<1>1. At(step) /\ step \in {"inject", "arm"} /\ stack' = Called(Top.todo \ {step}, None)
  BY DEF Inject, Arm, Advance
<1>. HIDE DEF step
<1>2. /\ \A q : Kept(q)
      /\ Top \in RunFrames /\ Top.r \in Req /\ Shape(Top) /\ step \in Top.todo
      /\ \A i \in DOMAIN stack' : i \in 1..n \/ stack'[i].k = "page"
      /\ n \in DOMAIN stack' /\ stack'[n] = [Top EXCEPT !.todo = Top.todo \ {step}]
  BY <1>1, StepKept
<1>. SUFFICES ASSUME NEW r \in Req, r = Top.r PROVE Charged'
  BY <1>2
<1>3. ~Top.local /\ On("run") /\ Top.todo \cap Duties # {}
  BY <1>1, <1>2 DEF At, Shape, Succeeds, Completes, Duties
<1>4. /\ r \in begun /\ waits[r] = None /\ r \notin lost
      /\ \A i : Bearer(i, r) => i = n
  BY <1>3, TopBears
<1>5. UNCHANGED <<set, begun, done, lost, doubled, silenced, ready, flying>>
  BY DEF Inject, Arm, net, ghosts
<1>6. /\ \A q \in Req \ {r} : waits'[q] = waits[q] /\ (q \in timer' => q \in timer)
      /\ \/ waits'[r] = None /\ (r \in timer' => r \in timer) /\ set[r].via = "sync"
         \/ waits'[r] = "poll" /\ set[r].via # "sync" /\ step = "arm"
         \/ waits'[r] = "script" /\ (r \in timer' => r \in timer) /\ step = "inject"
  <2>1. CASE Inject
    BY <2>1 DEF Inject, Typed, step
  <2>2. CASE Arm /\ ~Inject /\ set[r].via = "sync"
    BY <1>4, <2>2 DEF Arm, Typed, step
  <2>3. CASE Arm /\ ~Inject /\ set[r].via # "sync"
    <3>1. /\ waits' = [waits EXCEPT ![r] = "poll"]
          /\ timer' = timer \/ timer' = timer \cup {r}
      BY <2>3 DEF Arm
    <3>. QED
      BY <2>3, <3>1 DEF Typed, step
  <2>. QED
    BY <2>1, <2>2, <2>3
<1>7. /\ \A i : (Bearer(i, r)' => Bearer(i, r)) /\ (Inner(i, r)' => Inner(i, r))
      /\ \A x : (Pending(r, x)' => Pending(r, x)) /\ (Once(r, x) => Once(r, x)')
  BY <1>2, KeptFacts
<1>8. waits'[r] # None => \A i : ~Bearer(i, r)'
  <2>. SUFFICES ASSUME waits'[r] # None, NEW i, Bearer(i, r)' PROVE FALSE
    OBVIOUS
  <2>0. i = n /\ i \in DOMAIN stack' /\ Bears(stack'[i])
    BY <1>4, <1>7 DEF Bearer
  <2>1. (Top.todo \ {step}) \cap Duties # {}
    BY <1>2, <2>0 DEF Bears, RunFrames
  <2>2. "start" \notin Top.todo
    BY <1>1, <1>2, StepShape DEF Known, Names
  <2>3. CASE step = "inject"
    BY <1>2, <2>1, <2>2, <2>3 DEF Shape, Duties
  <2>4. CASE step = "arm"
    <3>1. set[r].via # "sync"
      BY <1>6, <2>4, AjaxAssumption
    <3>2. Top.todo \subseteq Early /\ "check" \notin Top.todo /\ "inject" \notin Top.todo
      BY <1>2, <2>4, <3>1 DEF Shape
    <3>. QED
      BY <2>1, <2>2, <2>4, <3>2 DEF Early, Duties
  <2>. QED
    BY <1>1, <2>3, <2>4
<1>9. InCharge(r)'
  <2>1. InCharge(r)
    BY DEF Charged, Ledger
  <2>2. r \in timer' => r \in done \/ ready[r] = 0 \/ waits'[r] = "poll"
    BY <1>4, <1>6, <2>1, AjaxAssumption DEF InCharge
  <2>. QED
    BY <1>4, <1>5, <1>7, <1>8, <2>1, <2>2 DEF InCharge
<1>10. Evaluated(r)' /\ Silent(r)'
  BY <1>5, <1>7 DEF Charged, Ledger, Evaluated, Silent, Remote
<1>11. \A q \in Req \ {r} : Kept(q) /\ Still(q)
  BY <1>2, <1>5, <1>6 DEF Still
<1>. QED
  BY <1>9, <1>10, <1>11, OthersStill DEF Ledger

-----------------------------------------------------------------------------
(* The steps of a request, one at a time.                                  *)

LEMMA OpenStep ==
    ASSUME Typed, Known, Charged, Open
    PROVE  Charged'
<1>1. At("open") /\ stack' = Called(Top.todo \ {"open"}, None)
  BY DEF Open, Advance
<1>2. \A q : Kept(q)
  BY <1>1, StepKept
<1>3. Top.r \in Req /\ Pending(Top.r, "open") /\ Shape(Top) /\ "open" \in Top.todo
  BY <1>1, StepKept
<1>. SUFFICES ASSUME NEW r \in Req, r = Top.r PROVE Charged'
  BY <1>3
<1>4. /\ UNCHANGED <<set, begun, done, lost, doubled, silenced, waits, timer, flying>>
      /\ ready' = [ready EXCEPT ![r] = 1]
  BY DEF Open, ghosts
<1>5. ready'[r] = 1 /\ \A q \in Req \ {r} : ready'[q] = ready[q]
  BY <1>4 DEF Known
<1>6. /\ \A i : (Bearer(i, r)' => Bearer(i, r)) /\ (Inner(i, r)' => Inner(i, r))
      /\ \A x : (Pending(r, x)' => Pending(r, x)) /\ (Once(r, x) => Once(r, x)')
  BY <1>2, KeptFacts
<1>7. InCharge(r) /\ ready[r] # 0 /\ r \in begun
  <2>1. \E i : Bearer(i, r)
    BY <1>3, EarlyBears DEF Pending, Early
  <2>. QED
    BY <1>3, <2>1 DEF Charged, Ledger, InCharge
<1>8. InCharge(r)'
  BY <1>4, <1>5, <1>6, <1>7 DEF InCharge
<1>9. Evaluated(r)' /\ Silent(r)'
  BY <1>4, <1>6, <1>7 DEF Charged, Ledger, Evaluated, Silent
<1>10. \A q \in Req \ {r} : Kept(q) /\ Still(q)
  BY <1>2, <1>4, <1>5 DEF Still
<1>. QED
  BY <1>8, <1>9, <1>10, OthersStill DEF Ledger

LEMMA SendStep ==
    ASSUME Typed, Known, Charged, Send
    PROVE  Charged'
<1>1. At("send") /\ stack' = Called(Top.todo \ {"send"}, None)
  BY DEF Send, Advance
<1>2. \A q : Kept(q)
  BY <1>1, StepKept
<1>3. Top.r \in Req /\ Pending(Top.r, "send") /\ "send" \in Top.todo
  BY <1>1, StepKept
<1>. SUFFICES ASSUME NEW r \in Req, r = Top.r PROVE Charged'
  BY <1>3
<1>4. /\ UNCHANGED <<set, begun, done, lost, doubled, silenced, waits, timer>>
      /\ \/ ready' = [ready EXCEPT ![r] = 4] /\ flying' = flying
         \/ ready' = ready /\ flying' = flying \cup {r}
  BY DEF Send, ghosts
<1>5. InCharge(r) /\ ready[r] # 0
  BY <1>3 DEF Charged, Ledger, InCharge
<1>6. ready'[r] # 0 /\ \A q \in Req \ {r} : ready'[q] = ready[q] /\ (q \in flying' => q \in flying)
  BY <1>4, <1>5 DEF Known
<1>7. /\ \A i : (Bearer(i, r)' => Bearer(i, r)) /\ (Inner(i, r)' => Inner(i, r))
      /\ \A x : (Pending(r, x)' => Pending(r, x)) /\ (Once(r, x) => Once(r, x)')
  BY <1>2, KeptFacts
<1>8. InCharge(r)'
  BY <1>4, <1>5, <1>6, <1>7 DEF InCharge
<1>9. Evaluated(r)' /\ Silent(r)'
  BY <1>4, <1>5, <1>7 DEF Charged, Ledger, Evaluated, Silent
<1>10. \A q \in Req \ {r} : Kept(q) /\ Still(q)
  BY <1>2, <1>4, <1>6 DEF Still
<1>. QED
  BY <1>8, <1>9, <1>10, OthersStill DEF Ledger

\* The top call has to report the error instead of sending.
LEMMA SendThrowsIs ==
    ASSUME Typed, Known, SendThrows
    PROVE  /\ Top \in RunFrames /\ Top.r \in Req /\ Top.k = "run" /\ "send" \in Top.todo
           /\ Len(stack) \in DOMAIN stack /\ stack[Len(stack)] = Top
           /\ Len(stack) \in DOMAIN stack'
           /\ stack'[Len(stack)] = [Top EXCEPT !.todo = Fails \cup (Top.todo \ {"send"})]
           /\ \A i \in DOMAIN stack' :
                 stack'[i].k = "run" =>
                    /\ i \in DOMAIN stack /\ stack[i].k = "run" /\ stack[i].r = stack'[i].r
                    /\ stack[i].local = stack'[i].local
                    /\ \A x \in stack'[i].todo : x \in stack[i].todo \/ (x \in Fails /\ i = Len(stack))
                    /\ i = Len(stack) \/ stack'[i] = stack[i]
<1>. DEFINE todo == Fails \cup (Top.todo \ {"send"})
            n == Len(stack)
<1>1. At("send") /\ stack' = Called(todo, None)
  BY DEF SendThrows
<1>2. /\ Top \in RunFrames /\ Top.r \in Req /\ Top.todo \in SUBSET Names /\ Top.k = "run"
      /\ On("run") /\ "send" \in Top.todo
  BY <1>1, TopShape DEF At, Known
<1>3. todo \in SUBSET Names /\ \A x \in todo : x \in Top.todo \/ x \in Fails
  BY <1>2 DEF Fails, Names
<1>. HIDE DEF todo
<1>4. /\ n - 1 \in Nat /\ DOMAIN stack = 1..n /\ stack[n] = Top
      /\ \A i \in 1..(n - 1) : stack'[i] = stack[i]
      /\ stack'[n] = [Top EXCEPT !.todo = todo]
      /\ DOMAIN stack' = 1..n
  BY <1>1, <1>2, <1>3, CalledIs, AjaxAssumption DEF Typed
<1>5. \A i \in 1..n : i \in 1..(n - 1) \/ i = n
  BY <1>4
<1>6. ASSUME NEW i \in DOMAIN stack', stack'[i].k = "run"
      PROVE  /\ i \in DOMAIN stack /\ stack[i].k = "run" /\ stack[i].r = stack'[i].r
             /\ stack[i].local = stack'[i].local
             /\ \A x \in stack'[i].todo : x \in stack[i].todo \/ (x \in Fails /\ i = n)
             /\ i = n \/ stack'[i] = stack[i]
  <2>1. CASE i \in 1..(n - 1)
    BY <1>4, <1>6, <2>1
  <2>2. CASE i = n
    BY <1>2, <1>3, <1>4, <1>6, <2>2 DEF RunFrames
  <2>. QED
    BY <1>4, <1>5, <2>1, <2>2
<1>7. n \in DOMAIN stack /\ n \in DOMAIN stack'
  BY <1>2, <1>4, <1>5, FrontFacts, StackFacts DEF Typed, On
<1>. QED
  BY <1>2, <1>4, <1>6, <1>7 DEF todo

LEMMA SendThrowsStep ==
    ASSUME Typed, Known, Charged, SendThrows
    PROVE  Charged'
<1>. DEFINE n == Len(stack)
<1>1. UNCHANGED <<set, begun, done, lost, doubled, silenced, waits, ready, timer, flying>>
  BY DEF SendThrows, net, ghosts
<1>2. /\ Top \in RunFrames /\ Top.r \in Req /\ Top.k = "run" /\ "send" \in Top.todo
      /\ n \in DOMAIN stack /\ stack[n] = Top
      /\ stack'[n] = [Top EXCEPT !.todo = Fails \cup (Top.todo \ {"send"})]
      /\ \A i \in DOMAIN stack' :
            stack'[i].k = "run" =>
               /\ i \in DOMAIN stack /\ stack[i].k = "run" /\ stack[i].r = stack'[i].r
               /\ stack[i].local = stack'[i].local
               /\ \A x \in stack'[i].todo : x \in stack[i].todo \/ (x \in Fails /\ i = n)
               /\ i = n \/ stack'[i] = stack[i]
  BY SendThrowsIs
<1>. HIDE DEF n
<1>6. \A i \in DOMAIN stack' :
         stack'[i].k = "run" =>
            /\ i \in DOMAIN stack /\ stack[i].k = "run" /\ stack[i].r = stack'[i].r
            /\ stack[i].local = stack'[i].local
            /\ \A x \in stack'[i].todo : x \in stack[i].todo \/ (x \in Fails /\ i = n)
            /\ i = n \/ stack'[i] = stack[i]
  BY <1>2
<1>. SUFFICES ASSUME NEW r \in Req, r = Top.r PROVE Charged'
  BY <1>2
<1>7. stack'[n].r = r
  BY <1>2 DEF RunFrames
<1>8. ASSUME NEW q \in Req \ {r} PROVE Kept(q) /\ Still(q)
  <2>1. Kept(q)
    BY <1>6, <1>7 DEF Kept
  <2>. QED
    BY <1>1, <2>1 DEF Still
<1>9. /\ \A i : (Bearer(i, r)' => Bearer(i, r)) /\ (Inner(i, r)' => Inner(i, r))
      /\ \A x : x \notin Fails => (Pending(r, x)' => Pending(r, x)) /\ (Once(r, x) => Once(r, x)')
  <2>1. ASSUME NEW i, NEW x, x \notin Fails, Owns(stack', i, r, x) PROVE Owns(stack, i, r, x)
    BY <1>6, <2>1 DEF Owns
  <2>2. ASSUME NEW i, Bearer(i, r)' PROVE Bearer(i, r)
    <3>1. /\ i \in DOMAIN stack' /\ stack'[i].k = "run" /\ stack'[i].r = r
          /\ ~stack'[i].local /\ stack'[i].todo \cap Duties # {}
      BY <2>2 DEF Bearer, Bears
    <3>2. stack[i].todo \cap Duties # {}
      BY <1>6, <3>1 DEF Fails, Duties
    <3>. QED
      BY <1>6, <3>1, <3>2 DEF Bearer, Bears
  <2>3. ASSUME NEW i, Inner(i, r)' PROVE Inner(i, r)
    <3>1. Owns(stack', i, r, "uncount") /\ stack'[i].local
      BY <2>3 DEF Inner
    <3>2. Owns(stack, i, r, "uncount")
      BY <2>1, <3>1 DEF Fails
    <3>. QED
      BY <1>6, <3>1, <3>2 DEF Inner, Owns
  <2>. QED
    BY <2>1, <2>2, <2>3 DEF Pending, Once, Owns
<1>10. Pending(r, "send") /\ InCharge(r) /\ ready[r] # 0
  <2>1. Pending(r, "send")
    BY <1>2 DEF Pending, Owns
  <2>. QED
    BY <2>1 DEF Charged, Ledger, InCharge
<1>11. \A x \in Early \cup {"close", "evaluate"} : x \notin Fails
  BY DEF Early, Fails
<1>12. InCharge(r)'
  BY <1>1, <1>9, <1>10, <1>11 DEF InCharge, Early
<1>13. Evaluated(r)'
  BY <1>1, <1>9, <1>11 DEF Charged, Ledger, Evaluated
<1>14. Silent(r)'
  BY <1>1, <1>10 DEF Charged, Ledger, Silent
<1>. QED
  BY <1>8, <1>12, <1>13, <1>14, OthersStill DEF Ledger

LEMMA UncountStep ==
    ASSUME Typed, Known, Charged, Uncount
    PROVE  Charged'
<1>. DEFINE n == Len(stack)
<1>1. At("uncount") /\ \E hook : stack' = Called(Top.todo \ {"uncount"}, hook)
  BY DEF Uncount, Advance
<1>2. /\ \A q : Kept(q)
      /\ Top \in RunFrames /\ Top.r \in Req /\ "uncount" \in Top.todo
      /\ n \in DOMAIN stack /\ stack[n] = Top
      /\ n \in DOMAIN stack' /\ stack'[n] = [Top EXCEPT !.todo = Top.todo \ {"uncount"}]
  BY <1>1, StepKept
<1>. SUFFICES ASSUME NEW r \in Req, r = Top.r PROVE Charged'
  BY <1>2
<1>3. /\ UNCHANGED <<set, begun, done, lost, silenced, waits, ready, timer, flying>>
      /\ doubled' = doubled \/ (doubled' = doubled \cup {r} /\ Top.local)
  BY DEF Uncount, net
<1>4. /\ \A i : (Bearer(i, r)' => Bearer(i, r)) /\ (Inner(i, r)' => Inner(i, r))
      /\ \A x : (Pending(r, x)' => Pending(r, x)) /\ (Once(r, x) => Once(r, x)')
  BY <1>2, KeptFacts
<1>5. Ledger(r)
  BY DEF Charged
<1>6. InCharge(r)' /\ Silent(r)'
  BY <1>3, <1>4, <1>5 DEF Ledger, InCharge, Silent, Remote
<1>7. ASSUME doubled' = doubled PROVE Evaluated(r)'
  BY <1>3, <1>4, <1>5, <1>7 DEF Ledger, Evaluated
<1>8. ASSUME doubled' = doubled \cup {r}, Top.local PROVE Evaluated(r)'
  <2>1. Inner(n, r)
    BY <1>2, <1>8 DEF Inner, Owns, RunFrames
  <2>2. ~Pending(r, "evaluate") /\ r \in done /\ \A i : Inner(i, r) => i = n
    BY <1>5, <2>1 DEF Ledger, Evaluated
  <2>3. ASSUME NEW i PROVE ~Inner(i, r)'
    <3>1. i = n => "uncount" \notin stack'[i].todo
      BY <1>2 DEF RunFrames
    <3>. QED
      BY <1>4, <2>2, <3>1 DEF Inner, Owns
  <2>. QED
    BY <1>3, <1>4, <1>5, <2>2, <2>3 DEF Ledger, Evaluated
<1>9. Evaluated(r)'
  BY <1>3, <1>7, <1>8
<1>10. \A q \in Req \ {r} : Kept(q) /\ Still(q)
  BY <1>2, <1>3 DEF Still
<1>. QED
  BY <1>6, <1>9, <1>10, OthersStill DEF Ledger

LEMMA CloseStep ==
    ASSUME Typed, Known, Charged, Close
    PROVE  Charged'
<1>1. At("close") /\ stack' = Called(Top.todo \ {"close"}, None)
  BY DEF Close, Advance
<1>2. \A q : Kept(q)
  BY <1>1, StepKept
<1>3. Top.r \in Req /\ Pending(Top.r, "close")
  BY <1>1, StepKept
<1>. SUFFICES ASSUME NEW r \in Req, r = Top.r PROVE Charged'
  BY <1>3
<1>4. /\ UNCHANGED <<set, begun, done, lost, doubled, silenced, waits, timer>>
      /\ ready' = [ready EXCEPT ![r] = 0] /\ flying' = flying \ {r}
  BY DEF Close, ghosts
<1>5. ready'[r] = 0 /\ \A q \in Req \ {r} : ready'[q] = ready[q] /\ (q \in flying' => q \in flying)
  BY <1>4 DEF Known
<1>6. /\ \A i : (Bearer(i, r)' => Bearer(i, r)) /\ (Inner(i, r)' => Inner(i, r))
      /\ \A x : (Pending(r, x)' => Pending(r, x)) /\ (Once(r, x) => Once(r, x)')
  BY <1>2, KeptFacts
<1>7. InCharge(r) /\ ~Pending(r, "open") /\ ~Pending(r, "send") /\ r \in begun
  BY <1>3 DEF Charged, Ledger, InCharge
<1>8. InCharge(r)'
  BY <1>4, <1>5, <1>6, <1>7 DEF InCharge
<1>9. Evaluated(r)' /\ Silent(r)'
  BY <1>4, <1>5, <1>6 DEF Charged, Ledger, Evaluated, Silent, Remote
<1>10. \A q \in Req \ {r} : Kept(q) /\ Still(q)
  BY <1>2, <1>4, <1>5 DEF Still
<1>. QED
  BY <1>8, <1>9, <1>10, OthersStill DEF Ledger

-----------------------------------------------------------------------------
(* The response.                                                           *)

\* The response is evaluated in a call of its own.
LEMMA EvaluateIs ==
    ASSUME Typed, Known, Evaluate
    PROVE  /\ Top \in RunFrames /\ Top.r \in Req /\ Top.k = "run" /\ "evaluate" \in Top.todo
           /\ Len(stack) \in DOMAIN stack /\ stack[Len(stack)] = Top
           /\ Len(stack) + 1 \notin DOMAIN stack
           /\ \A i \in DOMAIN stack' :
                 \/ /\ i \in DOMAIN stack /\ stack'[i].k = stack[i].k /\ stack'[i].r = stack[i].r
                    /\ stack'[i].k = "run" =>
                          /\ stack'[i].local = stack[i].local
                          /\ stack'[i].todo \subseteq stack[i].todo
                          /\ i = Len(stack) => stack'[i].todo = Top.todo \ {"evaluate"}
                 \/ /\ i = Len(stack) + 1
                    /\ stack'[i] = Run(Top.r, Succeeds \cup Completes, TRUE)
<1>. DEFINE todo == Top.todo \ {"evaluate"}
            f == [Top EXCEPT !.todo = todo]
            u == Front(stack)
            s == Append(u, f)
            g == Run(Top.r, Succeeds \cup Completes, TRUE)
            n == Len(stack)
<1>1. At("evaluate") /\ stack' = Append(s, g)
  BY DEF Evaluate
<1>2. /\ stack # <<>> /\ Top \in RunFrames /\ Top.r \in Req /\ Top.k = "run" /\ Shape(Top)
      /\ "evaluate" \in Top.todo
  BY <1>1, TopShape DEF At, Known
<1>3. f \in RunFrames /\ f.k = "run" /\ f.r = Top.r /\ f.todo = todo /\ f.local = Top.local
  BY <1>2 DEF RunFrames
<1>4. /\ g \in RunFrames /\ g.k = "run" /\ g.r = Top.r /\ g.local = TRUE
      /\ g.todo = Succeeds \cup Completes
  BY <1>2, CompletesShape DEF Run
<1>. HIDE DEF f, g
<1>5. n \in Nat \ {0} /\ DOMAIN stack = 1..n /\ stack[n] = Top
  BY <1>2, FrontFacts, StackFacts DEF Typed, Top, Last
<1>6. n - 1 \in 0..n
  BY <1>5
<1>7. Stacked(u) /\ Len(u) = n - 1 /\ \A i \in 1..(n - 1) : u[i] = stack[i]
  BY <1>6, PrefixIsStacked DEF Front, Typed
<1>. HIDE DEF u
<1>8. /\ Stacked(s) /\ Len(s) = n /\ DOMAIN s = 1..n
      /\ \A i \in 1..(n - 1) : s[i] = stack[i]
      /\ s[n] = f
  <2>1. Len(u) + 1 = n
    BY <1>5, <1>7
  <2>. QED
    BY <1>3, <1>7, <2>1, PushIs
<1>. HIDE DEF s
<1>9. /\ DOMAIN stack' = 1..(n + 1)
      /\ \A i \in 1..n : stack'[i] = s[i]
      /\ stack'[n + 1] = g
  BY <1>1, <1>4, <1>8, PushIs
<1>. HIDE DEF n
<1>10. \A i \in 1..(n + 1) : i \in 1..(n - 1) \/ i = n \/ i = n + 1
  BY <1>5
<1>11. 1..(n - 1) \subseteq 1..n /\ n \in 1..n /\ n + 1 \notin 1..n /\ n # n + 1
  BY <1>5
<1>12. ASSUME NEW i \in DOMAIN stack'
       PROVE  \/ /\ i \in DOMAIN stack /\ stack'[i].k = stack[i].k /\ stack'[i].r = stack[i].r
                 /\ stack'[i].k = "run" =>
                       /\ stack'[i].local = stack[i].local
                       /\ stack'[i].todo \subseteq stack[i].todo
                       /\ i = n => stack'[i].todo = Top.todo \ {"evaluate"}
              \/ i = n + 1 /\ stack'[i] = g
  <2>1. CASE i \in 1..(n - 1)
    <3>1. i \in DOMAIN stack /\ stack'[i] = stack[i] /\ i # n
      BY <1>5, <1>8, <1>9, <1>11, <2>1
    <3>. QED
      BY <3>1
  <2>2. CASE i = n
    BY <1>2, <1>3, <1>5, <1>8, <1>9, <1>11, <2>2
  <2>3. CASE i = n + 1
    BY <1>9, <2>3
  <2>. QED
    BY <1>9, <1>10, <2>1, <2>2, <2>3
<1>13. n \in DOMAIN stack /\ n + 1 \notin DOMAIN stack
  BY <1>5, <1>11
<1>. QED
  BY <1>2, <1>5, <1>12, <1>13 DEF n, g

LEMMA EvaluateLedger ==
    ASSUME Typed, Known, Charged, Evaluate
    PROVE  Charged'
<1>. DEFINE g == Run(Top.r, Succeeds \cup Completes, TRUE)
            n == Len(stack)
<1>1. UNCHANGED <<set, begun, done, lost, doubled, silenced, waits, ready, timer, flying>>
  BY DEF Evaluate, net, ghosts
<1>2. /\ Top.r \in Req /\ Top.k = "run" /\ "evaluate" \in Top.todo
      /\ n \in DOMAIN stack /\ stack[n] = Top
  BY EvaluateIs
<1>4. /\ g.k = "run" /\ g.r = Top.r /\ g.local = TRUE
      /\ g.todo = Succeeds \cup Completes
  BY DEF Run
\* What was there of each request, and the call inside.
<1>12. \A i \in DOMAIN stack' :
          \/ /\ i \in DOMAIN stack /\ stack'[i].k = stack[i].k /\ stack'[i].r = stack[i].r
             /\ stack'[i].k = "run" =>
                   /\ stack'[i].local = stack[i].local
                   /\ stack'[i].todo \subseteq stack[i].todo
                   /\ i = n => stack'[i].todo = Top.todo \ {"evaluate"}
          \/ i = n + 1 /\ stack'[i] = g
  BY EvaluateIs
<1>. HIDE DEF g, n
<1>. SUFFICES ASSUME NEW r \in Req, r = Top.r PROVE Charged'
  BY <1>2
<1>13. ASSUME NEW q \in Req \ {r} PROVE Kept(q) /\ Still(q)
  <2>1. Kept(q)
    BY <1>4, <1>12 DEF Kept
  <2>. QED
    BY <1>1, <2>1 DEF Still
<1>14. ASSUME NEW i, NEW x, Owns(stack', i, r, x)
       PROVE  \/ Owns(stack, i, r, x) /\ stack'[i].local = stack[i].local
                 /\ (i = n => x # "evaluate")
              \/ i = n + 1 /\ x \in Succeeds \cup Completes /\ stack'[i].local
  BY <1>4, <1>12, <1>14 DEF Owns
<1>15. \A x \in Early \cup {"close", "evaluate", "error"} : x \notin Succeeds \cup Completes
  BY DEF Early, Succeeds, Completes
<1>16. \A i : Bearer(i, r)' => Bearer(i, r)
  <2>. SUFFICES ASSUME NEW i, Bearer(i, r)' PROVE Bearer(i, r)
    OBVIOUS
  <2>1. /\ i \in DOMAIN stack' /\ stack'[i].k = "run" /\ stack'[i].r = r /\ ~stack'[i].local
        /\ stack'[i].todo \cap Duties # {}
    BY DEF Bearer, Bears
  <2>. QED
    BY <1>4, <1>12, <2>1 DEF Bearer, Bears
<1>17. ASSUME NEW x \in Early \cup {"close", "evaluate", "error"}
       PROVE  (Pending(r, x)' => Pending(r, x)) /\ (Once(r, x) => Once(r, x)')
  BY <1>14, <1>15 DEF Pending, Once, Owns
<1>18. Ledger(r)
  BY DEF Charged
<1>19. Owns(stack, n, r, "evaluate") /\ Pending(r, "evaluate")
  BY <1>2 DEF Owns, Pending
<1>20. r \in done /\ r \notin doubled /\ (\A i : ~Inner(i, r)) /\ Once(r, "evaluate")
  BY <1>18, <1>19 DEF Ledger, Evaluated
<1>21. ~Pending(r, "evaluate")'
  <2>. SUFFICES ASSUME NEW i, Owns(stack', i, r, "evaluate") PROVE FALSE
    BY DEF Pending
  <2>1. Owns(stack, i, r, "evaluate") /\ i # n
    BY <1>14, <1>15
  <2>. QED
    BY <1>19, <1>20, <2>1 DEF Once, Owns
<1>22. \A i : Inner(i, r)' => i = n + 1
  BY <1>14, <1>20 DEF Inner
<1>23. Evaluated(r)'
  BY <1>1, <1>17, <1>20, <1>21, <1>22 DEF Evaluated
<1>24. InCharge(r)'
  BY <1>1, <1>16, <1>17, <1>18 DEF Ledger, InCharge, Early
<1>25. Silent(r)'
  BY <1>1, <1>20 DEF Silent, Ledger, Charged
<1>. QED
  BY <1>13, <1>23, <1>24, <1>25, OthersStill DEF Ledger

\* Out of the stack s, the calls that are left, nobody is responsible for r.
Vacant(s, r) ==
    /\ Stacked(s)
    /\ \A i \in DOMAIN s : i \in DOMAIN stack /\ s[i] = stack[i]
    /\ \A i \in DOMAIN s : ~Bearer(i, r)
    /\ \A i : \A x \in Early : ~Owns(s, i, r, x)

LEMMA PushLedger ==
    ASSUME Typed, Known, Charged, NEW r \in Req, NEW s, Vacant(s, r),
           NEW todo \in SUBSET Names, todo \cap Early = {}, "uncount" \in todo,
           stack' = Append(s, Run(r, todo, FALSE)),
           r \in begun, r \notin lost, waits'[r] = None,
           \A q \in Req \ {r} : Still(q),
           UNCHANGED <<set, begun, lost, doubled, silenced, ready, flying>>,
           r \in timer' => r \in done' \/ ready[r] = 0,
           \/ UNCHANGED done /\ todo \cap {"evaluate", "error", "close"} = {}
           \/ r \notin done /\ r \in done' /\ ready[r] # 0
    PROVE  Charged'
<1>. DEFINE f == Run(r, todo, FALSE)
            n == Len(s)
<1>1. f \in RunFrames /\ f.k = "run" /\ f.r = r /\ f.todo = todo /\ f.local = FALSE
  BY RunIsFrame DEF Run, RunFrames
<1>s. stack' = Append(s, f) /\ Stacked(s)
  BY DEF Vacant
<1>. HIDE DEF f
<1>2. /\ n \in Nat /\ DOMAIN s = 1..n /\ DOMAIN stack' = 1..(n + 1)
      /\ \A i \in 1..n : stack'[i] = s[i]
      /\ stack'[n + 1] = f
  <2>. DEFINE u == Append(s, f)
  <2>1. /\ Len(s) \in Nat /\ DOMAIN s = 1..Len(s) /\ DOMAIN u = 1..(Len(s) + 1)
        /\ \A i \in 1..Len(s) : u[i] = s[i]
        /\ u[Len(s) + 1] = f
    BY <1>1, <1>s, PushIs
  <2>2. stack' = u
    BY <1>s
  <2>. HIDE DEF u
  <2>. QED
    BY <2>1, <2>2
<1>. HIDE DEF n
<1>n. \A i \in 1..(n + 1) : i \in 1..n \/ i = n + 1
  BY <1>2
<1>3. ASSUME NEW i \in DOMAIN stack'
      PROVE  \/ i \in DOMAIN s /\ i \in DOMAIN stack /\ stack'[i] = stack[i] /\ stack'[i] = s[i]
             \/ i = n + 1 /\ stack'[i] = f
  BY <1>2, <1>n DEF Vacant
<1>4. ASSUME NEW q \in Req \ {r} PROVE Kept(q)
  BY <1>1, <1>3 DEF Kept
<1>5. \A i : Bearer(i, r)' => i = n + 1
  BY <1>3 DEF Vacant, Bearer
<1>6. \A x \in Early : ~Pending(r, x)'
  <2>. SUFFICES ASSUME NEW x \in Early, NEW i, Owns(stack', i, r, x) PROVE FALSE
    BY DEF Pending
  <2>1. ~Owns(s, i, r, x) /\ x \notin todo
    BY DEF Vacant
  <2>. QED
    BY <1>1, <1>3, <2>1 DEF Owns
<1>7. ASSUME NEW i, NEW x, Owns(stack', i, r, x)
      PROVE  Owns(stack, i, r, x) \/ (i = n + 1 /\ x \in todo)
  BY <1>1, <1>3, <1>7 DEF Owns
<1>8. \A i : Inner(i, r)' => Inner(i, r)
  BY <1>1, <1>3 DEF Inner, Owns
<1>9. Ledger(r)
  BY DEF Charged
<1>10. InCharge(r)'
  BY <1>5, <1>6, <1>9 DEF Ledger, InCharge, Early
<1>11. CASE UNCHANGED done /\ todo \cap {"evaluate", "error", "close"} = {}
  <2>1. ASSUME NEW x \in {"evaluate", "error"}
        PROVE  (Pending(r, x)' => Pending(r, x)) /\ (Once(r, x) => Once(r, x)')
    BY <1>7, <1>11 DEF Pending, Once, Owns
  <2>2. Evaluated(r)'
    BY <1>8, <1>9, <1>11, <2>1 DEF Ledger, Evaluated
  <2>3. Silent(r)'
    BY <1>9, <1>11, <2>1 DEF Ledger, Silent, Remote
  <2>4. Ledger(r)'
    BY <1>10, <2>2, <2>3 DEF Ledger
  <2>. QED
    BY <1>4, <2>4, OthersStill
<1>12. CASE r \notin done /\ r \in done' /\ ready[r] # 0
  <2>1. ~Pending(r, "evaluate") /\ r \notin doubled /\ \A i : ~Inner(i, r)
    BY <1>9, <1>12 DEF Ledger, Evaluated
  <2>2. \A i : Owns(stack', i, r, "evaluate") => i = n + 1
    BY <1>7, <2>1 DEF Pending, Owns
  <2>3. Evaluated(r)'
    BY <1>8, <1>12, <2>1, <2>2 DEF Evaluated, Once
  <2>4. Silent(r)'
    BY <1>9, <1>12 DEF Ledger, Silent
  <2>5. Ledger(r)'
    BY <1>10, <2>3, <2>4 DEF Ledger
  <2>. QED
    BY <1>4, <2>5, OthersStill
<1>. QED
  BY <1>11, <1>12

LEMMA ReactLedger ==
    ASSUME Typed, Known, Charged, NEW r \in Req, NEW late \in BOOLEAN,
           NEW s, Vacant(s, r), React(r, late, s),
           r \in begun, r \notin lost, waits[r] = "poll" \/ (waits[r] = None /\ ready[r] # 0),
           UNCHANGED <<set, begun, doubled, silenced, ready, flying>>,
           \A q \in Req : q \in timer' => q \in timer,
           lost' = lost \/ (lost' = lost \cup {r} /\ waits[r] = None /\ ready[r] # 4 /\ ~late)
    PROVE  Charged'
<1>1. Ledger(r)
  BY DEF Charged
<1>2. CASE ready[r] = 0 /\ waits[r] = "poll"
  <2>1. /\ waits' = [waits EXCEPT ![r] = None]
        /\ stack' = Append(s, Run(r, {"uncount"}, FALSE))
        /\ UNCHANGED done
    BY <1>2 DEF React
  <2>2. lost' = lost
    BY <1>2, AjaxAssumption
  <2>3. waits'[r] = None /\ \A q \in Req \ {r} : Still(q)
    BY <2>1, <2>2 DEF Still, Typed
  <2>4. {"uncount"} \in SUBSET Names /\ {"uncount"} \cap Early = {}
    BY DEF Names, Early
  <2>5. {"uncount"} \cap {"evaluate", "error", "close"} = {}
    OBVIOUS
  <2>6. r \in timer' => ready[r] = 0
    BY <1>2
  <2>. QED
    BY <2>1, <2>2, <2>3, <2>4, <2>5, <2>6, PushLedger
<1>3. CASE /\ ~(ready[r] = 0 /\ waits[r] = "poll")
           /\ ready[r] # 0 /\ r \notin done /\ (ready[r] = 4 \/ late)
  <2>. DEFINE todo == AfterDone(r, late)
  <2>1. /\ waits' = [waits EXCEPT ![r] = None]
        /\ stack' = Append(s, Run(r, todo, FALSE))
        /\ done' = done \cup {r}
    BY <1>3 DEF React
  <2>2. lost' = lost
    BY <1>3
  <2>3. waits'[r] = None /\ \A q \in Req \ {r} : Still(q)
    BY <2>1, <2>2 DEF Still, Typed
  <2>4. todo \in SUBSET Names /\ todo \cap Early = {} /\ "uncount" \in todo
    BY AfterDoneIsSteps, AfterDoneShape
  <2>. HIDE DEF todo
  <2>5. r \notin done /\ r \in done' /\ ready[r] # 0
    BY <1>3, <2>1
  <2>. QED
    BY <2>1, <2>2, <2>3, <2>4, <2>5, PushLedger
<1>4. CASE /\ ~(ready[r] = 0 /\ waits[r] = "poll")
           /\ ~(ready[r] # 0 /\ r \notin done /\ (ready[r] = 4 \/ late))
  <2>1. stack' = s /\ UNCHANGED <<waits, done>>
    BY <1>4 DEF React
  <2>2. \A q : Kept(q)
    BY <2>1 DEF Vacant, Kept
  <2>3. CASE lost' = lost
    <3>1. \A q \in Req : Still(q)
      BY <2>1, <2>3 DEF Still
    <3>. QED
      BY <2>2, <3>1, AllStill
  <2>4. CASE lost' = lost \cup {r} /\ waits[r] = None
    <3>1. \A q \in Req \ {r} : Kept(q) /\ Still(q)
      BY <2>1, <2>2, <2>4 DEF Still
    <3>2. /\ \A i : (Bearer(i, r)' => Bearer(i, r)) /\ (Inner(i, r)' => Inner(i, r))
          /\ \A x : (Pending(r, x)' => Pending(r, x)) /\ (Once(r, x) => Once(r, x)')
      BY <2>2, KeptFacts
    <3>3. \A i : ~Bearer(i, r)'
      BY <2>1, <3>2 DEF Vacant, Bearer
    <3>4. InCharge(r)'
      BY <1>1, <2>1, <2>4, <3>2, <3>3 DEF Ledger, InCharge
    <3>5. Evaluated(r)' /\ Silent(r)'
      BY <1>1, <2>1, <3>2 DEF Ledger, Evaluated, Silent, Remote
    <3>. QED
      BY <3>1, <3>4, <3>5, OthersStill DEF Ledger
  <2>. QED
    BY <2>3, <2>4
<1>. QED
  BY <1>2, <1>3, <1>4

-----------------------------------------------------------------------------
(* Who starts and who ends a request.                                      *)

LEMMA EmptyVacant ==
    ASSUME NEW r
    PROVE  Vacant(<<>>, r)
BY EmptyIsStacked DEF Vacant

LEMMA CheckLedger ==
    ASSUME Typed, Known, Charged, Check
    PROVE  Charged'
<1>1. /\ At("check") /\ React(Top.r, FALSE, Front(stack))
      /\ UNCHANGED <<set, begun, doubled, silenced, ready, flying, timer>>
  BY DEF Check, net
<1>2. /\ stack # <<>> /\ Top.r \in Req /\ Shape(Top) /\ On("run") /\ "check" \in Top.todo
  BY <1>1, TopShape DEF At, Known
<1>. SUFFICES ASSUME NEW r \in Req, r = Top.r PROVE Charged'
  BY <1>2
<1>3. ~Top.local /\ Top.todo \cap Duties # {}
  BY <1>2 DEF Shape, Succeeds, Completes, Duties
<1>4. /\ r \in begun /\ waits[r] = None /\ r \notin lost
      /\ \A i : Bearer(i, r) => i = Len(stack)
  BY <1>2, <1>3, TopBears
<1>5. Pending(r, "check")
  <2>1. Len(stack) \in DOMAIN stack /\ stack[Len(stack)] = Top /\ Top.k = "run"
    BY <1>2, TopShape, StackFacts DEF Known, Typed, Top, Last
  <2>. QED
    BY <1>2, <2>1 DEF Pending, Owns
<1>6. ready[r] # 0 \/ ready[r] = 0
  OBVIOUS
<1>7. Vacant(Front(stack), r)
  <2>1. Len(stack) \in Nat \ {0} /\ DOMAIN stack = 1..Len(stack) /\ Len(stack) - 1 \in 0..Len(stack)
    <3>1. Len(stack) \in Nat \ {0} /\ DOMAIN stack = 1..Len(stack)
      BY <1>2, FrontFacts, StackFacts DEF Typed
    <3>. QED
      BY <3>1
  <2>2. /\ Stacked(Front(stack)) /\ Len(Front(stack)) = Len(stack) - 1
        /\ \A i \in 1..(Len(stack) - 1) : Front(stack)[i] = stack[i]
    BY <2>1, PrefixIsStacked DEF Front, Typed
  <2>3. DOMAIN Front(stack) = 1..(Len(stack) - 1)
    BY <2>2, StackFacts
  <2>4. ASSUME NEW i \in DOMAIN Front(stack)
        PROVE  i \in DOMAIN stack /\ Front(stack)[i] = stack[i] /\ i # Len(stack)
    BY <2>1, <2>2, <2>3
  <2>5. \A i \in DOMAIN Front(stack) : ~Bearer(i, r)
    BY <1>4, <2>4
  <2>6. ASSUME NEW i, NEW x \in Early, Owns(Front(stack), i, r, x) PROVE FALSE
    <3>1. Owns(stack, i, r, x) /\ i # Len(stack)
      BY <2>4, <2>6 DEF Owns
    <3>. QED
      BY <1>4, <3>1, EarlyBears
  <2>. QED
    BY <2>2, <2>4, <2>5, <2>6 DEF Vacant
<1>8. CASE ready[r] # 0
  <2>1. lost' = lost \/ (lost' = lost \cup {r} /\ ready[r] # 4)
    BY DEF Check
  <2>. QED
    BY <1>1, <1>4, <1>7, <1>8, <2>1, ReactLedger
<1>9. CASE ready[r] = 0
  \* An aborted request has no check: it is not asynchronous.
  <2>1. stack' = Front(stack) /\ UNCHANGED <<waits, done>>
    BY <1>1, <1>4, <1>9, AjaxAssumption DEF React
  <2>2. lost' = lost \/ lost' = lost \cup {r}
    BY DEF Check
  <2>3. \A q : Kept(q)
    BY <2>1, <1>7 DEF Vacant, Kept
  <2>4. /\ \A i : (Bearer(i, r)' => Bearer(i, r)) /\ (Inner(i, r)' => Inner(i, r))
        /\ \A x : (Pending(r, x)' => Pending(r, x)) /\ (Once(r, x) => Once(r, x)')
    BY <2>3, KeptFacts
  <2>5. \A i : ~Bearer(i, r)'
    BY <1>7, <2>1, <2>4 DEF Vacant, Bearer
  <2>6. InCharge(r)'
    BY <1>1, <1>4, <2>1, <2>2, <2>4, <2>5 DEF Charged, Ledger, InCharge
  <2>7. Evaluated(r)' /\ Silent(r)'
    BY <1>1, <2>1, <2>4 DEF Charged, Ledger, Evaluated, Silent, Remote
  <2>8. \A q \in Req \ {r} : Kept(q) /\ Still(q)
    BY <1>1, <2>1, <2>2, <2>3 DEF Still
  <2>. QED
    BY <2>6, <2>7, <2>8, OthersStill DEF Ledger
<1>. QED
  BY <1>8, <1>9

LEMMA PollLedger ==
    ASSUME Typed, Known, Charged, NEW r \in Req, Poll(r)
    PROVE  Charged'
<1>1. /\ stack = <<>> /\ waits[r] = "poll" /\ React(r, FALSE, <<>>)
      /\ UNCHANGED <<set, begun, doubled, silenced, ready, flying, timer, lost>>
  BY DEF Poll, net
<1>2. InCharge(r)
  BY DEF Charged, Ledger
<1>3. r \in begun /\ r \notin lost
  BY <1>1, <1>2, AjaxAssumption DEF InCharge
<1>. DEFINE s == <<>>
<1>4. Vacant(s, r) /\ React(r, FALSE, s)
  BY <1>1, EmptyVacant
<1>. HIDE DEF s
<1>5. \A q \in Req : q \in timer' => q \in timer
  BY <1>1
<1>. QED
  BY <1>1, <1>3, <1>4, <1>5, ReactLedger

LEMMA TimeOutLedger ==
    ASSUME Typed, Known, Charged, NEW r \in Req, TimeOut(r)
    PROVE  Charged'
<1>1. /\ stack = <<>> /\ r \in timer
      /\ UNCHANGED <<set, begun, doubled, silenced, ready, flying, lost>>
      /\ \A q \in Req : q \in timer' => q \in timer
  BY DEF TimeOut, net
<1>2. InCharge(r)
  BY DEF Charged, Ledger
<1>3. CASE r \in done
  <2>1. UNCHANGED <<waits, done, stack>>
    BY <1>3 DEF TimeOut
  <2>2. \A q \in Req : Kept(q) /\ Still(q)
    BY <1>1, <2>1 DEF Kept, Still
  <2>. QED
    BY <2>2, AllStill
<1>4. CASE r \notin done /\ waits[r] # "poll"
  <2>1. ready[r] = 0
    BY <1>1, <1>2, <1>4 DEF InCharge
  <2>2. React(r, TRUE, stack)
    BY <1>4 DEF TimeOut
  <2>3. UNCHANGED <<waits, done, stack>>
    BY <1>4, <2>1, <2>2 DEF React
  <2>4. \A q \in Req : Kept(q) /\ Still(q)
    BY <1>1, <2>3 DEF Kept, Still
  <2>. QED
    BY <2>4, AllStill
<1>5. CASE r \notin done /\ waits[r] = "poll"
  <2>1. React(r, TRUE, <<>>)
    BY <1>1, <1>5 DEF TimeOut
  <2>2. r \in begun /\ r \notin lost
    BY <1>2, <1>5, AjaxAssumption DEF InCharge
  <2>. DEFINE s == <<>>
  <2>3. Vacant(s, r) /\ React(r, TRUE, s)
    BY <2>1, EmptyVacant
  <2>. HIDE DEF s
  <2>. QED
    BY <1>1, <1>5, <2>2, <2>3, ReactLedger
<1>. QED
  BY <1>3, <1>4, <1>5

LEMMA LoadLedger ==
    ASSUME Typed, Known, Charged, NEW r \in Req, Load(r)
    PROVE  Charged'
<1>. DEFINE todo == Succeeds \cup Completes
<1>1. /\ stack = <<>> /\ waits[r] = "script" /\ waits' = [waits EXCEPT ![r] = None]
      /\ stack' = Append(<<>>, Run(r, todo, FALSE))
      /\ UNCHANGED <<set, begun, doubled, silenced, ready, flying, timer, lost, done>>
  BY DEF Load, net, ghosts
<1>2. todo \in SUBSET Names /\ todo \cap Early = {} /\ "uncount" \in todo
      /\ todo \cap {"evaluate", "error", "close"} = {}
  <2>1. todo = {"success", "ajaxSuccess", "complete", "ajaxComplete", "uncount"}
    BY DEF Succeeds, Completes
  <2>. HIDE DEF todo
  <2>. QED
    BY <2>1 DEF Names, Early
<1>. HIDE DEF todo
<1>3. waits'[r] = None /\ \A q \in Req \ {r} : Still(q)
  BY <1>1 DEF Still, Typed
<1>4. r \in begun /\ r \notin lost /\ (r \in timer' => r \in done' \/ ready[r] = 0)
  BY <1>1, AjaxAssumption DEF Charged, Ledger, InCharge
<1>. QED
  BY <1>1, <1>2, <1>3, <1>4, EmptyVacant, PushLedger

LEMMA BeginLedger ==
    ASSUME Typed, Known, Charged, NEW r \in Req, Begin(r)
    PROVE  Charged'
<1>. DEFINE todo == {"start"} \cup AjaxSteps(r)
            f == Run(r, todo, FALSE)
            n == Len(stack)
<1>1. /\ r \notin begun /\ begun' = begun \cup {r} /\ stack' = Append(stack, f)
      /\ UNCHANGED <<set, done, doubled, silenced, waits, ready, flying, timer, lost>>
  BY DEF Begin, net, ghosts
<1>2. f \in RunFrames /\ f.k = "run" /\ f.r = r /\ f.local = FALSE /\ f.todo = todo
  BY BeginShape DEF Run
<1>3. todo \subseteq Early
  BY DEF AjaxSteps, Early
<1>. HIDE DEF f, todo
<1>4. /\ n \in Nat /\ DOMAIN stack = 1..n /\ DOMAIN stack' = 1..(n + 1)
      /\ \A i \in 1..n : stack'[i] = stack[i]
      /\ stack'[n + 1] = f
  <2>. DEFINE u == Append(stack, f)
  <2>1. /\ Len(stack) \in Nat /\ DOMAIN stack = 1..Len(stack) /\ DOMAIN u = 1..(Len(stack) + 1)
        /\ \A i \in 1..Len(stack) : u[i] = stack[i]
        /\ u[Len(stack) + 1] = f
    BY <1>2, PushIs DEF Typed
  <2>2. stack' = u
    BY <1>1
  <2>. HIDE DEF u
  <2>. QED
    BY <2>1, <2>2
<1>. HIDE DEF n
<1>5. ASSUME NEW i \in DOMAIN stack'
      PROVE  (i \in DOMAIN stack /\ stack'[i] = stack[i]) \/ (i = n + 1 /\ stack'[i] = f)
  <2>1. i \in 1..n \/ i = n + 1
    BY <1>4
  <2>. QED
    BY <1>4, <2>1
<1>6. ASSUME NEW q \in Req \ {r} PROVE Kept(q) /\ Still(q)
  <2>1. Kept(q)
    BY <1>2, <1>5 DEF Kept
  <2>. QED
    BY <1>1, <2>1 DEF Still
<1>7. Ledger(r) /\ InCharge(r)
  BY DEF Charged, Ledger
<1>8. /\ \A i : ~Bearer(i, r)
      /\ r \notin lost /\ r \notin done /\ waits[r] = None /\ ready[r] # 0 /\ ~Pending(r, "close")
  BY <1>1, <1>7 DEF InCharge
<1>9. \A i : Bearer(i, r)' => i = n + 1
  BY <1>5, <1>8 DEF Bearer
<1>10. ASSUME NEW x, x \notin Early
       PROVE  (Pending(r, x)' => Pending(r, x)) /\ (Once(r, x) => Once(r, x)')
  BY <1>2, <1>3, <1>5, <1>10 DEF Pending, Once, Owns
<1>11. \A i : Inner(i, r)' => Inner(i, r)
  BY <1>2, <1>5 DEF Inner, Owns
<1>12. ~Pending(r, "close")'
  BY <1>8, <1>10 DEF Early
<1>13. InCharge(r)'
  BY <1>1, <1>7, <1>8, <1>9, <1>12 DEF InCharge
<1>14. Evaluated(r)'
  <2>1. "evaluate" \notin Early
    BY DEF Early
  <2>. QED
    BY <1>1, <1>7, <1>10, <1>11, <2>1 DEF Ledger, Evaluated
<1>15. Silent(r)'
  BY <1>1, <1>7, <1>8 DEF Ledger, Silent
<1>. QED
  BY <1>6, <1>13, <1>14, <1>15, OthersStill DEF Ledger

-----------------------------------------------------------------------------
(* The page.                                                               *)

\* While a function of the page runs nobody is about to send or to report an error.
LEMMA PageBars ==
    ASSUME Typed, Known, PageRuns
    PROVE  /\ \A i, r : ~Owns(stack, i, r, "error")
           /\ \A i, r : Owns(stack, i, r, "send") => Bearer(i, r)
<1>1. ASSUME NEW i, NEW r, NEW x, Owns(stack, i, r, x) PROVE i # Len(stack)
  <2>1. i \in DOMAIN stack /\ stack[i].k = "run"
    BY <1>1 DEF Owns
  <2>2. stack # <<>>
    BY <2>1, EmptyIsStacked
  <2>3. stack[Len(stack)].k = "page"
    BY <2>2 DEF PageRuns, On, Top, Last
  <2>. QED
    BY <2>1, <2>3
<1>2. ASSUME NEW i, NEW r, Owns(stack, i, r, "error") PROVE FALSE
  <2>1. i \in DOMAIN stack /\ stack[i].k = "run" /\ Bare(stack[i])
    BY <1>2 DEF Owns, Bare
  <2>. QED
    BY <1>1, <1>2, <2>1 DEF Known, Placed
<1>3. ASSUME NEW i, NEW r, Owns(stack, i, r, "send") PROVE Bearer(i, r)
  <2>1. "send" \in Early
    BY DEF Early
  <2>. QED
    BY <1>1, <1>3, <2>1, EarlyBears
<1>. QED
  BY <1>2, <1>3

LEMMA AbortLedger ==
    ASSUME Typed, Known, Charged, NEW r \in Req, Abort(r)
    PROVE  Charged'
<1>1. /\ PageRuns /\ ~Remote(r) /\ (waits[r] = "poll" \/ r \in done)
      /\ ready' = [ready EXCEPT ![r] = 0] /\ flying' = flying \ {r}
      /\ silenced' = IF r \in done THEN silenced ELSE silenced \cup {r}
      /\ UNCHANGED <<set, begun, waits, timer, done, stack, lost, doubled>>
  BY DEF Abort, Remote
<1>2. \A q : Kept(q)
  BY <1>1 DEF Kept
<1>3. \A q \in Req \ {r} : Kept(q) /\ Still(q)
  BY <1>1, <1>2 DEF Still, Known
<1>4. ready'[r] = 0
  BY <1>1 DEF Known
<1>5. Ledger(r) /\ InCharge(r)
  BY DEF Charged, Ledger
<1>6. /\ \A i : (Bearer(i, r)' => Bearer(i, r)) /\ (Inner(i, r)' => Inner(i, r))
      /\ \A x : (Pending(r, x)' => Pending(r, x)) /\ (Once(r, x) => Once(r, x)')
  BY <1>2, KeptFacts
<1>7. r \in begun
  BY <1>1, <1>5, AjaxAssumption DEF InCharge
<1>8. ASSUME NEW x \in {"open", "send"} PROVE ~Pending(r, x)
  <2>1. x \in Early
    BY DEF Early
  <2>2. CASE r \in done
    BY <1>5, <2>1, <2>2 DEF InCharge
  <2>3. CASE r \notin done
    <3>1. \A i : ~Bearer(i, r)
      BY <1>1, <1>5, <2>3, AjaxAssumption DEF InCharge
    <3>2. \A i : Owns(stack, i, r, x) => Bearer(i, r)
      BY <1>1, <2>1, EarlyBears, PageBars
    <3>. QED
      BY <3>1, <3>2 DEF Pending
  <2>. QED
    BY <2>2, <2>3
<1>9. InCharge(r)'
  BY <1>1, <1>4, <1>5, <1>6, <1>7, <1>8 DEF InCharge
<1>10. Evaluated(r)'
  BY <1>1, <1>5, <1>6 DEF Ledger, Evaluated
<1>11. ~Pending(r, "error")
  BY <1>1, PageBars DEF Pending
<1>12. Silent(r)'
  BY <1>1, <1>4, <1>5, <1>6, <1>11 DEF Ledger, Silent, Remote
<1>. QED
  BY <1>3, <1>9, <1>10, <1>12, OthersStill DEF Ledger

LEMMA AnswerLedger ==
    ASSUME Typed, Known, Charged, NEW r \in Req, Answer(r)
    PROVE  Charged'
<1>1. /\ r \in flying /\ ready' = [ready EXCEPT ![r] = 4] /\ flying' = flying \ {r}
      /\ UNCHANGED <<set, begun, waits, timer, done, stack, lost, doubled, silenced>>
  BY DEF Answer, ghosts
<1>2. \A q : Kept(q)
  BY <1>1 DEF Kept
<1>3. \A q \in Req \ {r} : Kept(q) /\ Still(q)
  BY <1>1, <1>2 DEF Still, Known
<1>4. ready'[r] = 4 /\ 4 # 0
  BY <1>1 DEF Known
<1>5. Ledger(r) /\ InCharge(r)
  BY DEF Charged, Ledger
<1>6. /\ \A i : (Bearer(i, r)' => Bearer(i, r)) /\ (Inner(i, r)' => Inner(i, r))
      /\ \A x : (Pending(r, x)' => Pending(r, x)) /\ (Once(r, x) => Once(r, x)')
  BY <1>2, KeptFacts
<1>7. InCharge(r)'
  BY <1>1, <1>4, <1>5, <1>6 DEF InCharge
<1>8. Evaluated(r)'
  BY <1>1, <1>5, <1>6 DEF Ledger, Evaluated
<1>9. Silent(r)'
  BY <1>1, <1>5 DEF Ledger, Silent, InCharge
<1>. QED
  BY <1>3, <1>7, <1>8, <1>9, OthersStill DEF Ledger

LEMMA ThrowLedger ==
    ASSUME Typed, Known, Charged, OpenThrows \/ Throw
    PROVE  Charged'
<1>1. /\ stack' = Uncaught(stack)
      /\ lost' = lost \cup {r \in Dropped(stack) : set[r].global}
      /\ UNCHANGED <<set, begun, waits, timer, done, ready, flying, doubled, silenced>>
  BY DEF OpenThrows, Throw, net
<1>2. /\ \A q : Kept(q)
      /\ Len(Uncaught(stack)) \in 0..Len(stack)
      /\ DOMAIN stack' = 1..Len(Uncaught(stack))
  BY <1>1, UncaughtKept
<1>3. ASSUME NEW q \in Req, q \in lost', q \notin lost PROVE Ledger(q)'
  <2>1. PICK j \in DOMAIN stack : j > Len(Uncaught(stack)) /\ Carries(stack[j]) /\ stack[j].r = q
    BY <1>1, <1>3 DEF Dropped
  <2>2. Bearer(j, q)
    BY <2>1 DEF Bearer, Bears, Carries, Leads, Duties
  <2>3. Ledger(q) /\ InCharge(q)
    BY DEF Charged, Ledger
  <2>4. /\ \A i : (Bearer(i, q)' => Bearer(i, q)) /\ (Inner(i, q)' => Inner(i, q))
        /\ \A x : (Pending(q, x)' => Pending(q, x)) /\ (Once(q, x) => Once(q, x)')
    BY <1>2, KeptFacts
  <2>5. ASSUME NEW i, Bearer(i, q)' PROVE FALSE
    <3>1. i = j
      BY <2>2, <2>3, <2>4, <2>5 DEF InCharge
    <3>2. i \in 1..Len(Uncaught(stack))
      BY <1>2, <2>5 DEF Bearer
    <3>. QED
      BY <1>2, <2>1, <3>1, <3>2
  <2>6. InCharge(q)'
    BY <1>1, <1>3, <2>2, <2>3, <2>4, <2>5 DEF InCharge
  <2>7. Evaluated(q)' /\ Silent(q)'
    BY <1>1, <2>3, <2>4 DEF Ledger, Evaluated, Silent, Remote
  <2>. QED
    BY <2>6, <2>7 DEF Ledger
<1>4. ASSUME NEW q \in Req, q \in lost \/ q \notin lost' PROVE Ledger(q)'
  <2>1. Kept(q) /\ Still(q)
    BY <1>1, <1>2, <1>4 DEF Still
  <2>. QED
    BY <2>1, StillFacts DEF Charged
<1>. QED
  BY <1>3, <1>4 DEF Charged

\* When beforeSend refuses, call m, which has called it, becomes f, which has only to
\* count down and to close.
Refused(m, f) ==
    /\ m # Len(stack) /\ DOMAIN stack = 1..(m + 1) /\ DOMAIN stack' = 1..m
    /\ stack[m] \in RunFrames /\ ~stack[m].local
    /\ "arm" \in stack[m].todo /\ "start" \notin stack[m].todo
    /\ stack[m + 1].k = "page"
    /\ f.k = "run" /\ f.todo = {"uncount", "close"} /\ f.local = FALSE
    /\ f.r = stack[m].r
    /\ stack'[m] = f
    /\ \A i \in 1..(m - 1) : stack'[i] = stack[i]

LEMMA RefuseIs ==
    ASSUME Typed, Known, Refuse
    PROVE  \E m \in DOMAIN stack, f \in RunFrames : Refused(m, f)
<1>. DEFINE n == Len(stack)
            s == Front(stack)
            u == Front(s)
            f == [Last(s) EXCEPT !.todo = {"uncount", "close"}]
            m == n - 1
<1>1. /\ stack # <<>> /\ Last(stack).k = "page" /\ Last(stack).step = "beforeSend"
      /\ stack' = Append(u, f)
  BY DEF Refuse, On, Top
<1>2. Stacked(stack) /\ Stacked(s) /\ s # <<>> /\ Last(s) \in RunFrames
  BY <1>1, FrontFacts, CoveredBelow DEF Known, Typed
<1>3. n \in Nat \ {0} /\ DOMAIN stack = 1..n /\ m \in 0..n
  BY <1>1, <1>2, FrontFacts, StackFacts
<1>4. Len(s) = m /\ \A i \in 1..m : s[i] = stack[i]
  BY <1>2, <1>3, PrefixIsStacked DEF Front
<1>5. m \in Nat \ {0} /\ m \in 1..m /\ m - 1 \in 0..m
  <2>1. Len(s) \in Nat \ {0}
    BY <1>2, FrontFacts, StackFacts
  <2>. HIDE DEF s
  <2>2. m \in Nat \ {0}
    BY <1>4, <2>1
  <2>. HIDE DEF m
  <2>. QED
    BY <2>2
<1>6. Last(s) = stack[m] /\ stack[m] \in RunFrames
  BY <1>2, <1>4, <1>5 DEF Last
<1>7. Stacked(u) /\ Len(u) = m - 1 /\ \A i \in 1..(m - 1) : u[i] = s[i]
  <2>1. u = SubSeq(s, 1, m - 1)
    BY <1>4 DEF Front
  <2>. HIDE DEF s, m
  <2>. QED
    BY <1>2, <1>4, <1>5, <2>1, PrefixIsStacked
<1>8. /\ "arm" \in stack[m].todo /\ "start" \notin stack[m].todo
      /\ ~stack[m].local /\ stack[m].k = "run"
  <2>1. n \in DOMAIN stack /\ stack[n] = Last(stack)
    BY <1>3 DEF Last
  <2>. QED
    BY <1>1, <1>6, <2>1 DEF Known, Placed, RunFrames
<1>9. f \in RunFrames /\ f.k = "run" /\ f.todo = {"uncount", "close"} /\ f.local = FALSE
      /\ f.r = stack[m].r
  BY <1>6, <1>8 DEF RunFrames, Names
<1>. HIDE DEF f, u, s
<1>10. /\ DOMAIN stack' = 1..m
       /\ \A i \in 1..(m - 1) : stack'[i] = u[i]
       /\ stack'[m] = f
  <2>. DEFINE t == Append(u, f)
  <2>. HIDE DEF m
  <2>1. /\ DOMAIN t = 1..(Len(u) + 1)
        /\ \A i \in 1..Len(u) : t[i] = u[i]
        /\ t[Len(u) + 1] = f
    BY <1>7, <1>9, PushIs
  <2>2. Len(u) + 1 = m
    BY <1>5, <1>7
  <2>3. stack' = t
    BY <1>1
  <2>. HIDE DEF t
  <2>. QED
    BY <1>7, <2>1, <2>2, <2>3
<1>11. m \in DOMAIN stack /\ m # n /\ DOMAIN stack = 1..(m + 1) /\ stack[m + 1].k = "page"
  <2>1. \A a \in Nat : a - 1 # a /\ a - 1 + 1 = a /\ 1..(a - 1) \subseteq 1..a
    OBVIOUS
  <2>2. stack[n].k = "page"
    BY <1>1, <1>3 DEF Last
  <2>. HIDE DEF n
  <2>. QED
    BY <1>3, <1>5, <2>1, <2>2
<1>12. \A i \in 1..(m - 1) : stack'[i] = stack[i]
  <2>1. 1..(m - 1) \subseteq 1..m
    <3>. HIDE DEF m
    <3>. QED
      BY <1>5
  <2>. QED
    BY <1>4, <1>7, <1>10, <2>1
<1>. HIDE DEF m
<1>. QED
  BY <1>6, <1>8, <1>9, <1>10, <1>11, <1>12 DEF n, Refused

LEMMA RefuseLedger ==
    ASSUME Typed, Known, Charged, Refuse
    PROVE  Charged'
<1>1. UNCHANGED <<set, begun, waits, timer, done, ready, flying, lost, doubled, silenced>>
  BY DEF Refuse, net, ghosts
<1>2. PICK m \in DOMAIN stack, f \in RunFrames : Refused(m, f)
  BY RefuseIs
<1>3. /\ m # Len(stack) /\ DOMAIN stack = 1..(m + 1) /\ DOMAIN stack' = 1..m
      /\ stack[m] \in RunFrames /\ ~stack[m].local
      /\ "arm" \in stack[m].todo /\ "start" \notin stack[m].todo
      /\ stack[m + 1].k = "page"
      /\ f.k = "run" /\ f.todo = {"uncount", "close"} /\ f.local = FALSE
      /\ f.r = stack[m].r
      /\ stack'[m] = f
      /\ \A i \in 1..(m - 1) : stack'[i] = stack[i]
  BY <1>2 DEF Refused
<1>. DEFINE n == Len(stack)
<1>4. n \in Nat /\ m \in Nat \ {0} /\ n = m + 1
  <2>1. n \in Nat /\ DOMAIN stack = 1..n
    BY StackFacts DEF Typed
  <2>. HIDE DEF n
  <2>2. m \in 1..n /\ 1..n = 1..(m + 1)
    BY <1>3, <2>1
  <2>3. n \in 1..(m + 1) /\ m + 1 \in 1..n
    BY <2>1, <2>2
  <2>. QED
    BY <2>1, <2>2, <2>3
<1>. HIDE DEF n
<1>11. /\ 1..(m - 1) \subseteq 1..m /\ (\A i \in 1..m : i \in 1..(m - 1) \/ i = m)
       /\ m \notin 1..(m - 1) /\ 1..m \subseteq 1..(m + 1) /\ m + 1 \notin 1..m
  BY <1>4
<1>8. /\ "arm" \in stack[m].todo /\ ~stack[m].local /\ stack[m].k = "run"
  BY <1>3 DEF RunFrames
<1>9. f \in RunFrames /\ f.k = "run" /\ f.todo = {"uncount", "close"} /\ f.local = FALSE
      /\ f.r = stack[m].r
  BY <1>3
<1>12. ASSUME NEW i \in DOMAIN stack'
       PROVE  \/ i \in DOMAIN stack /\ i # m /\ i # n /\ stack'[i] = stack[i]
              \/ i = m /\ i \in DOMAIN stack /\ stack'[i] = f
  <2>1. i \in 1..m /\ i \in DOMAIN stack /\ i # n
    BY <1>3, <1>4, <1>11
  <2>. QED
    BY <1>3, <1>11, <2>1
<1>. SUFFICES ASSUME NEW r \in Req, r = stack[m].r PROVE Charged'
  BY <1>3 DEF RunFrames
<1>13. ASSUME NEW q \in Req \ {r} PROVE Kept(q) /\ Still(q)
  <2>1. Kept(q)
    BY <1>9, <1>12 DEF Kept
  <2>. QED
    BY <1>1, <2>1 DEF Still
<1>14. Ledger(r) /\ InCharge(r)
  BY DEF Charged, Ledger
<1>15. Bearer(m, r) /\ Pending(r, "arm")
  BY <1>8 DEF Bearer, Bears, Duties, Pending, Owns
<1>16. /\ \A i : Bearer(i, r) => i = m
       /\ r \in begun /\ waits[r] = None /\ r \notin lost /\ r \notin done
  BY <1>14, <1>15 DEF InCharge, Early
<1>17. \A i : Bearer(i, r)' => Bearer(i, r)
  BY <1>12, <1>15 DEF Bearer
<1>18. ASSUME NEW i, NEW x, x \notin {"uncount", "close"}, Owns(stack', i, r, x)
       PROVE  Owns(stack, i, r, x) /\ i # m /\ i # n
  BY <1>9, <1>12, <1>18 DEF Owns
<1>19. ASSUME NEW x, x \notin {"uncount", "close"}
       PROVE  (Pending(r, x)' => Pending(r, x)) /\ (Once(r, x) => Once(r, x)')
  BY <1>18, <1>19 DEF Pending, Once, Owns
<1>20. \A i : Inner(i, r)' => Inner(i, r)
  BY <1>9, <1>12 DEF Inner, Owns
<1>21. ASSUME NEW x \in {"open", "send"} PROVE ~Pending(r, x)'
  <2>. SUFFICES ASSUME NEW i, Owns(stack', i, r, x) PROVE FALSE
    BY DEF Pending
  <2>1. Owns(stack, i, r, x) /\ i # m /\ i # n
    BY <1>18
  <2>2. x \in Early
    BY DEF Early
  <2>. QED
    BY <1>16, <2>1, <2>2, EarlyBears DEF n
<1>22. InCharge(r)'
  BY <1>1, <1>14, <1>16, <1>17, <1>21 DEF InCharge
<1>23. Evaluated(r)'
  BY <1>1, <1>14, <1>19, <1>20 DEF Ledger, Evaluated
<1>24. Silent(r)'
  BY <1>1, <1>14, <1>19 DEF Ledger, Silent, Remote
<1>. QED
  BY <1>13, <1>22, <1>23, <1>24, OthersStill DEF Ledger

LEMMA LedgerInit == Init => Known /\ Charged
<1>. SUFFICES ASSUME Init PROVE Known /\ Charged
  OBVIOUS
<1>1. Placed(stack) /\ DOMAIN stack = {}
  BY EmptyPlaced, EmptyIsStacked DEF Init
<1>2. Known
  BY <1>1 DEF Init, Known
<1>3. ASSUME NEW r \in Req PROVE Ledger(r)
  <2>1. /\ \A i : ~Bearer(i, r) /\ ~Inner(i, r)
        /\ \A x : ~Pending(r, x) /\ Once(r, x)
    BY <1>1 DEF Bearer, Inner, Owns, Pending, Once
  <2>. QED
    BY <2>1, AjaxAssumption DEF Init, Ledger, InCharge, Evaluated, Silent
<1>. QED
  BY <1>2, <1>3 DEF Charged

LEMMA LedgerNext == Typed /\ Known /\ Charged /\ [Next]_vars => Charged'
<1>. SUFFICES ASSUME Typed, Known, Charged, [Next]_vars PROVE Charged'
  OBVIOUS
<1>1. CASE Steps \/ UNCHANGED vars
  BY <1>1, IdleSteps, WaitSteps, OpenStep, SendStep, UncountStep, CloseStep, EvaluateLedger,
     CheckLedger DEF Steps
<1>2. CASE OpenThrows \/ SendThrows \/ Return \/ Refuse \/ Throw
  BY <1>2, ThrowLedger, SendThrowsStep, IdleSteps, RefuseLedger
<1>3. ASSUME NEW r \in Req, Begin(r) \/ Abort(r) \/ Poll(r) \/ TimeOut(r) \/ Load(r) \/ Answer(r)
      PROVE  Charged'
  BY <1>3, BeginLedger, AbortLedger, PollLedger, TimeOutLedger, LoadLedger, AnswerLedger
<1>. QED
  BY <1>1, <1>2, <1>3 DEF Next

-----------------------------------------------------------------------------
(* The count.                                                              *)

\* Call i sees to the end of request r, which is counted.
Carrier(i, r) == i \in DOMAIN stack /\ stack[i].r = r /\ Carries(stack[i])

LEMMA InProgressIs ==
    InProgress = {r \in begun : set[r].global /\ (waits[r] # None \/ \E i : Carrier(i, r))}
BY DEF InProgress, Carrier

LEMMA CarrierBears ==
    ASSUME NEW i, NEW r, Carrier(i, r)
    PROVE  Bearer(i, r)
BY DEF Carrier, Carries, Leads, Bearer, Bears, Duties

\* The sets that are counted are finite, and no request is in two of them.
LEMMA CountSets ==
    ASSUME Known, Charged
    PROVE  /\ IsFiniteSet(InProgress) /\ IsFiniteSet(lost) /\ IsFiniteSet(doubled)
           /\ Cardinality(InProgress) \in Nat /\ Cardinality(lost) \in Nat
           /\ Cardinality(doubled) \in Nat
           /\ InProgress \cap lost = {}
<1>1. IsFiniteSet(Req)
  BY AjaxAssumption
<1>2. InProgress \subseteq Req /\ lost \subseteq Req /\ doubled \subseteq Req
  BY DEF InProgress, Known
<1>3. IsFiniteSet(InProgress) /\ IsFiniteSet(lost) /\ IsFiniteSet(doubled)
  BY <1>1, <1>2, FS_Subset
<1>4. ASSUME NEW r \in InProgress, r \in lost PROVE FALSE
  <2>1. InCharge(r)
    BY <1>2 DEF Charged, Ledger
  <2>2. \A i : ~Carrier(i, r)
    BY <1>4, <2>1, CarrierBears DEF InCharge
  <2>3. waits[r] = None
    BY <1>4, <2>1 DEF InCharge
  <2>. QED
    BY <2>2, <2>3, InProgressIs
<1>. QED
  BY <1>3, <1>4, FS_CardinalityType

\* Nobody takes over a request and nobody drops one.
LEMMA SameCount ==
    ASSUME ActiveIsExact, InProgress' = InProgress, UNCHANGED <<active, lost, doubled>>
    PROVE  ActiveIsExact'
BY DEF ActiveIsExact

LEMMA SameCarriers ==
    ASSUME ActiveIsExact, UNCHANGED <<set, begun, waits, active, lost, doubled>>,
           \A q : (\E i : Carrier(i, q)') <=> (\E i : Carrier(i, q))
    PROVE  ActiveIsExact'
<1>1. InProgress' = {r \in begun' : set'[r].global /\ (waits'[r] # None \/ \E i : Carrier(i, r)')}
  BY DEF InProgress, Carrier
<1>2. InProgress' = InProgress
  BY <1>1, InProgressIs
<1>. QED
  BY <1>2, SameCount

\* Requests that nobody will take off the count any more.
LEMMA LoseSome ==
    ASSUME Known, Charged, ActiveIsExact, NEW D \in SUBSET InProgress,
           InProgress' = InProgress \ D, lost' = lost \cup D, UNCHANGED <<active, doubled>>
    PROVE  ActiveIsExact'
<1>1. /\ IsFiniteSet(InProgress) /\ IsFiniteSet(lost)
      /\ Cardinality(InProgress) \in Nat /\ Cardinality(lost) \in Nat
      /\ Cardinality(doubled) \in Nat /\ InProgress \cap lost = {}
  BY CountSets
<1>2. IsFiniteSet(D)
  BY <1>1, FS_Subset
<1>3. lost \cap D = {} /\ InProgress \cap D = D
  BY <1>1
<1>4. Cardinality(D) \in Nat /\ Cardinality({}) = 0
  BY <1>2, FS_CardinalityType, FS_EmptySet
<1>5. Cardinality(lost \cup D) = Cardinality(lost) + Cardinality(D) - Cardinality(lost \cap D)
  BY <1>1, <1>2, FS_Union
<1>6. Cardinality(InProgress \ D) = Cardinality(InProgress) - Cardinality(InProgress \cap D)
  BY <1>1, <1>2, FS_Difference
<1>7. Cardinality(lost \cap D) = 0 /\ Cardinality(InProgress \cap D) = Cardinality(D)
  BY <1>3, <1>4
<1>8. /\ Cardinality(lost \cup D) = Cardinality(lost) + Cardinality(D)
      /\ Cardinality(InProgress \ D) = Cardinality(InProgress) - Cardinality(D)
  BY <1>1, <1>4, <1>5, <1>6, <1>7
<1>9. /\ Cardinality(lost') = Cardinality(lost) + Cardinality(D)
      /\ Cardinality(InProgress') = Cardinality(InProgress) - Cardinality(D)
  BY <1>8
<1>. QED
  BY <1>1, <1>4, <1>9 DEF ActiveIsExact

\* What the top call has still to do, and what was there besides.
LEMMA CalledCarriers ==
    ASSUME Typed, Known, On("run"), NEW todo \in SUBSET Names, NEW hook,
           stack' = Called(todo, hook)
    PROVE  /\ \A q : \A i : i # Len(stack) => (Carrier(i, q)' <=> Carrier(i, q))
           /\ \A q : \A i : i = Len(stack) =>
                /\ Carrier(i, q) <=> q = Top.r /\ Carries(Top)
                /\ Carrier(i, q)' <=>
                     q = Top.r /\ ~Top.local /\ Leads(todo) /\ "start" \notin todo
<1>. DEFINE n == Len(stack)
            f == [Top EXCEPT !.todo = todo]
<1>1. /\ stack # <<>> /\ Top \in RunFrames /\ Top.k = "run"
  BY TopShape DEF Known
<1>2. /\ Stacked(stack) /\ n - 1 \in Nat /\ DOMAIN stack = 1..n
      /\ stack[n] = Top
      /\ \A i \in 1..(n - 1) : stack'[i] = stack[i]
      /\ stack'[n] = f
      /\ hook \notin Hooks => DOMAIN stack' = 1..n
      /\ hook \in Hooks => DOMAIN stack' = 1..(n + 1) /\ stack'[n + 1] = Page(Top.r, hook)
  BY CalledIs DEF Typed
<1>3. f.k = "run" /\ f.r = Top.r /\ f.local = Top.local /\ f.todo = todo
  BY <1>1 DEF RunFrames
<1>4. ~Carries(Page(Top.r, hook))
  BY DEF Page, Carries
<1>5. n \in Nat \ {0}
  BY <1>1, <1>2, StackFacts
<1>. HIDE DEF f, n
<1>6. /\ 1..(n - 1) \subseteq 1..n /\ \A i \in 1..n : i \in 1..(n - 1) \/ i = n
      /\ \A i \in 1..(n + 1) : i \in 1..(n - 1) \/ i = n \/ i = n + 1
      /\ n \in 1..n /\ n \in 1..(n + 1) /\ 1..(n - 1) \subseteq 1..(n + 1) /\ n + 1 \notin 1..n
  BY <1>5
<1>7. ASSUME NEW q, NEW i, i # n PROVE Carrier(i, q)' <=> Carrier(i, q)
  <2>1. CASE i \in 1..(n - 1)
    BY <1>2, <1>6, <2>1 DEF Carrier
  <2>2. CASE i \notin 1..(n - 1)
    <3>1. ~Carrier(i, q)
      BY <1>2, <1>6, <1>7, <2>2 DEF Carrier
    <3>2. ~Carrier(i, q)'
      <4>1. CASE hook \notin Hooks
        BY <1>2, <1>6, <1>7, <2>2, <4>1 DEF Carrier
      <4>2. CASE hook \in Hooks
        BY <1>2, <1>4, <1>6, <1>7, <2>2, <4>2 DEF Carrier
      <4>. QED
        BY <4>1, <4>2
    <3>. QED
      BY <3>1, <3>2
  <2>. QED
    BY <2>1, <2>2
<1>8. n \in DOMAIN stack /\ n \in DOMAIN stack'
  BY <1>2, <1>6
<1>9. Carries(stack'[n]) <=> ~Top.local /\ Leads(todo) /\ "start" \notin todo
  BY <1>2, <1>3 DEF Carries
<1>10. stack'[n].r = Top.r
  BY <1>2, <1>3
<1>11. ASSUME NEW q, NEW i, i = n
       PROVE  /\ Carrier(i, q) <=> q = Top.r /\ Carries(Top)
              /\ Carrier(i, q)' <=> q = Top.r /\ Carries(stack'[n])
  <2>1. Carrier(i, q) <=> q = Top.r /\ Carries(Top)
    BY <1>2, <1>8, <1>11 DEF Carrier
  <2>2. Carrier(i, q)' <=> q = Top.r /\ Carries(stack'[n])
    BY <1>8, <1>10, <1>11 DEF Carrier
  <2>. QED
    BY <2>1, <2>2
<1>. QED
  BY <1>7, <1>9, <1>11 DEF n

\* The steps that lead to the end are as they were.
LEMMA SameTodo ==
    ASSUME Typed, Known, ActiveIsExact, On("run"), NEW todo \in SUBSET Names, NEW hook,
           stack' = Called(todo, hook), todo \cap Duties = Top.todo \cap Duties,
           UNCHANGED <<set, begun, waits, active, lost, doubled>>
    PROVE  ActiveIsExact'
<1>1. Top.k = "run"
  BY TopShape DEF Known
<1>2. (Leads(todo) <=> Leads(Top.todo)) /\ ("start" \in todo <=> "start" \in Top.todo)
  BY DEF Leads, Duties
<1>3. ASSUME NEW q, NEW i PROVE Carrier(i, q)' <=> Carrier(i, q)
  <2>1. i # Len(stack) => (Carrier(i, q)' <=> Carrier(i, q))
    BY CalledCarriers
  <2>2. i = Len(stack) =>
          /\ Carrier(i, q) <=> q = Top.r /\ Carries(Top)
          /\ Carrier(i, q)' <=>
               q = Top.r /\ ~Top.local /\ Leads(todo) /\ "start" \notin todo
    BY CalledCarriers
  <2>3. Carries(Top) <=> ~Top.local /\ Leads(todo) /\ "start" \notin todo
    BY <1>1, <1>2 DEF Carries
  <2>. QED
    BY <2>1, <2>2, <2>3
<1>. QED
  BY <1>3, SameCarriers

LEMMA StepCount ==
    ASSUME Typed, Known, ActiveIsExact, NEW step \in Names \ Duties, At(step), NEW hook,
           stack' = Called(Top.todo \ {step}, hook),
           UNCHANGED <<set, begun, waits, active, lost, doubled>>
    PROVE  ActiveIsExact'
<1>1. On("run") /\ Top.todo \ {step} \in SUBSET Names
  BY TopShape DEF Known, At
<1>2. (Top.todo \ {step}) \cap Duties = Top.todo \cap Duties
  OBVIOUS
<1>. QED
  BY <1>1, <1>2, SameTodo

\* Of the requests only r changes.
LEMMA OneChanges ==
    ASSUME Known, UNCHANGED set, NEW r \in Req,
           begun' = begun \/ begun' = begun \cup {r},
           \A q \in Req \ {r} : /\ waits'[q] = waits[q]
                                /\ (\E i : Carrier(i, q)') <=> (\E i : Carrier(i, q))
    PROVE  /\ \A q : q # r => (q \in InProgress' <=> q \in InProgress)
           /\ r \in InProgress' <=>
                r \in begun' /\ set[r].global /\ (waits'[r] # None \/ \E i : Carrier(i, r)')
<1>1. InProgress' = {q \in begun' : set'[q].global /\ (waits'[q] # None \/ \E i : Carrier(i, q)')}
  BY DEF InProgress, Carrier
<1>2. begun \subseteq Req
  BY DEF Known
<1>. QED
  BY <1>1, <1>2, InProgressIs

LEMMA OneJoins ==
    ASSUME Known, Charged, ActiveIsExact, NEW r, r \notin InProgress, r \in InProgress',
           \A q : q # r => (q \in InProgress' <=> q \in InProgress),
           active' = active + 1, UNCHANGED <<lost, doubled>>
    PROVE  ActiveIsExact'
<1>1. InProgress' = InProgress \cup {r}
  OBVIOUS
<1>2. IsFiniteSet(InProgress) /\ Cardinality(InProgress) \in Nat
      /\ Cardinality(lost) \in Nat /\ Cardinality(doubled) \in Nat
  BY CountSets
<1>3. Cardinality(InProgress') = Cardinality(InProgress) + 1
  BY <1>1, <1>2, FS_AddElement
<1>. QED
  BY <1>2, <1>3 DEF ActiveIsExact

LEMMA OneLeaves ==
    ASSUME Known, Charged, ActiveIsExact, NEW r, r \in InProgress, r \notin InProgress',
           \A q : q # r => (q \in InProgress' <=> q \in InProgress),
           active' = active - 1, UNCHANGED <<lost, doubled>>
    PROVE  ActiveIsExact'
<1>1. InProgress' = InProgress \ {r}
  OBVIOUS
<1>2. IsFiniteSet(InProgress) /\ Cardinality(InProgress) \in Nat
      /\ Cardinality(lost) \in Nat /\ Cardinality(doubled) \in Nat
  BY CountSets
<1>3. Cardinality(InProgress') = Cardinality(InProgress) - 1
  BY <1>1, <1>2, FS_RemoveElement
<1>. QED
  BY <1>2, <1>3 DEF ActiveIsExact

\* A request that is counted down inside its own response is still in progress.
LEMMA OneTwice ==
    ASSUME Known, Charged, ActiveIsExact, NEW r, r \notin doubled, doubled' = doubled \cup {r},
           InProgress' = InProgress, active' = active - 1, UNCHANGED lost
    PROVE  ActiveIsExact'
<1>1. IsFiniteSet(doubled) /\ Cardinality(InProgress) \in Nat
      /\ Cardinality(lost) \in Nat /\ Cardinality(doubled) \in Nat
  BY CountSets
<1>2. Cardinality(doubled') = Cardinality(doubled) + 1
  BY <1>1, FS_AddElement
<1>. QED
  BY <1>1, <1>2 DEF ActiveIsExact

\* The call at the top and its request, before one of the steps that count.
LEMMA TopCounts ==
    ASSUME Typed, Known, Charged, NEW step \in Names, At(step), Top.todo \cap Duties # {}, ~Top.local
    PROVE  /\ Top.r \in Req /\ Top.r \in begun /\ waits[Top.r] = None /\ Top.r \notin lost
           /\ \A i : Carrier(i, Top.r) => i = Len(stack)
           /\ Top.r \in InProgress <=> set[Top.r].global /\ Carries(Top)
<1>1. On("run") /\ Len(stack) \in DOMAIN stack /\ stack[Len(stack)] = Top
  BY TopShape, StackFacts DEF Known, Typed, At, Top, Last
<1>2. /\ Top.r \in Req /\ Top.r \in begun /\ waits[Top.r] = None /\ Top.r \notin lost
      /\ \A i : Carrier(i, Top.r) => i = Len(stack)
  BY <1>1, TopBears, CarrierBears
<1>3. (\E i : Carrier(i, Top.r)) <=> Carries(Top)
  BY <1>1, <1>2 DEF Carrier
<1>. QED
  BY <1>2, <1>3, InProgressIs

LEMMA StartCount ==
    ASSUME Typed, Known, Charged, ActiveIsExact, Start
    PROVE  ActiveIsExact'
<1>. DEFINE todo == Top.todo \ {"start"}
            n == Len(stack)
<1>1. At("start") /\ UNCHANGED <<set, begun, waits, lost, doubled>>
  BY DEF Start, ghosts
<1>2. PICK hook : stack' = Called(todo, hook)
  BY DEF Start, Advance
<1>3. /\ On("run") /\ Top.k = "run" /\ Top.r \in Req /\ Shape(Top) /\ "start" \in Top.todo
      /\ todo \in SUBSET Names
  BY <1>1, TopShape DEF Known, At
<1>. SUFFICES ASSUME NEW r \in Req, r = Top.r PROVE ActiveIsExact'
  BY <1>3
<1>4. ~Top.local /\ Top.todo \cap Duties # {}
  BY <1>3 DEF Shape, Succeeds, Completes, Duties
<1>5. Leads(todo) /\ "start" \notin todo
  BY <1>3 DEF Shape, Leads
<1>6. r \in begun /\ r \notin InProgress
  BY <1>1, <1>3, <1>4, TopCounts DEF Carries, Names
<1>7. /\ \A q : \A i : i # n => (Carrier(i, q)' <=> Carrier(i, q))
      /\ \A q : \A i : i = n => /\ Carrier(i, q) <=> q = r /\ Carries(Top)
                                /\ Carrier(i, q)' <=> q = r
  BY <1>2, <1>3, <1>4, <1>5, CalledCarriers
<1>. HIDE DEF n, todo
<1>8. /\ \A q : q # r => (q \in InProgress' <=> q \in InProgress)
      /\ r \in InProgress' <=>
           r \in begun' /\ set[r].global /\ (waits'[r] # None \/ \E i : Carrier(i, r)')
  BY <1>1, <1>7, OneChanges
<1>9. CASE set[r].global
  <2>1. r \in InProgress'
    BY <1>1, <1>6, <1>7, <1>8, <1>9
  <2>2. active' = active + 1
    BY <1>9 DEF Start
  <2>. QED
    BY <1>1, <1>6, <1>8, <2>1, <2>2, OneJoins
<1>10. CASE ~set[r].global
  <2>1. active' = active
    BY <1>10 DEF Start
  <2>2. InProgress' = InProgress
    BY <1>6, <1>8, <1>10
  <2>. QED
    BY <1>1, <2>1, <2>2, SameCount
<1>. QED
  BY <1>9, <1>10

\* The library waits instead of the call, or the call has the check to do.
LEMMA WaitCount ==
    ASSUME Typed, Known, Charged, ActiveIsExact, Inject \/ Arm
    PROVE  ActiveIsExact'
<1>. DEFINE n == Len(stack)
<1>1. PICK step \in {"inject", "arm"} :
        /\ At(step) /\ stack' = Called(Top.todo \ {step}, None)
        /\ \/ waits' = [waits EXCEPT ![Top.r] = "script"]
           \/ waits' = [waits EXCEPT ![Top.r] = "poll"]
           \/ waits' = waits /\ set[Top.r].via = "sync" /\ step = "arm"
  BY DEF Inject, Arm, Advance
<1>2. UNCHANGED <<set, begun, lost, doubled, active>>
  BY DEF Inject, Arm, ghosts
<1>3. /\ On("run") /\ Top.k = "run" /\ Top.r \in Req /\ Shape(Top) /\ step \in Top.todo
      /\ Top.todo \ {step} \in SUBSET Names
  BY <1>1, TopShape DEF Known, At
<1>. SUFFICES ASSUME NEW r \in Req, r = Top.r PROVE ActiveIsExact'
  BY <1>3
<1>4. ~Top.local /\ Top.todo \cap Duties # {} /\ Leads(Top.todo)
  BY <1>3 DEF Shape, Succeeds, Completes, Duties, Leads
<1>5. "start" \notin Top.todo
  BY <1>1, FirstStep, RankIs DEF Names
<1>6. Carries(Top) /\ r \in begun /\ (r \in InProgress <=> set[r].global)
  BY <1>1, <1>3, <1>4, <1>5, TopCounts DEF Carries, Names
<1>7. /\ \A q : \A i : i # n => (Carrier(i, q)' <=> Carrier(i, q))
      /\ \A q : \A i : i = n => /\ Carrier(i, q) <=> q = r
                                /\ Carrier(i, q)' <=> q = r /\ Leads(Top.todo \ {step})
  BY <1>1, <1>3, <1>4, <1>5, <1>6, CalledCarriers
<1>. HIDE DEF n
<1>8. ASSUME NEW q \in Req \ {r} PROVE waits'[q] = waits[q]
  BY <1>1, <1>8 DEF Typed
<1>9. /\ \A q : q # r => (q \in InProgress' <=> q \in InProgress)
      /\ r \in InProgress' <=>
           r \in begun' /\ set[r].global /\ (waits'[r] # None \/ \E i : Carrier(i, r)')
  BY <1>2, <1>7, <1>8, OneChanges
<1>10. waits'[r] # None \/ \E i : Carrier(i, r)'
  <2>1. CASE waits' = waits
    <3>1. (step = "arm" /\ "check" \in Top.todo) \/ waits'[r] # None
      BY <1>1, <1>3, <2>1, AjaxAssumption DEF Shape, Typed
    <3>2. "check" \in Top.todo /\ step = "arm" => Leads(Top.todo \ {step})
      BY DEF Leads
    <3>. QED
      BY <1>7, <3>1, <3>2
  <2>2. CASE waits' # waits
    BY <1>1, <2>2, AjaxAssumption DEF Typed
  <2>. QED
    BY <2>1, <2>2
<1>11. InProgress' = InProgress
  BY <1>2, <1>6, <1>9, <1>10
<1>. QED
  BY <1>2, <1>11, SameCount

LEMMA UncountCount ==
    ASSUME Typed, Known, Charged, ActiveIsExact, Uncount
    PROVE  ActiveIsExact'
<1>. DEFINE todo == Top.todo \ {"uncount"}
            n == Len(stack)
<1>1. At("uncount") /\ UNCHANGED <<set, begun, waits, lost>>
  BY DEF Uncount
<1>2. PICK hook : stack' = Called(todo, hook)
  BY DEF Uncount, Advance
<1>3. /\ On("run") /\ Top.k = "run" /\ Top.r \in Req /\ Shape(Top) /\ "uncount" \in Top.todo
      /\ todo \in SUBSET Names /\ n \in DOMAIN stack /\ stack[n] = Top
  BY <1>1, TopShape, StackFacts DEF Known, At, Typed, Top, Last
<1>. SUFFICES ASSUME NEW r \in Req, r = Top.r PROVE ActiveIsExact'
  BY <1>3
<1>4. Top.todo \cap {"start", "arm", "inject", "check"} = {}
  <2>. ASSUME NEW x \in {"start", "arm", "inject", "check"} PROVE x \notin Top.todo
    <3>1. x \in Names /\ "uncount" \in Names /\ Rank[x] < Rank["uncount"]
      BY RankIs DEF Names
    <3>. QED
      BY <1>1, <3>1, FirstStep
  <2>. QED
    OBVIOUS
<1>5. ~Leads(todo) /\ "start" \notin todo /\ Leads(Top.todo) /\ Top.todo \cap Duties # {}
  BY <1>3, <1>4 DEF Leads, Duties
<1>6. /\ \A q : \A i : i # n => (Carrier(i, q)' <=> Carrier(i, q))
      /\ \A q : \A i : i = n => /\ Carrier(i, q) <=> q = r /\ Carries(Top)
                                /\ ~Carrier(i, q)'
  BY <1>2, <1>3, <1>5, CalledCarriers
<1>7. Carries(Top) <=> ~Top.local
  BY <1>3, <1>4, <1>5 DEF Carries
<1>. HIDE DEF todo
<1>8. /\ \A q : q # r => (q \in InProgress' <=> q \in InProgress)
      /\ r \in InProgress' <=>
           r \in begun' /\ set[r].global /\ (waits'[r] # None \/ \E i : Carrier(i, r)')
  <2>. HIDE DEF n
  <2>. QED
    BY <1>1, <1>6, OneChanges
<1>9. CASE Top.local
  <2>1. \A q : \A i : Carrier(i, q)' <=> Carrier(i, q)
    <3>. HIDE DEF n
    <3>. QED
      BY <1>6, <1>7, <1>9
  <2>2. InProgress' = InProgress
    BY <1>1, <1>8, <2>1, InProgressIs
  <2>3. CASE set[r].global
    <3>1. active' = active - 1 /\ doubled' = doubled \cup {r}
      BY <1>9, <2>3 DEF Uncount
    <3>2. Inner(n, r)
      BY <1>3, <1>9 DEF Inner, Owns
    <3>3. r \notin doubled
      BY <3>2 DEF Charged, Ledger, Evaluated
    <3>. QED
      BY <1>1, <2>2, <3>1, <3>3, OneTwice
  <2>4. CASE ~set[r].global
    <3>1. UNCHANGED <<active, doubled>>
      BY <2>4 DEF Uncount
    <3>. QED
      BY <1>1, <2>2, <3>1, SameCount
  <2>. QED
    BY <2>3, <2>4
<1>10. CASE ~Top.local
  <2>1. /\ r \in begun /\ waits[r] = None
        /\ \A i : Carrier(i, r) => i = n
        /\ r \in InProgress <=> set[r].global
    BY <1>1, <1>3, <1>5, <1>7, <1>10, TopCounts DEF Names
  <2>2. \A i : ~Carrier(i, r)'
    <3>. HIDE DEF n
    <3>. QED
      BY <1>6, <2>1
  <2>3. r \notin InProgress'
    BY <1>1, <1>8, <2>1, <2>2
  <2>4. CASE set[r].global
    <3>1. active' = active - 1 /\ doubled' = doubled
      BY <1>10, <2>4 DEF Uncount
    <3>. QED
      BY <1>1, <1>8, <2>1, <2>3, <2>4, <3>1, OneLeaves
  <2>5. CASE ~set[r].global
    <3>1. UNCHANGED <<active, doubled>>
      BY <2>5 DEF Uncount
    <3>2. r \notin InProgress
      BY <2>1, <2>5
    <3>3. InProgress' = InProgress
      BY <1>8, <2>3, <3>2
    <3>. QED
      BY <1>1, <3>1, <3>3, SameCount
  <2>. QED
    BY <2>4, <2>5
<1>. QED
  BY <1>9, <1>10

LEMMA BeginCount ==
    ASSUME Typed, Known, Charged, ActiveIsExact, NEW r \in Req, Begin(r)
    PROVE  ActiveIsExact'
<1>. DEFINE f == Run(r, {"start"} \cup AjaxSteps(r), FALSE)
            n == Len(stack)
<1>1. /\ r \notin begun /\ begun' = begun \cup {r} /\ stack' = Append(stack, f)
      /\ UNCHANGED <<set, waits, lost, doubled, active>>
  BY DEF Begin, ghosts
<1>2. f \in RunFrames /\ ~Carries(f)
  BY BeginShape DEF Run, Carries
<1>. HIDE DEF f
<1>3. /\ n \in Nat /\ DOMAIN stack = 1..n /\ DOMAIN stack' = 1..(n + 1)
      /\ \A i \in 1..n : stack'[i] = stack[i]
      /\ stack'[n + 1] = f
  <2>. DEFINE u == Append(stack, f)
  <2>1. /\ Len(stack) \in Nat /\ DOMAIN stack = 1..Len(stack) /\ DOMAIN u = 1..(Len(stack) + 1)
        /\ \A i \in 1..Len(stack) : u[i] = stack[i]
        /\ u[Len(stack) + 1] = f
    BY <1>2, PushIs DEF Typed
  <2>2. stack' = u
    BY <1>1
  <2>. HIDE DEF u
  <2>. QED
    BY <2>1, <2>2
<1>. HIDE DEF n
<1>4. /\ \A i \in 1..(n + 1) : i \in 1..n \/ i = n + 1
      /\ 1..n \subseteq 1..(n + 1)
  BY <1>3
<1>5. \A q : \A i : Carrier(i, q)' <=> Carrier(i, q)
  <2>. SUFFICES ASSUME NEW q, NEW i PROVE Carrier(i, q)' <=> Carrier(i, q)
    OBVIOUS
  <2>1. CASE i \in 1..n
    BY <1>3, <1>4, <2>1 DEF Carrier
  <2>2. CASE i \notin 1..n
    BY <1>2, <1>3, <1>4, <2>2 DEF Carrier
  <2>. QED
    BY <2>1, <2>2
<1>6. \A i : ~Carrier(i, r)
  BY <1>1, CarrierBears DEF Charged, Ledger, InCharge
<1>7. waits[r] = None
  BY <1>1 DEF Charged, Ledger, InCharge
<1>8. /\ \A q : q # r => (q \in InProgress' <=> q \in InProgress)
      /\ r \in InProgress' <=>
           r \in begun' /\ set[r].global /\ (waits'[r] # None \/ \E i : Carrier(i, r)')
  BY <1>1, <1>5, OneChanges
<1>9. r \notin InProgress /\ r \notin InProgress'
  BY <1>1, <1>5, <1>6, <1>7, <1>8, InProgressIs
<1>10. InProgress' = InProgress
  BY <1>8, <1>9
<1>. QED
  BY <1>1, <1>10, SameCount

\* A call is over.
LEMMA FrontCarriers ==
    ASSUME Typed, stack # <<>>, stack' = Front(stack)
    PROVE  \A q : \A i : Carrier(i, q)' <=> Carrier(i, q) /\ i # Len(stack)
<1>. DEFINE n == Len(stack)
<1>1. n \in Nat \ {0} /\ DOMAIN stack = 1..n
  BY FrontFacts, StackFacts DEF Typed
<1>2. n - 1 \in 0..n
  BY <1>1
<1>3. /\ Stacked(Front(stack)) /\ Len(Front(stack)) = n - 1
      /\ \A i \in 1..(n - 1) : Front(stack)[i] = stack[i]
  BY <1>2, PrefixIsStacked DEF Front, Typed
<1>4. DOMAIN stack' = 1..(n - 1)
  BY <1>3, StackFacts
<1>. HIDE DEF n
<1>5. /\ 1..(n - 1) \subseteq 1..n /\ (\A i \in 1..n : i \in 1..(n - 1) \/ i = n)
      /\ n \notin 1..(n - 1)
  BY <1>1
<1>6. ASSUME NEW q, NEW i PROVE Carrier(i, q)' <=> Carrier(i, q) /\ i # n
  <2>1. CASE i \in 1..(n - 1)
    BY <1>1, <1>3, <1>4, <1>5, <2>1 DEF Carrier
  <2>2. CASE i \notin 1..(n - 1)
    BY <1>1, <1>4, <1>5, <2>2 DEF Carrier
  <2>. QED
    BY <2>1, <2>2
<1>. QED
  BY <1>6 DEF n

LEMMA EndCount ==
    ASSUME Typed, Known, ActiveIsExact, Finished \/ Return
    PROVE  ActiveIsExact'
<1>1. /\ stack # <<>> /\ stack' = Front(stack) /\ (Top.k = "page" \/ Top.todo = {})
      /\ UNCHANGED <<set, begun, waits, active, lost, doubled>>
  BY DEF Finished, Return, On, ghosts
<1>2. ASSUME NEW q, NEW i, Carrier(i, q) PROVE i # Len(stack)
  BY <1>1, <1>2 DEF Carrier, Carries, Leads, Top, Last
<1>3. \A q : \A i : Carrier(i, q)' <=> Carrier(i, q)
  BY <1>1, <1>2, FrontCarriers
<1>. QED
  BY <1>1, <1>3, SameCarriers

LEMMA EvaluateCount ==
    ASSUME Typed, Known, ActiveIsExact, Evaluate
    PROVE  ActiveIsExact'
<1>. DEFINE todo == Top.todo \ {"evaluate"}
            f == [Top EXCEPT !.todo = todo]
            u == Front(stack)
            s == Append(u, f)
            g == Run(Top.r, Succeeds \cup Completes, TRUE)
            n == Len(stack)
<1>1. /\ At("evaluate") /\ stack' = Append(s, g)
      /\ UNCHANGED <<set, begun, waits, active, lost, doubled>>
  BY DEF Evaluate, ghosts
<1>2. /\ stack # <<>> /\ Top \in RunFrames /\ Top.r \in Req /\ Top.k = "run"
  BY <1>1, TopShape DEF At, Known
<1>3. f \in RunFrames /\ f.k = "run" /\ f.r = Top.r /\ (Carries(f) <=> Carries(Top))
  BY <1>2 DEF RunFrames, Carries, Leads
<1>4. g \in RunFrames /\ ~Carries(g)
  BY <1>2, CompletesShape DEF Run, Carries
<1>. HIDE DEF f, g
<1>5. n \in Nat \ {0} /\ DOMAIN stack = 1..n /\ stack[n] = Top
  BY <1>2, FrontFacts, StackFacts DEF Typed, Top, Last
<1>6. n - 1 \in 0..n
  BY <1>5
<1>7. Stacked(u) /\ Len(u) = n - 1 /\ \A i \in 1..(n - 1) : u[i] = stack[i]
  BY <1>6, PrefixIsStacked DEF Front, Typed
<1>. HIDE DEF u
<1>8. /\ Stacked(s) /\ Len(s) = n /\ DOMAIN s = 1..n
      /\ \A i \in 1..(n - 1) : s[i] = stack[i]
      /\ s[n] = f
  <2>1. Len(u) + 1 = n
    BY <1>5, <1>7
  <2>. QED
    BY <1>3, <1>7, <2>1, PushIs
<1>. HIDE DEF s
<1>9. /\ DOMAIN stack' = 1..(n + 1)
      /\ \A i \in 1..n : stack'[i] = s[i]
      /\ stack'[n + 1] = g
  BY <1>1, <1>4, <1>8, PushIs
<1>. HIDE DEF n
<1>10. /\ \A i \in 1..(n + 1) : i \in 1..n \/ i = n + 1
       /\ \A i \in 1..n : i \in 1..(n - 1) \/ i = n
       /\ n \in 1..n /\ 1..n \subseteq 1..(n + 1) /\ 1..(n - 1) \subseteq 1..n
  BY <1>5
<1>11. ASSUME NEW q, NEW i PROVE Carrier(i, q)' <=> Carrier(i, q)
  <2>1. CASE i \in 1..(n - 1)
    BY <1>5, <1>8, <1>9, <1>10, <2>1 DEF Carrier
  <2>2. CASE i = n
    <3>1. stack'[i] = f /\ stack[i] = Top /\ i \in DOMAIN stack /\ i \in DOMAIN stack'
      BY <1>5, <1>8, <1>9, <1>10, <2>2
    <3>. QED
      BY <1>3, <3>1 DEF Carrier
  <2>3. CASE i \notin 1..n
    BY <1>4, <1>5, <1>9, <1>10, <2>3 DEF Carrier
  <2>. QED
    BY <1>10, <2>1, <2>2, <2>3
<1>. QED
  BY <1>1, <1>11, SameCarriers

LEMMA RefuseCount ==
    ASSUME Typed, Known, ActiveIsExact, Refuse
    PROVE  ActiveIsExact'
<1>1. UNCHANGED <<set, begun, waits, active, lost, doubled>>
  BY DEF Refuse, ghosts
<1>2. PICK m \in DOMAIN stack, f \in RunFrames : Refused(m, f)
  BY RefuseIs
<1>3. /\ DOMAIN stack = 1..(m + 1) /\ DOMAIN stack' = 1..m /\ stack'[m] = f
      /\ stack[m] \in RunFrames /\ ~stack[m].local
      /\ "arm" \in stack[m].todo /\ "start" \notin stack[m].todo
      /\ stack[m + 1].k = "page" /\ f.r = stack[m].r
      /\ f.k = "run" /\ f.todo = {"uncount", "close"} /\ f.local = FALSE
      /\ \A i \in 1..(m - 1) : stack'[i] = stack[i]
  BY <1>2 DEF Refused
<1>4. m \in Nat \ {0}
  BY StackFacts DEF Typed
<1>5. /\ 1..(m - 1) \subseteq 1..m /\ (\A i \in 1..m : i \in 1..(m - 1) \/ i = m)
      /\ 1..m \subseteq 1..(m + 1) /\ m \in 1..m
      /\ \A i \in 1..(m + 1) : i \in 1..m \/ i = m + 1
  BY <1>4
<1>6. Carries(stack[m]) /\ Carries(f) /\ ~Carries(stack[m + 1])
  BY <1>3 DEF Carries, Leads, RunFrames
<1>7. ASSUME NEW q, NEW i PROVE Carrier(i, q)' <=> Carrier(i, q)
  <2>1. CASE i \in 1..(m - 1)
    BY <1>3, <1>5, <2>1 DEF Carrier
  <2>2. CASE i = m
    BY <1>3, <1>5, <1>6, <2>2 DEF Carrier
  <2>3. CASE i \notin 1..m
    BY <1>3, <1>5, <1>6, <2>3 DEF Carrier
  <2>. QED
    BY <1>5, <2>1, <2>2, <2>3
<1>. QED
  BY <1>1, <1>7, SameCarriers

LEMMA ThrowCount ==
    ASSUME Typed, Known, Charged, ActiveIsExact, OpenThrows \/ Throw
    PROVE  ActiveIsExact'
<1>. DEFINE m == Len(Uncaught(stack))
            D == {r \in Dropped(stack) : set[r].global}
<1>1. /\ stack' = Uncaught(stack) /\ lost' = lost \cup D
      /\ UNCHANGED <<set, begun, waits, active, doubled>>
  BY DEF OpenThrows, Throw
<1>2. /\ m \in 0..Len(stack) /\ DOMAIN stack' = 1..m
      /\ \A i \in DOMAIN stack' : i \in DOMAIN stack /\ stack'[i] = stack[i]
  BY <1>1, UncaughtKept
<1>3. Len(stack) \in Nat /\ DOMAIN stack = 1..Len(stack)
  BY StackFacts DEF Typed
<1>4. \A r : r \in D <=> set[r].global /\ \E j : Carrier(j, r) /\ j > m
  BY DEF Dropped, Carrier
<1>. HIDE DEF m, D
<1>5. \A i \in DOMAIN stack : i \in 1..m <=> ~(i > m)
  <2>1. m \in Nat /\ \A i \in 1..Len(stack) : i \in Nat /\ i >= 1
    BY <1>2, <1>3
  <2>. QED
    BY <1>3, <2>1
<1>6. ASSUME NEW q, NEW i PROVE Carrier(i, q)' <=> Carrier(i, q) /\ ~(i > m)
  <2>1. CASE i \in DOMAIN stack'
    BY <1>2, <1>5, <2>1 DEF Carrier
  <2>2. CASE i \notin DOMAIN stack'
    BY <1>2, <1>5, <2>2 DEF Carrier
  <2>. QED
    BY <2>1, <2>2
<1>7. InProgress' = {r \in begun : set[r].global /\ (waits[r] # None \/ \E i : Carrier(i, r)')}
  BY <1>1 DEF InProgress, Carrier
<1>8. ASSUME NEW r \in D
      PROVE  /\ r \in Req /\ r \in begun /\ waits[r] = None /\ set[r].global
             /\ \A i : Carrier(i, r) => i > m
             /\ \E i : Carrier(i, r)
  <2>1. PICK j : Carrier(j, r) /\ j > m
    BY <1>4
  <2>2. r \in Req
    BY <2>1, StackFacts DEF Carrier, Carries, Typed, Frame, RunFrames, PageFrames
  <2>3. InCharge(r) /\ Bearer(j, r)
    BY <2>1, <2>2, CarrierBears DEF Charged, Ledger
  <2>4. \A i : Carrier(i, r) => i = j
    BY <2>3, CarrierBears DEF InCharge
  <2>. QED
    BY <1>4, <2>1, <2>2, <2>3, <2>4 DEF InCharge
<1>9. D \subseteq InProgress
  BY <1>8, InProgressIs
<1>10. ASSUME NEW r \in D PROVE r \notin InProgress'
  BY <1>6, <1>7, <1>8
<1>11. ASSUME NEW r, r \notin D PROVE r \in InProgress' <=> r \in InProgress
  BY <1>4, <1>6, <1>7, <1>11, InProgressIs
<1>12. InProgress' = InProgress \ D
  BY <1>9, <1>10, <1>11
<1>. QED
  BY <1>1, <1>9, <1>12, LoseSome

\* The calls s are left; a new one sees to the end of r.
LEMMA PushCount ==
    ASSUME Typed, Known, Charged, ActiveIsExact, NEW r \in Req, NEW s, Stacked(s),
           \A i \in DOMAIN s : i \in DOMAIN stack /\ s[i] = stack[i],
           \A q : \A i : q # r /\ Carrier(i, q) => i \in DOMAIN s,
           NEW todo \in SUBSET Names, "uncount" \in todo, "start" \notin todo,
           stack' = Append(s, Run(r, todo, FALSE)),
           r \in begun, set[r].global => r \in InProgress,
           \A q \in Req \ {r} : waits'[q] = waits[q],
           UNCHANGED <<set, begun, active, lost, doubled>>
    PROVE  ActiveIsExact'
<1>. DEFINE f == Run(r, todo, FALSE)
            n == Len(s)
<1>1. f \in RunFrames /\ f.r = r /\ Carries(f)
  BY RunIsFrame DEF Run, RunFrames, Carries, Leads
<1>2. stack' = Append(s, f)
  OBVIOUS
<1>. HIDE DEF f
<1>3. /\ n \in Nat /\ DOMAIN s = 1..n /\ DOMAIN stack' = 1..(n + 1)
      /\ \A i \in 1..n : stack'[i] = s[i]
      /\ stack'[n + 1] = f
  <2>. DEFINE u == Append(s, f)
  <2>1. /\ Len(s) \in Nat /\ DOMAIN s = 1..Len(s) /\ DOMAIN u = 1..(Len(s) + 1)
        /\ \A i \in 1..Len(s) : u[i] = s[i]
        /\ u[Len(s) + 1] = f
    BY <1>1, PushIs
  <2>2. stack' = u
    BY <1>2
  <2>. HIDE DEF u
  <2>. QED
    BY <2>1, <2>2
<1>. HIDE DEF n
<1>4. /\ \A i \in 1..(n + 1) : i \in 1..n \/ i = n + 1
      /\ 1..n \subseteq 1..(n + 1) /\ n + 1 \in 1..(n + 1)
  BY <1>3
<1>5. ASSUME NEW q, NEW i, q # r PROVE Carrier(i, q)' <=> Carrier(i, q)
  <2>1. CASE i \in 1..n
    BY <1>3, <1>4, <2>1 DEF Carrier
  <2>2. CASE i \notin 1..n
    <3>1. ~Carrier(i, q)
      BY <1>3, <1>5, <2>2
    <3>2. ~Carrier(i, q)'
      BY <1>1, <1>3, <1>4, <1>5, <2>2 DEF Carrier
    <3>. QED
      BY <3>1, <3>2
  <2>. QED
    BY <2>1, <2>2
<1>6. \E i : Carrier(i, r)'
  <2>1. ASSUME NEW i, i = n + 1 PROVE Carrier(i, r)'
    BY <1>1, <1>3, <1>4, <2>1 DEF Carrier
  <2>. QED
    BY <2>1
<1>7. /\ \A q : q # r => (q \in InProgress' <=> q \in InProgress)
      /\ r \in InProgress' <=>
           r \in begun' /\ set[r].global /\ (waits'[r] # None \/ \E i : Carrier(i, r)')
  BY <1>5, OneChanges
<1>8. r \in InProgress' <=> r \in InProgress
  BY <1>6, <1>7, InProgressIs
<1>9. \A q : q \in InProgress' <=> q \in InProgress
  <2>1. \A q : q # r => (q \in InProgress' <=> q \in InProgress)
    BY <1>7
  <2>. QED
    BY <1>8, <2>1
<1>10. InProgress' = InProgress
  <2>1. InProgress' \subseteq InProgress /\ InProgress \subseteq InProgress'
    BY <1>9
  <2>. QED
    BY <2>1
<1>. QED
  BY <1>10, SameCount

\* The response, the abort or the timeout is found.
Ends(r, late) ==
    (ready[r] = 0 /\ waits[r] = "poll") \/ (ready[r] # 0 /\ r \notin done /\ (ready[r] = 4 \/ late))

LEMMA ReactIs ==
    ASSUME NEW r \in Req, NEW late \in BOOLEAN, NEW s, React(r, late, s)
    PROVE  /\ ~Ends(r, late) => stack' = s /\ UNCHANGED waits
           /\ Ends(r, late) =>
                 /\ waits' = [waits EXCEPT ![r] = None]
                 /\ \E todo \in SUBSET Names : /\ "uncount" \in todo /\ "start" \notin todo
                                               /\ stack' = Append(s, Run(r, todo, FALSE))
<1>1. CASE ready[r] = 0 /\ waits[r] = "poll"
  <2>1. {"uncount"} \in SUBSET Names
    BY DEF Names
  <2>. QED
    BY <1>1, <2>1 DEF React, Ends
<1>2. CASE /\ ~(ready[r] = 0 /\ waits[r] = "poll")
           /\ ready[r] # 0 /\ r \notin done /\ (ready[r] = 4 \/ late)
  <2>1. /\ waits' = [waits EXCEPT ![r] = None]
        /\ stack' = Append(s, Run(r, AfterDone(r, late), FALSE))
    BY <1>2 DEF React
  <2>2. /\ AfterDone(r, late) \in SUBSET Names /\ "uncount" \in AfterDone(r, late)
        /\ "start" \notin AfterDone(r, late)
    BY AfterDoneIsSteps, AfterDoneShape DEF Early
  <2>. QED
    BY <1>2, <2>1, <2>2 DEF Ends
<1>3. CASE ~Ends(r, late)
  BY <1>3 DEF React, Ends
<1>. QED
  BY <1>1, <1>2, <1>3 DEF Ends

\* What the library waits for ends without a call in progress.
LEMMA IdleCount ==
    ASSUME Typed, Known, Charged, ActiveIsExact, NEW r \in Req, waits[r] # None, stack = <<>>,
           NEW todo \in SUBSET Names, "uncount" \in todo, "start" \notin todo,
           stack' = Append(<<>>, Run(r, todo, FALSE)), waits' = [waits EXCEPT ![r] = None],
           UNCHANGED <<set, begun, active, lost, doubled>>
    PROVE  ActiveIsExact'
<1>. DEFINE s == <<>>
<1>1. Stacked(s) /\ DOMAIN s = {} /\ DOMAIN stack = {} /\ stack' = Append(s, Run(r, todo, FALSE))
  BY EmptyIsStacked
<1>. HIDE DEF s
<1>2. r \in begun
  BY DEF Charged, Ledger, InCharge
<1>3. set[r].global => r \in InProgress
  BY <1>2, InProgressIs
<1>4. \A q \in Req \ {r} : waits'[q] = waits[q]
  BY DEF Typed
<1>5. \A q : \A i : ~Carrier(i, q)
  BY <1>1 DEF Carrier
<1>. QED
  BY <1>1, <1>2, <1>3, <1>4, <1>5, PushCount

LEMMA WakeCount ==
    ASSUME Typed, Known, Charged, ActiveIsExact, NEW r \in Req, Poll(r) \/ TimeOut(r) \/ Load(r)
    PROVE  ActiveIsExact'
<1>1. stack = <<>> /\ UNCHANGED <<set, begun, active, lost, doubled>>
  BY DEF Poll, TimeOut, Load, ghosts
<1>2. ASSUME UNCHANGED <<waits, stack>> PROVE ActiveIsExact'
  <2>1. \A q : \A i : Carrier(i, q)' <=> Carrier(i, q)
    BY <1>2 DEF Carrier
  <2>. QED
    BY <1>1, <1>2, <2>1, SameCarriers
<1>3. ASSUME NEW late \in BOOLEAN, React(r, late, <<>>), late => r \in timer, ~late => waits[r] = "poll"
      PROVE  ActiveIsExact'
  <2>1. CASE ~Ends(r, late)
    BY <1>1, <1>2, <1>3, <2>1, ReactIs
  <2>2. CASE Ends(r, late)
    <3>1. waits[r] # None
      BY <1>3, <2>2, AjaxAssumption DEF Ends, Charged, Ledger, InCharge
    <3>2. PICK todo \in SUBSET Names : /\ "uncount" \in todo /\ "start" \notin todo
                                       /\ stack' = Append(<<>>, Run(r, todo, FALSE))
      BY <1>3, <2>2, ReactIs
    <3>3. waits' = [waits EXCEPT ![r] = None]
      BY <1>3, <2>2, ReactIs
    <3>. QED
      BY <1>1, <3>1, <3>2, <3>3, IdleCount
  <2>. QED
    BY <2>1, <2>2
<1>4. CASE Poll(r)
  <2>1. React(r, FALSE, <<>>) /\ waits[r] = "poll"
    BY <1>4 DEF Poll
  <2>. QED
    BY <1>3, <2>1
<1>5. CASE TimeOut(r)
  <2>1. UNCHANGED <<waits, stack>> \/ (React(r, TRUE, <<>>) /\ r \in timer)
    BY <1>1, <1>5 DEF TimeOut
  <2>. QED
    BY <1>2, <1>3, <2>1
<1>6. CASE Load(r)
  <2>. DEFINE todo == Succeeds \cup Completes
  <2>1. /\ todo \in SUBSET Names /\ "uncount" \in todo /\ "start" \notin todo
        /\ waits[r] # None
    BY <1>6, AjaxAssumption DEF Succeeds, Completes, Names, Load
  <2>2. /\ stack' = Append(<<>>, Run(r, todo, FALSE))
        /\ waits' = [waits EXCEPT ![r] = None]
    BY <1>6 DEF Load
  <2>. HIDE DEF todo
  <2>. QED
    BY <1>1, <2>1, <2>2, IdleCount
<1>. QED
  BY <1>4, <1>5, <1>6

LEMMA CheckCount ==
    ASSUME Typed, Known, Charged, ActiveIsExact, Check
    PROVE  ActiveIsExact'
<1>. DEFINE n == Len(stack)
            u == Front(stack)
<1>1. /\ At("check") /\ React(Top.r, FALSE, u)
      /\ lost' = IF ready[Top.r] # 4 /\ set[Top.r].global THEN lost \cup {Top.r} ELSE lost
      /\ UNCHANGED <<set, begun, active, doubled>>
  BY DEF Check
<1>2. /\ stack # <<>> /\ On("run") /\ Top.k = "run" /\ Top.r \in Req /\ Shape(Top)
      /\ "check" \in Top.todo /\ n \in DOMAIN stack /\ stack[n] = Top
  BY <1>1, TopShape, StackFacts DEF Known, At, Typed, Top, Last
<1>. SUFFICES ASSUME NEW r \in Req, r = Top.r PROVE ActiveIsExact'
  BY <1>2
<1>3. ~Top.local /\ Top.todo \cap Duties # {} /\ Leads(Top.todo)
  BY <1>2 DEF Shape, Succeeds, Completes, Duties, Leads
<1>4. "start" \notin Top.todo
  BY <1>1, FirstStep, RankIs DEF Names
<1>5. Carries(Top)
  BY <1>2, <1>3, <1>4 DEF Carries
<1>6. /\ r \in begun /\ waits[r] = None /\ r \notin lost
      /\ \A i : Carrier(i, r) => i = n
      /\ r \in InProgress <=> set[r].global
  BY <1>1, <1>3, <1>5, TopCounts DEF Names
<1>7. r \notin done
  <2>1. Pending(r, "check")
    BY <1>2 DEF Pending, Owns
  <2>. QED
    BY <2>1 DEF Charged, Ledger, InCharge, Early
<1>8. CASE ready[r] = 4
  <2>1. Ends(r, FALSE)
    BY <1>7, <1>8 DEF Ends
  <2>2. PICK todo \in SUBSET Names : /\ "uncount" \in todo /\ "start" \notin todo
                                     /\ stack' = Append(u, Run(r, todo, FALSE))
    BY <1>1, <2>1, ReactIs
  <2>3. waits' = [waits EXCEPT ![r] = None]
    BY <1>1, <2>1, ReactIs
  <2>4. \A q \in Req \ {r} : waits'[q] = waits[q]
    BY <2>3 DEF Typed
  <2>5. n \in Nat \ {0} /\ DOMAIN stack = 1..n
    BY <1>2, FrontFacts, StackFacts DEF Typed
  <2>6. n - 1 \in 0..n
    BY <2>5
  <2>7. /\ Stacked(u) /\ Len(u) = n - 1 /\ \A i \in 1..(n - 1) : u[i] = stack[i]
    BY <2>6, PrefixIsStacked DEF Front, Typed
  <2>8. DOMAIN u = 1..(n - 1)
    BY <2>7, StackFacts
  <2>. HIDE DEF u, n
  <2>9. 1..(n - 1) \subseteq 1..n /\ \A i \in 1..n : i \in 1..(n - 1) \/ i = n
    BY <2>5
  <2>10. \A i \in DOMAIN u : i \in DOMAIN stack /\ u[i] = stack[i]
    BY <2>5, <2>7, <2>8, <2>9
  <2>11. ASSUME NEW q, NEW i, q # r, Carrier(i, q) PROVE i \in DOMAIN u
    <3>1. i \in 1..n /\ stack[i].r # r
      BY <2>5, <2>11 DEF Carrier
    <3>2. i # n
      BY <1>2, <3>1
    <3>. QED
      BY <2>8, <2>9, <3>1, <3>2
  <2>12. lost' = lost
    BY <1>1, <1>8
  <2>. QED
    BY <1>1, <1>6, <2>2, <2>4, <2>7, <2>10, <2>11, <2>12, PushCount
<1>9. CASE ready[r] # 4
  <2>1. ~Ends(r, FALSE)
    BY <1>6, <1>9, AjaxAssumption DEF Ends
  <2>2. stack' = Front(stack) /\ UNCHANGED waits
    BY <1>1, <2>1, ReactIs
  <2>3. \A q : \A i : Carrier(i, q)' <=> Carrier(i, q) /\ i # n
    BY <1>2, <2>2, FrontCarriers
  <2>4. ASSUME NEW q, NEW i, q # r, Carrier(i, q) PROVE i # n
    BY <1>2, <2>4 DEF Carrier
  <2>. HIDE DEF n
  <2>5. \A q : q # r => \A i : Carrier(i, q)' <=> Carrier(i, q)
    BY <2>3, <2>4
  <2>6. /\ \A q : q # r => (q \in InProgress' <=> q \in InProgress)
        /\ r \in InProgress' <=>
             r \in begun' /\ set[r].global /\ (waits'[r] # None \/ \E i : Carrier(i, r)')
    BY <1>1, <2>2, <2>5, OneChanges
  <2>7. r \notin InProgress'
    BY <1>6, <2>2, <2>3, <2>6
  <2>8. CASE set[r].global
    <3>1. InProgress' = InProgress \ {r} /\ lost' = lost \cup {r} /\ {r} \subseteq InProgress
      BY <1>1, <1>6, <1>9, <2>6, <2>7, <2>8
    <3>. QED
      BY <1>1, <3>1, LoseSome
  <2>9. CASE ~set[r].global
    <3>1. r \notin InProgress
      BY <1>6, <2>9
    <3>2. InProgress' = InProgress /\ lost' = lost
      BY <1>1, <2>6, <2>7, <2>9, <3>1
    <3>. QED
      BY <1>1, <3>2, SameCount
  <2>. QED
    BY <2>8, <2>9
<1>. QED
  BY <1>8, <1>9

\* The other steps leave the duties of the call at the top as they are.
LEMMA OtherCount ==
    ASSUME Typed, Known, Charged, ActiveIsExact,
           \/ Open \/ Send \/ SendThrows \/ Remember \/ Close
           \/ \E step \in Callbacks : Callback(step)
    PROVE  ActiveIsExact'
<1>1. CASE SendThrows
  <2>. DEFINE todo == Fails \cup (Top.todo \ {"send"})
  <2>1. /\ At("send") /\ stack' = Called(todo, None)
        /\ UNCHANGED <<set, begun, waits, active, lost, doubled>>
    BY <1>1 DEF SendThrows, ghosts
  <2>2. On("run") /\ Top.todo \in SUBSET Names
    BY <2>1, TopShape DEF Known, At
  <2>3. todo \in SUBSET Names /\ todo \cap Duties = Top.todo \cap Duties
    BY <2>2 DEF Fails, Names, Duties
  <2>. HIDE DEF todo
  <2>. QED
    BY <2>1, <2>2, <2>3, SameTodo
<1>2. ASSUME NEW step \in {"open", "send", "remember", "close"} \cup Callbacks, At(step),
             NEW hook, stack' = Called(Top.todo \ {step}, hook),
             UNCHANGED <<set, begun, waits, active, lost, doubled>>
      PROVE  ActiveIsExact'
  <2>1. step \in Names \ Duties
    BY DEF Callbacks, Names, Duties
  <2>. QED
    BY <1>2, <2>1, StepCount
<1>3. CASE Open
  BY <1>2, <1>3 DEF Open, Advance, ghosts
<1>4. CASE Send
  BY <1>2, <1>4 DEF Send, Advance, ghosts
<1>5. CASE Remember
  BY <1>2, <1>5 DEF Remember, Advance, ghosts
<1>6. CASE Close
  BY <1>2, <1>6 DEF Close, Advance, ghosts
<1>7. ASSUME NEW step \in Callbacks, Callback(step) PROVE ActiveIsExact'
  BY <1>2, <1>7 DEF Callback
<1>. QED
  BY <1>1, <1>3, <1>4, <1>5, <1>6, <1>7

LEMMA QuietCount ==
    ASSUME ActiveIsExact, UNCHANGED vars \/ \E r \in Req : Abort(r) \/ Answer(r)
    PROVE  ActiveIsExact'
<1>1. UNCHANGED <<set, begun, waits, active, lost, doubled, stack>>
  BY DEF vars, net, ghosts, Abort, Answer
<1>2. \A q : \A i : Carrier(i, q)' <=> Carrier(i, q)
  BY <1>1 DEF Carrier
<1>. QED
  BY <1>1, <1>2, SameCarriers

LEMMA CountInit == Init => ActiveIsExact
<1>. SUFFICES ASSUME Init PROVE ActiveIsExact
  OBVIOUS
<1>1. InProgress = {} /\ lost = {} /\ doubled = {} /\ active = 0
  BY DEF Init, InProgress
<1>. QED
  BY <1>1, FS_EmptySet DEF ActiveIsExact

LEMMA CountNext == Typed /\ Known /\ Charged /\ ActiveIsExact /\ [Next]_vars => ActiveIsExact'
<1>. SUFFICES ASSUME Typed, Known, Charged, ActiveIsExact, [Next]_vars PROVE ActiveIsExact'
  OBVIOUS
<1>1. CASE Steps
  BY <1>1, StartCount, WaitCount, OtherCount, CheckCount, UncountCount, EvaluateCount, EndCount
  DEF Steps
<1>2. CASE OpenThrows \/ SendThrows \/ Return \/ Refuse \/ Throw
  BY <1>2, ThrowCount, OtherCount, EndCount, RefuseCount
<1>3. ASSUME NEW r \in Req, Begin(r) \/ Abort(r) \/ Poll(r) \/ TimeOut(r) \/ Load(r) \/ Answer(r)
      PROVE  ActiveIsExact'
  BY <1>3, BeginCount, WakeCount, QuietCount
<1>. QED
  BY <1>1, <1>2, <1>3, QuietCount DEF Next

-----------------------------------------------------------------------------
(* The theorems.                                                           *)

\* jQuery.active is exact: it counts the requests that somebody will still take off
\* it, those an exception left behind and, downwards, those that completed inside
\* their own response, for every nesting of calls and every order of answers,
\* timeouts, aborts, refusals and exceptions (the counting in jQuery.ajax).
THEOREM CountExact == Spec => []ActiveIsExact
<1>1. Init => Typed /\ Known /\ Charged /\ ActiveIsExact
  BY TypedInit, LedgerInit, CountInit
<1>2. (Typed /\ Known /\ Charged /\ ActiveIsExact) /\ [Next]_vars
        => (Typed /\ Known /\ Charged /\ ActiveIsExact)'
  BY TypedNext, KnownNext, LedgerNext, CountNext
<1>. QED
  BY <1>1, <1>2, PTL DEF Spec

\* Only the functions of the page are counted as calls, and none of them belongs to
\* a request that was aborted before it was done.
LEMMA SilentStep ==
    ASSUME Typed, OneSource, Known, Charged, [Next]_vars, NEW r \in silenced, r \in Req
    PROVE  calls'[r] = calls[r]
<1>1. ASSUME NEW step \in Callbacks, Callback(step), calls' # calls PROVE calls'[r] = calls[r]
  <2>1. /\ At(step) /\ step \in {"success", "error", "complete"}
        /\ calls' = [calls EXCEPT ![Top.r][step] = @ + 1]
    BY <1>1 DEF Callback
  <2>2. Len(stack) \in DOMAIN stack /\ stack[Len(stack)] = Top /\ Top.k = "run"
    BY <2>1, TopShape, StackFacts DEF At, Known, Typed, Top, Last
  <2>3. Pending(Top.r, step)
    BY <2>1, <2>2 DEF At, Pending, Owns
  <2>4. r \notin done /\ ~Remote(r) /\ ~Pending(r, "error")
    BY DEF Charged, Ledger, Silent
  <2>5. ~Pending(r, "success") /\ ~Pending(r, "complete")
    BY <2>4 DEF OneSource, Accounted, Uncalled
  <2>6. Top.r # r
    BY <2>1, <2>3, <2>4, <2>5
  <2>. QED
    BY <2>1, <2>6 DEF Typed
<1>2. calls' = calls \/ \E step \in Callbacks : Callback(step) /\ calls' # calls
  <2>1. UNCHANGED vars => calls' = calls
    BY DEF vars, ghosts
  <2>2. Steps => calls' = calls \/ \E step \in Callbacks : Callback(step)
    BY DEF Steps, Start, Inject, Open, Arm, Send, Check, Uncount, Evaluate, Remember, Close,
       Finished, ghosts
  <2>3. OpenThrows \/ SendThrows \/ Return \/ Refuse \/ Throw => calls' = calls
    BY DEF OpenThrows, SendThrows, Return, Refuse, Throw, ghosts
  <2>4. ASSUME NEW q \in Req, Begin(q) \/ Abort(q) \/ Poll(q) \/ TimeOut(q) \/ Load(q) \/ Answer(q)
        PROVE  calls' = calls
    BY <2>4 DEF Begin, Abort, Poll, TimeOut, Load, Answer, ghosts
  <2>. QED
    BY <2>1, <2>2, <2>3, <2>4 DEF Next
<1>. QED
  BY <1>1, <1>2

\* A request that the page aborts before it is done is never heard of again: neither
\* the poll that finds it aborted, nor its timeout, nor an answer that was on its way
\* calls a function of the page (xhr.abort and onreadystatechange of jQuery.ajax).
THEOREM AbortIsSilent == Spec => AbortSilences
<1>1. Init => Typed /\ OneSource /\ Known /\ Charged /\ silenced \subseteq Req
  BY TypedInit, OneSourceInit, LedgerInit DEF Init
<1>2. silenced \subseteq Req /\ [Next]_vars => silenced' \subseteq Req
  BY DEF Next, Steps, Start, Inject, Open, Arm, Send, Check, Uncount, Evaluate, Remember, Close,
     Finished, Callback, OpenThrows, SendThrows, Return, Refuse, Throw, Begin, Abort, Poll,
     TimeOut, Load, Answer, ghosts, vars
<1>3. (Typed /\ OneSource /\ Known /\ Charged /\ silenced \subseteq Req) /\ [Next]_vars
        => (Typed /\ OneSource /\ Known /\ Charged /\ silenced \subseteq Req)'
  BY <1>2, TypedNext, OneSourceNext, KnownNext, LedgerNext
<1>4. (Typed /\ OneSource /\ Known /\ Charged /\ silenced \subseteq Req) /\ [Next]_vars
        => [\A r \in silenced : calls'[r] = calls[r]]_vars
  BY SilentStep
<1>. QED
  BY <1>1, <1>3, <1>4, PTL DEF Spec, AbortSilences
-----------------------------------------------------------------------------
(* How often the callbacks are called: twice at most.                      *)

\* The steps whose number matters.
Named == {"send", "error", "success", "complete", "evaluate", "remember"}

\* A response that is there is one of the responses, and only then is it remembered.
Answered(r) == ready[r] = 4 \/ Pending(r, "remember") => answer[r] \in Answers

\* error is called when send throws and, since that does not end the request, once
\* more when the request is done.
ErrorsTwice(r) ==
    /\ Once(r, "send") /\ Once(r, "error")
    /\ r \notin done =>
          /\ Pending(r, "send") => ~Pending(r, "error")
          /\ Pending(r, "send") \/ Pending(r, "error") => calls[r].error = 0
          /\ calls[r].error <= 1
    /\ Pending(r, "error") => calls[r].error <= 1
    /\ calls[r].error <= 2
    /\ r \notin begun => ~Pending(r, "send") /\ ~Pending(r, "error") /\ calls[r].error = 0

\* complete is called by the response of a JSONP request, when it is evaluated, and
\* after the evaluation.
Outer(i, r) == Owns(stack, i, r, "complete") /\ ~stack[i].local
Within(i, r) == Owns(stack, i, r, "complete") /\ stack[i].local
Ahead(r) == Pending(r, "evaluate") \/ \E i : Within(i, r)
After(r) == \E i : Outer(i, r)

CompletesTwice(r) ==
    /\ Once(r, "success")
    /\ Pending(r, "success") => calls[r].success = 0
    /\ Pending(r, "evaluate") =>
          ~Pending(r, "success") /\ calls[r].success = 0 /\ \A i : ~Within(i, r)
    /\ calls[r].success <= 1
    /\ \A i, j : Outer(i, r) /\ Outer(j, r) => i = j
    /\ \A i, j : Within(i, r) /\ Within(j, r) => i = j
    /\ Ahead(r) /\ After(r) => calls[r].complete = 0
    /\ Ahead(r) \/ After(r) => calls[r].complete <= 1
    /\ calls[r].complete <= 2

Tallied(r) == ErrorsTwice(r) /\ (set[r].via = "local" => CompletesTwice(r))
Tally == \A r \in Req : Tallied(r)

\* The rest of the types.
Sound ==
    /\ flying \subseteq begun /\ timer \subseteq begun /\ done \subseteq begun
    /\ answer \in [Req -> Answers \cup {None}]
    /\ modified \in {None, "m"}
    /\ \A r \in Req : Answered(r)

-----------------------------------------------------------------------------
\* Of request q there are no such steps that there were not before.
Like(q) ==
    \A i : \A x \in Named :
        Owns(stack', i, q, x) => Owns(stack, i, q, x) /\ stack'[i].local = stack[i].local

LEMMA LikeFacts ==
    ASSUME NEW q, Like(q)
    PROVE  /\ \A x \in Named : (Pending(q, x)' => Pending(q, x)) /\ (Once(q, x) => Once(q, x)')
           /\ \A i : (Outer(i, q)' => Outer(i, q)) /\ (Within(i, q)' => Within(i, q))
           /\ (Ahead(q)' => Ahead(q)) /\ (After(q)' => After(q))
<1>1. ASSUME NEW x \in Named PROVE (Pending(q, x)' => Pending(q, x)) /\ (Once(q, x) => Once(q, x)')
  BY DEF Like, Pending, Once, Owns
<1>2. "complete" \in Named /\ "evaluate" \in Named
  BY DEF Named
<1>3. ASSUME NEW i PROVE (Outer(i, q)' => Outer(i, q)) /\ (Within(i, q)' => Within(i, q))
  BY <1>2 DEF Like, Outer, Within
<1>. QED
  BY <1>1, <1>2, <1>3 DEF Ahead, After

LEMMA KeptLike ==
    ASSUME NEW q, Kept(q)
    PROVE  Like(q)
BY DEF Kept, Like, Owns

\* Nothing is called of q.
LEMMA LikeTallied ==
    ASSUME NEW q, Tallied(q), Like(q), set' = set, calls'[q] = calls[q],
           q \in done' <=> q \in done, q \in begun => q \in begun'
    PROVE  Tallied(q)'
<1>1. /\ \A x \in Named : (Pending(q, x)' => Pending(q, x)) /\ (Once(q, x) => Once(q, x)')
      /\ \A i : (Outer(i, q)' => Outer(i, q)) /\ (Within(i, q)' => Within(i, q))
      /\ (Ahead(q)' => Ahead(q)) /\ (After(q)' => After(q))
  BY LikeFacts
<1>2. \A x \in {"send", "error", "success", "evaluate"} : x \in Named
  BY DEF Named
<1>3. ErrorsTwice(q)'
  BY <1>1, <1>2 DEF Tallied, ErrorsTwice
<1>4. CompletesTwice(q) => CompletesTwice(q)'
  BY <1>1, <1>2 DEF CompletesTwice
<1>. QED
  BY <1>3, <1>4 DEF Tallied

LEMMA AllTallied ==
    ASSUME Tally, \A q \in Req : Like(q), UNCHANGED <<set, done, calls>>, begun \subseteq begun'
    PROVE  Tally'
<1>1. ASSUME NEW q \in Req PROVE Tallied(q)'
  BY LikeTallied DEF Tally
<1>. QED
  BY <1>1 DEF Tally

\* The steps that call nothing of the page.
LEMMA PlainSteps ==
    ASSUME Typed, Known,
           \/ Start \/ Inject \/ Open \/ Arm \/ Send \/ Uncount \/ Remember \/ Close
           \/ Finished \/ OpenThrows \/ Return \/ Throw \/ UNCHANGED vars
           \/ \E r \in Req : Abort(r) \/ Answer(r)
    PROVE  /\ \A q : Kept(q)
           /\ UNCHANGED <<set, done, calls, begun>>
<1>1. CASE Start
  <2>1. At("start") /\ \E hook : stack' = Called(Top.todo \ {"start"}, hook)
    BY <1>1 DEF Start, Advance
  <2>. QED
    BY <1>1, <2>1, StepKept DEF Start, ghosts
<1>2. CASE Inject
  BY <1>2, StepKept DEF Inject, Advance, ghosts
<1>3. CASE Open
  BY <1>3, StepKept DEF Open, Advance, ghosts
<1>4. CASE Arm
  BY <1>4, StepKept DEF Arm, Advance, ghosts
<1>5. CASE Send
  BY <1>5, StepKept DEF Send, Advance, ghosts
<1>6. CASE Uncount
  <2>1. At("uncount") /\ \E hook : stack' = Called(Top.todo \ {"uncount"}, hook)
    BY <1>6 DEF Uncount, Advance
  <2>. QED
    BY <1>6, <2>1, StepKept DEF Uncount
<1>7. CASE Remember
  BY <1>7, StepKept DEF Remember, Advance, ghosts
<1>8. CASE Close
  BY <1>8, StepKept DEF Close, Advance, ghosts
<1>9. CASE Finished \/ Return
  BY <1>9, FrontKept DEF Finished, Return, On, ghosts
<1>10. CASE OpenThrows \/ Throw
  BY <1>10, UncaughtKept DEF OpenThrows, Throw
<1>11. CASE (\E r \in Req : Abort(r) \/ Answer(r)) \/ UNCHANGED vars
  BY <1>11 DEF Abort, Answer, vars, ghosts, Kept
<1>. QED
  BY <1>1, <1>2, <1>3, <1>4, <1>5, <1>6, <1>7, <1>8, <1>9, <1>10, <1>11

\* A refusal leaves nothing to be called.
LEMMA RefuseLike ==
    ASSUME Typed, Known, Refuse
    PROVE  (\A q : Like(q)) /\ UNCHANGED <<set, done, calls, begun>>
<1>1. PICK m \in DOMAIN stack, f \in RunFrames : Refused(m, f)
  BY RefuseIs
<1>2. /\ DOMAIN stack = 1..(m + 1) /\ DOMAIN stack' = 1..m
      /\ f.todo = {"uncount", "close"} /\ stack'[m] = f
      /\ \A i \in 1..(m - 1) : stack'[i] = stack[i]
  BY <1>1 DEF Refused
<1>3. ASSUME NEW q, NEW i, NEW x \in Named, Owns(stack', i, q, x)
      PROVE  Owns(stack, i, q, x) /\ stack'[i].local = stack[i].local
  <2>1. i \in 1..m /\ i # m
    BY <1>2, <1>3 DEF Owns, Named
  <2>2. m \in Nat
    BY <1>2
  <2>3. i \in 1..(m - 1) /\ i \in 1..(m + 1)
    BY <2>1, <2>2
  <2>. QED
    BY <1>2, <2>3, <1>3 DEF Owns
<1>. QED
  BY <1>3 DEF Like, Refuse, ghosts

-----------------------------------------------------------------------------
(* The callbacks.                                                          *)

LEMMA CallbackTally ==
    ASSUME Typed, OneSource, Known, Charged, Tally, NEW step \in Callbacks, Callback(step)
    PROVE  Tally'
<1>1. /\ At(step) /\ stack' = Called(Top.todo \ {step}, step)
      /\ calls' = IF step \in {"success", "error", "complete"}
                  THEN [calls EXCEPT ![Top.r][step] = @ + 1] ELSE calls
      /\ UNCHANGED <<set, done, begun>>
  BY DEF Callback
<1>. DEFINE n == Len(stack)
<1>2. /\ \A q : Kept(q)
      /\ Top \in RunFrames /\ Top.r \in Req /\ step \in Top.todo
      /\ n \in DOMAIN stack /\ stack[n] = Top
      /\ n \in DOMAIN stack'
      /\ stack'[n] = [Top EXCEPT !.todo = Top.todo \ {step}]
      /\ \A x : x \in Top.todo => Pending(Top.r, x)
  BY <1>1, StepKept
<1>. HIDE DEF n
<1>3. \A q \in Req : Like(q)
  BY <1>2, KeptLike
<1>4. CASE step \notin {"success", "error", "complete"}
  BY <1>1, <1>3, <1>4, AllTallied
<1>. SUFFICES ASSUME NEW r \in Req, r = Top.r, step \in {"success", "error", "complete"}
              PROVE  Tally'
  BY <1>2, <1>4
<1>5. ASSUME NEW q \in Req \ {r} PROVE Tallied(q)'
  <2>1. calls'[q] = calls[q]
    BY <1>1, <1>5 DEF Typed
  <2>. QED
    BY <1>1, <1>3, <2>1, LikeTallied DEF Tally
<1>6. calls[r] \in [success : Nat, error : Nat, complete : Nat]
  BY DEF Typed
<1>7. calls'[r] = [calls[r] EXCEPT ![step] = calls[r][step] + 1]
  BY <1>1 DEF Typed
<1>8. /\ \A x \in Named : (Pending(r, x)' => Pending(r, x)) /\ (Once(r, x) => Once(r, x)')
      /\ \A i : (Outer(i, r)' => Outer(i, r)) /\ (Within(i, r)' => Within(i, r))
      /\ (Ahead(r)' => Ahead(r)) /\ (After(r)' => After(r))
  BY <1>3, LikeFacts
<1>9. \A x \in {"send", "error", "success", "evaluate", "complete"} : x \in Named
  BY DEF Named
<1>10. Owns(stack, n, r, step) /\ ~Owns(stack', n, r, step) /\ Pending(r, step)
  BY <1>2 DEF RunFrames, Owns, Pending
<1>11. Once(r, step) => ~Pending(r, step)'
  BY <1>3, <1>9, <1>10 DEF Like, Once, Pending, Owns
<1>12. Tallied(r) /\ ErrorsTwice(r)
  BY DEF Tally, Tallied
<1>13. CASE step = "error"
  <2>1. /\ calls'[r].error = calls[r].error + 1 /\ calls'[r].success = calls[r].success
        /\ calls'[r].complete = calls[r].complete
    BY <1>6, <1>7, <1>13
  <2>2. ~Pending(r, "error")' /\ Once(r, "error") /\ r \in begun
    BY <1>10, <1>11, <1>12, <1>13 DEF ErrorsTwice
  <2>3. calls[r].error \in Nat
    BY <1>6
  <2>4. ErrorsTwice(r)'
    BY <1>1, <1>8, <1>9, <1>10, <1>12, <1>13, <2>1, <2>2, <2>3 DEF ErrorsTwice
  <2>5. CompletesTwice(r) => CompletesTwice(r)'
    BY <1>8, <1>9, <2>1 DEF CompletesTwice
  <2>. QED
    BY <1>1, <1>5, <1>12, <2>4, <2>5 DEF Tally, Tallied
<1>14. CASE step \in {"success", "complete"}
  <2>1. calls'[r].error = calls[r].error
    BY <1>6, <1>7, <1>14
  <2>2. ErrorsTwice(r)'
    BY <1>1, <1>8, <1>9, <1>12, <2>1 DEF ErrorsTwice
  <2>3. ASSUME CompletesTwice(r) PROVE CompletesTwice(r)'
    <3>1. CASE step = "success"
      <4>1. calls'[r].success = calls[r].success + 1 /\ calls'[r].complete = calls[r].complete
        BY <1>6, <1>7, <3>1
      <4>2. ~Pending(r, "success")' /\ ~Pending(r, "evaluate") /\ calls[r].success = 0
        BY <1>10, <1>11, <2>3, <3>1 DEF CompletesTwice
      <4>. QED
        BY <1>8, <1>9, <2>3, <4>1, <4>2 DEF CompletesTwice
    <3>2. CASE step = "complete"
      <4>1. calls'[r].complete = calls[r].complete + 1 /\ calls'[r].success = calls[r].success
        BY <1>6, <1>7, <3>2
      <4>2. calls[r].complete \in Nat
        BY <1>6
      <4>3. \A i : Outer(i, r)' \/ Within(i, r)' => i # n
        BY <1>10, <3>2 DEF Outer, Within
      <4>4. CASE stack[n].local
        <5>1. Within(n, r)
          BY <1>10, <3>2, <4>4 DEF Within
        <5>2. \A i : ~Within(i, r)'
          BY <1>8, <2>3, <4>3, <5>1 DEF CompletesTwice
        <5>3. ~Ahead(r)' /\ Ahead(r)
          BY <1>8, <1>9, <2>3, <5>1, <5>2 DEF CompletesTwice, Ahead
        <5>. QED
          BY <1>8, <1>9, <2>3, <4>1, <4>2, <5>2, <5>3 DEF CompletesTwice
      <4>5. CASE ~stack[n].local
        <5>1. Outer(n, r)
          BY <1>10, <3>2, <4>5 DEF Outer
        <5>2. \A i : ~Outer(i, r)'
          BY <1>8, <2>3, <4>3, <5>1 DEF CompletesTwice
        <5>3. ~After(r)' /\ After(r)
          BY <5>1, <5>2 DEF After
        <5>. QED
          BY <1>8, <1>9, <2>3, <4>1, <4>2, <5>2, <5>3 DEF CompletesTwice
      <4>. QED
        BY <4>4, <4>5
    <3>. QED
      BY <1>14, <3>1, <3>2
  <2>. QED
    BY <1>1, <1>5, <1>12, <2>2, <2>3 DEF Tally, Tallied
<1>. QED
  BY <1>13, <1>14

\* send throws: the error is to be reported, and was not before.
LEMMA SendThrowsTally ==
    ASSUME Typed, Known, Charged, Tally, SendThrows
    PROVE  Tally'
<1>. DEFINE n == Len(stack)
<1>1. UNCHANGED <<set, done, begun, calls>>
  BY DEF SendThrows, ghosts
<1>2. /\ Top \in RunFrames /\ Top.r \in Req /\ Top.k = "run" /\ "send" \in Top.todo
      /\ n \in DOMAIN stack /\ stack[n] = Top
      /\ stack'[n] = [Top EXCEPT !.todo = Fails \cup (Top.todo \ {"send"})]
      /\ \A i \in DOMAIN stack' :
            stack'[i].k = "run" =>
               /\ i \in DOMAIN stack /\ stack[i].k = "run" /\ stack[i].r = stack'[i].r
               /\ stack[i].local = stack'[i].local
               /\ \A x \in stack'[i].todo : x \in stack[i].todo \/ (x \in Fails /\ i = n)
               /\ i = n \/ stack'[i] = stack[i]
  BY SendThrowsIs
<1>. HIDE DEF n
<1>. SUFFICES ASSUME NEW r \in Req, r = Top.r PROVE Tally'
  BY <1>2
<1>3. ASSUME NEW q, NEW i, NEW x, Owns(stack', i, q, x)
      PROVE  \/ Owns(stack, i, q, x) /\ stack'[i].local = stack[i].local
             \/ q = r /\ i = n /\ x \in Fails
  BY <1>2, <1>3 DEF Owns
<1>4. ASSUME NEW q \in Req \ {r} PROVE Tallied(q)'
  <2>1. Like(q)
    BY <1>3 DEF Like
  <2>. QED
    BY <1>1, <2>1, LikeTallied DEF Tally
<1>5. Owns(stack, n, r, "send") /\ Pending(r, "send")
  BY <1>2 DEF Owns, Pending
<1>6. ~Owns(stack', n, r, "send")
  BY <1>2 DEF RunFrames, Owns, Fails
<1>7. r \notin done
  BY <1>5 DEF Charged, Ledger, InCharge, Early
<1>8. /\ Once(r, "send") /\ ~Pending(r, "error") /\ calls[r].error = 0 /\ r \in begun
  BY <1>5, <1>7 DEF Tally, Tallied, ErrorsTwice
<1>9. ~Pending(r, "send")'
  <2>. SUFFICES ASSUME NEW i, Owns(stack', i, r, "send") PROVE FALSE
    BY DEF Pending
  <2>1. Owns(stack, i, r, "send") /\ i # n
    BY <1>3, <1>6 DEF Fails
  <2>. QED
    BY <1>5, <1>8, <2>1 DEF Once, Owns
<1>10. Once(r, "error")'
  <2>1. \A i : Owns(stack', i, r, "error") => i = n
    BY <1>3, <1>8 DEF Pending, Owns
  <2>. QED
    BY <2>1 DEF Once
<1>11. ErrorsTwice(r)'
  <2>1. Once(r, "send")'
    BY <1>9 DEF Once, Pending
  <2>. QED
    BY <1>1, <1>8, <1>9, <1>10, <2>1 DEF ErrorsTwice
<1>12. \A x \in {"success", "evaluate", "complete"} : x \notin Fails
  BY DEF Fails
<1>13. /\ \A x \in {"success", "evaluate"} : (Pending(r, x)' => Pending(r, x)) /\ (Once(r, x) => Once(r, x)')
       /\ \A i : (Outer(i, r)' => Outer(i, r)) /\ (Within(i, r)' => Within(i, r))
  BY <1>3, <1>12 DEF Pending, Once, Owns, Outer, Within
<1>14. CompletesTwice(r) => CompletesTwice(r)'
  <2>1. (Ahead(r)' => Ahead(r)) /\ (After(r)' => After(r))
    BY <1>13 DEF Ahead, After
  <2>. QED
    BY <1>1, <1>13, <2>1 DEF CompletesTwice
<1>. QED
  BY <1>1, <1>4, <1>11, <1>14 DEF Tally, Tallied

\* The response completes its request inside: once, for it is evaluated once.
LEMMA EvaluateTally ==
    ASSUME Typed, Known, Charged, Tally, Evaluate
    PROVE  Tally'
<1>. DEFINE n == Len(stack)
            g == Run(Top.r, Succeeds \cup Completes, TRUE)
<1>1. UNCHANGED <<set, done, begun, calls>>
  BY DEF Evaluate, ghosts
<1>2. /\ Top.r \in Req /\ Top.k = "run" /\ "evaluate" \in Top.todo
      /\ n \in DOMAIN stack /\ stack[n] = Top /\ n + 1 \notin DOMAIN stack
      /\ \A i \in DOMAIN stack' :
            \/ /\ i \in DOMAIN stack /\ stack'[i].k = stack[i].k /\ stack'[i].r = stack[i].r
               /\ stack'[i].k = "run" =>
                     /\ stack'[i].local = stack[i].local
                     /\ stack'[i].todo \subseteq stack[i].todo
                     /\ i = n => stack'[i].todo = Top.todo \ {"evaluate"}
            \/ i = n + 1 /\ stack'[i] = g
  BY EvaluateIs
<1>3. g.r = Top.r /\ g.local = TRUE /\ g.todo = Succeeds \cup Completes
  BY DEF Run
<1>. HIDE DEF n, g
<1>. SUFFICES ASSUME NEW r \in Req, r = Top.r PROVE Tally'
  BY <1>2
<1>4. ASSUME NEW q, NEW i, NEW x, Owns(stack', i, q, x)
      PROVE  \/ Owns(stack, i, q, x) /\ stack'[i].local = stack[i].local
                /\ (i = n => x # "evaluate")
             \/ q = r /\ i = n + 1 /\ x \in Succeeds \cup Completes /\ stack'[i].local
  BY <1>2, <1>3, <1>4 DEF Owns
<1>5. ASSUME NEW q \in Req \ {r} PROVE Tallied(q)'
  <2>1. Like(q)
    BY <1>4 DEF Like
  <2>. QED
    BY <1>1, <2>1, LikeTallied DEF Tally
<1>6. Owns(stack, n, r, "evaluate") /\ Pending(r, "evaluate") /\ Once(r, "evaluate")
  <2>1. Owns(stack, n, r, "evaluate") /\ Pending(r, "evaluate")
    BY <1>2 DEF Owns, Pending
  <2>. QED
    BY <2>1 DEF Charged, Ledger, Evaluated
<1>7. \A x \in {"send", "error", "evaluate"} : x \notin Succeeds \cup Completes
  BY DEF Succeeds, Completes
<1>8. \A x \in {"send", "error", "evaluate"} :
         (Pending(r, x)' => Pending(r, x)) /\ (Once(r, x) => Once(r, x)')
  BY <1>4, <1>7 DEF Pending, Once, Owns
<1>9. Tallied(r)
  BY DEF Tally
<1>10. ErrorsTwice(r)'
  BY <1>1, <1>8, <1>9 DEF Tallied, ErrorsTwice
<1>11. ~Pending(r, "evaluate")'
  <2>. SUFFICES ASSUME NEW i, Owns(stack', i, r, "evaluate") PROVE FALSE
    BY DEF Pending
  <2>1. Owns(stack, i, r, "evaluate") /\ i # n
    BY <1>4, <1>7
  <2>. QED
    BY <1>6, <2>1 DEF Once, Owns
<1>12. ASSUME CompletesTwice(r) PROVE CompletesTwice(r)'
  <2>1. ~Pending(r, "success") /\ calls[r].success = 0 /\ (\A i : ~Within(i, r)) /\ Ahead(r)
    BY <1>6, <1>12 DEF CompletesTwice, Ahead
  <2>2. \A i : Owns(stack', i, r, "success") => i = n + 1
    BY <1>4, <2>1 DEF Pending, Owns
  <2>3. \A i : Within(i, r)' => i = n + 1
    BY <1>4, <2>1 DEF Within
  <2>4. \A i : Outer(i, r)' => Outer(i, r)
    BY <1>4 DEF Outer
  <2>5. After(r)' => After(r)
    BY <2>4 DEF After
  <2>6. Once(r, "success")'
    BY <2>2 DEF Once
  <2>. QED
    BY <1>1, <1>11, <1>12, <2>1, <2>3, <2>4, <2>5, <2>6 DEF CompletesTwice
<1>. QED
  BY <1>1, <1>5, <1>9, <1>10, <1>12 DEF Tally, Tallied

-----------------------------------------------------------------------------
(* A call of the library is added to those that are left, s.               *)

Below(s) == Stacked(s) /\ \A i \in DOMAIN s : i \in DOMAIN stack /\ s[i] = stack[i]

Added(s, f) == stack' = Append(s, f)

LEMMA PushOwns ==
    ASSUME NEW s, Below(s), NEW f \in RunFrames, Added(s, f)
    PROVE  \A i, q, x : Owns(stack', i, q, x) =>
              \/ Owns(s, i, q, x) /\ Owns(stack, i, q, x) /\ stack'[i].local = stack[i].local
              \/ i = Len(s) + 1 /\ q = f.r /\ x \in f.todo /\ stack'[i].local = f.local
<1>. DEFINE u == Append(s, f)
            n == Len(s)
<1>1. /\ n \in Nat /\ DOMAIN s = 1..n /\ DOMAIN u = 1..(n + 1)
      /\ \A i \in 1..n : u[i] = s[i]
      /\ u[n + 1] = f
  BY PushIs DEF Below
<1>2. stack' = u
  BY DEF Added
<1>. HIDE DEF u, n
<1>3. \A i \in 1..(n + 1) : i \in 1..n \/ i = n + 1
  BY <1>1
<1>4. ASSUME NEW i, NEW q, NEW x, Owns(stack', i, q, x)
      PROVE  \/ Owns(s, i, q, x) /\ Owns(stack, i, q, x) /\ stack'[i].local = stack[i].local
             \/ i = n + 1 /\ q = f.r /\ x \in f.todo /\ stack'[i].local = f.local
  <2>1. i \in DOMAIN u
    BY <1>2, <1>4 DEF Owns
  <2>2. CASE i \in 1..n
    BY <1>1, <1>2, <1>4, <2>2 DEF Owns, Below
  <2>3. CASE i = n + 1
    BY <1>1, <1>2, <1>4, <2>3 DEF Owns
  <2>. QED
    BY <1>1, <1>3, <2>1, <2>2, <2>3
<1>. QED
  BY <1>4 DEF n

LEMMA EmptyBelow == Below(<<>>) /\ \A i, q, x : ~Owns(<<>>, i, q, x)
BY EmptyIsStacked DEF Below

LEMMA FrontBelow ==
    ASSUME Typed, stack # <<>>
    PROVE  /\ Below(Front(stack))
           /\ \A i, q, x : Owns(Front(stack), i, q, x) => Owns(stack, i, q, x) /\ i # Len(stack)
<1>1. Len(stack) \in Nat \ {0} /\ DOMAIN stack = 1..Len(stack)
  BY FrontFacts, StackFacts DEF Typed
<1>2. Len(stack) - 1 \in 0..Len(stack)
  BY <1>1
<1>3. /\ Stacked(Front(stack)) /\ Len(Front(stack)) = Len(stack) - 1
      /\ \A i \in 1..(Len(stack) - 1) : Front(stack)[i] = stack[i]
  BY <1>2, PrefixIsStacked DEF Front, Typed
<1>4. DOMAIN Front(stack) = 1..(Len(stack) - 1)
  BY <1>3, StackFacts
<1>5. Below(Front(stack))
  BY <1>1, <1>3, <1>4 DEF Below
<1>. QED
  BY <1>5, FrontFacts DEF Typed

LEMMA AfterDoneNamed ==
    ASSUME NEW r, NEW late \in BOOLEAN
    PROVE  /\ "send" \notin AfterDone(r, late)
           /\ "success" \in AfterDone(r, late) => "evaluate" \notin AfterDone(r, late)
           /\ "remember" \in AfterDone(r, late) => ~late
BY DEF AfterDone, Status, Fails, Succeeds, Completes

\* A request becomes done: nothing was called of it yet but error, once.
LEMMA DoneTally ==
    ASSUME Typed, OneSource, Tally, NEW r \in Req, r \in begun, r \notin done,
           NEW late \in BOOLEAN, NEW s, Below(s), \A i : ~Owns(s, i, r, "error"),
           Added(s, Run(r, AfterDone(r, late), FALSE)),
           UNCHANGED <<set, calls, begun>>, done' = done \cup {r}
    PROVE  Tally'
<1>. DEFINE todo == AfterDone(r, late)
            f == Run(r, todo, FALSE)
            n == Len(s) + 1
<1>1. todo \in SUBSET Names
  BY AfterDoneIsSteps
<1>2. "send" \notin todo /\ ("success" \in todo => "evaluate" \notin todo)
  BY AfterDoneNamed
<1>. HIDE DEF todo
<1>3. f \in RunFrames /\ f.r = r /\ f.todo = todo /\ f.local = FALSE
  BY <1>1 DEF Run, RunFrames
<1>4. Added(s, f)
  BY DEF todo
<1>. HIDE DEF f
<1>a. \A i, q, x : Owns(stack', i, q, x) =>
         \/ Owns(s, i, q, x) /\ Owns(stack, i, q, x) /\ stack'[i].local = stack[i].local
         \/ i = Len(s) + 1 /\ q = f.r /\ x \in f.todo /\ stack'[i].local = f.local
  BY <1>3, <1>4, PushOwns
<1>5. \A i, q, x : Owns(stack', i, q, x) =>
         \/ Owns(s, i, q, x) /\ Owns(stack, i, q, x) /\ stack'[i].local = stack[i].local
         \/ i = n /\ q = r /\ x \in todo /\ stack'[i].local = FALSE
  BY <1>a, <1>3
<1>. HIDE DEF n
<1>6. ASSUME NEW q \in Req \ {r} PROVE Tallied(q)'
  <2>1. Like(q)
    BY <1>5 DEF Like
  <2>. QED
    BY <2>1, LikeTallied DEF Tally
<1>7. Tallied(r) /\ ErrorsTwice(r)
  BY DEF Tally, Tallied
<1>8. \A i : Owns(stack', i, r, "error") => i = n
  BY <1>5
<1>9. Once(r, "error")' /\ Once(r, "send")'
  <2>1. \A i : Owns(stack', i, r, "send") => Owns(stack, i, r, "send")
    BY <1>2, <1>5
  <2>2. Once(r, "send")'
    BY <1>7, <2>1 DEF ErrorsTwice, Once, Owns
  <2>. QED
    BY <1>8, <2>2 DEF Once
<1>10. calls[r] \in [success : Nat, error : Nat, complete : Nat]
  BY DEF Typed
<1>11. ErrorsTwice(r)'
  BY <1>7, <1>9, <1>10 DEF ErrorsTwice
<1>12. ASSUME set[r].via = "local" PROVE CompletesTwice(r)'
  <2>1. Uncalled(r)
    BY <1>12 DEF OneSource, Accounted, Remote
  <2>2. \A i : \A x \in {"success", "complete", "evaluate"} :
           Owns(stack', i, r, x) => i = n /\ x \in todo /\ stack'[i].local = FALSE
    BY <1>5, <2>1 DEF Uncalled, Pending, Owns
  <2>3. \A i : ~Within(i, r)'
    BY <2>2 DEF Within
  <2>4. \A i : Outer(i, r)' => i = n
    BY <2>2 DEF Outer
  <2>5. Once(r, "success")' /\ ~(Pending(r, "success")' /\ Pending(r, "evaluate")')
    <3>1. \A i : Owns(stack', i, r, "success") => i = n
      BY <2>2
    <3>2. (Pending(r, "success")' => "success" \in todo) /\ (Pending(r, "evaluate")' => "evaluate" \in todo)
      BY <2>2 DEF Pending
    <3>. QED
      BY <1>2, <3>1, <3>2 DEF Once
  <2>. QED
    BY <2>1, <2>3, <2>4, <2>5 DEF Uncalled, CompletesTwice
<1>. QED
  BY <1>6, <1>11, <1>12 DEF Tally, Tallied

LEMMA ReactTally ==
    ASSUME Typed, OneSource, Tally, NEW r \in Req, r \in begun,
           NEW late \in BOOLEAN, NEW s, Below(s), \A i : ~Owns(s, i, r, "error"),
           React(r, late, s), UNCHANGED <<set, calls, begun>>
    PROVE  Tally'
<1>1. CASE ready[r] = 0 /\ waits[r] = "poll"
  <2>. DEFINE f == Run(r, {"uncount"}, FALSE)
  <2>1. Added(s, f) /\ UNCHANGED done
    BY <1>1 DEF React, Added
  <2>2. f \in RunFrames /\ f.todo = {"uncount"}
    BY DEF Run, RunFrames, Names
  <2>. HIDE DEF f
  <2>3. \A i, q, x : Owns(stack', i, q, x) =>
           \/ Owns(stack, i, q, x) /\ stack'[i].local = stack[i].local
           \/ x \in f.todo
    BY <2>1, <2>2, PushOwns
  <2>4. \A q \in Req : Like(q)
    BY <2>2, <2>3 DEF Like, Named
  <2>. QED
    BY <2>1, <2>4, AllTallied
<1>2. CASE /\ ~(ready[r] = 0 /\ waits[r] = "poll")
           /\ ready[r] # 0 /\ r \notin done /\ (ready[r] = 4 \/ late)
  <2>1. Added(s, Run(r, AfterDone(r, late), FALSE)) /\ done' = done \cup {r}
    BY <1>2 DEF React, Added
  <2>. QED
    BY <1>2, <2>1, DoneTally
<1>3. CASE /\ ~(ready[r] = 0 /\ waits[r] = "poll")
           /\ ~(ready[r] # 0 /\ r \notin done /\ (ready[r] = 4 \/ late))
  <2>1. stack' = s /\ UNCHANGED done
    BY <1>3 DEF React
  <2>2. \A q \in Req : Like(q)
    BY <2>1 DEF Below, Like, Owns
  <2>. QED
    BY <2>1, <2>2, AllTallied
<1>. QED
  BY <1>1, <1>2, <1>3

\* A request that somebody reacts to, or whose script is waited for, was begun.
LEMMA CheckIs ==
    ASSUME Typed, OneSource, Known, Check
    PROVE  /\ Top.r \in Req /\ Top.r \in begun /\ Below(Front(stack))
           /\ \A i : ~Owns(Front(stack), i, Top.r, "error")
           /\ React(Top.r, FALSE, Front(stack))
           /\ stack # <<>>
<1>1. At("check") /\ React(Top.r, FALSE, Front(stack))
  BY DEF Check
<1>2. /\ stack # <<>> /\ Top.r \in Req /\ "check" \in Top.todo /\ Top.k = "run"
  BY <1>1, TopShape DEF At, Known
<1>3. Len(stack) \in DOMAIN stack /\ stack[Len(stack)] = Top
  BY <1>2, FrontFacts, StackFacts DEF Typed, Top, Last
<1>4. Pending(Top.r, "check")
  BY <1>2, <1>3 DEF Pending, Owns
<1>5. Top.r \in begun
  BY <1>2, <1>4, SourceFacts DEF Critical
<1>6. ASSUME NEW i, Owns(Front(stack), i, Top.r, "error") PROVE FALSE
  <2>1. Owns(stack, i, Top.r, "error") /\ i # Len(stack)
    BY <1>2, <1>6, FrontBelow
  <2>. QED
    BY <2>1 DEF Owns, Known, Placed, Bare
<1>. QED
  BY <1>1, <1>2, <1>5, <1>6, FrontBelow

LEMMA WakeIs ==
    ASSUME Typed, OneSource, NEW r \in Req, Poll(r) \/ TimeOut(r)
    PROVE  /\ stack = <<>> /\ r \in begun
           /\ Below(<<>>) /\ \A i : ~Owns(<<>>, i, r, "error")
           /\ \/ \E late \in BOOLEAN : React(r, late, <<>>)
              \/ UNCHANGED <<waits, done, stack, timedOut>>
           /\ UNCHANGED <<set, calls, begun, answer, ready, flying, modified>>
           /\ timer' \subseteq timer
<1>1. r \in begun
  <2>1. waits[r] = "poll" \/ r \in timer
    BY DEF Poll, TimeOut
  <2>. QED
    BY <2>1, SourceFacts DEF Reacts
<1>2. stack = <<>>
  BY DEF Poll, TimeOut
<1>3. \/ \E late \in BOOLEAN : React(r, late, <<>>)
      \/ UNCHANGED <<waits, done, stack, timedOut>>
  <2>1. CASE Poll(r)
    BY <1>2, <2>1 DEF Poll
  <2>2. CASE TimeOut(r)
    BY <1>2, <2>2 DEF TimeOut
  <2>. QED
    BY <2>1, <2>2
<1>4. UNCHANGED <<set, calls, begun, answer, ready, flying, modified>> /\ timer' \subseteq timer
  BY DEF Poll, TimeOut, net
<1>. QED
  BY <1>1, <1>2, <1>3, <1>4, EmptyBelow

LEMMA WakeTally ==
    ASSUME Typed, OneSource, Tally, NEW r \in Req, Poll(r) \/ TimeOut(r)
    PROVE  Tally'
<1>. DEFINE s == <<>>
<1>1. /\ stack = s /\ r \in begun
      /\ Below(s) /\ \A i : ~Owns(s, i, r, "error")
      /\ \/ \E late \in BOOLEAN : React(r, late, s)
         \/ UNCHANGED <<waits, done, stack, timedOut>>
      /\ UNCHANGED <<set, calls, begun>>
  BY WakeIs
<1>. HIDE DEF s
<1>2. CASE \E late \in BOOLEAN : React(r, late, s)
  BY <1>1, <1>2, ReactTally
<1>3. CASE UNCHANGED <<waits, done, stack, timedOut>>
  <2>1. \A q \in Req : Like(q)
    BY <1>3 DEF Like, Owns
  <2>. QED
    BY <1>1, <1>3, <2>1, AllTallied
<1>. QED
  BY <1>1, <1>2, <1>3

\* A script is loaded that is no JSONP of the own host, and reports no error.
LEMMA LoadTally ==
    ASSUME Typed, OneSource, Tally, NEW r \in Req, Load(r)
    PROVE  Tally'
<1>. DEFINE s == <<>>
            todo == Succeeds \cup Completes
            f == Run(r, todo, FALSE)
<1>1. /\ waits[r] = "script" /\ Added(s, f)
      /\ UNCHANGED <<set, calls, begun, done>>
  BY DEF Load, ghosts, Added
<1>2. f \in RunFrames /\ f.r = r /\ f.todo = todo
  BY CompletesShape DEF Run, RunFrames
<1>3. Below(s) /\ \A i, q, x : ~Owns(s, i, q, x)
  BY EmptyBelow
<1>4. "send" \notin todo /\ "error" \notin todo
  BY DEF Succeeds, Completes
<1>. HIDE DEF s, f, todo
<1>5. \A i, q, x : Owns(stack', i, q, x) => q = r /\ x \in todo
  BY <1>1, <1>2, <1>3, PushOwns
<1>6. ASSUME NEW q \in Req \ {r} PROVE Tallied(q)'
  <2>1. Like(q)
    BY <1>5 DEF Like
  <2>. QED
    BY <1>1, <2>1, LikeTallied DEF Tally
<1>7. set[r].via = "script"
  BY <1>1 DEF OneSource, Accounted, ScriptOnce, Remote
<1>8. ErrorsTwice(r)
  BY DEF Tally, Tallied
<1>9. ~Pending(r, "send")' /\ ~Pending(r, "error")' /\ Once(r, "send")' /\ Once(r, "error")'
  BY <1>4, <1>5 DEF Pending, Once
<1>10. ErrorsTwice(r)'
  BY <1>1, <1>8, <1>9 DEF ErrorsTwice
<1>. QED
  BY <1>1, <1>6, <1>7, <1>10 DEF Tally, Tallied

LEMMA BeginTally ==
    ASSUME Typed, OneSource, Known, Charged, Tally, NEW r \in Req, Begin(r)
    PROVE  Tally'
<1>. DEFINE todo == {"start"} \cup AjaxSteps(r)
            f == Run(r, todo, FALSE)
            n == Len(stack) + 1
<1>1. /\ r \notin begun /\ begun' = begun \cup {r} /\ Added(stack, f)
      /\ UNCHANGED <<set, calls, done>>
  BY DEF Begin, ghosts, Added
<1>2. f \in RunFrames /\ f.r = r /\ f.todo = todo /\ f.local = FALSE
  BY BeginShape DEF Run
<1>3. \A x \in Named \ {"send"} : x \notin todo
  BY DEF AjaxSteps, Named
<1>4. Below(stack)
  BY DEF Below, Typed
<1>. HIDE DEF f, todo
<1>a. \A i, q, x : Owns(stack', i, q, x) =>
         \/ Owns(stack, i, q, x) /\ stack'[i].local = stack[i].local
         \/ i = Len(stack) + 1 /\ q = f.r /\ x \in f.todo
  BY <1>1, <1>2, <1>4, PushOwns
<1>5. \A i, q, x : Owns(stack', i, q, x) =>
         \/ Owns(stack, i, q, x) /\ stack'[i].local = stack[i].local
         \/ i = n /\ q = r /\ x \in todo
  BY <1>a, <1>2
<1>. HIDE DEF n
<1>6. ASSUME NEW q \in Req \ {r} PROVE Tallied(q)'
  <2>1. Like(q)
    BY <1>5 DEF Like
  <2>. QED
    BY <1>1, <2>1, LikeTallied DEF Tally
<1>7. /\ ErrorsTwice(r) /\ ~Pending(r, "send") /\ ~Pending(r, "error") /\ calls[r].error = 0
      /\ r \in begun'
  BY <1>1 DEF Tally, Tallied, ErrorsTwice
<1>8. \A i : Owns(stack', i, r, "send") => i = n
  BY <1>5, <1>7 DEF Pending, Owns
<1>9. ~Pending(r, "error")'
  BY <1>3, <1>5, <1>7 DEF Pending, Owns, Named
<1>10. Once(r, "send")' /\ Once(r, "error")'
  BY <1>8, <1>9 DEF Once, Pending
<1>11. ErrorsTwice(r)'
  BY <1>1, <1>7, <1>9, <1>10 DEF ErrorsTwice
<1>12. Uncalled(r)
  BY <1>1 DEF OneSource, Accounted
<1>13. \A x \in {"success", "complete", "evaluate"} : ~Pending(r, x)'
  BY <1>3, <1>5, <1>12 DEF Uncalled, Pending, Owns, Named
<1>14. CompletesTwice(r)'
  <2>1. \A i : ~Outer(i, r)' /\ ~Within(i, r)'
    BY <1>13 DEF Outer, Within, Pending, Owns
  <2>2. Once(r, "success")'
    BY <1>13 DEF Once, Pending
  <2>. QED
    BY <1>1, <1>12, <1>13, <2>1, <2>2 DEF Uncalled, CompletesTwice
<1>. QED
  BY <1>6, <1>11, <1>14 DEF Tally, Tallied

LEMMA TallyInit == Init => Tally
<1>. SUFFICES ASSUME Init PROVE Tally
  OBVIOUS
<1>1. DOMAIN stack = {} /\ begun = {} /\ done = {}
      /\ calls = [r \in Req |-> [success |-> 0, error |-> 0, complete |-> 0]]
  BY EmptyIsStacked DEF Init
<1>2. ASSUME NEW r \in Req PROVE Tallied(r)
  <2>1. \A x : ~Pending(r, x) /\ Once(r, x)
    BY <1>1 DEF Pending, Once
  <2>2. \A i : ~Outer(i, r) /\ ~Within(i, r)
    BY <1>1 DEF Outer, Within, Owns
  <2>3. calls[r].success = 0 /\ calls[r].error = 0 /\ calls[r].complete = 0
    BY <1>1
  <2>4. ErrorsTwice(r)
    BY <1>1, <2>1, <2>3 DEF ErrorsTwice
  <2>5. CompletesTwice(r)
    BY <2>1, <2>2, <2>3 DEF CompletesTwice
  <2>. QED
    BY <2>4, <2>5 DEF Tallied
<1>. QED
  BY <1>2 DEF Tally

LEMMA TallyNext == Typed /\ OneSource /\ Known /\ Charged /\ Tally /\ [Next]_vars => Tally'
<1>. SUFFICES ASSUME Typed, OneSource, Known, Charged, Tally, [Next]_vars PROVE Tally'
  OBVIOUS
<1>1. CASE \/ Start \/ Inject \/ Open \/ Arm \/ Send \/ Uncount \/ Remember \/ Close
           \/ Finished \/ OpenThrows \/ Return \/ Throw \/ UNCHANGED vars
           \/ \E r \in Req : Abort(r) \/ Answer(r)
  <2>1. (\A q : Kept(q)) /\ UNCHANGED <<set, done, calls, begun>>
    BY <1>1, PlainSteps
  <2>2. \A q \in Req : Like(q)
    BY <2>1, KeptLike
  <2>. QED
    BY <2>1, <2>2, AllTallied
<1>2. CASE Refuse
  BY <1>2, RefuseLike, AllTallied
<1>3. CASE Check
  <2>1. /\ Top.r \in Req /\ Top.r \in begun /\ Below(Front(stack))
        /\ \A i : ~Owns(Front(stack), i, Top.r, "error")
        /\ React(Top.r, FALSE, Front(stack))
    BY <1>3, CheckIs
  <2>2. UNCHANGED <<set, calls, begun>>
    BY <1>3 DEF Check
  <2>. QED
    BY <2>1, <2>2, ReactTally
<1>4. CASE Evaluate \/ SendThrows \/ \E step \in Callbacks : Callback(step)
  BY <1>4, EvaluateTally, SendThrowsTally, CallbackTally
<1>5. ASSUME NEW r \in Req, Begin(r) \/ Poll(r) \/ TimeOut(r) \/ Load(r)
      PROVE  Tally'
  BY <1>5, BeginTally, WakeTally, LoadTally
<1>. QED
  BY <1>1, <1>2, <1>3, <1>4, <1>5 DEF Next, Steps

-----------------------------------------------------------------------------
(* The rest of the types.                                                  *)

LEMMA LikeAnswered ==
    ASSUME NEW q, Answered(q), Like(q), answer'[q] = answer[q], ready'[q] = 4 => ready[q] = 4
    PROVE  Answered(q)'
<1>1. Pending(q, "remember")' => Pending(q, "remember")
  BY LikeFacts DEF Named
<1>. QED
  BY <1>1 DEF Answered

\* What was done or remembered after a reaction was there to react to.
LEMMA ReactSound ==
    ASSUME Typed, Sound, NEW r \in Req, r \in begun, NEW late \in BOOLEAN,
           NEW s, Below(s), React(r, late, s),
           UNCHANGED <<begun, answer, ready, flying, modified>>, timer' \subseteq timer
    PROVE  Sound'
<1>1. /\ done' = done \/ done' = done \cup {r}
  BY DEF React
<1>2. ASSUME NEW q \in Req PROVE Answered(q)'
  <2>1. ASSUME NEW todo \in SUBSET Names, "remember" \in todo => ready[r] = 4,
               Added(s, Run(r, todo, FALSE))
        PROVE  Pending(q, "remember")' => Pending(q, "remember") \/ ready[q] = 4
    <3>. DEFINE f == Run(r, todo, FALSE)
    <3>1. f \in RunFrames /\ f.r = r /\ f.todo = todo
      BY DEF Run, RunFrames
    <3>2. Added(s, f)
      BY <2>1
    <3>. HIDE DEF f
    <3>3. \A i, p, x : Owns(stack', i, p, x) => Owns(stack, i, p, x) \/ (p = f.r /\ x \in f.todo)
      BY <3>1, <3>2, PushOwns
    <3>. QED
      BY <2>1, <3>1, <3>3 DEF Pending, Owns
  <2>2. CASE ready[r] = 0 /\ waits[r] = "poll"
    <3>. DEFINE todo == {"uncount"}
    <3>1. Added(s, Run(r, todo, FALSE))
      BY <2>2 DEF React, Added
    <3>2. todo \in SUBSET Names /\ "remember" \notin todo
      BY DEF Names
    <3>. HIDE DEF todo
    <3>3. Pending(q, "remember")' => Pending(q, "remember") \/ ready[q] = 4
      BY <2>1, <3>1, <3>2
    <3>. QED
      BY <3>3 DEF Sound, Answered
  <2>3. CASE /\ ~(ready[r] = 0 /\ waits[r] = "poll")
             /\ ready[r] # 0 /\ r \notin done /\ (ready[r] = 4 \/ late)
    <3>. DEFINE todo == AfterDone(r, late)
    <3>1. Added(s, Run(r, todo, FALSE))
      BY <2>3 DEF React, Added
    <3>2. todo \in SUBSET Names /\ ("remember" \in todo => ready[r] = 4)
      BY <2>3, AfterDoneIsSteps, AfterDoneNamed
    <3>. HIDE DEF todo
    <3>3. Pending(q, "remember")' => Pending(q, "remember") \/ ready[q] = 4
      BY <2>1, <3>1, <3>2
    <3>. QED
      BY <3>3 DEF Sound, Answered
  <2>4. CASE /\ ~(ready[r] = 0 /\ waits[r] = "poll")
             /\ ~(ready[r] # 0 /\ r \notin done /\ (ready[r] = 4 \/ late))
    <3>1. stack' = s
      BY <2>4 DEF React
    <3>2. Like(q)
      BY <3>1 DEF Below, Like, Owns
    <3>. QED
      BY <3>2, LikeAnswered DEF Sound
  <2>. QED
    BY <2>2, <2>3, <2>4
<1>. QED
  BY <1>1, <1>2 DEF Sound

LEMMA SoundInit == Init => Sound
<1>. SUFFICES ASSUME Init PROVE Sound
  OBVIOUS
<1>1. DOMAIN stack = {}
  BY EmptyIsStacked DEF Init
<1>2. \A r \in Req : Answered(r)
  BY <1>1, AjaxAssumption DEF Init, Answered, Pending
<1>. QED
  BY <1>2 DEF Init, Sound

LEMMA SoundNext == Typed /\ OneSource /\ Known /\ Charged /\ Tally /\ Sound /\ [Next]_vars => Sound'
<1>. SUFFICES ASSUME Typed, OneSource, Known, Charged, Tally, Sound, [Next]_vars PROVE Sound'
  OBVIOUS
\* Steps that get no response.
<1>1. ASSUME \A q \in Req : Like(q), answer' = answer, \A q \in Req : ready'[q] = 4 => ready[q] = 4
      PROVE  \A q \in Req : Answered(q)'
  <2>1. ASSUME NEW q \in Req PROVE Answered(q)'
    BY <1>1, <2>1, LikeAnswered DEF Sound
  <2>. QED
    BY <2>1
<1>2. CASE \/ Start \/ Uncount \/ Finished \/ OpenThrows \/ Return \/ Throw \/ Inject
           \/ UNCHANGED vars
  <2>1. \A q \in Req : Like(q)
    BY <1>2, PlainSteps, KeptLike
  <2>2. UNCHANGED <<begun, ready, flying, answer, timer, done, modified>>
    BY <1>2 DEF Start, Uncount, Finished, OpenThrows, Return, Throw, Inject, vars, net
  <2>. QED
    BY <1>1, <2>1, <2>2 DEF Sound
<1>3. CASE Open \/ Close \/ \E r \in Req : Abort(r)
  <2>1. \A q \in Req : Like(q)
    BY <1>3, PlainSteps, KeptLike
  <2>2. /\ UNCHANGED <<begun, answer, timer, done, modified>> /\ flying' \subseteq flying
        /\ \E r, v : v # 4 /\ ready' = [ready EXCEPT ![r] = v]
    BY <1>3 DEF Open, Close, Abort
  <2>3. \A q \in Req : ready'[q] = 4 => ready[q] = 4
    BY <2>2 DEF Known
  <2>. QED
    BY <1>1, <2>1, <2>2, <2>3 DEF Sound
<1>4. CASE Arm
  <2>1. \A q \in Req : Like(q)
    BY <1>4, PlainSteps, KeptLike
  <2>2. /\ UNCHANGED <<begun, ready, flying, answer, done, modified>>
        /\ timer' \subseteq timer \cup {Top.r} /\ At("arm") /\ stack' = Called(Top.todo \ {"arm"}, None)
    BY <1>4 DEF Arm, Advance, net
  <2>3. Top.r \in begun
    <3>1. Top.r \in Req /\ Pending(Top.r, "arm")
      BY <2>2, StepKept
    <3>. QED
      BY <3>1, SourceFacts DEF Critical
  <2>. QED
    BY <1>1, <2>1, <2>2, <2>3 DEF Sound
<1>5. CASE Send
  <2>1. \A q \in Req : Like(q)
    BY <1>5, PlainSteps, KeptLike
  <2>2. /\ UNCHANGED <<begun, timer, done, modified>>
        /\ \/ /\ \E a \in Answers : answer' = [answer EXCEPT ![Top.r] = a]
              /\ ready' = [ready EXCEPT ![Top.r] = 4] /\ flying' = flying
           \/ /\ flying' = flying \cup {Top.r} /\ UNCHANGED <<ready, answer>>
        /\ At("send") /\ stack' = Called(Top.todo \ {"send"}, None)
    BY <1>5 DEF Send, Advance
  <2>3. Top.r \in Req /\ Top.r \in begun
    <3>1. Top.r \in Req /\ Pending(Top.r, "send")
      BY <2>2, StepKept
    <3>. QED
      BY <3>1 DEF Tally, Tallied, ErrorsTwice
  <2>4. CASE UNCHANGED <<ready, answer>>
    <3>1. flying' \subseteq begun
      BY <2>2, <2>3 DEF Sound
    <3>. QED
      BY <1>1, <2>1, <2>2, <2>4, <3>1 DEF Sound
  <2>5. ASSUME NEW r \in Req, r = Top.r,
               \E a \in Answers : answer' = [answer EXCEPT ![r] = a],
               ready' = [ready EXCEPT ![r] = 4], flying' = flying
        PROVE  Sound'
    <3>1. answer'[r] \in Answers /\ answer' \in [Req -> Answers \cup {None}]
          /\ \A q \in Req \ {r} : answer'[q] = answer[q] /\ ready'[q] = ready[q]
      BY <2>5 DEF Sound, Known
    <3>2. \A q \in Req \ {r} : Answered(q)'
      BY <2>1, <3>1, LikeAnswered DEF Sound
    <3>3. Answered(r)'
      BY <3>1 DEF Answered
    <3>. QED
      BY <2>2, <2>5, <3>1, <3>2, <3>3 DEF Sound
  <2>. QED
    BY <2>2, <2>3, <2>4, <2>5
<1>6. ASSUME NEW r \in Req, Answer(r) PROVE Sound'
  <2>1. \A q \in Req : Like(q)
    BY <1>6, PlainSteps, KeptLike
  <2>2. /\ UNCHANGED <<begun, timer, done, modified>> /\ flying' \subseteq flying
        /\ \E a \in Answers : answer' = [answer EXCEPT ![r] = a]
        /\ ready' = [ready EXCEPT ![r] = 4]
    BY <1>6 DEF Answer
  <2>3. answer'[r] \in Answers /\ answer' \in [Req -> Answers \cup {None}]
        /\ \A q \in Req \ {r} : answer'[q] = answer[q] /\ ready'[q] = ready[q]
    BY <2>2 DEF Sound, Known
  <2>4. \A q \in Req \ {r} : Answered(q)'
    BY <2>1, <2>3, LikeAnswered DEF Sound
  <2>5. Answered(r)'
    BY <2>3 DEF Answered
  <2>. QED
    BY <2>2, <2>3, <2>4, <2>5 DEF Sound
<1>7. CASE Remember
  <2>1. \A q \in Req : Like(q)
    BY <1>7, PlainSteps, KeptLike
  <2>2. /\ UNCHANGED <<begun, ready, flying, answer, timer, done>>
        /\ modified' = IF set[Top.r].ifModified /\ answer[Top.r].mod # None
                       THEN answer[Top.r].mod ELSE modified
        /\ At("remember") /\ stack' = Called(Top.todo \ {"remember"}, None)
    BY <1>7 DEF Remember, Advance, net
  <2>3. Top.r \in Req /\ Pending(Top.r, "remember")
    BY <2>2, StepKept
  <2>4. answer[Top.r] \in Answers
    BY <2>3 DEF Sound, Answered
  <2>5. modified' \in {None, "m"}
    BY <2>2, <2>4 DEF Sound, Answers
  <2>. QED
    BY <1>1, <2>1, <2>2, <2>5 DEF Sound
<1>8. CASE Refuse
  <2>1. \A q \in Req : Like(q)
    BY <1>8, RefuseLike
  <2>2. UNCHANGED <<begun, ready, flying, answer, timer, done, modified>>
    BY <1>8 DEF Refuse, net
  <2>. QED
    BY <1>1, <2>1, <2>2 DEF Sound
<1>9. ASSUME NEW step \in Callbacks, Callback(step) PROVE Sound'
  <2>1. At(step) /\ stack' = Called(Top.todo \ {step}, step)
        /\ UNCHANGED <<begun, ready, flying, answer, timer, done, modified>>
    BY <1>9 DEF Callback, net
  <2>2. \A q \in Req : Like(q)
    BY <2>1, StepKept, KeptLike
  <2>. QED
    BY <1>1, <2>1, <2>2 DEF Sound
<1>10. ASSUME NEW T, "remember" \notin T, UNCHANGED <<ready, answer>>,
              \A i, q, x : Owns(stack', i, q, x) => Owns(stack, i, q, x) \/ x \in T
       PROVE  \A q \in Req : Answered(q)'
  <2>1. \A q \in Req : Pending(q, "remember")' => Pending(q, "remember")
    BY <1>10 DEF Pending, Owns
  <2>. QED
    BY <1>10, <2>1 DEF Sound, Answered
<1>11. CASE SendThrows
  <2>1. \A i, q, x : Owns(stack', i, q, x) => Owns(stack, i, q, x) \/ x \in Fails
    BY <1>11, SendThrowsIs DEF Owns
  <2>2. UNCHANGED <<begun, ready, flying, answer, timer, done, modified>>
    BY <1>11 DEF SendThrows, net
  <2>3. "remember" \notin Fails
    BY DEF Fails
  <2>. QED
    BY <1>10, <2>1, <2>2, <2>3 DEF Sound
<1>12. CASE Evaluate
  <2>. DEFINE g == Run(Top.r, Succeeds \cup Completes, TRUE)
  <2>1. g.todo = Succeeds \cup Completes
    BY DEF Run
  <2>2. \A i \in DOMAIN stack' :
           \/ /\ i \in DOMAIN stack /\ stack'[i].k = stack[i].k /\ stack'[i].r = stack[i].r
              /\ stack'[i].k = "run" => stack'[i].todo \subseteq stack[i].todo
           \/ stack'[i] = g
    BY <1>12, EvaluateIs
  <2>. HIDE DEF g
  <2>3. \A i, q, x : Owns(stack', i, q, x) => Owns(stack, i, q, x) \/ x \in Succeeds \cup Completes
    BY <2>1, <2>2 DEF Owns
  <2>4. UNCHANGED <<begun, ready, flying, answer, timer, done, modified>>
    BY <1>12 DEF Evaluate, net
  <2>5. "remember" \notin Succeeds \cup Completes
    BY DEF Succeeds, Completes
  <2>. QED
    BY <1>10, <2>3, <2>4, <2>5 DEF Sound
<1>13. ASSUME NEW r \in Req, Load(r) PROVE Sound'
  <2>. DEFINE s == <<>>
              todo == Succeeds \cup Completes
              f == Run(r, todo, FALSE)
  <2>1. Added(s, f) /\ UNCHANGED <<begun, ready, flying, answer, timer, done, modified>>
    BY <1>13 DEF Load, net, Added
  <2>2. f \in RunFrames /\ f.todo = todo
    BY CompletesShape DEF Run, RunFrames
  <2>3. Below(s) /\ "remember" \notin todo
    BY EmptyBelow DEF Succeeds, Completes
  <2>. HIDE DEF s, f, todo
  <2>4. \A i, q, x : Owns(stack', i, q, x) => Owns(stack, i, q, x) \/ x \in todo
    BY <2>1, <2>2, <2>3, PushOwns
  <2>. QED
    BY <1>10, <2>1, <2>3, <2>4 DEF Sound
<1>14. ASSUME NEW r \in Req, Begin(r) PROVE Sound'
  <2>. DEFINE todo == {"start"} \cup AjaxSteps(r)
              f == Run(r, todo, FALSE)
  <2>1. /\ Added(stack, f) /\ UNCHANGED <<ready, flying, answer, timer, done, modified>>
        /\ begun' = begun \cup {r}
    BY <1>14 DEF Begin, net, Added
  <2>2. f \in RunFrames /\ f.todo = todo
    BY BeginShape DEF Run
  <2>3. Below(stack) /\ "remember" \notin todo
    BY DEF Below, Typed, AjaxSteps
  <2>. HIDE DEF f, todo
  <2>4. \A i, q, x : Owns(stack', i, q, x) => Owns(stack, i, q, x) \/ x \in todo
    BY <2>1, <2>2, <2>3, PushOwns
  <2>5. \A q \in Req : Answered(q)'
    BY <1>10, <2>1, <2>3, <2>4
  <2>. QED
    BY <2>1, <2>5 DEF Sound
<1>15. CASE Check
  <2>1. /\ Top.r \in Req /\ Top.r \in begun /\ Below(Front(stack))
        /\ React(Top.r, FALSE, Front(stack))
    BY <1>15, CheckIs
  <2>2. UNCHANGED <<begun, answer, ready, flying, modified, timer>>
    BY <1>15 DEF Check, net
  <2>. QED
    BY <2>1, <2>2, ReactSound
<1>16. ASSUME NEW r \in Req, Poll(r) \/ TimeOut(r) PROVE Sound'
  <2>. DEFINE s == <<>>
  <2>1. /\ r \in begun /\ Below(s)
        /\ \/ \E late \in BOOLEAN : React(r, late, s)
           \/ UNCHANGED <<waits, done, stack, timedOut>>
        /\ UNCHANGED <<begun, answer, ready, flying, modified>>
        /\ timer' \subseteq timer
    BY <1>16, WakeIs
  <2>. HIDE DEF s
  <2>2. CASE \E late \in BOOLEAN : React(r, late, s)
    BY <2>1, <2>2, ReactSound
  <2>3. CASE UNCHANGED <<waits, done, stack, timedOut>>
    <3>1. \A q \in Req : Like(q)
      BY <2>3 DEF Like, Owns
    <3>. QED
      BY <1>1, <2>1, <2>3, <3>1 DEF Sound
  <2>. QED
    BY <2>1, <2>2, <2>3
<1>. QED
  BY <1>2, <1>3, <1>4, <1>5, <1>6, <1>7, <1>8, <1>9, <1>11, <1>12, <1>13, <1>14, <1>15, <1>16
  DEF Next, Steps

\* Every variable keeps its type, and no callback is called more than twice: success
\* once, error once more than that when send had thrown, and complete once, or twice
\* when a JSONP response of the own host completes inside its own evaluation.
THEOREM TypeCorrect == Spec => []TypeOK
<1>. DEFINE Inv == Typed /\ OneSource /\ Known /\ Charged /\ Tally /\ Sound
<1>1. Init => Inv
  BY TypedInit, OneSourceInit, LedgerInit, TallyInit, SoundInit
<1>2. Inv /\ [Next]_vars => Inv'
  BY TypedNext, OneSourceNext, KnownNext, LedgerNext, TallyNext, SoundNext
<1>3. Inv => TypeOK
  <2>. SUFFICES ASSUME Inv PROVE TypeOK
    OBVIOUS
  <2>1. ASSUME NEW r \in Req PROVE calls[r] \in [success : 0..2, error : 0..2, complete : 0..2]
    <3>1. calls[r] \in [success : Nat, error : Nat, complete : Nat]
      BY DEF Typed
    <3>2. calls[r].error <= 2
      BY DEF Tally, Tallied, ErrorsTwice
    <3>3. calls[r].success <= 1 /\ calls[r].complete <= 2
      <4>1. CASE set[r].via = "local"
        BY <3>1, <4>1 DEF Tally, Tallied, CompletesTwice
      <4>2. CASE set[r].via # "local"
        BY <3>1, <4>2 DEF OneSource, Accounted, CalledOnce
      <4>. QED
        BY <4>1, <4>2
    <3>. QED
      BY <3>1, <3>2, <3>3
  <2>2. calls \in [Req -> [success : 0..2, error : 0..2, complete : 0..2]]
    BY <2>1 DEF Typed
  <2>. QED
    BY <2>2 DEF Typed, Known, Sound, TypeOK
<1>. QED
  BY <1>1, <1>2, <1>3, PTL DEF Spec
=============================================================================
