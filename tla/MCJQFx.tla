------------------------------- MODULE MCJQFx -------------------------------
EXTENDS JQFx, TLC
CONSTANTS e1, e2, a1, a2, b1

A(e, kind, props, queued, instant) ==
    [elem |-> e, kind |-> kind, props |-> props, queued |-> queued, instant |-> instant]

MCWhat ==
    a1 :> A(e1, "toggle", <<"h", "w">>, TRUE, FALSE)
    @@ a2 :> A(e1, "show", <<"o">>, TRUE, TRUE)
    @@ b1 :> A(e2, "hide", <<"o">>, FALSE, FALSE)
=============================================================================
