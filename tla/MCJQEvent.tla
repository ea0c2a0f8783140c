------------------------------ MODULE MCJQEvent ------------------------------
EXTENDS JQEvent
CONSTANTS item, f

Reg(e, t, kind, ns) == [e |-> e, t |-> t, f |-> f, kind |-> kind, ns |-> ns]

MCBindings ==
    {Reg(item, "click", "plain", TRUE), Reg(item, "enter", "one", FALSE),
     Reg(doc, "liveclick", "plain", TRUE)}

Tr(t, ns, quiet) == [e |-> item, t |-> t, ns |-> ns, quiet |-> quiet]

MCTriggers == {Tr("click", FALSE, FALSE), Tr("click", TRUE, FALSE)}

MCInputs == {[e |-> item, t |-> t] : t \in {"click", "over"}}
=============================================================================
