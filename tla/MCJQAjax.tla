------------------------------ MODULE MCJQAjax ------------------------------
EXTENDS JQAjax
CONSTANTS r1, r2

Set(via, global, timeout, ifModified) ==
    [via |-> via, global |-> global, timeout |-> timeout, ifModified |-> ifModified]

MCSettings ==
    {Set("async", TRUE, TRUE, FALSE), Set("async", FALSE, FALSE, TRUE),
     Set("sync", TRUE, FALSE, FALSE), Set("script", TRUE, TRUE, FALSE),
     Set("local", TRUE, TRUE, FALSE)}

MCLocal == {Set("local", TRUE, FALSE, FALSE)}
=============================================================================
