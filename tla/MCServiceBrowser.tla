-------------------------- MODULE MCServiceBrowser --------------------------
(***************************************************************************)
(* Instances of ServiceBrowser for TLC.                                    *)
(***************************************************************************)
EXTENDS ServiceBrowser

CONSTANTS o1, o2

MCObjects  == {o1, o2}

\* Two short lines fit into a read, a long one needs two reads.
MCSize     == [l \in AllLines |-> IF l = "itemnew" THEN 5 ELSE 2]
MCMaxLines == [o \in MCObjects |-> IF o = o1 THEN 2 ELSE 0]

=============================================================================
