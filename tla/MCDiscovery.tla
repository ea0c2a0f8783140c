----------------------------- MODULE MCDiscovery -----------------------------
(***************************************************************************)
(* Instances of Discovery for TLC.                                         *)
(***************************************************************************)
EXTENDS Discovery

\* One name on two interfaces, one that the page cannot read.
MCServices == {[name |-> "web",   iface |-> "eth"],
               [name |-> "web",   iface |-> "wifi"],
               [name |-> "bob's", iface |-> "eth"]}

=============================================================================
