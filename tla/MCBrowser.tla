------------------------------ MODULE MCBrowser ------------------------------
(***************************************************************************)
(* Instances of Browser for TLC.                                           *)
(***************************************************************************)
EXTENDS Browser, TLC

\* Connections are interchangeable.
ConnSymmetry == Permutations(Conns)

=============================================================================
