---------------------------- MODULE ServiceNames ----------------------------
(***************************************************************************)
(* The names of services, which the Avahi child prints and the page reads. *)
(***************************************************************************)
CONSTANTS
    Names,
    Unquotable  \* those with an apostrophe: the child prints them as they are
                \* between apostrophes, and the page's eval fails on the line

ASSUME NameAssumption == Unquotable \subseteq Names

=============================================================================
