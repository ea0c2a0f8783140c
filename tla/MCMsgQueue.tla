----------------------------- MODULE MCMsgQueue -----------------------------
(***************************************************************************)
(* Instances of MsgQueue for TLC.                                          *)
(***************************************************************************)
EXTENDS MsgQueue, TLC

CONSTANTS p, c, x           \* threads

\* A producer, a consumer and a third thread that puts at the head, peeks,
\* and finally destroys the queue.
MCOpsOf ==
    p :> {"put", "put_nb", "put_wait"} @@
    c :> {"get", "get_nb", "wait_timer"} @@
    x :> {"put_head", "put_head_nb", "put_head_wait", "wait", "peek",
          "signal", "destroy"}

\* The same threads without the calls that may sleep for ever.
MCBoundedOpsOf ==
    p :> {"put", "put_nb"} @@
    c :> {"get", "get_nb", "wait_timer"} @@
    x :> {"put_head", "put_head_nb", "peek", "signal", "wait_timer"}

\* The heap blocks are interchangeable.
CellSymmetry == Permutations(Cells)

=============================================================================
