---------------------------- MODULE MCTouchRemote ----------------------------
(* Small instance of TouchRemote for TLC: two directions are one overlap. *)
EXTENDS TouchRemote

MCDirections == {"left", "up"}
MCTaps == {"menu"}
==============================================================================
