--------------------------- MODULE MCSlideMonitor ---------------------------
(* Small instance of SlideMonitor for TLC. *)
EXTENDS SlideMonitor

CONSTANTS tv1, tv2     \* the Apple TVs

\* At launch the first Apple TV is the chosen one, or none is: to begin with the second one
\* would only swap their names.  They are at different slides, which leave different views
\* alone, so that pictures of one stay beside those of the other.
MCInit == Init /\ host # tv2 /\ slide[tv1] = 1 /\ slide[tv2] = 2

MCSpec == MCInit /\ [][Next]_vars /\ Fairness
=============================================================================
