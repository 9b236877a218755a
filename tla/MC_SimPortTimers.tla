------------------------- MODULE MC_SimPortTimers -------------------------
(* One binary and one analog point, both with an update interval; two    *)
(* PortUp calls give an Enable after a Disable after an Enable.  The     *)
(* control has a LATCH feedback point followed by a PULSE feedback point, *)
(* so a code the PULSE entry rejects (PULSE_OFF) leaves the LATCH point  *)
(* published and starts no pulse.                                        *)
EXTENDS SimPortTimers

CONSTANTS b1, a1, f1, f2

MCBinaries == {b1}
MCAnalogs == {a1}
MCFbPts == {f1, f2}
MCFeedback == <<[pt |-> f1, mode |-> "LATCH"], [pt |-> f2, mode |-> "PULSE"]>>
MCNoFeedback == <<>>
=============================================================================
