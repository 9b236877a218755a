------------------------- MODULE MC_ModbusMasterPort -------------------------
(* TLC instance of ModbusMasterPort: two failed connects make a retry     *)
(* after a retry reachable; two handlers may be queued on one timer.      *)
EXTENDS ModbusMasterPort

MCMaxFail == 2
MCMaxPending == 2
=============================================================================
