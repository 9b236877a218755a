-------------------------- MODULE MC_MD3AnalogScan --------------------------
(* Deltas: negative, zero, 127, the largest that fits a delta byte, and  *)
(* 128, the first past it (AllChange needs |delta| > 127).  One word     *)
(* value plus the 0x8000 sentinel tell a missing point from a present    *)
(* one.                                                                  *)
EXTENDS MD3AnalogScan

MCDeltas == {-3, 0, 127, 128}
=============================================================================
