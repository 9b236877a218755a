------------------------- MODULE MC_MD3DigitalScan -------------------------
(* Model values for MD3DigitalScan: three module addresses of two bits     *)
(* each; module 2 has one bit missing from the point table, so it always   *)
(* answers with an error block; module 1 is time tagged.                   *)
EXTENDS MD3DigitalScan

MCAddr == 0..2
MCPresent == (MCAddr \X (0..1)) \ {<<2, 1>>}
MCTimeTagged == {1}
=============================================================================
