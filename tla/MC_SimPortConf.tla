--------------------------- MODULE MC_SimPortConf ---------------------------
(* Model-checking instance of SimPortConf: two indexes, so that ranges,   *)
(* overlaps, reversed ranges and re-ordering by std::sort all occur; two  *)
(* start values, so that the last element's value is told from an earlier *)
(* one; two elements per array and two sections (file and overrides).    *)
EXTENDS SimPortConf

CONSTANTS v1, v2, i1, d1, fb1

MCIdx  == {0, 1}
MCVals == {v1, v2}
====
