---------------------------- MODULE SimPortConf ----------------------------
(***************************************************************************)
(* SimPort::ProcessElements (SimPort.cpp 306-555): how the JSON point      *)
(* lists of a SimPort configuration are merged into SimPortConf.  The      *)
(* constructor (SimPort.cpp 68-69) creates an empty SimPortConf and        *)
(* ProcessFile calls ProcessElements on the configuration file and then on *)
(* the overrides, so the merge runs on a conf that already holds points.   *)
(*                                                                         *)
(* A JSON root may hold "Analogs", "Binaries" and "BinaryControls"; each   *)
(* section writes its own members of SimPortConf, so a root with several   *)
(* sections is the same as successive roots with one section each.  A     *)
(* step is one section of one ProcessElements call: the loop over its     *)
(* elements, the loop over each element's index range, and the trailing   *)
(* std::sort of the index vector.  Values, intervals, deviations and       *)
(* feedback triples are model values; "NAN", "INF" and "X" start values    *)
(* are values like any other.                                              *)
(***************************************************************************)
EXTENDS Naturals, Sequences, SequencesExt

CONSTANTS
    Idx,        \* point indexes (naturals, sorted by std::sort)
    Vals,       \* StartVal values
    Ivals,      \* UpdateIntervalms / Intervalms values
    Devs,       \* StdDev values
    Fbs,        \* parsed FeedbackBinaries entries (on, off, mode)
    MaxLen,     \* bound: elements in one JSON array
    MaxCalls    \* bound: ProcessElements sections (file and overrides)

VARIABLES conf, calls

vars == <<conf, calls>>

UNSET   == "UNSET"    \* the JSON element has no such member
MISSING == "MISSING"  \* the std::map holds no entry for the index
NoSel   == [none |-> TRUE]  \* neither "Index" nor a "Range" with Start and Stop
BadFb   == "BadFb"    \* a FeedbackBinaries entry without "Index"

\* "Index": i is the range i..i; NoSel is logged and skipped (continue).
Sel == {NoSel} \cup [Start : Idx, Stop : Idx]

Indices(sel) ==
    IF sel = NoSel \/ sel.Start > sel.Stop THEN <<>>
    ELSE [j \in 1..(sel.Stop - sel.Start + 1) |-> sel.Start + j - 1]

AnalogElem ==
    [sel : Sel, StartVal : Vals \cup {"D", UNSET},
     StdDev : Devs \cup {UNSET}, UpdateIntervalms : Ivals \cup {UNSET}]
BinaryElem ==
    [sel : Sel, StartVal : Vals \cup {"D", UNSET},
     UpdateIntervalms : Ivals \cup {UNSET}]
\* Only "D" of a control's StartVal has an effect.
ControlElem ==
    [sel : Sel, StartVal : {"D", UNSET}, Intervalms : Ivals \cup {UNSET},
     FeedbackBinaries : {<<>>} \cup {<<f>> : f \in Fbs \cup {BadFb}}]

Arrays(E) == UNION {[1..n -> E] : n \in 1..MaxLen}

Map(V) == [Idx -> V \cup {MISSING}]

ConfType ==
    [AnalogIndicies : BoundedSeq(Idx, Cardinality(Idx)),
     AnalogStartVals : Map(Vals), AnalogStdDevs : Map(Devs),
     AnalogUpdateIntervalms : Map(Ivals),
     BinaryIndicies : BoundedSeq(Idx, Cardinality(Idx)),
     BinaryStartVals : Map(Vals), BinaryUpdateIntervalms : Map(Ivals),
     ControlIndicies : BoundedSeq(Idx, Cardinality(Idx)),
     ControlIntervalms : Map(Ivals),
     ControlFeedback : [Idx -> Seq(Fbs)]]

\* The "exists" scan and push_back.
PushIfAbsent(s, i) == IF i \in Range(s) THEN s ELSE Append(s, i)

\* The erase loop: removes the first occurrence and breaks.
EraseFirst(s, i) ==
    LET j == SelectInSeq(s, LAMBDA x : x = i) IN
    IF j = 0 THEN s ELSE RemoveAt(s, j)

Set(old, v) == IF v = UNSET THEN old ELSE v

\* One index of an "Analogs" element: register it, take StdDev and
\* UpdateIntervalms, then StartVal: "D" deletes the index and its settings,
\* a value is stored, and no StartVal erases a stored one.
AnalogIndex(c, e, i) ==
    LET c1 == [c EXCEPT !.AnalogIndicies = PushIfAbsent(@, i),
                        !.AnalogStdDevs[i] = Set(@, e.StdDev),
                        !.AnalogUpdateIntervalms[i] = Set(@, e.UpdateIntervalms)]
    IN  CASE e.StartVal = "D" ->
               [c1 EXCEPT !.AnalogStartVals[i] = MISSING,
                          !.AnalogStdDevs[i] = MISSING,
                          !.AnalogUpdateIntervalms[i] = MISSING,
                          !.AnalogIndicies = EraseFirst(@, i)]
          [] e.StartVal = UNSET -> [c1 EXCEPT !.AnalogStartVals[i] = MISSING]
          [] OTHER -> [c1 EXCEPT !.AnalogStartVals[i] = e.StartVal]

\* Mutant: "D" on a binary leaves its UpdateIntervalms behind.
BinaryIndexDeleteKeepsInterval(c, e, i) ==
    LET c1 == [c EXCEPT !.BinaryIndicies = PushIfAbsent(@, i),
                        !.BinaryUpdateIntervalms[i] = Set(@, e.UpdateIntervalms)]
    IN  CASE e.StartVal = "D" ->
               [c1 EXCEPT !.BinaryStartVals[i] = MISSING,
                          !.BinaryIndicies = EraseFirst(@, i)]
          [] e.StartVal = UNSET -> [c1 EXCEPT !.BinaryStartVals[i] = MISSING]
          [] OTHER -> [c1 EXCEPT !.BinaryStartVals[i] = e.StartVal]

\* One index of a "Binaries" element.
BinaryIndex(c, e, i) ==
    LET c1 == [c EXCEPT !.BinaryIndicies = PushIfAbsent(@, i),
                        !.BinaryUpdateIntervalms[i] = Set(@, e.UpdateIntervalms)]
    IN  CASE e.StartVal = "D" ->
               [c1 EXCEPT !.BinaryStartVals[i] = MISSING,
                          !.BinaryUpdateIntervalms[i] = MISSING,
                          !.BinaryIndicies = EraseFirst(@, i)]
          [] e.StartVal = UNSET -> [c1 EXCEPT !.BinaryStartVals[i] = MISSING]
          [] OTHER -> [c1 EXCEPT !.BinaryStartVals[i] = e.StartVal]

\* One index of a "BinaryControls" element: "D" deletes the index and its
\* interval, but every FeedbackBinaries entry with an "Index" is appended
\* to ControlFeedback[i] whatever StartVal says.
ControlIndex(c, e, i) ==
    LET c1 == [c EXCEPT !.ControlIndicies = PushIfAbsent(@, i),
                        !.ControlIntervalms[i] = Set(@, e.Intervalms)]
        c2 == IF e.StartVal = "D"
              THEN [c1 EXCEPT !.ControlIntervalms[i] = MISSING,
                              !.ControlIndicies = EraseFirst(@, i)]
              ELSE c1
    IN  [c2 EXCEPT !.ControlFeedback[i] =
                       @ \o SelectSeq(e.FeedbackBinaries, LAMBDA f : f # BadFb)]

\* An element applies its body to each index of its range in order.
ForRange(c, e, Body(_, _, _)) ==
    FoldLeft(LAMBDA acc, i : Body(acc, e, i), c, Indices(e.sel))

ProcessAnalogs(c, arr) ==
    LET c1 == FoldLeft(LAMBDA acc, e : ForRange(acc, e, AnalogIndex), c, arr)
    IN  [c1 EXCEPT !.AnalogIndicies = SortSeq(@, <)]

ProcessBinaries(c, arr) ==
    LET c1 == FoldLeft(LAMBDA acc, e : ForRange(acc, e, BinaryIndex), c, arr)
    IN  [c1 EXCEPT !.BinaryIndicies = SortSeq(@, <)]

ProcessBinaryControls(c, arr) ==
    LET c1 == FoldLeft(LAMBDA acc, e : ForRange(acc, e, ControlIndex), c, arr)
    IN  [c1 EXCEPT !.ControlIndicies = SortSeq(@, <)]

-----------------------------------------------------------------------------

Init ==
    /\ conf = [AnalogIndicies |-> <<>>,
               AnalogStartVals |-> [i \in Idx |-> MISSING],
               AnalogStdDevs |-> [i \in Idx |-> MISSING],
               AnalogUpdateIntervalms |-> [i \in Idx |-> MISSING],
               BinaryIndicies |-> <<>>,
               BinaryStartVals |-> [i \in Idx |-> MISSING],
               BinaryUpdateIntervalms |-> [i \in Idx |-> MISSING],
               ControlIndicies |-> <<>>,
               ControlIntervalms |-> [i \in Idx |-> MISSING],
               ControlFeedback |-> [i \in Idx |-> <<>>]]
    /\ calls = 0

\* ProcessElements on a root with one section, under the unique ConfMutex
\* lock.  MaxCalls bounds the sections, and with them every list.
Load(c) ==
    /\ calls < MaxCalls
    /\ conf' = c
    /\ calls' = calls + 1

LoadAnalogs == \E arr \in Arrays(AnalogElem) : Load(ProcessAnalogs(conf, arr))
LoadBinaries == \E arr \in Arrays(BinaryElem) : Load(ProcessBinaries(conf, arr))
LoadBinaryControls ==
    \E arr \in Arrays(ControlElem) : Load(ProcessBinaryControls(conf, arr))

Next == LoadAnalogs \/ LoadBinaries \/ LoadBinaryControls

Spec == Init /\ [][Next]_vars

-----------------------------------------------------------------------------
(***************************************************************************)
(* Properties.                                                             *)
(***************************************************************************)

\* Type invariant.  The index vectors are bounded by the number of indexes:
\* ProcessElements never registers an index twice.
TypeOK ==
    /\ conf \in ConfType
    /\ calls \in 0..MaxCalls

(***************************************************************************)
(* Reference definition of the merge, stated per index over the whole      *)
(* array instead of as the code's nested loops: the last element that      *)
(* names an index decides whether it stays configured and its StartVal;    *)
(* a setting is the one of the last element naming the index after its     *)
(* last "D", erased if there is none after a "D", and kept from earlier    *)
(* calls if no element of this call names the index.                       *)
(***************************************************************************)
Mentions(arr, i) == {n \in DOMAIN arr : i \in Range(Indices(arr[n].sel))}

RefConfigured(old, arr) ==
    {i \in Idx : IF Mentions(arr, i) = {} THEN i \in Range(old)
                 ELSE arr[Max(Mentions(arr, i))].StartVal # "D"}

RefIndicies(old, arr) == SetToSortSeq(RefConfigured(old, arr), <)

RefStartVals(old, arr) ==
    [i \in Idx |-> IF Mentions(arr, i) = {} THEN old[i]
                   ELSE LET v == arr[Max(Mentions(arr, i))].StartVal
                        IN  IF v \in Vals THEN v ELSE MISSING]

RefSetting(old, arr, field) ==
    [i \in Idx |->
        LET M  == Mentions(arr, i)
            Ds == {n \in M : arr[n].StartVal = "D"}
            Ls == {n \in M : n > Max(Ds \cup {0}) /\ arr[n][field] # UNSET}
        IN  IF Ls # {} THEN arr[Max(Ls)][field]
            ELSE IF Ds # {} THEN MISSING ELSE old[i]]

\* ProcessElements (SimPort.cpp 306-555) merges every section, from every
\* reachable configuration, exactly as the reference definition says: the
\* index vectors come out sorted and without duplicates, holding the
\* indexes whose last element is not "D", with StartVal, StdDev and
\* UpdateIntervalms/Intervalms from the last element that sets them since
\* the last "D".  ControlFeedback is left out: it accumulates (see README).
ProcessElementsMatchesReference ==
    calls < MaxCalls =>
    /\ \A arr \in Arrays(AnalogElem) :
         LET c == ProcessAnalogs(conf, arr) IN
         /\ c.AnalogIndicies = RefIndicies(conf.AnalogIndicies, arr)
         /\ c.AnalogStartVals = RefStartVals(conf.AnalogStartVals, arr)
         /\ c.AnalogStdDevs = RefSetting(conf.AnalogStdDevs, arr, "StdDev")
         /\ c.AnalogUpdateIntervalms =
              RefSetting(conf.AnalogUpdateIntervalms, arr, "UpdateIntervalms")
    /\ \A arr \in Arrays(BinaryElem) :
         LET c == ProcessBinaries(conf, arr) IN
         /\ c.BinaryIndicies = RefIndicies(conf.BinaryIndicies, arr)
         /\ c.BinaryStartVals = RefStartVals(conf.BinaryStartVals, arr)
         /\ c.BinaryUpdateIntervalms =
              RefSetting(conf.BinaryUpdateIntervalms, arr, "UpdateIntervalms")
    /\ \A arr \in Arrays(ControlElem) :
         LET c == ProcessBinaryControls(conf, arr) IN
         /\ c.ControlIndicies = RefIndicies(conf.ControlIndicies, arr)
         /\ c.ControlIntervalms =
              RefSetting(conf.ControlIntervalms, arr, "Intervalms")

====
