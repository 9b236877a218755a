--------------------------- MODULE MD3AnalogScan ---------------------------
(***************************************************************************)
(* The MD3 outstation's analog scan engine, src/MD3Port/                  *)
(* MD3OutstationPortHandlers.cpp: function 5 (DoAnalogUnconditional) and  *)
(* function 6 (DoAnalogDeltaScan).  ReadAnalogRange reads (word, delta)   *)
(* of each requested channel and classifies the reply as NoChange,        *)
(* DeltaChange or AllChange; SendAnalogUnconditional packs two 16-bit     *)
(* words per block, SendAnalogDelta four signed bytes per block.  Each    *)
(* behaviour fixes one state of the module's points in the point table    *)
(* (every state is an initial state) and the master scans it repeatedly   *)
(* with every function and channel count.  Reads past the end             *)
(* of the value vectors (odd channel counts, counts not a multiple of 4)  *)
(* are undefined behaviour and yield an arbitrary Pad value.              *)
(***************************************************************************)
EXTENDS Integers, Sequences, SequencesExt

CONSTANTS
    MaxCh,    \* largest channel count a request names
    Words,    \* analog words the point table may hold
    Deltas,   \* deltas the point table may hold
    Pad       \* values an out-of-bounds vector read may produce

\* GetAnalogValueAndChangeUsingMD3Index fails for a point not in the table
Missing == [ok |-> FALSE, word |-> 0, delta |-> 0]
Reading == {Missing} \cup [ok : {TRUE}, word : Words, delta : Deltas]

VARIABLES
    table,    \* (word, delta) per channel 1..MaxCh of the module, or Missing
    req,      \* the last request: [fn, ch]
    reply     \* the reply sent for it, <<>> before the first

vars == <<table, req, reply>>

Hdr(fn, ch, eom) == [kind |-> "hdr", fn |-> fn, ch |-> ch, eom |-> eom]
WordBlk(a, b, eom) == [kind |-> "words", w |-> <<a, b>>, eom |-> eom]
ByteBlk(b, eom) == [kind |-> "bytes", b |-> b, eom |-> eom]

\* abs() of an int, and the (char) cast of SendAnalogDelta
Abs(x) == IF x < 0 THEN -x ELSE x
\* Mutant: the delta is cast to an unsigned byte.
CharUnsigned(x) == x % 256
Char(x) == ((x + 128) % 256) - 128

-----------------------------------------------------------------------------
(* ReadAnalogRange                                                          *)

\* Mutant: a delta of exactly 128 is still sent as a delta.
ClassifyChannelWide(t, r) ==
    IF r = Missing THEN "AllChange"
    ELSE IF Abs(r.delta) > 128 THEN "AllChange"
    ELSE IF r.delta > 0 /\ t # "AllChange" THEN "DeltaChange"
    ELSE t

\* One loop iteration: a missing point forces AllChange; so does |delta| >
\* 127; otherwise abs(deltares > 0) -- the absolute value of a boolean --
\* moves to DeltaChange unless already AllChange.
ClassifyChannel(t, r) ==
    IF r = Missing THEN "AllChange"
    ELSE IF Abs(r.delta) > 127 THEN "AllChange"
    ELSE IF r.delta > 0 /\ t # "AllChange" THEN "DeltaChange"
    ELSE t

ReadAnalogRange(tbl, ch) == FoldLeft(ClassifyChannel, "NoChange", SubSeq(tbl, 1, ch))

\* AnalogValues / AnalogDeltaValues: 0x8000 and 0 for a missing point
AnalogValues(tbl, ch) == [i \in 1..ch |-> IF tbl[i] = Missing THEN 32768 ELSE tbl[i].word]
AnalogDeltaValues(tbl, ch) == [i \in 1..ch |-> IF tbl[i] = Missing THEN 0 ELSE tbl[i].delta]

-----------------------------------------------------------------------------
(* Reply builders; pad[k] is what reading element ch+k past the end yields.*)

SendAnalogUnconditional(fn, vals, ch, pad) ==
    LET nb == (ch \div 2) + (ch % 2)
        v(k) == IF k <= ch THEN vals[k] ELSE pad[k - ch]
    IN <<Hdr(fn, ch, FALSE)>> \o [i \in 1..nb |-> WordBlk(v(2 * i - 1), v(2 * i), i = nb)]

SendAnalogDelta(ds, ch, pad) ==
    LET nb == (ch \div 4) + (IF ch % 4 = 0 THEN 0 ELSE 1)
        d(k) == IF k <= ch THEN ds[k] ELSE pad[k - ch]
    IN <<Hdr(6, ch, FALSE)>> \o [i \in 1..nb |-> ByteBlk([k \in 1..4 |-> Char(d(4 * (i - 1) + k))], i = nb)]

SendAnalogNoChange(ch) == <<Hdr(13, ch, TRUE)>>

-----------------------------------------------------------------------------
Init ==
    /\ table \in [1..MaxCh -> Reading]
    /\ req = [fn |-> 0, ch |-> 0]
    /\ reply = <<>>

\* Function 5
DoAnalogUnconditional(ch, pad) ==
    /\ reply' = SendAnalogUnconditional(5, AnalogValues(table, ch), ch, pad)
    /\ req' = [fn |-> 5, ch |-> ch]
    /\ UNCHANGED table

\* Function 6
DoAnalogDeltaScan(ch, pad) ==
    LET t == ReadAnalogRange(table, ch) IN
    /\ reply' = CASE t = "AllChange"   -> SendAnalogUnconditional(5, AnalogValues(table, ch), ch, pad)
                  [] t = "DeltaChange" -> SendAnalogDelta(AnalogDeltaValues(table, ch), ch, pad)
                  [] OTHER             -> SendAnalogNoChange(ch)
    /\ req' = [fn |-> 6, ch |-> ch]
    /\ UNCHANGED table

Next ==
    \E ch \in 0..MaxCh, pad \in [1..3 -> Pad] :
        DoAnalogUnconditional(ch, pad) \/ DoAnalogDeltaScan(ch, pad)

Spec == Init /\ [][Next]_vars

-----------------------------------------------------------------------------
(* Properties.  The master decodes a reply by the block layout of the     *)
(* spec: channel c is word ((c-1) % 2) + 1 of data block (c-1) \div 2 + 1  *)
(* of a function 5 reply, and byte ((c-1) % 4) + 1 of data block          *)
(* (c-1) \div 4 + 1 of a function 6 reply.                                 *)

TypeOK ==
    /\ table \in [1..MaxCh -> Reading]
    /\ req \in [fn : {0, 5, 6}, ch : 0..MaxCh]
    /\ reply \in Seq([kind : {"hdr"}, fn : {5, 6, 13}, ch : 0..MaxCh, eom : BOOLEAN]
                     \cup [kind : {"words"}, w : Seq(Int), eom : BOOLEAN]
                     \cup [kind : {"bytes"}, b : Seq(-128..127), eom : BOOLEAN])

DecodedWord(c) == reply[((c - 1) \div 2) + 2].w[((c - 1) % 2) + 1]
DecodedDelta(c) == reply[((c - 1) \div 4) + 2].b[((c - 1) % 4) + 1]

\* A reply that carries values carries exactly what ReadAnalogRange read: a
\* full reply has ceil(ch/2) word blocks holding every channel's word (0x8000
\* for a missing point), a delta reply ceil(ch/4) byte blocks holding every
\* channel's delta unchanged by the (char) cast.
PayloadMatchesReadings ==
    reply # <<>> =>
        CASE reply[1].fn = 5 ->
                /\ Len(reply) = 1 + ((req.ch + 1) \div 2)
                /\ \A c \in 1..req.ch : DecodedWord(c) = AnalogValues(table, req.ch)[c]
          [] reply[1].fn = 6 ->
                /\ Len(reply) = 1 + ((req.ch + 3) \div 4)
                /\ \A c \in 1..req.ch : DecodedDelta(c) = AnalogDeltaValues(table, req.ch)[c]
          [] OTHER -> TRUE

\* The classification of spec section 8, as a reference: a missing point or
\* a delta beyond one signed byte makes the reply full; otherwise any
\* nonzero delta makes it a delta reply; otherwise there is no change.
SpecClassify(tbl, ch) ==
    LET rs == {tbl[i] : i \in 1..ch} IN
    IF \E r \in rs : r = Missing \/ Abs(r.delta) > 127 THEN "AllChange"
    ELSE IF \E r \in rs : r.delta # 0 THEN "DeltaChange"
    ELSE "NoChange"

ReplyFn == [AllChange |-> 5, DeltaChange |-> 6, NoChange |-> 13]

\* Every function 6 reply has the form spec section 8 prescribes for the
\* module's current readings: ReadAnalogRange's channel-by-channel fold,
\* with its sticky AllChange and its abs(deltares > 0) test, agrees with the
\* reference classification on every table and channel count.
ClassificationMatchesSpec ==
    (reply # <<>> /\ req.fn = 6) => reply[1].fn = ReplyFn[SpecClassify(table, req.ch)]

=============================================================================
