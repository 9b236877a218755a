--------------------------- MODULE MD3DigitalScan ---------------------------
(***************************************************************************)
(* The MD3 outstation's digital (binary) scan engine, src/MD3Port/        *)
(* MD3OutstationPortHandlers.cpp, together with the two actors it         *)
(* interacts with:                                                         *)
(*   - the event-bus thread, which updates binary points in the point     *)
(*     table (value := v, Changed := TRUE) at any time, also while a scan *)
(*     handler is reading them (the handlers take no lock);               *)
(*   - the SCADA master, which sends one request at a time, may lose the  *)
(*     reply, and on a timeout retries the same request or abandons it.   *)
(* Handled function codes: 7 (DoDigitalUnconditionalObs), 8               *)
(* (DoDigitalChangeOnly), 11 (DoDigitalScan) and 12                        *)
(* (DoDigitalUnconditional).  BuildBinaryReturnBlocks reads one bit per   *)
(* step, so event steps interleave between bit reads.                     *)
(***************************************************************************)
EXTENDS Integers, Sequences, FiniteSets

CONSTANTS
    Addr,        \* module addresses a master may name (configured or not)
    NBits,       \* bits per module (16 in MD3; fewer suffice for the model)
    Present,     \* points configured in the point table, a subset of Addr \X Bits
    TimeTagged,  \* modules whose points are time tagged (module-level flag)
    Functions,   \* function codes the master uses, a subset of {7, 8, 11, 12}
    MaxSeq,      \* digital sequence numbers are 0..MaxSeq; 0 means "reset"
    MaxCount,    \* largest TaggedEventCount / ModuleCount a Fn11 request asks for
    MaxEvents,   \* bound on event-bus updates
    MaxLoss      \* bound on lost replies

Bits == 0..(NBits - 1)

ASSUME /\ Present \subseteq Addr \X Bits
       /\ TimeTagged \subseteq Addr
       /\ Functions \subseteq {7, 8, 11, 12}
       /\ MaxSeq \in Nat \ {0}

VARIABLES
    value, changed,   \* the point table's binary points (external store)
    events,           \* event-bus updates so far
    rq,               \* request delivered to the outstation, or NoReq
    pc,               \* outstation handler: "idle" or "build"
    cur,              \* request being handled
    resp,             \* response message under construction
    bi, bj,           \* BuildBinaryReturnBlocks loop indices i and j
    acc,              \* [word, missing, dchg] of the module being read
    force,            \* forcesend argument of BuildBinaryReturnBlocks
    reply,            \* reply on the wire to the master, <<>> if none
    lastSeq,          \* LastDigitalScanSequenceNumber
    lastReply,        \* LastDigitialScanResponseMD3Message
    mst, mreq,        \* master: "idle"/"waiting" and its outstanding request
    mseq,             \* master's next digital sequence number
    mview,            \* master's last received word per module, -1 if none
    losses,           \* replies lost so far
    lost              \* the reply lost for the outstanding request, or <<>>

store  == <<value, changed, events>>
outst  == <<rq, pc, cur, resp, bi, bj, acc, force, lastSeq, lastReply>>
master == <<mst, mreq, mseq, mview>>
vars   == <<store, outst, reply, master, losses, lost>>

NoReq == [fn |-> 0, mod |-> 0, ch |-> 0, seq |-> 0, tec |-> 0, mc |-> 0]

-----------------------------------------------------------------------------
(* Blocks.  A formatted header echoes function, module and channels; a    *)
(* Fn11/Fn14 sequenced header carries tagged-event count, sequence number *)
(* and module count; a data block carries a module address and its 16-bit *)
(* word; an error block a module address.                                  *)

Hdr(fn, mod, ch, eom) == [kind |-> "hdr", fn |-> fn, mod |-> mod, ch |-> ch, eom |-> eom]
SeqHdr(fn, tec, seq, mc) == [kind |-> "seqhdr", fn |-> fn, tec |-> tec, seq |-> seq, mc |-> mc, eom |-> TRUE]
DataBlk(mod, word) == [kind |-> "data", mod |-> mod, word |-> word, eom |-> FALSE]
ErrBlk(mod) == [kind |-> "err", mod |-> mod, eom |-> FALSE]

\* MD3Block::MarkAsEndOfMessageBlock on ResponseMD3Message.back()
MarkLast(msg) == [msg EXCEPT ![Len(msg)].eom = TRUE]

\* Limit(a, b) of MD3Utility: a capped at b
Limit(a, b) == IF a > b THEN b ELSE a

-----------------------------------------------------------------------------
(* Change aggregation over the point table                                 *)

\* CheckBinaryChangeBlocksGivenRange, one module: a missing bit counts as changed
ModuleChanged(m) == \E j \in Bits : <<m, j>> \notin Present \/ changed[<<m, j>>]

RangeChangeCount(start, n) == Cardinality({i \in 0..(n - 1) : ModuleChanged(start + i)})

\* CheckBinaryChangeBlocks: modules of BinaryMD3PointMap with a changed point
\* (every mapped module when SendEverything), and how many are time tagged
MapModules == {p[1] : p \in Present}
Fn11Changed(sendAll) == {m \in MapModules : \E j \in Bits : <<m, j>> \in Present /\ (changed[<<m, j>>] \/ sendAll)}

-----------------------------------------------------------------------------
Init ==
    /\ value = [p \in Present |-> FALSE]
    /\ changed = [p \in Present |-> TRUE]
    /\ events = 0
    /\ rq = NoReq
    /\ pc = "idle"
    /\ cur = NoReq
    /\ resp = <<>>
    /\ bi = 0 /\ bj = 0
    /\ acc = [word |-> 0, missing |-> FALSE, dchg |-> FALSE]
    /\ force = FALSE
    /\ reply = <<>>
    /\ lastSeq = 0
    /\ lastReply = <<>>
    /\ mst = "idle" /\ mreq = NoReq /\ mseq = 0
    /\ mview = [m \in Addr |-> -1]
    /\ losses = 0 /\ lost = <<>>

-----------------------------------------------------------------------------
(* Event bus: a binary event for a configured point sets its value and    *)
(* its Changed flag.                                                        *)
PointEvent(p, v) ==
    /\ events < MaxEvents
    /\ value' = [value EXCEPT ![p] = v]
    /\ changed' = [changed EXCEPT ![p] = TRUE]
    /\ events' = events + 1
    /\ UNCHANGED <<outst, reply, master, losses, lost>>

-----------------------------------------------------------------------------
(* Outstation handlers                                                      *)

\* Begin BuildBinaryReturnBlocks over cur's range after header h; with no
\* modules to read, back() is the header itself and the reply goes out.
StartBuild(r, h, fs) ==
    IF r.ch = 0
    THEN /\ reply' = MarkLast(<<h>>)
         /\ UNCHANGED <<pc, resp, bi, bj, acc, force>>
    ELSE /\ pc' = "build"
         /\ resp' = <<h>>
         /\ bi' = 0 /\ bj' = 0
         /\ acc' = [word |-> 0, missing |-> FALSE, dchg |-> FALSE]
         /\ force' = fs
         /\ UNCHANGED reply

\* Function 7
DoDigitalUnconditionalObs(r) == StartBuild(r, Hdr(7, r.mod, r.ch, FALSE), TRUE)

\* Function 8
DoDigitalChangeOnly(r) ==
    LET c == RangeChangeCount(r.mod, r.ch) IN
    IF c = 0 THEN /\ reply' = <<Hdr(14, r.mod, r.ch, TRUE)>>
                  /\ UNCHANGED <<pc, resp, bi, bj, acc, force>>
    ELSE IF c # r.ch THEN StartBuild(r, Hdr(8, r.mod, c, FALSE), FALSE)
    ELSE DoDigitalUnconditionalObs(r)

\* Mutant: the counts are not capped at the request's maxima.
DoDigitalScanUncapped(r) ==
    LET cb  == Fn11Changed(r.seq = 0)
        tt  == Cardinality(cb \cap TimeTagged)
    IN /\ reply' = IF cb = {} THEN <<SeqHdr(14, r.tec, r.seq, r.mc)>>
                   ELSE <<SeqHdr(11, tt, r.seq, Cardinality(cb) - tt)>>
       /\ lastSeq' = r.seq
       /\ lastReply' = reply'

\* Mutant: the sequence number and reply are not remembered.
DoDigitalScanNoRecord(r) ==
    LET cb  == Fn11Changed(r.seq = 0)
        tt  == Cardinality(cb \cap TimeTagged)
    IN /\ reply' = IF cb = {} THEN <<SeqHdr(14, r.tec, r.seq, r.mc)>>
                   ELSE <<SeqHdr(11, Limit(tt, r.tec), r.seq, Limit(Cardinality(cb) - tt, r.mc))>>
       /\ UNCHANGED <<lastSeq, lastReply>>

\* Function 11: resend on a repeated nonzero sequence number, else count
\* changed modules and answer with capped counts (no data blocks follow).
DoDigitalScan(r) ==
    IF r.seq = lastSeq /\ r.seq # 0
    THEN /\ reply' = lastReply
         /\ UNCHANGED <<lastSeq, lastReply>>
    ELSE LET cb  == Fn11Changed(r.seq = 0)
             tt  == Cardinality(cb \cap TimeTagged)
             msg == IF cb = {}
                    THEN <<SeqHdr(14, r.tec, r.seq, r.mc)>>
                    ELSE <<SeqHdr(11, Limit(tt, r.tec), r.seq, Limit(Cardinality(cb) - tt, r.mc))>>
         IN /\ reply' = msg
            /\ lastSeq' = r.seq
            /\ lastReply' = msg

\* Function 12: only the resend path exists
DoDigitalUnconditional(r) ==
    IF r.seq = lastSeq /\ r.seq # 0
    THEN reply' = lastReply
    ELSE UNCHANGED reply

\* ProcessMD3Message: route the request by function code
ProcessMD3Message ==
    /\ pc = "idle"
    /\ rq # NoReq
    /\ rq' = NoReq
    /\ CASE rq.fn = 7  -> DoDigitalUnconditionalObs(rq) /\ UNCHANGED <<lastSeq, lastReply>>
         [] rq.fn = 8  -> DoDigitalChangeOnly(rq) /\ UNCHANGED <<lastSeq, lastReply>>
         [] rq.fn = 11 -> DoDigitalScan(rq) /\ UNCHANGED <<pc, resp, bi, bj, acc, force>>
         [] rq.fn = 12 -> DoDigitalUnconditional(rq)
                           /\ UNCHANGED <<pc, resp, bi, bj, acc, force, lastSeq, lastReply>>
    /\ cur' = IF pc' = "build" THEN rq ELSE NoReq
    /\ UNCHANGED <<store, master, losses, lost>>

\* Mutant: the module's Changed flags are cleared once its word is built,
\* not as each bit is read.
ClearChangedLate(m, j) ==
    IF j = NBits - 1 THEN [p \in Present |-> IF p[1] = m THEN FALSE ELSE changed[p]] ELSE changed

\* GetBinaryValueUsingMD3Index: reading a point clears its Changed flag
ClearChanged(m, j) ==
    IF <<m, j>> \in Present THEN [changed EXCEPT ![<<m, j>>] = FALSE] ELSE changed

\* One iteration of the inner loop of BuildBinaryReturnBlocks: read bit bj
\* of module cur.mod + bi (GetBinaryValueUsingMD3Index clears Changed);
\* after bit NBits-1 queue the module's data or error block, and after the
\* last module mark the last block and send.
ReadBinaryBit ==
    /\ pc = "build"
    /\ LET m   == cur.mod + bi
           p   == <<m, bj>>
           a   == IF p \in Present
                  THEN [word    |-> acc.word + (IF value[p] THEN 2^(NBits - 1 - bj) ELSE 0),
                        missing |-> acc.missing,
                        dchg    |-> acc.dchg \/ changed[p]]
                  ELSE [word |-> acc.word, missing |-> TRUE, dchg |-> TRUE]
           blk == IF a.missing THEN ErrBlk(m) ELSE DataBlk(m, a.word)
           r2  == IF bj = NBits - 1 /\ (a.dchg \/ force) THEN Append(resp, blk) ELSE resp
       IN /\ changed' = ClearChanged(m, bj)
          /\ IF bj < NBits - 1
             THEN /\ acc' = a /\ bj' = bj + 1
                  /\ UNCHANGED <<bi, resp, pc, reply, cur>>
             ELSE /\ acc' = [word |-> 0, missing |-> FALSE, dchg |-> FALSE]
                  /\ bj' = 0
                  /\ IF bi = cur.ch - 1
                     THEN /\ reply' = MarkLast(r2) /\ pc' = "idle"
                          /\ resp' = <<>> /\ bi' = 0 /\ cur' = NoReq
                     ELSE /\ resp' = r2 /\ bi' = bi + 1
                          /\ UNCHANGED <<pc, reply, cur>>
    /\ UNCHANGED <<value, events, rq, force, lastSeq, lastReply, master, losses, lost>>

-----------------------------------------------------------------------------
(* The master                                                               *)

Requests ==
    [fn : Functions \cap {7, 8}, mod : Addr, ch : 0..Cardinality(Addr), seq : {0}, tec : {0}, mc : {0}]
    \cup [fn : Functions \cap {11, 12}, mod : {0}, ch : {0}, seq : {mseq}, tec : 0..MaxCount, mc : 0..MaxCount]

InRange(r) == r.fn \in {11, 12} \/ \A i \in 0..(r.ch - 1) : r.mod + i \in Addr

MasterSend(r) ==
    /\ mst = "idle"
    /\ InRange(r)
    /\ rq' = r /\ mreq' = r /\ mst' = "waiting"
    /\ lost' = <<>>
    /\ UNCHANGED <<store, pc, cur, resp, bi, bj, acc, force, lastSeq, lastReply, reply, mseq, mview, losses>>

\* The master applies every data block of the reply to its view; a
\* sequenced scan that got an answer moves the sequence number on (1..MaxSeq).
MasterReceive ==
    /\ mst = "waiting"
    /\ reply # <<>>
    /\ mview' = [m \in Addr |->
                   LET ks == {k \in 1..Len(reply) : reply[k].kind = "data" /\ reply[k].mod = m}
                   IN IF ks = {} THEN mview[m] ELSE reply[CHOOSE k \in ks : TRUE].word]
    /\ reply' = <<>>
    /\ mst' = "idle" /\ mreq' = NoReq /\ lost' = <<>>
    /\ mseq' = IF mreq.fn \in {11, 12} THEN (mseq % MaxSeq) + 1 ELSE mseq
    /\ UNCHANGED <<store, outst, losses>>

LoseReply ==
    /\ reply # <<>>
    /\ losses < MaxLoss
    /\ reply' = <<>>
    /\ lost' = reply
    /\ losses' = losses + 1
    /\ UNCHANGED <<store, outst, master>>

\* No answer came: retry the same request, or give it up.
MasterTimeout ==
    /\ mst = "waiting"
    /\ rq = NoReq /\ pc = "idle" /\ reply = <<>>
    /\ \/ rq' = mreq /\ UNCHANGED <<mst, mreq>>
       \/ mst' = "idle" /\ mreq' = NoReq /\ UNCHANGED rq
    /\ UNCHANGED <<store, pc, cur, resp, bi, bj, acc, force, lastSeq, lastReply, reply, mseq, mview, losses, lost>>

Next ==
    \/ \E p \in Present, v \in BOOLEAN : PointEvent(p, v)
    \/ ProcessMD3Message
    \/ ReadBinaryBit
    \/ \E r \in Requests : MasterSend(r)
    \/ MasterReceive
    \/ LoseReply
    \/ MasterTimeout

Spec == Init /\ [][Next]_vars

-----------------------------------------------------------------------------
(* Properties                                                               *)

Block == [kind : {"hdr"}, fn : {7, 8, 14}, mod : Addr, ch : 0..Cardinality(Addr), eom : BOOLEAN]
         \cup [kind : {"seqhdr"}, fn : {11, 14}, tec : 0..MaxCount, seq : 0..MaxSeq, mc : 0..MaxCount, eom : BOOLEAN]
         \cup [kind : {"data"}, mod : Addr, word : 0..(2^NBits - 1), eom : BOOLEAN]
         \cup [kind : {"err"}, mod : Addr, eom : BOOLEAN]

TypeOK ==
    /\ value \in [Present -> BOOLEAN] /\ changed \in [Present -> BOOLEAN]
    /\ events \in 0..MaxEvents
    /\ pc \in {"idle", "build"}
    /\ resp \in Seq(Block) /\ reply \in Seq(Block) /\ lastReply \in Seq(Block)
    /\ bi \in 0..Cardinality(Addr) /\ bj \in Bits
    /\ lastSeq \in 0..MaxSeq /\ mseq \in 0..MaxSeq
    /\ mst \in {"idle", "waiting"}
    /\ mview \in [Addr -> {-1} \cup 0..(2^NBits - 1)]
    /\ losses \in 0..MaxLoss

\* Bit j of a module sits at bit 15-j (NBits-1-j) of the data word.
Bit(w, j) == (w \div 2^(NBits - 1 - j)) % 2 = 1

FullModules == {m \in Addr : \A j \in Bits : <<m, j>> \in Present}

Quiescent == mst = "idle" /\ pc = "idle" /\ reply = <<>> /\ rq = NoReq

\* No change is lost: whenever nothing is in flight, a fully configured
\* module whose Changed flags are all clear has been delivered to the
\* master with its current bits.  BuildBinaryReturnBlocks clears Changed
\* bit by bit while the event bus keeps writing; this fails if a flag is
\* cleared for a value the reply does not carry.
NoLostChange ==
    Quiescent =>
        \A m \in FullModules :
            (\A j \in Bits : ~changed[<<m, j>>]) =>
                /\ mview[m] # -1
                /\ \A j \in Bits : Bit(mview[m], j) = value[<<m, j>>]

\* A master that lost the reply to a sequenced scan (Fn11/Fn12) with a
\* nonzero sequence number and retries it gets exactly the lost reply, not
\* a recomputation over change flags that may have moved on since.
RetryGetsLostReply ==
    (reply # <<>> /\ lost # <<>> /\ mreq.fn \in {11, 12} /\ mreq.seq # 0) => reply = lost

\* The count a reply header announces (channels for Fn7/Fn8, ModuleCount
\* for Fn11) equals the number of module blocks that follow it (spec,
\* section 3).  DoDigitalChangeOnly counts changed modules before
\* BuildBinaryReturnBlocks reads them again; DoDigitalScan sends counts
\* without blocks.
CountsMatch(msg) ==
    CASE msg[1].kind = "hdr" /\ msg[1].fn \in {7, 8} -> msg[1].ch = Len(msg) - 1
      [] msg[1].kind = "seqhdr" /\ msg[1].fn = 11   -> msg[1].mc = Len(msg) - 1
      [] OTHER -> TRUE
ReplyCountsMatchBlocks == reply # <<>> => CountsMatch(reply)

=============================================================================
