\* Function 8 against concurrent events: the channel count is computed
\* before the blocks are built and can differ from the blocks sent.
CONSTANTS
    Addr <- MCAddr
    Present <- MCPresent
    TimeTagged <- MCTimeTagged
    NBits = 2
    Functions = {8}
    MaxSeq = 2
    MaxCount = 1
    MaxEvents = 2
    MaxLoss = 0
SPECIFICATION Spec
INVARIANT ReplyCountsMatchBlocks
