\* Functions 7, 11 and 12 with one lost reply and one concurrent event: a
\* retried sequenced scan gets the lost reply back.
CONSTANTS
    Addr <- MCAddr
    Present <- MCPresent
    TimeTagged <- MCTimeTagged
    NBits = 2
    Functions = {7, 11, 12}
    MaxSeq = 2
    MaxCount = 1
    MaxEvents = 1
    MaxLoss = 1
SPECIFICATION Spec
INVARIANT RetryGetsLostReply
