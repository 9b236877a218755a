\* Fn7, Fn8 and Fn11 polls against a concurrently updated point table, no
\* lost replies: every change reaches the master.
CONSTANTS
    Addr <- MCAddr
    Present <- MCPresent
    TimeTagged <- MCTimeTagged
    NBits = 2
    Functions = {7, 8, 11}
    MaxSeq = 2
    MaxCount = 1
    MaxEvents = 2
    MaxLoss = 0
SPECIFICATION Spec
INVARIANT TypeOK
INVARIANT NoLostChange
