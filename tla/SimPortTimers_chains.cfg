\* Disable then Enable before a cancelled handler runs: two timers per point.
CONSTANTS
    b1 = b1
    a1 = a1
    Binaries <- MCBinaries
    Analogs <- MCAnalogs
    Vals = {0, 1}
    MaxUps = 2
    f1 = f1
    f2 = f2
    FbPts = {}
    Feedback <- MCNoFeedback
    Codes = {}
    MaxPulses = 0
SPECIFICATION Spec
INVARIANT OneTimerPerPoint
