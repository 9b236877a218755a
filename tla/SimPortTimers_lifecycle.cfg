\* Enable/Disable on the strand, timer handlers, Force, Release and
\* controls on a LATCH and a PULSE feedback point (two pulses may overlap):
\* a disabled port's timer chains all end.
CONSTANTS
    b1 = b1
    a1 = a1
    Binaries <- MCBinaries
    Analogs <- MCAnalogs
    Vals = {0, 1}
    MaxUps = 2
    f1 = f1
    f2 = f2
    FbPts <- MCFbPts
    Feedback <- MCFeedback
    Codes = {"PULSE_ON", "PULSE_OFF"}
    MaxPulses = 2
SPECIFICATION FairSpec
INVARIANT TypeOK
PROPERTY QuietWhenDisabled
