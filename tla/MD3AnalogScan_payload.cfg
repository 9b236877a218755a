\* Functions 5 and 6 over 0..5 channels: replies carry the values read.
CONSTANTS
    MaxCh = 5
    Words = {1}
    Deltas <- MCDeltas
    Pad = {0, 1}
SPECIFICATION Spec
INVARIANT TypeOK
INVARIANT PayloadMatchesReadings
