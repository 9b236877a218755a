\* Function 6 against the reference classification of spec section 8: a
\* negative delta yields a "no change" (fn 13) reply.
CONSTANTS
    MaxCh = 5
    Words = {1}
    Deltas <- MCDeltas
    Pad = {0, 1}
SPECIFICATION Spec
INVARIANT ClassificationMatchesSpec
