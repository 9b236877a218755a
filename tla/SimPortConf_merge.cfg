\* ProcessElements merging file and override sections into SimPortConf.
CONSTANTS
    v1 = v1
    v2 = v2
    i1 = i1
    d1 = d1
    fb1 = fb1
    Idx <- MCIdx
    Vals <- MCVals
    Ivals = {i1}
    Devs = {d1}
    Fbs = {fb1}
    MaxLen = 2
    MaxCalls = 2
SPECIFICATION Spec
INVARIANT ProcessElementsMatchesReference
\* Construction ends after the file and the overrides are processed.
CHECK_DEADLOCK FALSE
