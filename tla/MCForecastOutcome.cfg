\* Two calls at a time, up to three, on two keys that compete for two identities.
CONSTANTS
    k1 = k1
    k2 = k2
    Keys = {k1, k2}
    Reports <- MCReports
    Submissions <- MCSubmissions
    Workers = {w1, w2}
    MaxTime = 1
    MaxCalls = 3
    NoRow = NoRow
    NoCandidate = NoCandidate
SPECIFICATION FairSpec
INVARIANTS KeysMeasureOneThing
PROPERTIES ResolutionsHold EveryCallEnds
CHECK_DEADLOCK FALSE
