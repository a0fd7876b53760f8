\* Two calls at a time, three calls in all, about one item over two instants.
CONSTANTS
    Identities = {i1}
    Keys = {k1, k2}
    Workers = {w1, w2}
    Contents = {a, b}
    Channels = {c1, c2}
    MaxTime = 1
    MaxObservations = 3
    NoKey = NoKey
    NoRow = NoRow
    NoObs = NoObs
SPECIFICATION FairSpec
INVARIANTS FirstObservationAtomic NoLostObservation
PROPERTIES LedgerSpec EveryCallEnds
CHECK_DEADLOCK FALSE
