\* Three calls of one series, two connections for the locks and one for the
\* sessions; six sets of documents, each written in any order at any revisions.
CONSTANTS
    Workers = {w1, w2, w3}
    Series = {s1}
    LockSlots = 2
    WorkSlots = 1
    MaxPages = 1
    Nobody = Nobody
    Plans <- MCPlans
SPECIFICATION MCFairSpec
INVARIANTS SchemaIsItsRevision BackfillsAreTrue
PROPERTIES EveryCallEnds EvidenceSurvives
CHECK_DEADLOCK FALSE
