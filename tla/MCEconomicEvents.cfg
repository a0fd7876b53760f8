\* Two polls at a time, three in all, of a package, a doubtful decision and its release.
CONSTANTS
    Indicators = {"payrolls", "unemployment", "rate"}
    Schedules <- MCSchedules
    Releases <- MCReleases
    Relevant = {"payrolls", "unemployment", "rate"}
    Day = 2
    Lookahead = 3
    Lookback = 2
    Workers = {w1, w2}
    MaxPolls = 3
    MaxTime = 2
    NoPoll = NoPoll
    w1 = w1
    w2 = w2
SYMMETRY Symmetric
SPECIFICATION Spec
INVARIANTS OneOccurrencePerItem PackagesAreOneEvent RepeatsAddNothing
PROPERTY SettledEventsStand
CHECK_DEADLOCK FALSE
