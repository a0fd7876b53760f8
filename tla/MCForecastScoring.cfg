\* Two calls at a time: over one event, its two releases arriving meanwhile; over
\* one event and three benchmarks; or the pilot scripts of several releases, racing
\* each other and a caller with a protocol of its own.
CONSTANTS
    Forecasts <- MCForecasts
    OutcomeReports <- MCOutcomeReports
    Plans <- MCPlans
    SomeData = 1
    ComparableSample = 2
    ReviewedAt = 0
    RegisteredAt = 1
    Workers = {w1, w2}
    MaxCalls = 4
    NoRow = NoRow
    NoCandidate = NoCandidate
    NoReview = NoReview
    NoScript = NoScript
SPECIFICATION Spec
SYMMETRY Symmetric
INVARIANTS ProductionFromProduction NoHindsight EarliestIssueCounts ScoresAreOnRecord
CHECK_DEADLOCK FALSE
