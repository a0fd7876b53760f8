\* Two calls at a time on one claim, up to three.
CONSTANTS
    Claims = {c1}
    Forecasts <- MCForecasts
    Production = {"production"}
    Workers = {w1, w2}
    MaxTime = 1
    MaxCalls = 3
    NoRow = NoRow
    NoCandidate = NoCandidate
SPECIFICATION Spec
INVARIANTS BasisIsDeterministic
PROPERTIES AnswersAreSettled LedgerSpec
CHECK_DEADLOCK FALSE
