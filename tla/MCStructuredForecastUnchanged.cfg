\* Two calls that record different forecasts of one new claim.
CONSTANTS
    Claims = {c1}
    Forecasts <- MCForecasts
    Production = {"production"}
    Workers = {w1, w2}
    MaxTime = 0
    MaxCalls = 2
    NoRow = NoRow
    NoCandidate = NoCandidate
SPECIFICATION Spec
INVARIANT UnchangedMeansStored
CHECK_DEADLOCK FALSE
