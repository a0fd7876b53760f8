\* Spring-forward, fall-back and ordinary days, but for H3 in spring; strategies on H1 and H4.
CONSTANTS
    Cases <- OtherCases
    RangeStarts <- BeforeTransition
    RangeEnds <- AfterTransition
    MaxPage = 3
    Sources = {1, 2, 3, 4, 6, 8, 12}
    Parameters <- Parametrized
    Bars <- MCBars
    CoarseData <- MCCoarseData
    StrategiesFor <- MCStrategiesFor
    Origin <- MCOrigin
    Until = 9
    FirstBar = 1
    MaxBars = 6
    Warmups = {0, 2}
    HalfSpread = 3
SPECIFICATION BacktestSpec
INVARIANTS ExpectsTheGrid AggregatesAreWhole IncrementalIsReference SignalsUseThePast TradesAreTheAccount
CHECK_DEADLOCK FALSE
