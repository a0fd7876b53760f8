\* H3 over a spring-forward: its 02:00 candle starts at a time that is skipped.
CONSTANTS
    Cases <- H3InSpring
    RangeStarts <- BeforeTransition
    RangeEnds <- AfterTransition
    MaxPage = 3
    Sources = {1, 2, 3, 4, 6, 8, 12}
    Parameters <- Parametrized
    Bars <- MCBars
    CoarseData <- MCCoarseData
    StrategiesFor <- MCStrategiesFor
    Origin <- MCOrigin
    Until = 9
    FirstBar = 1
    MaxBars = 6
    Warmups = {0, 2}
    HalfSpread = 3
SPECIFICATION BacktestSpec
INVARIANT BoundsAreBoundaries
CHECK_DEADLOCK FALSE
