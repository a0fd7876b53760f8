\* Two backfills at a time and an IngestCandles call, up to three calls.
CONSTANTS
    Boundaries <- MCBoundaries
    Traded <- MCTraded
    Horizon = 5
    PageSize = 2
    Workers = {w1, w2}
    Ingesters = {g1}
    MaxCalls = 3
    Nobody = Nobody
    NoMark = NoMark
SPECIFICATION Spec
SYMMETRY Symmetry
INVARIANTS CoverageIsStored CoverageIsFinal DoneCoversRequest NothingRefetched
PROPERTY WatermarkOnlyGrows
CHECK_DEADLOCK FALSE
