\* The euro and the dollar by the code's own registries, of three periods each; three versions of the timing registry; two scripts at a time, five in all.
CONSTANTS
    ThreeMonths <- MCThreeMonths
    SixMonths <- MCSixMonths
    AxisSafetyMargin <- MCAxisSafetyMargin
    Currencies <- MCCurrencies
    Eras <- MCEras
    Publications <- MCPublications
    Registries <- MCRegistries
    AnnouncedAt <- MCAnnouncedAt
    Periods <- MCPeriods
    OneDay = 86400
    FetchedTo <- MCFetchedTo
    Pairs <- MCPairs
    ResearchedAt <- MCResearchedAt
    Workers = {w1, w2}
    MaxRuns = 5
    NoJob = NoJob
    w1 = w1
    w2 = w2
SYMMETRY Symmetric
SPECIFICATION Spec
INVARIANTS NoLookAhead NothingNewerUnexamined AcknowledgedIsStored
PROPERTY NewerEvidenceStands
CHECK_DEADLOCK FALSE
