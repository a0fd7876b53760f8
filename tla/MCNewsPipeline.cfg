\* Two passes at a time over three items of two channels.
CONSTANTS
    ChannelOrder <- MCChannelOrder
    Feeds <- MCFeeds
    Releases <- MCReleases
    Verdicts <- MCVerdicts
    Base = "EUR"
    Quote = "USD"
    Workers = {w1, w2}
    Plans <- MCPlans
    Feed = "FED"
    Registries <- MCRegistries
    Replies <- MCReplies
    MaxTime = 1
    NoRow = NoRow
    NoJob = NoJob
SPECIFICATION Spec
SYMMETRY Symmetric
INVARIANTS ReviewsStand EvidenceBeforeJudgement ReplaysAreHarmless
PROPERTY SettledInstantsKeepTheirAnswer
CHECK_DEADLOCK FALSE
