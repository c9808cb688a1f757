SPECIFICATION Spec
CONSTANTS
    None = None
    NaN = NaN
    Blank = Blank
    Bad = Bad
    Low <- MCLow
    Schemes <- MCSchemes
    Asked <- MCAsked
    Tests <- MCTests
    Picks <- MCPicks
    GstPercent = 18
    MinPricePaise = 100
    PlanPrices <- MCPlanPrices
    MaxFlat = 150
    Exams = {"sbi-po"}
    MaxRows = 3
    Rows <- MCRows
    Cells <- MCCells
    Files <- MCFiles
    Banks <- MCBanks
    Templates <- MCTemplates
    Lookers = {r1, r2}
    AnswerGrace = 1
    MaxTime = 10
    MaxOptions = 6
    Window = 3
    MaxAttempts = 3
    Oversample = 1
    MinTopicQuestions = 2
    StatsMinAttempts = 2
    SuspectAccuracy = 5
    MinPracticeTime = 60
INVARIANTS
    MarksFair
    PricesAddUp
    PaperReadBack
    KeyLands
    ChunksMerge
    FillSound
    ImportOnce
    ShownAgrees
    ClockExact
