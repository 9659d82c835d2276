SPECIFICATION PSpec
CONSTANTS
    Articles = {a1, a2}
    Posts = {p1, p2}
    Clients = {c1}
    Batches = {}
    Topics = {t1}
    DirectTopics = {t1}
    BatchSize = 0
    Slots = 2
    AutoChoices <- Auto
    DBErrors = TRUE
    AckLoss = TRUE
    MaxCrashes = 1
    NoArticle = NoArticle
    NoPost = NoPost
    NoTopic = NoTopic
    Variants = {v1}
    NoVariant = NoVariant
    Marks <- MCMarks
    Threshold = 50
    MaxCycles = 2
    AskedCycles <- MCAsked
    HumanWeight = 65
    Shapes <- MCShapes
    Raters = {u1, u2}
    Focuses <- MCFocuses
    MaxFaults = 1
    MaxRevokes = 2
    MaxRatings = 2
    Nothing = Nothing
SYMMETRY Symmetry
INVARIANTS RowMatchesSite OnePostPerArticle LiveOnPurpose LiveTextChecked OutcomeTies DeniedOnlyTwice
CHECK_DEADLOCK FALSE
