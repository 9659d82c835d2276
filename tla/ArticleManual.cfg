SPECIFICATION LostSpec
CONSTANTS
    Articles = {a1, a2}
    Posts = {p1, p2}
    Clients = {c1, c2}
    Batches = {b1}
    Topics = {t1, t2}
    DirectTopics <- None
    BatchSize = 1
    Slots = 2
    AutoChoices <- Manual
    DBErrors = TRUE
    AckLoss = FALSE
    MaxCrashes = 2
    NoArticle = NoArticle
    NoPost = NoPost
    NoTopic = NoTopic
INVARIANTS OneArticlePerTopic
PROPERTIES PublishedIsFinal GenerationEnds
CHECK_DEADLOCK FALSE
