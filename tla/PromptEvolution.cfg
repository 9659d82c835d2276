CONSTANTS
    Variants = {v1, v2, v3, v4}
    NoVariant = NoVariant
    Estimates <- MCEstimates
    MaxSamples = 1
    PromoteMinSamples = 1
    CanaryMinSamples = 1
    MaxCandidates = 2
    MaxFailures = 1
    MaxCrashes = 1
SPECIFICATION FairSpec
INVARIANTS OneChampion CandidatesBounded
PROPERTIES ChampionReturns
CHECK_DEADLOCK FALSE
