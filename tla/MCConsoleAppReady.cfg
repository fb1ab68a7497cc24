CONSTANTS
    MinInt <- MCMinInt
    MaxInt <- MCMaxInt
    ValidTokens = {"t1", "t2"}
    None = None
    Credentials <- MCCredentials
    Sources = {s1, s2}
    Times <- MCTimes
    Stages = 2
    ClearMayFail = FALSE
SPECIFICATION AppSpec
INVARIANT ReadyMeansSaved
