CONSTANTS
    s1 = s1
    s2 = s2
    t1 = t1
    t2 = t2
    Servers = {s1, s2}
    Resetter = Resetter
    Issuer = Issuer
    Tokens = {t1, t2}
    Requests <- MCRequests
    Seed <- MCSeed
    Databases <- MCDatabases
    Identifiers = {"a", "b", "alex"}
    kMaximumRequestBytes = 1
    kMaximumCommentBytes = 1
    None = None
    MaxResets = 1
    MaxTroubles = 1
SPECIFICATION Spec
INVARIANTS
    AnsweredIsStoredOnce
    IdNamesOneSubmission
    ConstraintsHold
    MigrationKeepsRecognitions
    TokenFileWorks
    RevokedStoresAtMostOne
SYMMETRY Symmetry
