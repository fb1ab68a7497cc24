CONSTANTS
    MinInt <- MCMinInt
    MaxInt <- MCMaxInt
    ValidTokens = {"t1"}
    None = None
    Bundle <- MCBundle
    MaxTime = 3
    Consoles = {mine, other}
    Mine = mine
    MaximumLifetime = 2
    MaximumFailedAttempts = 2
    Lifetime = 2
    MaxOffers = 2
    MaxPolls = 3
SPECIFICATION ProtocolSpec
INVARIANTS
    LifetimeFollowsServer
    OfferServesOneClaim
    RejectedSpentNothing
CHECK_DEADLOCK FALSE
