CONSTANTS
    None = None
    MaximumLifetime = 2
    MaximumFailedAttempts = 2
    CredentialExpiry = 3
    Times <- MCTimes
    Lifetimes <- MCLifetimes
    MaxOffers = 3
SPECIFICATION MainSpec
INVARIANT PageShowsTheOffer
