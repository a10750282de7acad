CONSTANTS
    Focuses = {"wire", "roster", "discovery", "auth", "secret"}
    Starts <- mStarts
    MaxEvents = 3
    MaxItems = 2
    MaxReplies = 1
    ProvidersOf <- mProvidersOf
    Offers <- mOffers
    Selected <- mSelected
    MaxChanges = 2
    MaxModelCalls = 2
    Lists <- mLists
    Catalogs <- mCatalogs
    Overridden <- mOverridden
    Excluded <- mExcluded
    Callers = {"p", "q"}
    MaxPairs = 3
    MaxAuthFaults = 1
    MaxLogins = 1
    SecretNames = {"k", "l"}
    MaxSecrets = 3
    MaxSecretFaults = 2
SPECIFICATION AccessFairSpec
INVARIANTS
    ProvidersSafe
    ModelsSafe
    CredentialsSafe
PROPERTIES
    AccessSteps
    AccessIsAnswered
CHECK_DEADLOCK FALSE
