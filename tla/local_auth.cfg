CONSTANTS
    t1 = t1  t2 = t2  n1 = n1  n2 = n2
    Thread = {t1, t2}
    Nonce = {n1, n2}
    Freshness = 2
    FutureSkew = 0
    MaxEntries = 1
    CodeTTL = 1
    MaxAttempts = 2
    AttemptWindow = 2
    LaunchTTL = 1
    SessionTTL = 2
    MaxLaunches = 2
    MaxSessions = 2
    Delay = 1
    MaxClock = 3
    MaxCodes = 2
    MaxTokens = 3
    MaxRestarts = 1
    Uses <- Combinations
SPECIFICATION Spec
INVARIANTS StoresBounded NonceOncePerWindow UsedUpStaysUsedUp LaunchesBecomeSessions
SYMMETRY Threads
CHECK_DEADLOCK FALSE
