CONSTANTS
    Off = Off
    Auths = {"a", "b"}
    Operators = {"p", "q"}
    Specs = {"accepted", "other"}
    Accepted = "accepted"
    MaxEvents = 2
    MaxFills = 1
    MaxCommands = 4
    MaxCrashes = 1
    None = None
    Monitors = {"m1"}
    Runners = {}
    SymbolOrder <- MCSymbolOrder
    Reports = {1, 2}
    MaxAttempts = 3
    Backoff <- MCBackoff
    MaxRateWait = 3
    MaxTotalWait = 4
    MaxRecords = 2
    RetryAfters = {2, 3, 4}
    Answers = {"refused", "limited", "ambiguous", "rejected", "accepted"}
    Faults = {"crash", "storage", "config"}
    MaxPosts = 2
    LastInterval = 4
    MaxMessages = 3
    MaxReconnects = 1
    MaxBackfill = 2
    PageLimit = 2
    MaxQueue = 2
    Days = 3
    Rebuilders = {"r1"}
    Collectors = {"c1", "c2"}
    Readers = {"r1"}
    Datasets <- MCDatasets
    Duration <- MCDuration
    Warmup = 0
    MaxClock = 2
    MaxCollectorCrashes = 1
    Absent = Absent
    Prices = {8, 10, 12}
    Brackets <- MCBrackets
    StartCash = 20
    SessionLoss <- MCSessionLoss
    Drawdown <- MCDrawdown
    MaxLosses = 2
    Day = 3
    MaxTime = 7
    Prompt = TRUE
SPECIFICATION MCSpec
INVARIANTS
    RecoveryIsSafe ServicesAreExact DeliveryIsBounded CandlesAreWhole EvidenceIsSound
PROPERTIES
    FilesAreKept ClosedIsFinal PostsAreGuarded EvidenceIsKept EntriesAreGuarded
    NeverTakenBack
CHECK_DEADLOCK FALSE
