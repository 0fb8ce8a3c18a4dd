CONSTANTS
    n1 = n1
    n2 = n2
    vps = vps
    laptop = laptop
    workpc = workpc
    None = None
    RelayNodes = {n1, n2}
    RelayBatchCount = 2
    RelayCandidateCount = 1
    Lease = 1
    MaxTime = 4
    MaxCalls = 5
    MaxLate = 1
    MaxPullFaults = 1
    MaxAttempts = 2
    Used = {"claim", "auto", "heartbeat", "pause", "paused", "resume", "release", "artifact", "manifest", "ready"}
    NoNode = NoNode
    NoManifest = {}
    Nodes = {vps, laptop, workpc}
    Workers = {laptop, workpc}
    VPS = vps
    BatchCount = 1
    CandidateCount = 2
    Manifests <- MCManifests
    LeaseOf <- MCLeaseOf
    BusyTimeout = 0
    MaxControlFailures = 2
    MaxFaults = 1
    MaxCommands = 0
SPECIFICATION MCSpec
SYMMETRY RelaySymmetry
INVARIANTS
    RelayIsSafe BatchDeliverable
CHECK_DEADLOCK FALSE
