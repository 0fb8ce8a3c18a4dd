\* The VPS worker and one remote worker, one batch of two candidates.
CONSTANTS
    vps = vps
    laptop = laptop
    workpc = workpc
    NoNode = NoNode
    NoManifest = {}
    Nodes = {vps, laptop}
    Workers = {vps, laptop}
    VPS = vps
    BatchCount = 1
    CandidateCount = 2
    Manifests <- MCManifests
    LeaseOf <- MCLeaseOf
    BusyTimeout = 0
    MaxControlFailures = 2
    MaxFaults = 1
    MaxCommands = 0
SPECIFICATION Spec
INVARIANTS IdenticalRerunAccepted
