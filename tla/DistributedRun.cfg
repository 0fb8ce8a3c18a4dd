\* The VPS worker and one remote worker, one batch of two candidates.
CONSTANTS
    vps = vps
    laptop = laptop
    workpc = workpc
    NoNode = NoNode
    NoManifest = {}
    Nodes = {vps, laptop}
    Workers = {vps, laptop}
    VPS = vps
    BatchCount = 1
    CandidateCount = 2
    Manifests <- MCManifests
    LeaseOf <- MCLeaseOf
    BusyTimeout = 1
    MaxControlFailures = 2
    MaxFaults = 2
    MaxCommands = 4
SPECIFICATION MCSpec
INVARIANTS ArchiveMatchesManifest DeliveredIsArchived PausedIsMarked
PROPERTIES FilesImmutable ImplementsArchive
