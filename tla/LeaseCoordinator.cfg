CONSTANTS
    n1 = n1
    n2 = n2
    m1 = m1
    m2 = m2
    NoNode = NoNode
    NoManifest = NoManifest
    Nodes = {n1, n2}
    Manifests = {m1, m2}
    BatchCount = 2
    LeaseOf <- MCLeaseOf
    BusyTimeout = 1
SPECIFICATION CoordSpec
INVARIANTS RowShape HeldUntilTold
PROPERTIES OwnershipIsKept
