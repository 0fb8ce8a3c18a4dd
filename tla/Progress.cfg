CONSTANTS
    vps = vps
    laptop = laptop
    NoNode = NoNode
    None = None
    Off = Off
    Prices = {60, 80, 90, 95, 100, 120}
    Volumes = {1, 2}
    Quantity = 2
    Cash = 3
    CostDen = 1000
    Fee = 1
    Slippage = 1
    Registry <- MCRegistry
SPECIFICATION Spec
INVARIANTS
    ShockIsSound
PROPERTIES
    EventuallyAllIngested LatestTold EventuallyReplayed
CHECK_DEADLOCK FALSE
