CONSTANTS
    enter = enter
    stopped = stopped
    exit = exit
    p = p
    q = q
    None = None
    Auths = {enter, stopped, exit}
    ActionOf <- MCActionOf
    TimeOf <- MCTimeOf
    QtyOf <- MCQtyOf
    Price <- MCPrice
    StopPrice <- MCStopPrice
    Fee = 1
    InitialCash = 13
    MaxBatch = 10
    MaxTime = 3
    Procs = {p, q}
    MaxCrashes = 1
SPECIFICATION MCSpec
INVARIANTS OrderReplays PositionBacked FilledOrderFrozen AtMostOneEffect
CHECK_DEADLOCK FALSE
