CONSTANTS
    enter = enter
    stopped = stopped
    exit = exit
    p = p
    q = q
    None = None
    Auths = {enter}
    ActionOf <- MCActionOf
    TimeOf <- MCTimeOf
    QtyOf <- MCQtyOf
    Price <- MCPrice
    StopPrice <- MCStopPrice
    Fee = 1
    InitialCash = 12
    MaxBatch = 10
    MaxTime = 2
    Procs = {p}
    MaxCrashes = 1
SPECIFICATION Spec
INVARIANTS ReadyReconstructs
CHECK_DEADLOCK FALSE
