CONSTANTS
    Off = Off
    Symbols = {1, 2, 3, 4}
    KnownLeveraged = {1}
    Tables <- MCTables
    Delisted <- MCDelisted
    Days = 8
    MonthStarts = {4, 6}
    HistoryDays = 3
    ContinuityDays = 2
    MaxMembers = 2
    Jobs = {"j1"}
    MaxWaves = 2
SPECIFICATION MCSpec
INVARIANTS
    MembershipIsTrue CellsAgree SelectionIsSound
CHECK_DEADLOCK FALSE
