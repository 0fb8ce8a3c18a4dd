CONSTANTS
    Off = Off
    Commands = {"c1", "c2"}
    Artifacts <- MCArtifacts
    Answers <- MCAnswers
    Symbol = "BTC"
    MaxClock = 2
    MaxStarts = 3
    Exporters = {"e1"}
    Builders = {"b1", "b2"}
    Books <- MCBooks
    Faults = {"status", "count", "index", "twin", "pnl", "wins", "member"}
    MaxInvocations = 2
    MaxCrashes = 1
    Tables <- MCTables
    PageSizes = {1, 2, 4}
SPECIFICATION MCSpec
INVARIANTS
    JournalIsSound ReportIsTrue PublicationIsSafe
PROPERTIES
    JournalKeepsRows NoUnaskedOverwrite
CHECK_DEADLOCK FALSE
