CONSTANTS
    Off = Off
    Datasets <- MCDatasets
    Overrides <- MCOverrides
    Duration = 2
    CandlesPerDay = 1
    DaysPerMonth = 2
    SemanticStart = 3
    SemanticEnd = 7
    ReplayEligible = TRUE
    Publications <- MCPublications
    Rests <- MCRests
    Clocks = {9}
    MaxRevisions = 1
    MaxRuns = 2
    MaxRot = 1
SPECIFICATION MCSpec
INVARIANTS
    AdmissionIsSound ReplayIsFaithful LabIsExact
CHECK_DEADLOCK FALSE
