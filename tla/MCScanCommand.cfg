SPECIFICATION CommandSpec
CONSTANTS
    ErrorBatches <- MCErrorBatches
    Requests <- MCRequests
INVARIANTS
    CompletedIsWhole
    CompleteIntelligenceIsWhole
    SkipsAreTold
    ExitIsTruthful
PROPERTIES
    CommittedAtTheEnd
    CommandNoRecovery
    CommandEnds
CHECK_DEADLOCK FALSE
