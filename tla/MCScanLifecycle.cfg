SPECIFICATION Spec
CONSTANT ErrorBatches <- MCErrorBatches
INVARIANTS
    TypeOK
    CompletedIsEarned
    CutIsReported
    AccountsForItself
    CompleteScoreIsEarned
PROPERTIES
    NoRecovery
    NothingIsTakenBack
    ImplementsContract
