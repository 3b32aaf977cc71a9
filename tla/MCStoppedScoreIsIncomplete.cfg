SPECIFICATION Spec
CONSTANT ErrorBatches <- MCErrorBatches
INVARIANT StoppedScoreIsIncomplete
