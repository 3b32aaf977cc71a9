SPECIFICATION Spec
CONSTANTS
    Observations <- MCObservations
    Target = 0
    Now = 100
    MaxObservations = 3
INVARIANT SameInAnyOrder
PROPERTY SeeingMoreNeverHelps
CHECK_DEADLOCK FALSE
