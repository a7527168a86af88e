SPECIFICATION FairSpec
CONSTANT MaxMishaps = 2
INVARIANTS SuccessIsReal
PROPERTIES StopEndsSession LeftBehindIsCollected
CHECK_DEADLOCK FALSE
