SPECIFICATION FairSpec
CONSTANTS
    Local = local
    Remote = remote
    MaxFaults = 2
INVARIANTS FreeMeansNoLeader
PROPERTIES ConfirmedMeansNoLeader StopBeforeSpawnHolds ResultAppears
CHECK_DEADLOCK FALSE
