SPECIFICATION FairSlotSpec
CONSTANTS
    turn1 = turn1
    turn2 = turn2
    turn3 = turn3
    home = home
    other = other
    NoTurn = NoTurn
    Turns <- McTurns
    Procs <- McProcs
    Proc <- McProc
    ChainLength = 2
    MaxCrashes = 1
INVARIANTS PollerOwnsSession NothingLeftBehind
PROPERTIES LockRecovers
CHECK_DEADLOCK FALSE
