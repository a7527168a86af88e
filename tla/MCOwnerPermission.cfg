SPECIFICATION FairSpec
CONSTANTS
    homeOwner = homeOwner
    otherOwner = otherOwner
    stop = stop
    homeReaper = homeReaper
    NoActor = NoActor
    MaxRequests = 2
    RejectOnly <- McRejectOnly
    Owners <- McOwners
    Stoppers <- McStoppers
    Reapers <- McReapers
    Home <- McHome
    MaxFaults = 1
INVARIANTS AnswerIsTheOwners WaitIsAnswerable
PROPERTIES ImplementsContract AcceptedIsConsumed
CHECK_DEADLOCK FALSE
