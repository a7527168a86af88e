SPECIFICATION FairSpec
CONSTANTS
    worker = worker
    watchdog = watchdog
    homeReaper = homeReaper
    otherReaper = otherReaper
    homeStop = homeStop
    retry = retry
    NoActor = NoActor
    Worker <- worker
    Watchdog <- watchdog
    Reapers <- McReapers
    Stoppers <- McStoppers
    Retriers <- McRetriers
    Home <- McHome
    Backends = {"native", "acp"}
    MaxFaults = 1
INVARIANTS StatusMatchesResult ClaimDecides StopBeatsCompletion UnconfirmedGetsFlagged
PROPERTIES ImplementsContract ExpiredIsCollectedOrStranded
CHECK_DEADLOCK FALSE
