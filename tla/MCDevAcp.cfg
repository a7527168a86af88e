SPECIFICATION FairSpec
CONSTANTS
    worker = worker
    watchdog = watchdog
    reaper = reaper
    stop = stop
    retry = retry
    repo = repo
    nested = nested
    job = job
    NoActor = NoActor
    NoJob = NoJob
    Worker <- worker
    Watchdog <- watchdog
    Reapers <- McReapers
    Stoppers <- McStoppers
    Retriers <- McRetriers
    Home <- McHome
    Backends = {"acp"}
    MaxFaults = 1
    Paths <- McPaths
    Ancestor <- McAncestor
    Job <- job
    MaxTokens = 2
    Workspace <- repo
INVARIANTS LeaseUntilResult IntruderOnlyAfterUnproven
PROPERTIES ImplementsWriterLease LeaseFreedOrFlagged
CHECK_DEADLOCK FALSE
