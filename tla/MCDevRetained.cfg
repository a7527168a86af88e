SPECIFICATION Spec
CONSTANTS
    worker = worker
    watchdog = watchdog
    reaper = reaper
    stop = stop
    retry = retry
    repo = repo
    nested = nested
    job = job
    NoActor = NoActor
    NoJob = NoJob
    Worker <- worker
    Watchdog <- watchdog
    Reapers <- NoCaller
    Stoppers <- McStoppers
    Retriers <- NoCaller
    Home <- McHome
    Backends = {"native"}
    MaxFaults = 0
    Paths <- McPaths
    Ancestor <- McAncestor
    Job <- job
    MaxTokens = 2
    Workspace <- repo
PROPERTIES RetainedUntilConfirmed
CHECK_DEADLOCK FALSE
