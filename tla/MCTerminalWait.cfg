SPECIFICATION FairWaitSpec
CONSTANTS
    server = server
    other = other
    Writers <- McWriters
    NoWriter = NoWriter
    MaxEvents = 4
    MaxOutput = 5
INVARIANTS OutputKeepsItsPlace
PROPERTIES ImplementsOrderedLog EventsArrive SuccessIsDurable NoPhantomRequest
CHECK_DEADLOCK FALSE
