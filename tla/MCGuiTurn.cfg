SPECIFICATION FairSpec
CONSTANTS
    LastBrowser = 2
    Temporary <- McTemporary
    MaxMishaps = 2
INVARIANTS AcknowledgedIsLast OnlyVerifiedIsSent SuccessIsOwnAnswer
PROPERTIES EarlyStopPreventsSend DraftIsLeftAlone
CHECK_DEADLOCK FALSE
