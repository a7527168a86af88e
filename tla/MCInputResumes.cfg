SPECIFICATION FairSpec
CONSTANTS
    MaxReplies = 1
INVARIANTS ReplyResumes
CHECK_DEADLOCK FALSE
