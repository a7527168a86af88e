SPECIFICATION FairSpec
CONSTANTS
    MaxReplies = 2
PROPERTIES SuccessAnswersReply NoPauseAfterAnswer FinishedIsPublished
CHECK_DEADLOCK FALSE
