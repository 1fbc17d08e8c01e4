SPECIFICATION FairSpec
CONSTANTS
    Deliveries = {d1, d2}
    Uploader = up
    Reviewers = {v1, v2}
    NoOne = nobody
    MaxAttempts = 2
    MaxDeliveries = 4
    MaxReplays = 2
    MaxFaults = 3
INVARIANTS
    TypeOK
    ReviewNeverBlocksItself
    AwaitingIsReviewable
    DecisionMatchesCheckpoint
    PostingFollowsDecision
    PostingIsEarned
    ExceptionsAreResolved
    UnfinishedIsOwned
PROPERTY EveryReviewEnds
CHECK_DEADLOCK FALSE
