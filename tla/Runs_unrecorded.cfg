SPECIFICATION Spec
CONSTANTS
    Deliveries = {d1, d2}
    Uploader = up
    Reviewers = {v1, v2}
    NoOne = nobody
    MaxAttempts = 2
    MaxDeliveries = 4
    MaxReplays = 1
    MaxFaults = 2
SYMMETRY Symmetry
INVARIANT CompletedReviewIsRecorded
CHECK_DEADLOCK FALSE
