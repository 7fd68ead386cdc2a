SPECIFICATION FairHarnessSpec
CONSTANTS
    Uploads <- MCUploads
    Replies <- MCReplies
    Batch = 2
    Concurrency = 2
    Attempts = 2
    Responses <- MCResponses
    Remarks <- MCRemarks
    Dialogue <- MCDialogue
    MaxCandidates = 2
    MaxRuns = 2
    MaxLost = 1
INVARIANTS NothingIsMisread ServedOneForOne FewCallsPastDeadline
PROPERTIES NothingBoughtTwice VerdictIsFinal PollerIsReleased
CHECK_DEADLOCK FALSE
