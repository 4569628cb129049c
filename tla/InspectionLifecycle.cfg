SPECIFICATION FairSpec
CONSTANTS
    MaxRecaptures = 1
INVARIANTS SubmittedNeverCanceled OneCutoff AccessEnds JudgedOnce ResultAwaitsVerdict
PROPERTIES SubmissionJudged RecaptureSettles
CHECK_DEADLOCK FALSE
