CONSTANTS
    MaxCalls = 2
    MaxStarts = 2
    MaxSilent = 1
    MayBreak = TRUE
SPECIFICATION FairSpec
INVARIANTS
    AnswerIsOwn
    ExecutedOnce
    FailsForCause
PROPERTIES
    CallsAndServersEnd
