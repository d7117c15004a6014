\* Well-behaved peers that may reset a stream before its task runs.
CONSTANTS
    s1 = s1
    s2 = s2
    StreamIds <- MCStreamIds
    MaxData = 1
    NoEntry = NoEntry
    DecodeOutcomes = {TRUE}
    SendTrailers = FALSE
SPECIFICATION Spec
INVARIANT ResetStreamForgotten
CHECK_DEADLOCK FALSE
