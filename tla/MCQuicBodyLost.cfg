\* A request with a body: does the entry keep the DATA frames of its stream?
CONSTANTS
    s1 = s1
    s2 = s2
    StreamIds <- MCStreamIds
    MaxData = 1
    DecodeOutcomes = {TRUE}
    SendTrailers = FALSE
    NoEntry = NoEntry
SPECIFICATION Spec
INVARIANT RequestBodyKept
CHECK_DEADLOCK FALSE
