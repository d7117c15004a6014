\* Trailing HEADERS frames: the second task of a stream dies.
CONSTANTS
    s1 = s1
    s2 = s2
    StreamIds <- MCStreamIds
    MaxData = 1
    NoEntry = NoEntry
    DecodeOutcomes = {TRUE}
    SendTrailers = TRUE
SPECIFICATION Spec
INVARIANT NoUnhandledTaskError
CHECK_DEADLOCK FALSE
