\* Well-behaved peers: UTF-8 header bytes, no trailing HEADERS frame.
CONSTANTS
    s1 = s1
    s2 = s2
    StreamIds <- MCStreamIds
    MaxData = 1
    DecodeOutcomes = {TRUE}
    SendTrailers = FALSE
    NoEntry = NoEntry
SPECIFICATION Spec
INVARIANT NoUnhandledTaskError
PROPERTY EveryRequestAnswered
CHECK_DEADLOCK FALSE
