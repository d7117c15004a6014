\* Peers that end requests with a trailing HEADERS frame (UTF-8 headers).
CONSTANTS
    s1 = s1
    s2 = s2
    StreamIds <- MCStreamIds
    MaxData = 1
    NoEntry = NoEntry
    DecodeOutcomes = {TRUE}
    SendTrailers = TRUE
SPECIFICATION Spec
INVARIANT TypeOK
PROPERTY EveryRequestAnswered
CHECK_DEADLOCK FALSE
