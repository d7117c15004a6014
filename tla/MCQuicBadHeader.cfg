\* Header bytes that are not UTF-8: the request is never answered.
CONSTANTS
    s1 = s1
    s2 = s2
    StreamIds <- MCStreamIds
    MaxData = 1
    NoEntry = NoEntry
    DecodeOutcomes <- MCAnyDecode
    SendTrailers = FALSE
SPECIFICATION Spec
PROPERTY EveryRequestAnswered
CHECK_DEADLOCK FALSE
