\* No trailing HEADERS frame; header bytes may fail to decode; two DATA frames
\* per stream: the hypotheses of the theorem ResponseFlagAccurate.
CONSTANTS
    s1 = s1
    s2 = s2
    StreamIds <- MCStreamIds
    MaxData = 2
    DecodeOutcomes <- MCAnyDecode
    SendTrailers = FALSE
    NoEntry = NoEntry
SPECIFICATION Spec
INVARIANT ResponseSentMatchesStream
CHECK_DEADLOCK FALSE
