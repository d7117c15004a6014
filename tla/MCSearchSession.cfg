CONSTANTS
    FileSpecs <- MCFileSpecs
    MaxFiles = 2
    MaxResults = 2
SPECIFICATION Spec
PROPERTY SearchProtocolSpec
CHECK_DEADLOCK FALSE
