CONSTANTS
    a = a
    ShareIds <- MCShareIds
    Rows <- MCRows
    Schemas <- MCSchemas
    NoRow = NoRow
    NoShare = NoShare
SPECIFICATION Spec
INVARIANT RowsKept
INVARIANT ColumnsHonoured
CHECK_DEADLOCK FALSE
