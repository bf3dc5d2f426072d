SPECIFICATION Spec
CONSTANTS
    max_struct_nesting = 2
    max_array_nesting = 2
    max_array_items = 2
    ValueTypes = {t1}
    Plain = plain
    MaxSkippedBrackets = 1
    Flags <- SomeFlags
CHECK_DEADLOCK FALSE
INVARIANTS TypeOK FramesOrdered BoundaryOutsideArrays RowsInsideArrays AcceptedIsClosed InlineUnitsOutsideArrays
PROPERTIES DeliversEventStream
