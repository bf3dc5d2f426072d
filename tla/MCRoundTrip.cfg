SPECIFICATION TripSpec
CONSTANTS
    max_struct_nesting = 1
    max_array_nesting = 2
    max_array_items = 5
    Families = {numeric, other}
    TakesUnit = {numeric}
    Units = {metre}
    NoUnit = no_unit
    Plain = plain
    MaxElements = 2
    MaxParts = 3
CHECK_DEADLOCK FALSE
INVARIANTS TypeOK UnitsMirrored RowsNested ReadsBack FinishedIsWhole SidesAgree
VIEW live
