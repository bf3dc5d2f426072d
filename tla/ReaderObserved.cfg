SPECIFICATION ObservedSpec
CONSTANTS
    max_struct_nesting = 1
    max_array_nesting = 2
    max_array_items = 2
    ValueTypes = {t1}
    Plain = plain
    MaxSkippedBrackets = 1
    Flags <- Recovering
CHECK_DEADLOCK FALSE
INVARIANTS LexicalAgreement CharactersTracked
PROPERTY ElementsWithinBudget
