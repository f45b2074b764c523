CONSTANTS
    Letter = {"a", "b"}
    MaxLength = 4
    Bytes = 5
    INT_MAX = 31
    PRINT_BUFFER_SIZE = 3
    Number <- MC_Number
    Item <- MC_Item
    MaxItems = 2
SPECIFICATION Spec
CHECK_DEADLOCK FALSE
INVARIANTS
    MeetsReference
    PrintsItems
