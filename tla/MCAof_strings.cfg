SPECIFICATION Spec
CONSTANTS
    NotInt = NotInt  Nil = Nil  Err = Err
    Strings <- MCStrings
    Parse <- MCParse
    Decimal <- MCDecimal
    EmptyString <- MCEmptyString
    Half = 2
    MaxArgs = 2
    SetMaxIntsetEntries = 3
    Keys <- MCKeys
    Values <- MCValues
    MaxWrites = 3

PROPERTY RestoresStrings
