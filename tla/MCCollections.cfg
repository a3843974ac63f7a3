SPECIFICATION Spec
CONSTANTS
    m2 = m2  m1 = m1  s0 = s0  s1 = s1  z1 = z1  txt = txt
    NotInt = NotInt  Nil = Nil  Err = Err
    Strings <- MCStrings
    Parse <- MCParse
    Decimal <- MCDecimal
    Half = 2
    MaxArgs = 2
    Fields <- MCFields
    Long <- MCLong
    HashMaxZiplistEntries = 2
    SetMaxIntsetEntries = 2
    ZMembers <- MCMembers
    Scores <- MCScores
    NaN = NaN
    SkipListMaxLevel = 2
    MaxNodes = 2
    Vals <- MCVals
    ListMaxZiplistSize = 2
    MaxLen = 5
INVARIANTS TypeOK ValuesSettled SkipListSound WellLinked CountsAgree RangesAgree
PROPERTIES ImplementsHash ImplementsSet ImplementsZSet ImplementsList
