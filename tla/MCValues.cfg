SPECIFICATION Spec
CONSTANTS
    MaxPieces <- MCMaxPieces
    MaxFields = 3
    MaxBody = 5
    UsizeMax = 255
    U16Max = 65535
    U64Max = 12
    I64Max = 12
    Overflow = 10
    MaxParams = 3
    MaxAuthParams = 6
    Token = {"0", "f", "x"}
    QdText = {"0", "f", "x", ";", "=", "SP"}
    Escapable = {"0", "f", "x", ";", "=", "SP", "DQUOTE", "BSLASH"}
    NonUtf8 = {}
    Field <- MCField
    HexVal <- MCHexVal
INVARIANTS AcceptsGrammar Framed MessagesFramed RangesRead DatesRead UrisResolved FieldsRead
CHECK_DEADLOCK FALSE
