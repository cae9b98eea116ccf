SPECIFICATION ResponseSpec
CONSTANTS
    Bytes = {"CR", "LF", "0", "1", "x", "te", "gz", "cl1", "cl9", "ok", "ok0", "nc", "cont", "bad"}
    Wires <- EofWires
    FeedSizes = {1}
    Field <- MCField
    HexVal <- MCHexVal
    StartLine <- MCStartLine
    Apis = {"decode"}
    Methods = {"GET"}
    SetPhases = {"StartLine", "Headers"}
    EofWithData = TRUE
    MaxResponses = 2
    NonUtf8 = {"obs"}
    Prohibited = {"content-length"}
    Token = {"0", "1", "x"}
    QdText = {"0", "1", "x", "SP"}
    Escapable = {"0", "1", "x", "SP"}
    UsizeMax = 20
    MaxBuffer = 8
    MaxBody = 3
    MaxChunkLine = 2
    MaxHeaderLine = 2
    MaxHeaders = 3
INVARIANTS EofSettlesBody
