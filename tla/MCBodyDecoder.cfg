SPECIFICATION MCSpec
CONSTANTS
    Bytes = {"CR", "LF", "0", "1", "2", "f", "x", ";", "SP", "T", "U", "P", "obs"}
    Wires <- MCWires
    FeedSizes = {1, 3}
    Field <- MCField
    HexVal <- MCHexVal
    NonUtf8 = {"obs"}
    Prohibited = {"content-length"}
    Token = {"0", "1", "2", "f", "x"}
    QdText = {"0", "1", "2", "f", "x", ";", "SP", "T", "U", "P", "obs"}
    Escapable = {"0", "1", "2", "f", "x", ";", "SP", "T", "U", "P", "obs"}
    UsizeMax = 20
    MaxBuffer = 6
    MaxBody = 3
    MaxChunkLine = 3
    MaxHeaderLine = 2
    MaxHeaders = 2
INVARIANTS WithinLimit TrailersAdmitted DecodesLikeWhole NothingWithheld
PROPERTIES EndsLikeWhole LimitRefusalFinal
