SPECIFICATION RequestSpec
CONSTANTS
    Bytes = {"CR", "LF", "0", "1", "x", "SP", "obs", "h", "hbad", "te", "cl1", "cl0", "cl9", "tr", "etag", "get", "get0", "connect", "bad"}
    Wires <- MCWires
    FeedSizes = {1}
    Field <- MCField
    HexVal <- MCHexVal
    StartLine <- MCStartLine
    Apis = {"stream", "decode", "mixed"}
    NonUtf8 = {"obs"}
    Prohibited = {"content-length"}
    Token = {"0", "1", "x"}
    QdText = {"0", "1", "x", "SP"}
    Escapable = {"0", "1", "x", "SP"}
    UsizeMax = 20
    MaxBuffer = 8
    MaxBody = 3
    MaxChunkLine = 2
    MaxHeaderLine = 2
    MaxHeaders = 3
INVARIANTS RequestsKeptApart NoneMeansIncomplete TunnelTransparent UnwrapsSafe
PROPERTIES RequestInputAccounted FirstErrorIsTheWires
