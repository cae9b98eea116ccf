SPECIFICATION Spec
CONSTANTS
    Data = {"x"}
    Inputs <- MCInputs
    MaxBufferSize = 21
INVARIANTS PartsLikeWhole NoDelimiterPassed BuildRoundTrip
