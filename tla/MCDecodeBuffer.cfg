SPECIFICATION Spec
CONSTANTS
    Bytes = {"a", "b", "nul"}
    Zero = "nul"
    MaxBuffer = 3
    MaxFrame = 2
    MaxStream = 4
INVARIANTS ConfirmedIntact WithinCapacity
PROPERTY ImplementsQueue
