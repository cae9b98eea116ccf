SPECIFICATION Spec
CONSTANTS
    a = a
    b = b
    Clients = {a, b}
    Setups <- MCSetups
    MaxRequests = 2
    RingEntries = 5
    Slots <- MCSlots
    Fds = {4, 5}
    Tickets = {a}
    MaxFaults = 1
INVARIANTS OneOperation ResponsesInOrder QuietMeansServed
PROPERTY LeftoverErrorsContained
CHECK_DEADLOCK FALSE
