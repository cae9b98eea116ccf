SPECIFICATION FairSpec
CONSTANTS
    c1 = c1
    c2 = c2
    Clients = {c1, c2}
    Requests <- MCRequests
    Responses <- MCResponses
    MaxConns = 2
    MaxPerHost = 1
    IdleTimeout = 1
    MaxLifetime = 2
    MaxTime = 1
    Resettable = {"ContentLength", "Chunked"}
INVARIANTS OwnResponse CompleteMeansWhole PoolDiscipline
PROPERTY TasksEnd
CHECK_DEADLOCK FALSE
