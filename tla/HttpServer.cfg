CONSTANTS
    c1 = c1
    c2 = c2
    Client = {c1, c2}
    None = None
    Requests <- MCRequests
    ChunkSizes <- MCChunkSizes
SPECIFICATION Spec
INVARIANTS
    WholeRequest
    NothingIsLeftOpen
PROPERTIES
    RequestsAnswered
    StopTerminates
CHECK_DEADLOCK FALSE
