CONSTANTS
    Clients = {c1, c2}
    Nobody = nobody
    Requests = {1, 2, 3}
    META = 1
    MAX_SIZE_TO_ALLOCATE = 3
    SIZE_T = 4
    HeapLimit = 8
SPECIFICATION Spec
SYMMETRY Symmetry
CHECK_DEADLOCK FALSE
INVARIANTS
    TypeOK
    BlocksSafe
    StatsExact
PROPERTY ImplementsAllocator
