CONSTANTS
    Clients = {c1, c2, c3, c4}
    Requests = {0, 2, 3, 7, 30, 31, 32, 34}
    MAX_ORDER = 3
    Blocks = 2
    START_SIZE = 4
    META = 2
    MAX_SIZE_TO_ALLOCATE = 33
    SIZE_T = 40
    Maps <- MapAddresses
SPECIFICATION Spec
SYMMETRY Symmetry
CHECK_DEADLOCK FALSE
INVARIANT StatsAccounted
