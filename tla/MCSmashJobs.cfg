CONSTANTS
    Pids = {p1, p2, p3}
    Addrs = {1, 2, 3}
    NoJob = nullptr
    Kinds = {"external", "redirection", "pipe"}
    Races = 1
    Signals = {9, 15, 19}
SPECIFICATION Spec
SYMMETRY Symmetry
CHECK_DEADLOCK FALSE
INVARIANTS
    TypeOK
    UniqueIds
    ListedUnlessRaced
    StoppedIsMarked
    ListedUnfinished
