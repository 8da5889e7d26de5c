CONSTANTS
    Pids = {p1, p2}
    Addrs = {1, 2, 3}
    NoJob = nullptr
    Kinds = {"external"}
    Races = 1
    Signals = {9, 15, 18, 19}
SPECIFICATION Spec
SYMMETRY Symmetry
CHECK_DEADLOCK FALSE
INVARIANT AllChildrenListed
