CONSTANTS
    Workers = {w1}
    Conns = {c1, c2}
    NoConn = noConn
    Targets = {"static"}
    MaxHeaders = 1
    Leaving = {c1, c2}
    Removable = {}
SPECIFICATION FairSpec
CHECK_DEADLOCK FALSE
PROPERTY WorkersReturn
