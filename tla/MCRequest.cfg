CONSTANTS
    Workers = {w1, w2}
    Conns = {c1, c2}
    NoConn = noConn
    Targets = {"forbidden", "static", "refused", "cgi", "overlong"}
    MaxHeaders = 1
    Leaving = {c1}
    Removable = {"static"}
SPECIFICATION FairSpec
CHECK_DEADLOCK FALSE
INVARIANTS
    TypeOK
    ReportedCounts
    ResponseComplete
    ServerRuns
PROPERTIES
    ResponsesEnd
    ReturnsUnlessCutOff
