CONSTANTS
    Workers = {w1, w2}
    Main = main
    NoThread = noThread
    FDs = {f1, f2, f3, f4}
    NoFD = noFD
    SchedAlgs = {"block", "dt", "dh", "bf", "dynamic", "random"}
    QueueSize = 1
    MaxSize = 1
SPECIFICATION FairSpec
PROPERTIES
    ConnectionsClosed
    KeepsAccepting
