CONSTANTS
    Workers = {w1, w2}
    Main = main
    NoThread = noThread
    FDs = {f1, f2, f3, f4, f5, f6}
    NoFD = noFD
    SchedAlgs = {"block", "dt", "dh", "bf", "dynamic", "random", "fifo"}
    QueueSize = 2
    MaxSize = 3
SPECIFICATION Spec
SYMMETRY Symmetry
INVARIANTS
    TypeOK
    LockDiscipline
    CounterExact
    OneOwner
    CapacityRespected
    RandomOvershoot
    DescriptorsBounded
    NoLostWakeup
    NoLostWakeup2
    FlushedWhenRefused
