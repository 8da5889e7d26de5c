CONSTANTS
    Pids <- FourPids
    Weights <- SomeWeights
SPECIFICATION FairSpec
INVARIANTS
    TypeOK
    SumUnlessDisturbed
    HeaviestUnlessZero
PROPERTY WalkEnds
