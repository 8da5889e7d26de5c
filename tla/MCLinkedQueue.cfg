CONSTANTS
    Cells = {c1, c2, c3, c4}
    NULL = null
    Data = {d1, d2}
    NoData = noData
    MaxIndex = 5
SPECIFICATION Spec
INVARIANTS
    TypeOK
    Linked
    HeapAccounted
PROPERTY ImplementsFifo
