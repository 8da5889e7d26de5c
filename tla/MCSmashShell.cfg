CONSTANTS
    Dirs <- DirNames
    Home = "home"
    Length <- PathLength
    PATH_MAX_LENGHT = 101
    Lines <- TypedLines
    Numbers <- NumberWords
    Huge <- HugeWords
    Jobs <- JobIds
    Cores = 2
    Files <- FileNames
SPECIFICATION Spec
CHECK_DEADLOCK FALSE
INVARIANTS
    EndsOnlyBy
    
