SPECIFICATION MCSpec
CONSTANTS
    threads_num = 3
    MaxBlock = 3
    MaxNodes = 4
    Lines = {1, 2, 3}
    Entries = {"top", "dir", "below", "file", "link"}
    Root = "top"
    Parent <- TreeParent
    Kind <- TreeKind
    OpenMax = 3
    Consumers = {1, 2}
    Producer = 0
    CellLines = 3
    Kills = 2
    SEMVMX = 2
    DetailsMax = 3
    Master = 0
    Slaves = {1, 2}
    Reporters = {1, 2}
    Capacity = 2
    StatusLines = 1
INVARIANTS
    ProgramsTypeOK
    PrintedSumIsPrefix
    ListKeepsLines
    CopyComplete
    LinesDelivered
    SemaphoresKept
PROPERTIES
    ProgramsEnd
