SPECIFICATION Spec
CONSTANTS
    Receivers = {1, 2, 3}
    MAX_SENDRERS_NUM = 2
    Lines = 2
    Capacity = 2
    ACCEPT = ACCEPT
    PID = PID
    Stray = Stray
INVARIANTS
    TypeOK
    NobodyCutOff
PROPERTIES
    LinesInOrder
    BusSettles
