SPECIFICATION Spec
CONSTANTS
    n1 = n1
    n2 = n2
    n3 = n3
    a = a
    b = b
    NULL = NULL
    Nodes <- MCNodes
    ThreadIds <- MCThreadIds
    Timeslices <- MCTimeslices
INVARIANTS
    TypeOK
    QueueHoldsLiveThreads
    TurnsSound
PROPERTIES
    NoOvertaking
    ReadyRuns
    ImplementsRoundRobin
