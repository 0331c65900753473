SPECIFICATION MCSpec
CONSTANTS
    PHILO = 5
    FOOD = 6
    ITERATIONS = 4
INVARIANTS
    MutexesTypeOK
    NeighboursTakeTurns
    NoCircularWait
    PrintInTurns
PROPERTIES
    EveryoneEnds
