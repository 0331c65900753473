SPECIFICATION Spec
CONSTANTS
    THREAD_NUM = 4
    LOCKS_NUM = 2
    SpuriousWakeups = TRUE
INVARIANTS
    TypeOK
    SleeperHasOwner
    OwnerWillRelease
PROPERTIES
    AllEnd
