SPECIFICATION Spec
CONSTANTS
    THREAD_NUM = 3
    LOCKS_NUM = 2
    SpuriousWakeups = FALSE
INVARIANTS
    ExclusiveCapture
