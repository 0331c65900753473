SPECIFICATION MCSpec
CONSTANTS
    s1 = s1
    s2 = s2
    s3 = s3
    NULL = NULL
    Garbage = Garbage
    Slabs <- MCSlabs
    ObjectSizes = {1354, 2032}
    SIZE_MAX = 255
    logical_memory_area_size = 70
    RequestSizes = {0, 1, 2, 19}
SYMMETRY SlabSymmetry
INVARIANTS
    AllocatorsTypeOK
    ListsPartitionSlabs
    FreeChainSound
    HeapTiled
PROPERTIES
    GrowsWhenFull
