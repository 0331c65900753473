SPECIFICATION Spec
CONSTANTS
    s1 = s1
    s2 = s2
    NULL = NULL
    Garbage = Garbage
    Slabs = {s1, s2}
    ObjectSizes = {2048}
    SIZE_MAX = 255
INVARIANTS
    NewEntry
