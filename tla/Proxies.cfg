SPECIFICATION MCSpec
CONSTANTS
    u1 = u1
    None = None
    Garbage = Garbage
    Addresses = {1, 2}
    Clients = {1, 2}
    Urls = {u1}
INVARIANTS
    ProxiesTypeOK
    NothingDeletedInUse
    EntriesAlive
    ChoicesHold
PROPERTIES
    ShutdownReclaims
