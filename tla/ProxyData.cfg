SPECIFICATION Spec
CONSTANTS
    up = up
    c1 = c1
    c2 = c2
    Senders = {up, c1, c2}
    Uploader = up
    ContentLen = 2
    HeaderLen = 1
INVARIANTS
    TypeOK
    InOrder
    CompleteDelivery
PROPERTIES
    OnlyEndIsSleptThrough
