SPECIFICATION Spec
CONSTANTS
    Name = {a, b}
    Edited = {a}
    DBFails = FALSE
    a = a
    b = b
PROPERTIES
    PeersOfMissingConfKept
