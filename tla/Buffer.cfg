SPECIFICATION Spec
CONSTANTS
    Byte = {"a", "b"}
    Junk = "junk"
    Requests = {0, 1, 4}
    Align = 2
    Word = 16
    Chunks <- MCChunks
    Counts = {0, 1, 2, 3, 5}
INVARIANTS TypeOK CursorsInOrder
PROPERTY Implements
