\* Rows of two and three bytes, with a short last row and without one.
CONSTANTS
    Modulus = 1024
    Sizes = {9, 12}
    Fill = 0
    BOOKMARK_STACK_SIZE = 1
    Heights = {5, 6}
    Widths = {2, 3}
    Offsets = {0, 5, 9, 12, 500}

SPECIFICATION Spec

INVARIANTS
    TypeOK
    CursorInBounds
    CursorDrawn
    MarksInBounds
PROPERTIES
    BlockStays
