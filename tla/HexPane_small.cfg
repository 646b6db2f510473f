\* A file with fewer rows than the screen shows.
CONSTANTS
    Modulus = 1024
    Sizes = {3}
    Fill = 0
    BOOKMARK_STACK_SIZE = 1
    RowBytes = 2
    Heights = {6}
    Digits = {}
    Offsets = {}

SPECIFICATION Spec

INVARIANTS
    CursorInBounds
