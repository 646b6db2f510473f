\* Files of three rows and of four, the last one short or just full.
CONSTANTS
    Modulus = 1024
    Sizes = {6, 8, 9}
    Fill = 42
    BOOKMARK_STACK_SIZE = 2
    RowBytes = 2
    Heights = {5, 6}
    Digits = {7}
    Offsets = {0, 4, 8, 9, 500}

SPECIFICATION Spec
CONSTRAINT Bounded

INVARIANTS
    TypeOK
    CursorInBounds
    CursorDrawn
    ViewInv
    SavedPlacesInBounds
PROPERTIES
    BlockStays
    PushKeepsOlder
    PopReturns
    ImplementsTape
