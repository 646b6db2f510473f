\* Both panes, with a terminal whose height changes.
CONSTANTS
    Modulus = 1024
    Sizes = {4, 5}
    Fill = 0
    BOOKMARK_STACK_SIZE = 1
    RowBytes = 1
    Terminals <- ResizedInHeight
    MayShrink = FALSE
    Digits = {}
    Offsets = {3, 5}
    MaxComments = 1

SPECIFICATION Spec

INVARIANTS
    TypeOK
    CursorInBounds
    PlacesInBounds
    EditOnlyInHexPane
PROPERTIES
    SwitchKeepsPlace
    NamesFindsComment
    BlockPersists
