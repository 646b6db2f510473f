\* Two files that may take the path in turn; every call may fail.
CONSTANTS
    Files = {a, b}
    Lengths = {0, 1, 2}
    NoFile = NoFile

SPECIFICATION Spec
CHECK_DEADLOCK FALSE

INVARIANTS
    TypeOK
    NothingLeaks
    ViewBacked
PROPERTIES
    ImplementsFileView
