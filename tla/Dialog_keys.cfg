\* All keys, in every order and timing.
CONSTANTS
    Typeable = {"=", ";", "F3", "F9", "F10", "newline", "KEY_ENTER", "escape", "zero", "other"}
    MaxKeys = 4

SPECIFICATION Spec
CHECK_DEADLOCK FALSE

INVARIANTS
    TypeOK
    KeysInOrder
PROPERTIES
    EveryKeyRead
    DialogWaits
    CancelledMenuIsNone
