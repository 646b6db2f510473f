\* A key that arrives right after the Escape that cancels a prompt.
CONSTANTS
    Typeable = {";", "escape", "other"}
    MaxKeys = 3

SPECIFICATION Spec
CHECK_DEADLOCK FALSE

PROPERTIES
    CancelledInputIsNull
