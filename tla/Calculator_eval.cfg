\* Values of 16 bits, bytes of 2; a stack that no input here fills.
SPECIFICATION MCSpec
CONSTANTS
    Modulus = 1024
    ByteBits = 2
    ParserTables <- MCTables
    YYSTACKDEPTH = 12
    Traps = TRUE
    Inputs <- MCInputs
    Buffers <- MCBuffers
INVARIANTS
    EvaluatesAsDeclared
    InBounds
PROPERTIES
    Terminates
CHECK_DEADLOCK FALSE
