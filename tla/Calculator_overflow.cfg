\* A stack that a few parentheses fill.
SPECIFICATION MCSpec
CONSTANTS
    Modulus = 1024
    ByteBits = 2
    ParserTables <- MCTables
    YYSTACKDEPTH = 3
    Traps = TRUE
    Inputs <- MCInputs
    Buffers <- MCBuffers
INVARIANTS
    SuccessIsExpression
CHECK_DEADLOCK FALSE
