\* The same values and inputs as Calculator_eval.cfg.
SPECIFICATION MCSpec
CONSTANTS
    Modulus = 1024
    ByteBits = 2
    ParserTables <- MCTables
    YYSTACKDEPTH = 12
    Traps = TRUE
    Inputs <- MCInputs
    Buffers <- MCBuffers
INVARIANTS
    FollowsC
CHECK_DEADLOCK FALSE
