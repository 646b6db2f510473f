\* A state whose offset ReportTable leaves out.
SPECIFICATION ParsingSpec
CONSTANTS
    Grammars <- OffsetlessOnly
    YYSTACKDEPTH = 9
    RuleCode <- MCRuleCode
    syntax_error <- MCsyntax_error
    Inputs <- Words
    Argument = FALSE
    Minors = {0}
    MaxWord = 4
    MaxRounds = 15
    MaxRules = 7
INVARIANTS
    AssertionsHold
CHECK_DEADLOCK FALSE
