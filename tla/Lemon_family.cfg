SPECIFICATION ParsingSpec
CONSTANTS
    Grammars <- MCGrammars
    YYSTACKDEPTH = 9
    RuleCode <- MCRuleCode
    syntax_error <- MCsyntax_error
    Inputs <- Words
    Argument = FALSE
    Minors = {0}
    MaxWord = 4
    MaxRounds = 15
    MaxRules = 7
INVARIANTS
    AcceptsSentences
    EngineAsserts
    EngineRuns
    AmbiguityReported
    FollowSetsExact
    TablesSayActions
PROPERTIES
    AlwaysCloser
CHECK_DEADLOCK FALSE
