------------------------------- MODULE Lempar -------------------------------
(***************************************************************************)
(* The engine of lempar.c that every generated parser contains.            *)
(*                                                                         *)
(* A parser is a record: stack, its stack from yystack[0] to yytos;        *)
(* yyerrcnt; arg, what the %extra_argument points to; busy, whether Parse  *)
(* goes round its loop once more; ok, whether every assertion has held.    *)
(* Without error symbol, fallbacks and wildcard, as calculator.lemon is.   *)
(***************************************************************************)
EXTENDS LemparTables, Sequences

CONSTANTS
    YYSTACKDEPTH,       \* entries of the stack
    RuleCode(_, _, _),  \* the code of a rule: argument, values of the right-
                        \* hand side; gives [minor, arg]
    syntax_error(_)     \* the %syntax_error code, on the argument

yytos(p) == p.stack[Len(p.stack)]
AtBottom(p) == Len(p.stack) = 1

\* The value of entries that no token has given one.
NoMinor == 0

\* ParseInit.
ParseInit(arg) ==
    [stack |-> <<[stateno |-> 0, major |-> 0, minor |-> NoMinor]>>,
     yyerrcnt |-> -1, arg |-> arg, busy |-> FALSE, ok |-> TRUE]

Asserting(p, condition) == [p EXCEPT !.ok = @ /\ condition]

\* All there is to yyStackOverflow, yy_parse_failed and ParseFinalize: no
\* destructor is declared and neither is code to run.
PopAll(p) == [p EXCEPT !.stack = <<p.stack[1]>>]

Full(p) == Len(p.stack) >= YYSTACKDEPTH

\* yy_shift.  What does not fit is lost, with everything on the stack.
yy_shift(T, p, yyNewState, yyMajor, yyMinor) ==
    IF Full(p) THEN PopAll(p)
    ELSE [p EXCEPT !.stack = Append(@,
            [stateno |-> IF yyNewState > YY_MAX_SHIFT(T)
                         THEN yyNewState + T.YY_MIN_REDUCE - T.YY_MIN_SHIFTREDUCE
                         ELSE yyNewState,
             major |-> yyMajor, minor |-> yyMinor])]

\* yy_reduce: the code of the rule is run on the values of its right-hand
\* side, which gives way to the left-hand side in the state below.
yy_reduce(T, p, yyruleno) ==
    LET size == -T.yyRuleInfoNRhs[yyruleno]
        rhs == SubSeq(p.stack, Len(p.stack) - size + 1, Len(p.stack))
        below == SubSeq(p.stack, 1, Len(p.stack) - size)
        ran == RuleCode(yyruleno, p.arg, [i \in DOMAIN rhs |-> rhs[i].minor])
        yygoto == T.yyRuleInfoLhs[yyruleno]
        yyact == yy_find_reduce_action(T, below[Len(below)].stateno, yygoto)
    IN  IF size = 0 /\ Full(p) THEN PopAll(p)
        ELSE IF ~(size < Len(p.stack) /\ ReduceAsserts(T, below[Len(below)].stateno, yygoto))
        THEN Asserting(p, FALSE)
        ELSE Asserting([p EXCEPT !.arg = ran.arg, !.stack = Append(below,
                          [stateno |-> yyact, major |-> yygoto, minor |-> ran.minor])],
                       ~(yyact > YY_MAX_SHIFT(T) /\ yyact <= YY_MAX_SHIFTREDUCE(T))
                       /\ yyact # T.YY_ERROR_ACTION)

\* The start symbol is popped, and nothing is left below it.
yy_accept(p) ==
    LET q == [p EXCEPT !.stack = SubSeq(@, 1, Len(@) - 1)]
    IN  Asserting([q EXCEPT !.yyerrcnt = -1, !.busy = FALSE], AtBottom(q))

\* The token is thrown away, or, at the end of the input, the whole parse; the
\* error is reported unless one was less than three tokens ago.
Error(p, yymajor) ==
    LET q == [p EXCEPT !.arg = IF p.yyerrcnt <= 0 THEN syntax_error(@) ELSE @,
                       !.yyerrcnt = 3, !.busy = FALSE]
    IN  IF yymajor = 0 THEN [PopAll(q) EXCEPT !.yyerrcnt = -1] ELSE q

\* Parse: a token arrives ...
Offer(p) == [p EXCEPT !.busy = TRUE]

\* ... and is shifted, or reduced before, or refused: once round the loop.
Once(T, p, yymajor, yyminor) ==
    LET stateno == yytos(p).stateno
        yyact == yy_find_shift_action(T, yymajor, stateno)
    IN  IF ~ ShiftAsserts(T, yymajor, stateno)
        THEN [Asserting(p, FALSE) EXCEPT !.busy = FALSE]
        ELSE IF yyact >= T.YY_MIN_REDUCE
        THEN LET q == yy_reduce(T, p, yyact - T.YY_MIN_REDUCE)
             IN  [q EXCEPT !.busy = q.ok /\ ~ AtBottom(q)]
        ELSE IF yyact <= YY_MAX_SHIFTREDUCE(T)
        THEN LET q == yy_shift(T, p, yyact, yymajor, yyminor)
             IN  [q EXCEPT !.yyerrcnt = @ - 1, !.busy = FALSE]
        ELSE IF yyact = T.YY_ACCEPT_ACTION THEN yy_accept(p)
        ELSE Asserting(Error(p, yymajor), yyact = T.YY_ERROR_ACTION)

=============================================================================
