---------------------------- MODULE LemparTables ----------------------------
(***************************************************************************)
(* How lempar.c reads the tables of a generated parser: T is a record of   *)
(* the arrays and numbers lemon writes, with the names they have there.    *)
(***************************************************************************)
EXTENDS Integers

YY_MAX_SHIFT(T) == T.YYNSTATE - 1
YY_MAX_SHIFTREDUCE(T) == T.YY_MIN_SHIFTREDUCE + T.YYNRULE - 1

\* Actions are states to shift to, pending reductions and, from YY_MIN_REDUCE
\* on, reductions by one of the rules; the size of a rule is negated.
WellFormed(T) ==
    LET Actions == 0 .. T.YY_MIN_REDUCE + T.YYNRULE - 1
    IN  /\ T.YYNSTATE \in Nat \ {0} /\ T.YYNRULE \in Nat
        /\ T.YY_MIN_SHIFTREDUCE \in Nat /\ T.YY_MIN_REDUCE \in Nat
        /\ T.YYNSTATE <= T.YY_MIN_SHIFTREDUCE
        /\ T.YY_MIN_SHIFTREDUCE <= T.YY_MIN_REDUCE
        /\ \A i \in DOMAIN T.yy_action : T.yy_action[i] \in Actions
        /\ \A i \in 0 .. T.YYNSTATE - 1 : T.yy_default[i] \in Actions
        /\ \A r \in 0 .. T.YYNRULE - 1 : -T.yyRuleInfoNRhs[r] \in Nat

\* A number beyond the states is a reduction that is pending.
yy_find_shift_action(T, iLookAhead, stateno) ==
    IF stateno > YY_MAX_SHIFT(T) THEN stateno
    ELSE LET i == T.yy_shift_ofst[stateno] + iLookAhead
         IN  IF T.yy_lookahead[i] # iLookAhead THEN T.yy_default[stateno]
                                               ELSE T.yy_action[i]

\* Its assertions, with the ranges of the arrays.
ShiftAsserts(T, iLookAhead, stateno) ==
    stateno > YY_MAX_SHIFT(T) \/
      /\ stateno \in DOMAIN T.yy_shift_ofst
      /\ T.yy_shift_ofst[stateno] \in 0 .. T.YY_ACTTAB_COUNT
      /\ T.yy_shift_ofst[stateno] + T.YYNTOKEN - 1 \in DOMAIN T.yy_lookahead
      /\ iLookAhead < T.YYNTOKEN
      /\ LET i == T.yy_shift_ofst[stateno] + iLookAhead
         IN  T.yy_lookahead[i] = iLookAhead => i \in DOMAIN T.yy_action

yy_find_reduce_action(T, stateno, iLookAhead) ==
    T.yy_action[T.yy_reduce_ofst[stateno] + iLookAhead]

ReduceAsserts(T, stateno, iLookAhead) ==
    /\ stateno \in DOMAIN T.yy_reduce_ofst
    /\ LET i == T.yy_reduce_ofst[stateno] + iLookAhead
       IN  i \in DOMAIN T.yy_action /\ T.yy_lookahead[i] = iLookAhead

=============================================================================
