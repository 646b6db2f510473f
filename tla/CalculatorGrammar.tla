------------------------- MODULE CalculatorGrammar -------------------------
(***************************************************************************)
(* The grammar of calculator.lemon as lemon indexes it: the terminals in   *)
(* the order their names first appear, which is that of the precedence     *)
(* declarations, then the two nonterminals.                                *)
(***************************************************************************)
EXTENDS Integers, Sequences

LOGICAL_AND == 1
LOGICAL_OR == 2
BIT_AND == 3
BIT_XOR == 4
BIT_OR == 5
EQEQ == 6
NOT_EQEQ == 7
GT == 8
GT_EQ == 9
LT == 10
LT_EQ == 11
LEFT_SHIFT == 12
RIGHT_SHIFT == 13
PLUS == 14
MINUS == 15
TIMES == 16
DIVIDE == 17
REMAINDER == 18
NOT == 19
BIT_NOT == 20
LPAR == 21
RPAR == 22
INTEGER == 23
expr == 24
program == 25

\* %left and %right, from the weakest to the strongest.
Levels == <<{LOGICAL_AND, LOGICAL_OR}, {BIT_AND, BIT_XOR, BIT_OR}, {EQEQ, NOT_EQEQ},
            {GT, GT_EQ, LT, LT_EQ}, {LEFT_SHIFT, RIGHT_SHIFT}, {PLUS, MINUS},
            {TIMES, DIVIDE, REMAINDER}, {NOT}, {BIT_NOT}>>

\* The operators of the rules of two operands, in the order of these rules.
Binary == <<PLUS, MINUS, TIMES, DIVIDE, REMAINDER, LEFT_SHIFT, RIGHT_SHIFT, GT, GT_EQ,
            LT, LT_EQ, EQEQ, NOT_EQEQ, BIT_AND, BIT_XOR, BIT_OR, LOGICAL_AND, LOGICAL_OR>>

\* Every rule has code.
Coded(lhs, rhs) == [lhs |-> lhs, rhs |-> rhs, code |-> TRUE]

CalculatorRules ==
    <<Coded(program, <<expr>>)>>
    \o [i \in DOMAIN Binary |-> Coded(expr, <<expr, Binary[i], expr>>)]
    \o <<Coded(expr, <<BIT_NOT, expr>>), Coded(expr, <<NOT, expr>>),
         Coded(expr, <<LPAR, expr, RPAR>>), Coded(expr, <<INTEGER>>)>>

CalculatorGrammar ==
    [nterminal |-> INTEGER + 1, nsymbol |-> program + 1, rules |-> CalculatorRules,
     prec |-> [t \in 0 .. INTEGER |->
                 IF \E l \in DOMAIN Levels : t \in Levels[l]
                 THEN CHOOSE l \in DOMAIN Levels : t \in Levels[l] ELSE -1],
     assoc |-> [t \in 0 .. INTEGER |->
                  IF t \in {NOT, BIT_NOT} THEN "RIGHT"
                  ELSE IF \E l \in DOMAIN Levels : t \in Levels[l] THEN "LEFT" ELSE "UNK"]]

=============================================================================
