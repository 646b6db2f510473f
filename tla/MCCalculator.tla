---------------------------- MODULE MCCalculator ----------------------------
(***************************************************************************)
(* calculator_eval with the tables that lemon makes for its grammar, on    *)
(* inputs put together from pieces whose meaning is known, against a       *)
(* reference that reads the precedences of calculator.lemon off the        *)
(* tokens.                                                                 *)
(***************************************************************************)
EXTENDS Calculator, FiniteSets

Generator == INSTANCE LemonMain

MCTables == {Generator!Generated(CalculatorGrammar)}

-----------------------------------------------------------------------------

\* A piece: its characters and its token.
Piece(text, major, minor) == [text |-> text, major |-> major, minor |-> minor]

One == Piece(<<"1">>, INTEGER, 1)
Two == Piece(<<"2">>, INTEGER, 2)
Zero0 == Piece(<<"0">>, INTEGER, 0)
MinusOne == Piece(<<"f", "f", "f", "f">>, INTEGER, -1)
Least == Piece(<<"8", "0", "0", "0">>, INTEGER, -32768)

Symbols ==
    {Piece(<<o[1]>>, o[2], 0) : o \in OfOneCharacter}
    \cup {Piece(<<o[1], o[2]>>, o[3], 0) : o \in OfTwoCharacters}
Of(major) == CHOOSE o \in Symbols : o.major = major
IsOperator(major) == major \in {Binary[i] : i \in DOMAIN Binary}
Operators == {o \in Symbols : IsOperator(o.major)}
Prefixes == {Of(NOT), Of(BIT_NOT)}

\* Numbers in every base, at the limits and with digits missing.
Numbers ==
    {Piece(<<"0", "n", "1", "0">>, INTEGER, 10), Piece(<<"0", "b", "1", "0", "1">>, INTEGER, 5),
     Piece(<<"0", "1", "0", "1">>, INTEGER, 65), Piece(<<"0", "x", "1", "0", "1">>, INTEGER, 257),
     Piece(<<"a", "a", "a">>, INTEGER, 2730), Piece(<<"1", "0", "0", "0", "0">>, INTEGER, -1),
     Piece(<<"a", "F">>, INTEGER, 175), Piece(<<"0", "x", "0", "X", "C">>, INTEGER, 12),
     Piece(<<"0", "n">>, INTEGER, 0), Least, Zero0}

\* The file, of bytes two bits wide, and what @ and # read at its start.
Bytes == [k \in 0 .. 7 |-> (k + 1) % 4]
Reads ==
    {Piece(<<"@", "b">>, INTEGER, 1), Piece(<<"@", "s">>, INTEGER, 9),
     Piece(<<"@", "S">>, INTEGER, 6), Piece(<<"@", "i">>, INTEGER, 57),
     Piece(<<"@", "I">>, INTEGER, 108), Piece(<<"#", "s">>, INTEGER, -7),
     Piece(<<"#", "I">>, INTEGER, 108), Piece(<<"@", "l">>, INTEGER, 14649),
     Piece(<<"#", "L">>, INTEGER, 27756)}

\* What is refused.
NoToken == -1
Refused ==
    {Piece(<<"=">>, NoToken, 0), Piece(<<"@">>, NoToken, 0), Piece(<<"#", "x">>, NoToken, 0),
     Piece(<<"0", "b">>, NoToken, 0), Piece(<<"0", ")">>, NoToken, 0), Piece(<<"g">>, NoToken, 0), Piece(<<"F">>, NoToken, 0)}

\* Two operators in a row, also on numbers whose quotient does not fit, and
\* with one of them in parentheses.
Chains ==
    {<<n[1], o[1], n[2], o[2], n[3]>> : o \in Operators \X Operators,
       n \in {<<Two, One, Two>>, <<MinusOne, Two, Two>>, <<Least, MinusOne, One>>}}
Parenthesised ==
    {<<Of(LPAR), Two, o[1], One, Of(RPAR), o[2], Two>> : o \in Operators \X Operators}
    \cup {<<Two, o[1], Of(LPAR), One, o[2], Two, Of(RPAR)>> : o \in Operators \X Operators}
Prefixed ==
    {<<p, a, o, q, b>> : p, q \in Prefixes, o \in Operators, a, b \in {Two, Zero0}}
Literals ==
    UNION {{<<n>>, <<n, Of(PLUS), One>>, <<One, Of(MINUS), n>>} : n \in Numbers \cup Reads \cup Refused}
Scraps ==
    UNION {[1 .. n -> {One, Of(MINUS), Of(NOT), Of(LPAR), Of(RPAR)}] : n \in 0 .. 4}

\* The text of pieces, one after the other.
RECURSIVE Text(_, _)
Text(pieces, gap) ==
    IF pieces = << >> THEN << >>
    ELSE IF Len(pieces) = 1 THEN pieces[1].text
    ELSE Head(pieces).text \o gap \o Text(Tail(pieces), gap)

\* With spaces, and without where no piece runs into the next.
Cases ==
    {[pieces |-> p, gap |-> << >>] : p \in Chains}
    \cup {[pieces |-> p, gap |-> <<" ">>] :
            p \in Parenthesised \cup Prefixed \cup Literals \cup Scraps}

MCInputs == {Text(c.pieces, c.gap) : c \in Cases}

\* The cursor at the start of the file, or where no byte is left.
MCBuffers == {[size |-> 8, cursor |-> c, data |-> Bytes] : c \in {0, 8}}

-----------------------------------------------------------------------------

VARIABLE pieces  \* what the input has been put together from

MCInit ==
    \E t \in ParserTables, c \in Cases :
      Called(t, Text(c.pieces, c.gap)) /\ pieces = c.pieces

MCSpec == MCInit /\ [][Next /\ UNCHANGED pieces]_<<vars, pieces>> /\ Fairness

\* The tokens of the pieces; none for a read that finds no byte.
Tokens ==
    [i \in DOMAIN pieces |->
       [major |-> IF pieces[i].text[1] \in {"@", "#"} /\ buffer.cursor = 8
                  THEN NoToken ELSE pieces[i].major,
        minor |-> pieces[i].minor]]

-----------------------------------------------------------------------------

\* No expression, and one whose value stops the program: beside the values.
Invalid == Values(8)
Stops == Values(8) + 1

\* The levels of C.
CLevels == <<{LOGICAL_OR}, {LOGICAL_AND}, {BIT_OR}, {BIT_XOR}, {BIT_AND}, {EQEQ, NOT_EQEQ},
             {GT, GT_EQ, LT, LT_EQ}, {LEFT_SHIFT, RIGHT_SHIFT}, {PLUS, MINUS},
             {TIMES, DIVIDE, REMAINDER}>>

Level(levels, major) == CHOOSE l \in DOMAIN levels : major \in levels[l]

\* The weakest operator of two operands outside of parentheses, of equal ones
\* the last, comes last.
Depth(ts, i) ==
    Cardinality({j \in 1 .. i : ts[j].major = LPAR}) - Cardinality({j \in 1 .. i : ts[j].major = RPAR})
Outer(ts) == {i \in DOMAIN ts : IsOperator(ts[i].major) /\ Depth(ts, i) = 0}
Last(levels, ts) ==
    CHOOSE i \in Outer(ts) : \A j \in Outer(ts) :
      LET l == Level(levels, ts[i].major)
          m == Level(levels, ts[j].major)
      IN  l < m \/ (l = m /\ j <= i)

\* The value of an expression, its operators of two operands having these levels.
RECURSIVE Value(_, _)
Value(levels, ts) ==
    LET n == Len(ts)
        last == Last(levels, ts)
        b == Value(levels, SubSeq(ts, 1, last - 1))
        c == Value(levels, SubSeq(ts, last + 1, n))
        rest == Value(levels, Tail(ts))
    IN  CASE Outer(ts) # {} ->
               IF Invalid \in {b, c} THEN Invalid
               ELSE IF Stops \in {b, c} THEN Stops
               ELSE IF DivisionStops(ts[last].major, b, c) THEN Stops
               ELSE Apply(ts[last].major, b, c)
          [] Outer(ts) = {} /\ n > 0 /\ ts[1].major \in {NOT, BIT_NOT} ->
               IF rest \in {Invalid, Stops} THEN rest
               ELSE IF ts[1].major = NOT THEN Truth(rest = 0) ELSE -rest - 1
          [] Outer(ts) = {} /\ n > 1 /\ ts[1].major = LPAR /\ ts[n].major = RPAR ->
               Value(levels, SubSeq(ts, 2, n - 1))
          [] Outer(ts) = {} /\ n = 1 /\ ts[1].major = INTEGER -> ts[1].minor
          [] OTHER -> Invalid

(***************************************************************************)
(* An expression, and nothing else, is evaluated, to the value that the    *)
(* precedences and associativities declared in calculator.lemon give it,   *)
(* which are not all those of C; a quotient that stops the program does    *)
(* so.  About the whole way from the characters through the tables to the  *)
(* code of the rules.                                                      *)
(***************************************************************************)
EvaluatesAsDeclared ==
    /\ ret # "aborted"
    /\ ret = "0" => result = Value(Levels, Tokens)
    /\ ret = "1" => Value(Levels, Tokens) = Invalid
    /\ ret = "stopped" => Value(Levels, Tokens) \in {Invalid, Stops}

\* Success is for expressions only.
SuccessIsExpression == ret = "0" => Value(Levels, Tokens) # Invalid

\* What the manual says: the operators follow the C operator precedence order.
\* calculator.lemon has && with ||, and & with ^ and |, on one level each.
FollowsC == ret = "0" => result = Value(CLevels, Tokens)

=============================================================================
