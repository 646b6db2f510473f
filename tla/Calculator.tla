----------------------------- MODULE Calculator -----------------------------
(***************************************************************************)
(* calculator_eval: one call, on any of a set of inputs with any of a set  *)
(* of buffers.  A step reads a token off the input and gives it to Parse,  *)
(* or is one round of the loop in Parse.                                   *)
(*                                                                         *)
(* The input is a sequence of characters, each a string of length 1; what  *)
(* ends it is "NUL".  Values are int64_t, of 8 * ByteBits bits here.       *)
(***************************************************************************)
EXTENDS BufferRead, CalculatorGrammar

CONSTANTS
    ParserTables,  \* the tables of the parser: those lemon makes for the grammar
    YYSTACKDEPTH,  \* entries of the parser's stack: 100
    Traps,         \* the least integer divided by -1 stops the program
    Inputs,        \* the inputs evaluated
    Buffers        \* the buffers they are evaluated with

\* The width of a value, and a bit pattern as a value.
Bits == 8 * ByteBits
Int64(i) == LET u == i % Values(8) IN IF u < Values(8) \div 2 THEN u ELSE u - Values(8)

(***************************************************************************)
(* The code of the rules.                                                  *)
(***************************************************************************)

\* The bits of a value that are 1, and the value they make.
OneBits(i) == {b \in 0 .. Bits - 1 : ((i % Values(8)) \div 2 ^ b) % 2 = 1}
OfBits(S) ==
    LET upTo[b \in 0 .. Bits] ==
          IF b = 0 THEN 0
          ELSE upTo[b - 1] + (IF b - 1 \in S THEN 2 ^ (b - 1) ELSE 0)
    IN  Int64(upTo[Bits])

\* C rounds towards zero.
Quotient(b, c) ==
    LET q == (IF b < 0 THEN -b ELSE b) \div (IF c < 0 THEN -c ELSE c)
    IN  IF (b < 0) = (c < 0) THEN q ELSE -q

Truth(condition) == IF condition THEN 1 ELSE 0

\* On x86-64 the one quotient that does not fit stops the program.
DivisionStops(op, b, c) ==
    op \in {DIVIDE, REMAINDER} /\ Traps /\ c = -1 /\ b = -(Values(8) \div 2)

\* A = B op C.  Results that do not fit wrap, and a shift uses the low bits of
\* its count: both are undefined in C and are what the compiled code does.
Apply(op, b, c) ==
    LET count == c % Bits
    IN  CASE op = PLUS -> Int64(b + c)
          [] op = MINUS -> Int64(b - c)
          [] op = TIMES -> Int64(b * c)
          [] op = DIVIDE -> IF c = 0 THEN 0 ELSE Int64(Quotient(b, c))
          [] op = REMAINDER -> IF c = 0 THEN 0 ELSE b - c * Quotient(b, c)
          [] op = LEFT_SHIFT -> OfBits({k + count : k \in {j \in OneBits(b) : j + count < Bits}})
          [] op = RIGHT_SHIFT -> b \div 2 ^ count
          [] op = GT -> Truth(b > c)
          [] op = GT_EQ -> Truth(b >= c)
          [] op = LT -> Truth(b < c)
          [] op = LT_EQ -> Truth(b <= c)
          [] op = EQEQ -> Truth(b = c)
          [] op = NOT_EQEQ -> Truth(b # c)
          [] op = BIT_AND -> OfBits(OneBits(b) \cap OneBits(c))
          [] op = BIT_XOR -> OfBits((OneBits(b) \cup OneBits(c)) \ (OneBits(b) \cap OneBits(c)))
          [] op = BIT_OR -> OfBits(OneBits(b) \cup OneBits(c))
          [] op = LOGICAL_AND -> Truth(b # 0 /\ c # 0)
          [] op = LOGICAL_OR -> Truth(b # 0 \/ c # 0)

\* The rules in the order of the file: the program, the operators of two
\* operands, ~, !, parentheses, a number.
RuleCode(yyruleno, state, v) ==
    LET op == Binary[yyruleno]
        n == Len(Binary)
    IN  CASE yyruleno = 0 -> [minor |-> 0, arg |-> [state EXCEPT !.result = v[1]]]
          [] yyruleno \in DOMAIN Binary ->
               [minor |-> IF DivisionStops(op, v[1], v[3]) THEN 0 ELSE Apply(op, v[1], v[3]),
                arg |-> [state EXCEPT !.stopped = @ \/ DivisionStops(op, v[1], v[3])]]
          [] yyruleno = n + 1 -> [minor |-> -v[2] - 1, arg |-> state]
          [] yyruleno = n + 2 -> [minor |-> Truth(v[2] = 0), arg |-> state]
          [] yyruleno = n + 3 -> [minor |-> v[2], arg |-> state]
          [] yyruleno = n + 4 -> [minor |-> v[1], arg |-> state]

syntax_error(state) == [state EXCEPT !.error = TRUE]

INSTANCE Lempar

\* A file is smaller than the numbers size_t counts, its cursor in or just past it.
ASSUME CalculatorAssumption ==
    /\ YYSTACKDEPTH \in Nat \ {0}
    /\ \A t \in ParserTables : WellFormed(t)
    /\ Inputs \subseteq Seq(STRING)
    /\ \A b \in Buffers :
         b.size \in Nat /\ b.cursor \in 0 .. b.size /\ b.size + 8 < Modulus

(***************************************************************************)
(* Reading the input.                                                      *)
(***************************************************************************)

VARIABLES
    tables,  \* yy_action, yy_lookahead and the rest, which never change
    input,   \* the expression
    buffer,  \* the file that @ and # read
    at,      \* where input points: 1 is the first character
    parser,  \* what ParseAlloc returned
    token,   \* the token given to Parse
    ret,     \* what calculator_eval returns, or "running", or why it stopped
    result   \* what *result is set to

vars == <<tables, input, buffer, at, parser, token, ret, result>>

Char(i) == IF i \in DOMAIN input THEN input[i] ELSE "NUL"

\* The characters strtoull takes for each digit.
Digit == <<{"0"}, {"1"}, {"2"}, {"3"}, {"4"}, {"5"}, {"6"}, {"7"}, {"8"}, {"9"},
           {"a", "A"}, {"b", "B"}, {"c", "C"}, {"d", "D"}, {"e", "E"}, {"f", "F"}>>
IsDigit(c, base) == \E d \in 1 .. base : c \in Digit[d]
DigitValue(c) == (CHOOSE d \in DOMAIN Digit : c \in Digit[d]) - 1

Space == {" ", "\t", "\n", "\r"}

\* The first place from i on that is not one of these characters.
Skip(i, Skipped(_)) ==
    CHOOSE j \in i .. Len(input) + 1 :
      ~Skipped(Char(j)) /\ \A k \in i .. j - 1 : Skipped(Char(k))

\* The value of the digits from one place to another, no more than one that does
\* not fit.
Magnitude(digits, end, base) ==
    LET upTo[j \in digits .. end] ==
          IF j = digits THEN 0
          ELSE LET n == upTo[j - 1] * base + DigitValue(Char(j - 1))
               IN  IF n < Values(8) THEN n ELSE Values(8)
    IN  upTo[end]

\* strtoull from i: where the number ends, i when there is none, and its value.
\* What does not fit is the greatest value.
OfDigits(i, negative, digits, end, base) ==
    LET n == Magnitude(digits, end, base)
    IN  IF end = digits THEN [end |-> i, value |-> 0]
        ELSE [end |-> end,
              value |-> Int64(IF n = Values(8) THEN -1 ELSE IF negative THEN -n ELSE n)]

\* White space and a sign may precede the digits, and 0x when they are
\* hexadecimal.
AfterSign(sign) == IF Char(sign) \in {"+", "-"} THEN sign + 1 ELSE sign
AfterPrefix(first, base) ==
    IF /\ base = 16
       /\ Char(first) = "0" /\ Char(first + 1) \in {"x", "X"}
       /\ IsDigit(Char(first + 2), base)
    THEN first + 2 ELSE first
AfterDigits(digits, base) == Skip(digits, LAMBDA c : IsDigit(c, base))

OfSigned(i, sign, base) ==
    LET digits == AfterPrefix(AfterSign(sign), base)
    IN  OfDigits(i, Char(sign) = "-", digits, AfterDigits(digits, base), base)

strtoull(i, base) == OfSigned(i, Skip(i, LAMBDA c : c \in Space), base)

\* What is found in the input: a token and where the next one starts, or
\* nothing but a place to go on from, or an error.
Found(major, minor, next) == [kind |-> "token", major |-> major, minor |-> minor, next |-> next]
Nothing(next) == [kind |-> "nothing", major |-> 0, minor |-> 0, next |-> next]
Wrong == [kind |-> "wrong", major |-> 0, minor |-> 0, next |-> 1]

Number(i, base) == LET n == strtoull(i, base) IN Found(INTEGER, n.value, n.end)

\* Mutant: the zero is not passed over.
StuckZero(i) == Found(INTEGER, 0, i)

\* Mutant: what follows the zero is passed over with it.
PassingZero(i) == Found(INTEGER, 0, i + 2)

\* A 0 before a space or the end of the input.
LoneZero(i) == Found(INTEGER, 0, i + 1)

\* A number that starts with 0: the next character says in which base it is,
\* and without one of these it is octal, from that character on.  After n and x
\* digits that are missing count as 0: the check for them compares the wrong
\* places and never fails.
Zero(i) ==
    LET c == Char(i + 1)
    IN  CASE c \in {"NUL", " "} -> LoneZero(i)
          [] c = "n" -> Number(i + 2, 10)
          [] c = "x" -> Number(i + 2, 16)
          [] c = "b" -> IF strtoull(i + 2, 2).end = i + 2 THEN Wrong ELSE Number(i + 2, 2)
          [] OTHER -> IF strtoull(i + 1, 8).end = i + 1 THEN Wrong ELSE Number(i + 1, 8)

OfOneCharacter ==
       {<<"+", PLUS>>, <<"-", MINUS>>, <<"*", TIMES>>, <<"/", DIVIDE>>, <<"%", REMAINDER>>,
        <<"<", LT>>, <<">", GT>>, <<"!", NOT>>, <<"&", BIT_AND>>, <<"|", BIT_OR>>,
        <<"^", BIT_XOR>>, <<"~", BIT_NOT>>, <<"(", LPAR>>, <<")", RPAR>>}
OfTwoCharacters ==
       {<<"<", "<", LEFT_SHIFT>>, <<"<", "=", LT_EQ>>, <<">", ">", RIGHT_SHIFT>>,
        <<">", "=", GT_EQ>>, <<"=", "=", EQEQ>>, <<"!", "=", NOT_EQEQ>>,
        <<"&", "&", LOGICAL_AND>>, <<"|", "|", LOGICAL_OR>>}

\* An operator of two characters, or else of one.
Operator(i) ==
    LET two == {o \in OfTwoCharacters : o[1] = Char(i) /\ o[2] = Char(i + 1)}
        one == {o \in OfOneCharacter : o[1] = Char(i)}
    IN  IF two # {} THEN Found((CHOOSE o \in two : TRUE)[3], 0, i + 2)
        ELSE IF one # {} THEN Found((CHOOSE o \in one : TRUE)[2], 0, i + 1)
        ELSE Wrong

\* How many bytes a letter after @ or # stands for.
IntegerSizes == {<<"b", 1>>, <<"B", 1>>, <<"s", 2>>, <<"S", 2>>,
                 <<"i", 4>>, <<"I", 4>>, <<"l", 8>>, <<"L", 8>>}

\* @ reads the bytes at the cursor as an unsigned integer, # as a signed one;
\* capitals read it with the most significant byte first.
Read(i) ==
    LET sizes == {s \in IntegerSizes : s[1] = Char(i + 1)}
        n == (CHOOSE s \in sizes : TRUE)[2]
        bigEndian == Char(i + 1) \in {"B", "S", "I", "L"}
    IN  IF sizes = {} \/ ~CanRead(buffer, n) THEN Wrong
        ELSE Found(INTEGER,
                   Int64(IF Char(i) = "@" THEN ReadUnsigned(buffer, n, bigEndian)
                                          ELSE ReadSigned(buffer, n, bigEndian)),
                   i + 2)

\* A hexadecimal number without prefix starts with one of these: no capitals.
Leading == {"1", "2", "3", "4", "5", "6", "7", "8", "9", "a", "b", "c", "d", "e", "f"}

\* The body of the loop over the input.
Lexeme(i) ==
    LET c == Char(i)
    IN  CASE c = "0" -> Zero(i)
          [] c \in Leading -> Number(i, 16)
          [] c \in {"@", "#"} -> Read(i)
          [] c \in Space -> Nothing(i + 1)
          [] OTHER -> Operator(i)

(***************************************************************************)
(* calculator_eval.                                                        *)
(***************************************************************************)

EndOfInput == [major |-> 0, minor |-> 0]

\* A call on an expression.
Called(t, expression) ==
    /\ tables = t
    /\ input = expression
    /\ buffer \in Buffers
    /\ at = 1
    /\ parser = ParseInit([result |-> 0, error |-> FALSE, stopped |-> FALSE])
    /\ token = EndOfInput
    /\ ret = "running"
    /\ result = 0

Init == \E t \in ParserTables, expression \in Inputs : Called(t, expression)

\* What has been found goes to the parser, or ends the call.
Take(found) ==
    /\ at' = IF found.kind = "wrong" THEN at ELSE found.next
    /\ ret' = IF found.kind = "wrong" THEN "1" ELSE ret
    /\ parser' = IF found.kind = "token" THEN Offer(parser) ELSE parser
    /\ token' = IF found.kind = "token"
                THEN [major |-> found.major, minor |-> found.minor] ELSE token

\* The loop goes round once; the parser is not freed on an error.
Lex ==
    /\ ret = "running" /\ ~parser.busy
    /\ at <= Len(input)
    /\ Take(Lexeme(at))
    /\ UNCHANGED <<tables, input, buffer, result>>

\* A round of the loop in Parse.  After the last one for the end of the input
\* the parser is freed and calculator_eval returns.
Parse ==
    /\ ret = "running" /\ parser.busy
    /\ parser' = Once(tables, parser, token.major, token.minor)
    /\ LET over == parser'.ok /\ ~parser'.busy /\ token.major = 0
       IN  /\ ret' = CASE ~parser'.ok -> "aborted"
                       [] parser'.ok /\ parser'.arg.stopped -> "stopped"
                       [] over /\ ~parser'.arg.stopped ->
                            IF parser'.arg.error THEN "1" ELSE "0"
                       [] OTHER -> ret
           /\ result' = IF ret' = "0" THEN parser'.arg.result ELSE result
    /\ UNCHANGED <<tables, input, buffer, at, token>>

\* The loop is over: the end of the input is given to Parse.
End ==
    /\ ret = "running" /\ ~parser.busy
    /\ at > Len(input)
    /\ token' = EndOfInput
    /\ parser' = Offer(parser)
    /\ UNCHANGED <<tables, input, buffer, at, ret, result>>

Next == Lex \/ Parse \/ End

\* The program goes on: WF_vars(Next), with its ENABLED <<Next>>_vars replaced
\* by what it amounts to, since a step is possible exactly until ret is set.
Fairness == []<><<Next>>_vars \/ []<>(ret # "running")

Spec == Init /\ [][Next]_vars /\ Fairness

-----------------------------------------------------------------------------

(***************************************************************************)
(* The input is not read beyond what ends it, whatever a number, a prefix  *)
(* or a letter is cut off by, the file is read within its size, and the    *)
(* parser's stack keeps to its entries.  About the pointer arithmetic of   *)
(* calculator_eval, buffer_read and yy_shift.                              *)
(***************************************************************************)
InBounds ==
    /\ at \in 1 .. Len(input) + 1
    /\ \A n \in {1, 2, 4, 8} : CanRead(buffer, n) => buffer.cursor + n <= buffer.size
    /\ Len(parser.stack) \in 0 .. YYSTACKDEPTH

\* calculator_eval returns, or the program stops on a division: neither the
\* loop over the input nor the one in Parse goes on for ever.
Terminates == <>(ret # "running")

=============================================================================
