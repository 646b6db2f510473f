--------------------------- MODULE CalculatorProofs ---------------------------
(***************************************************************************)
(* calculator_eval keeps to its input, to the file and to the parser's     *)
(* stack, for every expression, every file and any well-formed tables.     *)
(***************************************************************************)
EXTENDS Calculator, SequenceTheorems, WellFoundedInduction, TLAPS

(***************************************************************************)
(* The parser: a record whose stack holds states and pending reductions    *)
(* that the tables know.                                                   *)
(***************************************************************************)

Records(S, C, A, B, K) == [stack : Seq(S), yyerrcnt : C, arg : A, busy : B, ok : K]

Known(T, S) == \A e \in S : e.stateno \in 0 .. T.YY_MIN_REDUCE + T.YYNRULE - 1

IsStack(T, s) == \E S : s \in Seq(S) /\ Known(T, S)

IsParser(T, p) == IsStack(T, p.stack) /\ \E S, C, A, B, K : p \in Records(S, C, A, B, K)

\* While Parse may be called the stack is neither empty nor over its limit.
Sound(T, p) == IsParser(T, p) /\ Len(p.stack) \in 1 .. YYSTACKDEPTH

LEMMA SetStack ==
    ASSUME NEW T, NEW p, IsParser(T, p), NEW s, IsStack(T, s)
    PROVE  LET q == [p EXCEPT !.stack = s]
           IN  IsParser(T, q) /\ q.stack = s /\ q.ok = p.ok
<1>1. PICK S, C, A, B, K : p \in Records(S, C, A, B, K)
  BY DEF IsParser
<1>2. PICK R : s \in Seq(R)
  BY DEF IsStack
<1>3. [p EXCEPT !.stack = s] \in Records(R, C, A, B, K)
  BY <1>1, <1>2 DEF Records
<1>4. [p EXCEPT !.stack = s].stack = s /\ [p EXCEPT !.stack = s].ok = p.ok
  BY <1>1 DEF Records
<1> QED
  BY <1>3, <1>4 DEF IsParser

LEMMA SetErrcnt ==
    ASSUME NEW T, NEW p, IsParser(T, p), NEW v
    PROVE  LET q == [p EXCEPT !.yyerrcnt = v]
           IN  IsParser(T, q) /\ q.stack = p.stack /\ q.ok = p.ok
<1>1. PICK S, C, A, B, K : p \in Records(S, C, A, B, K)
  BY DEF IsParser
<1>2. [p EXCEPT !.yyerrcnt = v] \in Records(S, {v}, A, B, K)
  BY <1>1 DEF Records
<1>3. [p EXCEPT !.yyerrcnt = v].stack = p.stack /\ [p EXCEPT !.yyerrcnt = v].ok = p.ok
  BY <1>1 DEF Records
<1> QED
  BY <1>2, <1>3 DEF IsParser

LEMMA SetArg ==
    ASSUME NEW T, NEW p, IsParser(T, p), NEW v
    PROVE  LET q == [p EXCEPT !.arg = v]
           IN  IsParser(T, q) /\ q.stack = p.stack /\ q.ok = p.ok
<1>1. PICK S, C, A, B, K : p \in Records(S, C, A, B, K)
  BY DEF IsParser
<1>2. [p EXCEPT !.arg = v] \in Records(S, C, {v}, B, K)
  BY <1>1 DEF Records
<1>3. [p EXCEPT !.arg = v].stack = p.stack /\ [p EXCEPT !.arg = v].ok = p.ok
  BY <1>1 DEF Records
<1> QED
  BY <1>2, <1>3 DEF IsParser

LEMMA SetBusy ==
    ASSUME NEW T, NEW p, IsParser(T, p), NEW v
    PROVE  LET q == [p EXCEPT !.busy = v]
           IN  IsParser(T, q) /\ q.stack = p.stack /\ q.ok = p.ok
<1>1. PICK S, C, A, B, K : p \in Records(S, C, A, B, K)
  BY DEF IsParser
<1>2. [p EXCEPT !.busy = v] \in Records(S, C, A, {v}, K)
  BY <1>1 DEF Records
<1>3. [p EXCEPT !.busy = v].stack = p.stack /\ [p EXCEPT !.busy = v].ok = p.ok
  BY <1>1 DEF Records
<1> QED
  BY <1>2, <1>3 DEF IsParser

LEMMA Asserted ==
    ASSUME NEW T, NEW p, IsParser(T, p), NEW v
    PROVE  LET q == Asserting(p, v)
           IN  IsParser(T, q) /\ q.stack = p.stack /\ q.ok = (p.ok /\ v)
<1> DEFINE k == p.ok /\ v
<1>1. PICK S, C, A, B, K : p \in Records(S, C, A, B, K)
  BY DEF IsParser
<1>2. [p EXCEPT !.ok = k] \in Records(S, C, A, B, {k})
  BY <1>1 DEF Records
<1>3. [p EXCEPT !.ok = k].stack = p.stack /\ [p EXCEPT !.ok = k].ok = k
  BY <1>1 DEF Records
<1>4. Asserting(p, v) = [p EXCEPT !.ok = k]
  BY DEF Asserting
<1> QED
  BY <1>2, <1>3, <1>4 DEF IsParser

-----------------------------------------------------------------------------
(***************************************************************************)
(* Stacks.                                                                 *)
(***************************************************************************)

LEMMA StateOnStack ==
    ASSUME NEW T, NEW s, IsStack(T, s), NEW i \in 1 .. Len(s)
    PROVE  s[i].stateno \in 0 .. T.YY_MIN_REDUCE + T.YYNRULE - 1
  BY ElementOfSeq DEF IsStack, Known

LEMMA Pushed ==
    ASSUME NEW T, NEW s, IsStack(T, s), NEW e,
           e.stateno \in 0 .. T.YY_MIN_REDUCE + T.YYNRULE - 1
    PROVE  IsStack(T, Append(s, e)) /\ Len(Append(s, e)) = Len(s) + 1
<1>1. PICK S : s \in Seq(S) /\ Known(T, S)
  BY DEF IsStack
<1>2. s \in Seq(S \cup {e}) /\ e \in S \cup {e}
  BY <1>1
<1>3. Append(s, e) \in Seq(S \cup {e}) /\ Len(Append(s, e)) = Len(s) + 1
  BY <1>2, AppendProperties
<1>4. Known(T, S \cup {e})
  BY <1>1 DEF Known
<1> QED
  BY <1>3, <1>4 DEF IsStack

LEMMA Popped ==
    ASSUME NEW T, NEW s, IsStack(T, s), NEW n \in 0 .. Len(s)
    PROVE  IsStack(T, SubSeq(s, 1, n)) /\ Len(SubSeq(s, 1, n)) = n
<1>1. PICK S : s \in Seq(S) /\ Known(T, S)
  BY DEF IsStack
<1>2. SubSeq(s, 1, n) \in Seq(S) /\ Len(SubSeq(s, 1, n)) = n
  BY <1>1, SubSeqProperties
<1> QED
  BY <1>1, <1>2 DEF IsStack

LEMMA AllPopped ==
    ASSUME NEW T, NEW p, IsParser(T, p), Len(p.stack) >= 1, YYSTACKDEPTH \in Nat \ {0}
    PROVE  Sound(T, PopAll(p)) /\ PopAll(p).ok = p.ok
<1>1. PICK S : p.stack \in Seq(S) /\ Known(T, S)
  BY DEF IsParser, IsStack
<1>2. p.stack[1] \in S
  <2>1. 1 \in 1 .. Len(p.stack)
    BY <1>1, LenProperties
  <2> QED
    BY <1>1, <2>1, ElementOfSeq
<1>3. IsStack(T, <<p.stack[1]>>) /\ Len(<<p.stack[1]>>) = 1
  BY <1>1, <1>2 DEF IsStack
<1> QED
  BY <1>3, SetStack DEF PopAll, Sound

-----------------------------------------------------------------------------
(***************************************************************************)
(* A round of the loop in Parse.                                           *)
(***************************************************************************)

LEMMA ShiftSound ==
    ASSUME NEW T, WellFormed(T), NEW p, Sound(T, p),
           NEW n \in 0 .. YY_MAX_SHIFTREDUCE(T), NEW major, NEW minor
    PROVE  Sound(T, yy_shift(T, p, n, major, minor))
           /\ yy_shift(T, p, n, major, minor).ok = p.ok
<1>1. YYSTACKDEPTH \in Nat \ {0}
  BY CalculatorAssumption
<1>2. CASE Full(p)
  BY <1>1, <1>2, AllPopped DEF Sound, yy_shift
<1>3. CASE ~Full(p)
  <2> DEFINE e == [stateno |-> IF n > YY_MAX_SHIFT(T)
                               THEN n + T.YY_MIN_REDUCE - T.YY_MIN_SHIFTREDUCE
                               ELSE n,
                   major |-> major, minor |-> minor]
             s == Append(p.stack, e)
             q == [p EXCEPT !.stack = s]
  <2>1. e.stateno \in 0 .. T.YY_MIN_REDUCE + T.YYNRULE - 1
    BY DEF WellFormed, YY_MAX_SHIFT, YY_MAX_SHIFTREDUCE
  <2>2. yy_shift(T, p, n, major, minor) = q
    BY <1>3 DEF yy_shift
  <2>3. IsStack(T, p.stack) /\ IsParser(T, p)
    BY DEF Sound, IsParser
  <2> HIDE DEF e
  <2>4. IsStack(T, s) /\ Len(s) = Len(p.stack) + 1
    BY <2>1, <2>3, Pushed
  <2> HIDE DEF s
  <2>5. IsParser(T, q) /\ q.stack = s /\ q.ok = p.ok
    BY <2>3, <2>4, SetStack
  <2> HIDE DEF q
  <2>6. Len(q.stack) \in 1 .. YYSTACKDEPTH
    BY <1>1, <1>3, <2>4, <2>5 DEF Sound, Full
  <2> QED
    BY <2>2, <2>5, <2>6 DEF Sound
<1> QED
  BY <1>2, <1>3

LEMMA ReduceSound ==
    ASSUME NEW T, WellFormed(T), NEW p, Sound(T, p), NEW r \in 0 .. T.YYNRULE - 1
    PROVE  Sound(T, yy_reduce(T, p, r))
<1> DEFINE size == -T.yyRuleInfoNRhs[r]
           rhs == SubSeq(p.stack, Len(p.stack) - size + 1, Len(p.stack))
           below == SubSeq(p.stack, 1, Len(p.stack) - size)
           ran == RuleCode(r, p.arg, [i \in DOMAIN rhs |-> rhs[i].minor])
           yygoto == T.yyRuleInfoLhs[r]
           yyact == yy_find_reduce_action(T, below[Len(below)].stateno, yygoto)
           e == [stateno |-> yyact, major |-> yygoto, minor |-> ran.minor]
           q == [p EXCEPT !.arg = ran.arg, !.stack = Append(below, e)]
           fine == ~(yyact > YY_MAX_SHIFT(T) /\ yyact <= YY_MAX_SHIFTREDUCE(T))
                   /\ yyact # T.YY_ERROR_ACTION
           held == size < Len(p.stack)
                   /\ ReduceAsserts(T, below[Len(below)].stateno, yygoto)
<1>1. YYSTACKDEPTH \in Nat \ {0} /\ size \in Nat
  BY CalculatorAssumption DEF WellFormed
<1>2. IsStack(T, p.stack) /\ IsParser(T, p) /\ Len(p.stack) \in 1 .. YYSTACKDEPTH
  BY DEF Sound, IsParser
<1>3. yy_reduce(T, p, r) = IF size = 0 /\ Full(p) THEN PopAll(p)
                           ELSE IF ~held THEN Asserting(p, FALSE)
                           ELSE Asserting(q, fine)
  BY DEF yy_reduce
<1>4. ASSUME held PROVE yyact \in 0 .. T.YY_MIN_REDUCE + T.YYNRULE - 1
  BY <1>4 DEF ReduceAsserts, yy_find_reduce_action, WellFormed
<1>5. e.stateno = yyact /\ (held => size < Len(p.stack))
  OBVIOUS
<1> HIDE DEF size, fine, e, yyact, ran, held
<1>6. CASE size = 0 /\ Full(p)
  BY <1>1, <1>2, <1>3, <1>6, AllPopped
<1>7. CASE ~(size = 0 /\ Full(p)) /\ ~held
  <2>1. yy_reduce(T, p, r) = Asserting(p, FALSE)
    BY <1>3, <1>7
  <2>2. IsParser(T, Asserting(p, FALSE)) /\ Asserting(p, FALSE).stack = p.stack
    BY <1>2, Asserted
  <2> QED
    BY <1>2, <2>1, <2>2 DEF Sound
<1>8. CASE ~(size = 0 /\ Full(p)) /\ held
  <2> DEFINE s == Append(below, e)
             a == [p EXCEPT !.arg = ran.arg]
             b == [a EXCEPT !.stack = s]
  <2>1. Len(p.stack) - size \in 0 .. Len(p.stack) /\ Len(p.stack) - size >= 1
    BY <1>1, <1>2, <1>5, <1>8
  <2>2. IsStack(T, below) /\ Len(below) = Len(p.stack) - size
    BY <1>2, <2>1, Popped
  <2> HIDE DEF below
  <2>3. IsStack(T, s) /\ Len(s) = Len(p.stack) - size + 1
    BY <1>4, <1>5, <1>8, <2>2, Pushed
  <2>4. Len(s) \in 1 .. YYSTACKDEPTH
    BY <1>1, <1>2, <1>8, <2>1, <2>3 DEF Full
  <2>5. q = b
    OBVIOUS
  <2> HIDE DEF s, q
  <2>6. IsParser(T, a)
    BY <1>2, SetArg
  <2> HIDE DEF a
  <2>7. IsParser(T, b) /\ b.stack = s
    BY <2>3, <2>6, SetStack
  <2> HIDE DEF b
  <2>8. Sound(T, Asserting(b, fine))
    BY <2>4, <2>7, Asserted DEF Sound
  <2> QED
    BY <1>3, <1>8, <2>5, <2>8
<1> QED
  BY <1>6, <1>7, <1>8

LEMMA AcceptSound ==
    ASSUME NEW T, NEW p, Sound(T, p)
    PROVE  LET q == yy_accept(p)
           IN  /\ IsParser(T, q)
               /\ Len(q.stack) \in 0 .. YYSTACKDEPTH
               /\ q.ok => Len(q.stack) >= 1
<1> DEFINE s == SubSeq(p.stack, 1, Len(p.stack) - 1)
           a == [p EXCEPT !.stack = s]
           b == [a EXCEPT !.yyerrcnt = -1]
           c == [b EXCEPT !.busy = FALSE]
<1>1. YYSTACKDEPTH \in Nat \ {0}
  BY CalculatorAssumption
<1>2. IsStack(T, p.stack) /\ IsParser(T, p) /\ Len(p.stack) \in 1 .. YYSTACKDEPTH
  BY DEF Sound, IsParser
<1>3. Len(p.stack) - 1 \in 0 .. Len(p.stack)
  BY <1>1, <1>2
<1>4. IsStack(T, s) /\ Len(s) = Len(p.stack) - 1
  BY <1>2, <1>3, Popped
<1>5. yy_accept(p) = Asserting([a EXCEPT !.yyerrcnt = -1, !.busy = FALSE], AtBottom(a))
  BY DEF yy_accept
<1>6. [a EXCEPT !.yyerrcnt = -1, !.busy = FALSE] = c
  OBVIOUS
<1> HIDE DEF s
<1>7. IsParser(T, a) /\ a.stack = s
  BY <1>2, <1>4, SetStack
<1> HIDE DEF a
<1>8. IsParser(T, b) /\ b.stack = s
  BY <1>7, SetErrcnt
<1> HIDE DEF b
<1>9. IsParser(T, c) /\ c.stack = s
  BY <1>8, SetBusy
<1> HIDE DEF c
<1>10. LET q == Asserting(c, AtBottom(a))
       IN  IsParser(T, q) /\ q.stack = s /\ (q.ok => AtBottom(a))
  BY <1>9, Asserted
<1>11. AtBottom(a) => Len(s) = 1
  BY <1>7 DEF AtBottom
<1>12. Len(s) \in 0 .. YYSTACKDEPTH /\ (Len(s) = 1 => Len(s) >= 1)
  <2>1. ASSUME NEW n \in 1 .. YYSTACKDEPTH
        PROVE  n - 1 \in 0 .. YYSTACKDEPTH /\ (n - 1 = 1 => n - 1 >= 1)
    BY <1>1
  <2> QED
    BY <1>2, <1>4, <2>1
<1> QED
  BY <1>5, <1>6, <1>10, <1>11, <1>12

LEMMA ErrorSound ==
    ASSUME NEW T, NEW p, Sound(T, p), NEW yymajor
    PROVE  Sound(T, Error(p, yymajor))
<1> DEFINE v == IF p.yyerrcnt <= 0 THEN syntax_error(p.arg) ELSE p.arg
           a == [p EXCEPT !.arg = v]
           b == [a EXCEPT !.yyerrcnt = 3]
           c == [b EXCEPT !.busy = FALSE]
           q == [p EXCEPT !.arg = IF p.yyerrcnt <= 0 THEN syntax_error(@) ELSE @,
                          !.yyerrcnt = 3, !.busy = FALSE]
<1>1. YYSTACKDEPTH \in Nat \ {0} /\ IsParser(T, p) /\ Len(p.stack) \in 1 .. YYSTACKDEPTH
  BY CalculatorAssumption DEF Sound
<1>2. Error(p, yymajor) = IF yymajor = 0 THEN [PopAll(q) EXCEPT !.yyerrcnt = -1] ELSE q
  BY DEF Error
<1>3. q = c
  OBVIOUS
<1> HIDE DEF v, q
<1>4. IsParser(T, a) /\ a.stack = p.stack
  BY <1>1, SetArg
<1> HIDE DEF a
<1>5. IsParser(T, b) /\ b.stack = p.stack
  BY <1>4, SetErrcnt
<1> HIDE DEF b
<1>6. Sound(T, q)
  BY <1>1, <1>3, <1>5, SetBusy DEF Sound
<1> HIDE DEF c
<1>7. Sound(T, PopAll(q))
  BY <1>1, <1>6, AllPopped DEF Sound
<1>8. Sound(T, [PopAll(q) EXCEPT !.yyerrcnt = -1])
  BY <1>7, SetErrcnt DEF Sound
<1> QED
  BY <1>2, <1>6, <1>8

LEMMA OnceSound ==
    ASSUME NEW T, WellFormed(T), NEW p, Sound(T, p), NEW yymajor, NEW yyminor
    PROVE  LET q == Once(T, p, yymajor, yyminor)
           IN  /\ IsParser(T, q)
               /\ Len(q.stack) \in 0 .. YYSTACKDEPTH
               /\ q.ok => Len(q.stack) >= 1
<1> DEFINE Kept(q) == /\ IsParser(T, q)
                      /\ Len(q.stack) \in 0 .. YYSTACKDEPTH
                      /\ q.ok => Len(q.stack) >= 1
           stateno == yytos(p).stateno
           yyact == yy_find_shift_action(T, yymajor, stateno)
           MinReduce == T.YY_MIN_REDUCE
           Reduced == yy_reduce(T, p, yyact - MinReduce)
           Shifted == yy_shift(T, p, yyact, yymajor, yyminor)
<1>1. YYSTACKDEPTH \in Nat \ {0}
  BY CalculatorAssumption
<1>2. ASSUME NEW n \in 1 .. YYSTACKDEPTH
      PROVE  n \in 0 .. YYSTACKDEPTH /\ n >= 1
  BY <1>1
<1>3. ASSUME NEW q, Sound(T, q)
      PROVE  Kept(q)
  BY <1>2, <1>3 DEF Sound
<1>4. stateno \in 0 .. T.YY_MIN_REDUCE + T.YYNRULE - 1
  <2>1. IsStack(T, p.stack) /\ Len(p.stack) \in 1 .. Len(p.stack)
    BY <1>1 DEF Sound, IsParser
  <2> QED
    BY <2>1, StateOnStack DEF yytos
<1>5. ASSUME ShiftAsserts(T, yymajor, stateno)
      PROVE  yyact \in 0 .. T.YY_MIN_REDUCE + T.YYNRULE - 1
  BY <1>4, <1>5 DEF yy_find_shift_action, ShiftAsserts, WellFormed, YY_MAX_SHIFT
<1>6. CASE ~ShiftAsserts(T, yymajor, stateno)
  <2>1. Once(T, p, yymajor, yyminor) = [Asserting(p, FALSE) EXCEPT !.busy = FALSE]
    BY <1>6 DEF Once
  <2>2. Sound(T, Asserting(p, FALSE))
    BY Asserted DEF Sound
  <2>3. Sound(T, [Asserting(p, FALSE) EXCEPT !.busy = FALSE])
    BY <2>2, SetBusy DEF Sound
  <2> QED
    BY <1>3, <2>1, <2>3
<1>7. CASE ShiftAsserts(T, yymajor, stateno) /\ yyact >= MinReduce
  <2> DEFINE again == Reduced.ok /\ ~AtBottom(Reduced)
  <2>1. yyact - MinReduce \in 0 .. T.YYNRULE - 1
    BY <1>5, <1>7 DEF WellFormed
  <2>2. Sound(T, Reduced)
    BY <2>1, ReduceSound
  <2>3. Once(T, p, yymajor, yyminor) = [Reduced EXCEPT !.busy = again]
    BY <1>7 DEF Once
  <2> HIDE DEF Reduced, again
  <2>4. Sound(T, [Reduced EXCEPT !.busy = again])
    BY <2>2, SetBusy DEF Sound
  <2> QED
    BY <1>3, <2>3, <2>4
<1>8. CASE /\ ShiftAsserts(T, yymajor, stateno)
           /\ ~(yyact >= MinReduce) /\ yyact <= YY_MAX_SHIFTREDUCE(T)
  <2> DEFINE a == [Shifted EXCEPT !.yyerrcnt = Shifted.yyerrcnt - 1]
             b == [a EXCEPT !.busy = FALSE]
  <2>1. yyact \in 0 .. YY_MAX_SHIFTREDUCE(T)
    BY <1>5, <1>8 DEF WellFormed, YY_MAX_SHIFTREDUCE
  <2>2. Sound(T, Shifted)
    BY <2>1, ShiftSound
  <2>3. Once(T, p, yymajor, yyminor) = [Shifted EXCEPT !.yyerrcnt = @ - 1, !.busy = FALSE]
    BY <1>8 DEF Once
  <2> HIDE DEF Shifted
  <2>4. [Shifted EXCEPT !.yyerrcnt = @ - 1, !.busy = FALSE] = b
    OBVIOUS
  <2>5. Sound(T, a)
    BY <2>2, SetErrcnt DEF Sound
  <2> HIDE DEF a
  <2>6. Sound(T, b)
    BY <2>5, SetBusy DEF Sound
  <2> QED
    BY <1>3, <2>3, <2>4, <2>6
<1>9. CASE /\ ShiftAsserts(T, yymajor, stateno)
           /\ ~(yyact >= MinReduce) /\ ~(yyact <= YY_MAX_SHIFTREDUCE(T))
           /\ yyact = T.YY_ACCEPT_ACTION
  <2>1. Once(T, p, yymajor, yyminor) = yy_accept(p)
    BY <1>9 DEF Once
  <2> QED
    BY <2>1, AcceptSound
<1>10. CASE /\ ShiftAsserts(T, yymajor, stateno)
            /\ ~(yyact >= MinReduce) /\ ~(yyact <= YY_MAX_SHIFTREDUCE(T))
            /\ yyact # T.YY_ACCEPT_ACTION
  <2> DEFINE refused == yyact = T.YY_ERROR_ACTION
  <2>1. Once(T, p, yymajor, yyminor) = Asserting(Error(p, yymajor), refused)
    BY <1>10 DEF Once
  <2> HIDE DEF refused
  <2>2. Sound(T, Error(p, yymajor))
    BY ErrorSound
  <2>3. Sound(T, Asserting(Error(p, yymajor), refused))
    BY <2>2, Asserted DEF Sound
  <2> QED
    BY <1>3, <2>1, <2>3
<1> QED
  BY <1>6, <1>7, <1>8, <1>9, <1>10

-----------------------------------------------------------------------------
(***************************************************************************)
(* Reading the input.                                                      *)
(***************************************************************************)

LEMMA FirstOutside ==
    ASSUME NEW i \in Nat, NEW n \in Nat, i <= n, NEW P, n \notin P
    PROVE  \E j \in i .. n : j \notin P /\ \A k \in i .. j - 1 : k \in P
<1> DEFINE S == {j \in i .. n : j \notin P}
<1>1. S \in SUBSET Nat /\ n \in S
  OBVIOUS
<1>2. PICK m \in S : \A j \in S : ~ (<<j, m>> \in OpToRel(<, Nat))
  BY <1>1, NatLessThanWellFounded, WFMin
<1>3. ASSUME NEW k \in i .. m - 1 PROVE k \in P
  <2>1. SUFFICES ASSUME k \notin P PROVE FALSE
    OBVIOUS
  <2>2. m \in i .. n /\ k \in S /\ k < m /\ k \in Nat /\ m \in Nat
    BY <2>1
  <2>3. <<k, m>> \in OpToRel(<, Nat)
    BY <2>2 DEF OpToRel
  <2> QED
    BY <1>2, <2>2, <2>3
<1> QED
  BY <1>3

\* A place in the input, or the one where it ends.
Place == 1 .. Len(input) + 1

LEMMA CharInside ==
    ASSUME input \in Seq(STRING), NEW i \in Nat \ {0}, Char(i) # "NUL"
    PROVE  i \in 1 .. Len(input)
  BY DEF Char

LEMMA EndIsNUL ==
    ASSUME input \in Seq(STRING)
    PROVE  Len(input) + 1 \in Place /\ Len(input) \in Nat /\ Char(Len(input) + 1) = "NUL"
  BY DEF Char, Place

LEMMA NULIsNoDigit ==
    ASSUME NEW base \in 1 .. 16
    PROVE  ~IsDigit("NUL", base)
  BY DEF IsDigit, Digit

LEMMA NULIsNoSpace == "NUL" \notin Space
  BY DEF Space

LEMMA SpacesSkipped ==
    ASSUME input \in Seq(STRING), NEW i \in Place
    PROVE  /\ Skip(i, LAMBDA c : c \in Space) \in i .. Len(input) + 1
           /\ Char(i) \notin Space => Skip(i, LAMBDA c : c \in Space) = i
<1> DEFINE P == {k \in Nat : Char(k) \in Space}
           j == Skip(i, LAMBDA c : c \in Space)
<1>1. Len(input) + 1 \notin P /\ i \in Nat /\ Len(input) + 1 \in Nat /\ i <= Len(input) + 1
  BY EndIsNUL, NULIsNoSpace DEF Place
<1>2. \E m \in i .. Len(input) + 1 : m \notin P /\ \A k \in i .. m - 1 : k \in P
  BY <1>1, FirstOutside
<1>3. \E m \in i .. Len(input) + 1 :
        ~(Char(m) \in Space) /\ \A k \in i .. m - 1 : Char(k) \in Space
  BY <1>1, <1>2
<1>4. /\ j \in i .. Len(input) + 1
      /\ \A k \in i .. j - 1 : Char(k) \in Space
  BY <1>3 DEF Skip
<1> HIDE DEF j
<1>5. ASSUME Char(i) \notin Space PROVE j = i
  <2>1. i \notin i .. j - 1
    BY <1>4, <1>5
  <2> QED
    BY <1>1, <1>4, <2>1
<1> QED
  BY <1>4, <1>5 DEF j

LEMMA DigitsSkipped ==
    ASSUME input \in Seq(STRING), NEW i \in Place, NEW base \in 1 .. 16
    PROVE  /\ AfterDigits(i, base) \in i .. Len(input) + 1
           /\ IsDigit(Char(i), base) => AfterDigits(i, base) # i
<1> DEFINE P == {k \in Nat : IsDigit(Char(k), base)}
           j == AfterDigits(i, base)
<1>1. Len(input) + 1 \notin P /\ i \in Nat /\ Len(input) + 1 \in Nat /\ i <= Len(input) + 1
  BY EndIsNUL, NULIsNoDigit DEF Place
<1>2. \E m \in i .. Len(input) + 1 : m \notin P /\ \A k \in i .. m - 1 : k \in P
  BY <1>1, FirstOutside
<1>3. \E m \in i .. Len(input) + 1 :
        ~IsDigit(Char(m), base) /\ \A k \in i .. m - 1 : IsDigit(Char(k), base)
  BY <1>1, <1>2
<1>4. j \in i .. Len(input) + 1 /\ ~IsDigit(Char(j), base)
  BY <1>3 DEF AfterDigits, Skip
<1> QED
  BY <1>4

LEMMA SignPassed ==
    ASSUME input \in Seq(STRING), NEW i \in Place
    PROVE  /\ AfterSign(i) \in Place /\ AfterSign(i) >= i
           /\ Char(i) \notin {"+", "-"} => AfterSign(i) = i
<1>1. CASE Char(i) \in {"+", "-"}
  <2>1. Char(i) # "NUL" /\ i \in Nat \ {0}
    BY <1>1 DEF Place
  <2>2. i \in 1 .. Len(input)
    BY <2>1, CharInside
  <2> QED
    BY <1>1, <2>2 DEF AfterSign, Place
<1>2. CASE Char(i) \notin {"+", "-"}
  BY <1>2 DEF AfterSign, Place
<1> QED
  BY <1>1, <1>2

LEMMA PrefixPassed ==
    ASSUME input \in Seq(STRING), NEW i \in Place, NEW base \in 1 .. 16
    PROVE  /\ AfterPrefix(i, base) \in Place /\ AfterPrefix(i, base) >= i
           /\ Char(i) # "0" => AfterPrefix(i, base) = i
<1>1. CASE /\ base = 16
           /\ Char(i) = "0" /\ Char(i + 1) \in {"x", "X"}
           /\ IsDigit(Char(i + 2), base)
  <2>1. Char(i + 2) # "NUL" /\ i + 2 \in Nat \ {0}
    BY <1>1, NULIsNoDigit DEF Place
  <2>2. i + 2 \in 1 .. Len(input)
    BY <2>1, CharInside
  <2> QED
    BY <1>1, <2>2 DEF AfterPrefix, Place
<1>2. CASE ~(/\ base = 16
             /\ Char(i) = "0" /\ Char(i + 1) \in {"x", "X"}
           /\ IsDigit(Char(i + 2), base))
  BY <1>2 DEF AfterPrefix, Place
<1> QED
  BY <1>1, <1>2

\* A number ends where it starts or further on, before the input ends, and it
\* has a digit when its first character is one.
LEMMA NumberEnds ==
    ASSUME input \in Seq(STRING), NEW i \in Place, NEW base \in 1 .. 16
    PROVE  /\ strtoull(i, base).end \in i .. Len(input) + 1
           /\ Char(i) \notin Space \cup {"+", "-", "0"} /\ IsDigit(Char(i), base)
                => strtoull(i, base).end # i
<1> DEFINE sign == Skip(i, LAMBDA c : c \in Space)
           first == AfterSign(sign)
           digits == AfterPrefix(first, base)
           end == AfterDigits(digits, base)
           number == strtoull(i, base)
<1>1. Len(input) \in Nat /\ i \in Nat
  BY EndIsNUL DEF Place
<1>2. number = OfDigits(i, Char(sign) = "-", digits, end, base)
  BY DEF strtoull, OfSigned
<1>3. number.end = IF end = digits THEN i ELSE end
  BY <1>2 DEF OfDigits
<1>4. sign \in i .. Len(input) + 1 /\ (Char(i) \notin Space => sign = i)
  BY SpacesSkipped
<1> HIDE DEF sign, number
<1>5. sign \in Place /\ sign >= i
  BY <1>1, <1>4 DEF Place
<1>6. first \in Place /\ first >= sign /\ (Char(sign) \notin {"+", "-"} => first = sign)
  BY <1>5, SignPassed
<1> HIDE DEF first
<1>7. digits \in Place /\ digits >= first /\ (Char(first) # "0" => digits = first)
  BY <1>6, PrefixPassed
<1> HIDE DEF digits
<1>8. end \in digits .. Len(input) + 1 /\ (IsDigit(Char(digits), base) => end # digits)
  BY <1>7, DigitsSkipped
<1> HIDE DEF end
<1>9. end \in i .. Len(input) + 1 /\ i \in i .. Len(input) + 1
  BY <1>1, <1>5, <1>6, <1>7, <1>8 DEF Place
<1>10. ASSUME Char(i) \notin Space \cup {"+", "-", "0"}, IsDigit(Char(i), base)
       PROVE  number.end # i
  <2>1. sign = i /\ first = i /\ digits = i
    BY <1>4, <1>6, <1>7, <1>10
  <2> QED
    BY <1>3, <1>8, <1>10, <2>1
<1> QED
  BY <1>3, <1>9, <1>10 DEF number

LEMMA ZeroMoves ==
    ASSUME input \in Seq(STRING), NEW i \in 1 .. Len(input), Zero(i).kind # "wrong"
    PROVE  Zero(i).next \in i + 1 .. Len(input) + 1
<1> DEFINE c == Char(i + 1)
<1>1. Len(input) \in Nat /\ i \in Nat /\ i + 1 \in Place /\ i + 1 \in Nat \ {0}
  BY EndIsNUL DEF Place
<1>2. CASE c \in {"NUL", " "}
  <2>1. Zero(i) = LoneZero(i)
    BY <1>2 DEF Zero
  <2> QED
    BY <1>1, <2>1 DEF LoneZero, Found
<1>3. ASSUME c # "NUL" PROVE i + 2 \in Place
  <2>1. i + 1 \in 1 .. Len(input)
    BY <1>1, <1>3, CharInside
  <2> QED
    BY <1>1, <2>1 DEF Place
<1>4. ASSUME NEW j \in {i + 1, i + 2}, j \in Place, NEW base \in 1 .. 16
      PROVE  Number(j, base).next \in i + 1 .. Len(input) + 1
  <2>1. strtoull(j, base).end \in j .. Len(input) + 1
    BY <1>4, NumberEnds
  <2>2. Number(j, base).next = strtoull(j, base).end
    BY DEF Number, Found
  <2> HIDE DEF Number
  <2> QED
    BY <1>1, <2>1, <2>2
<1>5. CASE c = "n"
  <2>1. Zero(i) = Number(i + 2, 10)
    BY <1>5 DEF Zero
  <2> QED
    BY <1>3, <1>4, <1>5, <2>1
<1>6. CASE c = "x"
  <2>1. Zero(i) = Number(i + 2, 16)
    BY <1>6 DEF Zero
  <2> QED
    BY <1>3, <1>4, <1>6, <2>1
<1>7. CASE c = "b"
  <2>1. Zero(i) = IF strtoull(i + 2, 2).end = i + 2 THEN Wrong ELSE Number(i + 2, 2)
    BY <1>7 DEF Zero
  <2>2. Zero(i) = Number(i + 2, 2)
    BY <2>1 DEF Wrong
  <2> QED
    BY <1>3, <1>4, <1>7, <2>2
<1>8. CASE c \notin {"NUL", " ", "n", "x", "b"}
  <2>1. Zero(i) = IF strtoull(i + 1, 8).end = i + 1 THEN Wrong ELSE Number(i + 1, 8)
    BY <1>8 DEF Zero
  <2>2. Zero(i) = Number(i + 1, 8)
    BY <2>1 DEF Wrong
  <2> QED
    BY <1>1, <1>4, <2>2
<1> QED
  BY <1>2, <1>5, <1>6, <1>7, <1>8

LEMMA OperatorMoves ==
    ASSUME input \in Seq(STRING), NEW i \in 1 .. Len(input), Operator(i).kind # "wrong"
    PROVE  Operator(i).next \in i + 1 .. Len(input) + 1
<1> DEFINE two == {o \in OfTwoCharacters : o[1] = Char(i) /\ o[2] = Char(i + 1)}
           one == {o \in OfOneCharacter : o[1] = Char(i)}
           a == (CHOOSE o \in two : TRUE)[3]
           b == (CHOOSE o \in one : TRUE)[2]
<1>1. Len(input) \in Nat /\ i \in Nat /\ i + 1 \in Nat \ {0}
  BY EndIsNUL
<1>2. Operator(i) = IF two # {} THEN Found(a, 0, i + 2)
                    ELSE IF one # {} THEN Found(b, 0, i + 1) ELSE Wrong
  BY DEF Operator
<1>3. \A o \in OfTwoCharacters : o[2] # "NUL"
  BY DEF OfTwoCharacters
<1>4. ASSUME two # {} PROVE i + 1 \in 1 .. Len(input)
  <2>1. Char(i + 1) # "NUL"
    BY <1>3, <1>4
  <2> QED
    BY <1>1, <2>1, CharInside
<1> HIDE DEF two, one, a, b
<1>5. CASE two # {}
  BY <1>1, <1>2, <1>4, <1>5 DEF Found
<1>6. CASE two = {} /\ one # {}
  BY <1>1, <1>2, <1>6 DEF Found
<1>7. CASE two = {} /\ one = {}
  BY <1>2, <1>7 DEF Wrong
<1> QED
  BY <1>5, <1>6, <1>7

LEMMA ReadMoves ==
    ASSUME input \in Seq(STRING), NEW i \in 1 .. Len(input), Read(i).kind # "wrong"
    PROVE  Read(i).next \in i + 1 .. Len(input) + 1
<1> DEFINE sizes == {s \in IntegerSizes : s[1] = Char(i + 1)}
           n == (CHOOSE s \in sizes : TRUE)[2]
           bigEndian == Char(i + 1) \in {"B", "S", "I", "L"}
           v == Int64(IF Char(i) = "@" THEN ReadUnsigned(buffer, n, bigEndian)
                                       ELSE ReadSigned(buffer, n, bigEndian))
<1>1. Len(input) \in Nat /\ i \in Nat /\ i + 1 \in Nat \ {0}
  BY EndIsNUL
<1>2. Read(i) = IF sizes = {} \/ ~CanRead(buffer, n) THEN Wrong
                ELSE Found(INTEGER, v, i + 2)
  BY DEF Read
<1>3. \A s \in IntegerSizes : s[1] # "NUL"
  BY DEF IntegerSizes
<1>4. ASSUME sizes # {} PROVE i + 1 \in 1 .. Len(input)
  <2>1. Char(i + 1) # "NUL"
    BY <1>3, <1>4
  <2> QED
    BY <1>1, <2>1, CharInside
<1> HIDE DEF sizes, n, v
<1>5. CASE ~(sizes = {} \/ ~CanRead(buffer, n))
  BY <1>1, <1>2, <1>4, <1>5 DEF Found
<1>6. CASE sizes = {} \/ ~CanRead(buffer, n)
  BY <1>2, <1>6 DEF Wrong
<1> QED
  BY <1>5, <1>6

LEMMA LeadingApart ==
    \A x \in Leading : x \notin Space \cup {"+", "-", "0", "@", "#"}
  BY DEF Leading, Space

LEMMA LeadingIsDigit == \A x \in Leading : IsDigit(x, 16)
  BY DEF Leading, IsDigit, Digit

\* A round of the loop over the input goes past a character at least, and not
\* past the end.
LEMMA LexemeMoves ==
    ASSUME input \in Seq(STRING), NEW i \in 1 .. Len(input), Lexeme(i).kind # "wrong"
    PROVE  Lexeme(i).next \in i + 1 .. Len(input) + 1
<1> DEFINE c == Char(i)
<1>1. Len(input) \in Nat /\ i \in Nat /\ i \in Place
  BY EndIsNUL DEF Place
<1>2. CASE c = "0"
  <2>1. c \notin Leading \cup Space \cup {"@", "#"}
    BY <1>2 DEF Leading, Space
  <2>2. Lexeme(i) = Zero(i)
    BY <1>2, <2>1 DEF Lexeme
  <2> QED
    BY <2>2, ZeroMoves
<1>3. CASE c \in Leading
  <2>1. IsDigit(c, 16)
    BY <1>3, LeadingIsDigit
  <2>2. c \notin Space \cup {"+", "-", "0", "@", "#"}
    BY <1>3, LeadingApart
  <2>3. Lexeme(i) = Number(i, 16)
    BY <1>3, <2>2 DEF Lexeme
  <2>4. strtoull(i, 16).end \in i .. Len(input) + 1 /\ strtoull(i, 16).end # i
    BY <1>1, <2>1, <2>2, NumberEnds
  <2>5. Number(i, 16).next = strtoull(i, 16).end
    BY DEF Number, Found
  <2> QED
    BY <1>1, <2>3, <2>4, <2>5
<1>4. CASE c # "0" /\ c \notin Leading /\ c \in {"@", "#"}
  <2>1. c \notin Space
    BY <1>4 DEF Space
  <2>2. Lexeme(i) = Read(i)
    BY <1>4, <2>1 DEF Lexeme
  <2> QED
    BY <2>2, ReadMoves
<1>5. CASE c # "0" /\ c \notin Leading /\ c \notin {"@", "#"} /\ c \in Space
  <2>1. Lexeme(i) = Nothing(i + 1)
    BY <1>5 DEF Lexeme
  <2> QED
    BY <1>1, <2>1 DEF Nothing
<1>6. CASE c # "0" /\ c \notin Leading /\ c \notin {"@", "#"} /\ c \notin Space
  <2>1. Lexeme(i) = Operator(i)
    BY <1>6 DEF Lexeme
  <2> QED
    BY <2>1, OperatorMoves
<1> QED
  BY <1>2, <1>3, <1>4, <1>5, <1>6

-----------------------------------------------------------------------------
(***************************************************************************)
(* calculator_eval.                                                        *)
(***************************************************************************)

\* Once the call is over the stack may be empty: the last to be popped is the
\* start symbol.
IInv ==
    /\ tables \in ParserTables /\ input \in Inputs /\ buffer \in Buffers
    /\ at \in Place
    /\ IsParser(tables, parser) /\ Len(parser.stack) \in 0 .. YYSTACKDEPTH
    /\ ret = "running" => Len(parser.stack) >= 1

LEMMA InvInit == Init => IInv
<1> SUFFICES ASSUME Init PROVE IInv
  OBVIOUS
<1> DEFINE e == [stateno |-> 0, major |-> 0, minor |-> NoMinor]
           arg == [result |-> 0, error |-> FALSE, stopped |-> FALSE]
<1>1. /\ tables \in ParserTables /\ input \in Inputs /\ buffer \in Buffers
      /\ at = 1 /\ parser = ParseInit(arg)
  BY DEF Init, Called
<1>2. at \in Place
  BY <1>1, CalculatorAssumption DEF Place
<1>3. e.stateno = 0 /\ WellFormed(tables)
  BY <1>1, CalculatorAssumption
<1>4. e.stateno \in 0 .. tables.YY_MIN_REDUCE + tables.YYNRULE - 1
  BY <1>3 DEF WellFormed
<1> HIDE DEF e, arg
<1>5. IsStack(tables, <<e>>) /\ Len(<<e>>) = 1
  <2>1. <<e>> \in Seq({e}) /\ Len(<<e>>) = 1
    OBVIOUS
  <2>2. Known(tables, {e})
    BY <1>4 DEF Known
  <2> QED
    BY <2>1, <2>2 DEF IsStack
<1>6. parser = [stack |-> <<e>>, yyerrcnt |-> -1, arg |-> arg, busy |-> FALSE, ok |-> TRUE]
  BY <1>1 DEF ParseInit, e
<1>7. parser \in Records({e}, {-1}, {arg}, {FALSE}, {TRUE}) /\ parser.stack = <<e>>
  BY <1>6 DEF Records
<1>8. IsParser(tables, parser)
  BY <1>5, <1>7 DEF IsParser
<1>9. Len(parser.stack) = 1 /\ 1 \in 0 .. YYSTACKDEPTH
  BY <1>5, <1>7, CalculatorAssumption
<1> QED
  BY <1>1, <1>2, <1>8, <1>9 DEF IInv

LEMMA Offered ==
    ASSUME NEW T, NEW p, IsParser(T, p)
    PROVE  IsParser(T, Offer(p)) /\ Offer(p).stack = p.stack
  BY SetBusy DEF Offer

LEMMA InvLex == IInv /\ Lex => IInv'
<1> SUFFICES ASSUME IInv, Lex PROVE IInv'
  OBVIOUS
<1>1. input \in Seq(STRING) /\ Len(input) \in Nat
  BY CalculatorAssumption, EndIsNUL DEF IInv
<1>2. at \in 1 .. Len(input) /\ ret = "running"
  BY <1>1 DEF IInv, Lex, Place
<1>3. at' \in Place
  <2>1. CASE Lexeme(at).kind = "wrong"
    BY <2>1 DEF Lex, Take, IInv
  <2>2. CASE Lexeme(at).kind # "wrong"
    <3>1. Lexeme(at).next \in at + 1 .. Len(input) + 1
      BY <1>1, <1>2, <2>2, LexemeMoves
    <3>2. at' = Lexeme(at).next
      BY <2>2 DEF Lex, Take
    <3> QED
      BY <1>1, <1>2, <3>1, <3>2 DEF Place
  <2> QED
    BY <2>1, <2>2
<1>4. parser' = Offer(parser) \/ parser' = parser
  BY DEF Lex, Take
<1>5. IsParser(tables, parser') /\ parser'.stack = parser.stack
  BY <1>4, Offered DEF IInv
<1>6. UNCHANGED <<tables, input, buffer>>
  BY DEF Lex
<1> QED
  BY <1>2, <1>3, <1>5, <1>6 DEF IInv, Place

LEMMA InvParse == IInv /\ Parse => IInv'
<1> SUFFICES ASSUME IInv, Parse PROVE IInv'
  OBVIOUS
<1>1. WellFormed(tables) /\ YYSTACKDEPTH \in Nat
  BY CalculatorAssumption DEF IInv
<1>2. IsParser(tables, parser) /\ Len(parser.stack) \in 1 .. YYSTACKDEPTH
  BY <1>1 DEF IInv, Parse
<1>3. /\ IsParser(tables, parser')
      /\ Len(parser'.stack) \in 0 .. YYSTACKDEPTH
      /\ parser'.ok => Len(parser'.stack) >= 1
  <2>1. Sound(tables, parser)
    BY <1>2 DEF Sound
  <2>2. parser' = Once(tables, parser, token.major, token.minor)
    BY DEF Parse
  <2> QED
    BY <1>1, <2>1, <2>2, OnceSound
<1>4. UNCHANGED <<tables, input, buffer, at>>
  BY DEF Parse
<1>5. ret' = "running" => parser'.ok
  BY DEF Parse
<1> QED
  BY <1>3, <1>4, <1>5 DEF IInv, Place

LEMMA InvEnd == IInv /\ End => IInv'
<1> SUFFICES ASSUME IInv, End PROVE IInv'
  OBVIOUS
<1>1. IsParser(tables, parser') /\ parser'.stack = parser.stack
  BY Offered DEF IInv, End
<1>2. UNCHANGED <<tables, input, buffer, at, ret>>
  BY DEF End
<1> QED
  BY <1>1, <1>2 DEF IInv, Place

LEMMA InvNext == IInv /\ [Next]_vars => IInv'
<1>1. ASSUME IInv, UNCHANGED vars PROVE IInv'
  BY <1>1 DEF IInv, vars, Place
<1> QED
  BY <1>1, InvLex, InvParse, InvEnd DEF Next

LEMMA InvAlways == Spec => []IInv
  BY InvInit, InvNext, PTL DEF Spec

LEMMA InvImpliesInBounds == IInv => InBounds
<1> SUFFICES ASSUME IInv PROVE InBounds
  OBVIOUS
<1>1. buffer.size \in Nat /\ buffer.cursor \in 0 .. buffer.size /\ buffer.size + 8 < Modulus
  BY CalculatorAssumption DEF IInv
<1>2. ASSUME NEW n \in {1, 2, 4, 8}, CanRead(buffer, n)
      PROVE  buffer.cursor + n <= buffer.size
  <2>1. buffer.cursor + n \in 0 .. Modulus - 1
    BY <1>1, ModulusAssumption
  <2> QED
    BY <1>1, <1>2, <2>1, ModulusAssumption DEF CanRead, Wrap
<1> QED
  BY <1>2 DEF InBounds, IInv, Place

(***************************************************************************)
(* The loop of calculator_eval stops in its input, buffer_read in the file *)
(* and yy_shift and yy_reduce in yystack, for every expression, every file *)
(* and any tables, those lemon writes for this grammar among them.         *)
(***************************************************************************)
THEOREM EvaluationInBounds == Spec => []InBounds
  BY InvAlways, InvImpliesInBounds, PTL

\* Each round of the loop in calculator_eval goes past a character at least,
\* unless it ends the call: so there are no more of them than characters.
RoundsMoveOn == [][Lex /\ ret' = "running" => at' > at]_vars

(***************************************************************************)
(* The loop over the input makes progress in every round that does not     *)
(* leave it, in numbers that have no digits after 0n and 0x too, where     *)
(* strtoull stops at once.  About the input pointer of calculator_eval.    *)
(***************************************************************************)
THEOREM EveryRoundMovesOn == Spec => RoundsMoveOn
<1>1. ASSUME IInv, [Next]_vars
      PROVE  [Lex /\ ret' = "running" => at' > at]_vars
  <2>1. SUFFICES ASSUME Lex, ret' = "running" PROVE at' > at
    OBVIOUS
  <2>2. input \in Seq(STRING) /\ Len(input) \in Nat
    BY <1>1, CalculatorAssumption, EndIsNUL DEF IInv
  <2>3. at \in 1 .. Len(input)
    BY <1>1, <2>1, <2>2 DEF IInv, Lex, Place
  <2>4. Lexeme(at).kind # "wrong"
    BY <2>1 DEF Lex, Take
  <2>5. Lexeme(at).next \in at + 1 .. Len(input) + 1
    BY <2>2, <2>3, <2>4, LexemeMoves
  <2>6. at' = Lexeme(at).next
    BY <2>1, <2>4 DEF Lex, Take
  <2> QED
    BY <2>2, <2>3, <2>5, <2>6
<1> QED
  BY <1>1, InvAlways, PTL DEF Spec, RoundsMoveOn

=============================================================================
