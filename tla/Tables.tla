------------------------------- MODULE Tables -------------------------------
(***************************************************************************)
(* ReportTable: the tables of the parser that is generated.  The actions   *)
(* are numbered, those of a state on terminals and on nonterminals become  *)
(* two rows of the action table, larger rows first, and what lempar.c      *)
(* reads is a record of arrays indexed from 0, with the names they have    *)
(* there.                                                                  *)
(***************************************************************************)
EXTENDS Actions, ActTab

minShiftReduce(sts) == Len(sts)
errAction(g, sts) == minShiftReduce(sts) + Len(g.rules)
accAction(g, sts) == errAction(g, sts) + 1
noAction(g, sts) == accAction(g, sts) + 1
minReduce(g, sts) == noAction(g, sts) + 1

\* The number of the state at a place.
Number(sorted, k) == (CHOOSE i \in DOMAIN sorted : sorted[i] = k) - 1

\* Mutant: a shift that reduces is numbered as one for a nonterminal as well.
PendingOnAny(g, sts, sorted, a) ==
    CASE a.type = "SHIFT" -> Number(sorted, a.x)
      [] a.type = "SHIFTREDUCE" -> minShiftReduce(sts) + iRule(g)[a.x]
      [] a.type = "REDUCE" -> minReduce(g, sts) + iRule(g)[a.x]
      [] a.type = "ERROR" -> errAction(g, sts)
      [] a.type = "ACCEPT" -> accAction(g, sts)

\* compute_action: after a reduction the nonterminal is shifted anyway, so
\* there a shift that reduces is a plain reduction.
compute_action(g, sts, sorted, a) ==
    CASE a.type = "SHIFT" -> Number(sorted, a.x)
      [] a.type = "SHIFTREDUCE" /\ a.sp \in Terminals(g) ->
           minShiftReduce(sts) + iRule(g)[a.x]
      [] a.type = "REDUCE" \/ (a.type = "SHIFTREDUCE" /\ a.sp \notin Terminals(g)) ->
           minReduce(g, sts) + iRule(g)[a.x]
      [] a.type = "ERROR" -> errAction(g, sts)
      [] a.type = "ACCEPT" -> accAction(g, sts)

\* The row of a state's actions on the symbols.
Row(g, sts, sorted, k, symbols) ==
    LET on == ActionsOn(sts[k], symbols)
        at == Sorted(on, {p \in on \X on : p[1] < p[2]})
    IN  [i \in DOMAIN at |->
           LET a == sts[k].ap[at[i]]
           IN  [lookahead |-> a.sp, action |-> compute_action(g, sts, sorted, a)]]

\* The rows in the order they are packed in: the sets of actions of the states
\* that get tables, larger sets first, empty ones not at all.
axset(g, sts, sorted) ==
    LET size(x) == IF x.isTkn THEN nTknAct(g, sts[sorted[x.state + 1]])
                              ELSE nNtAct(g, sts[sorted[x.state + 1]])
        iOrder(x) == 2 * x.state + (IF x.isTkn THEN 0 ELSE 1)
        all == {x \in [state : 0 .. nxstate(sts, sorted) - 1, isTkn : BOOLEAN] : size(x) > 0}
        axset_compare(x, y) ==
          size(x) > size(y) \/ (size(x) = size(y) /\ iOrder(x) < iOrder(y))
    IN  Sorted(all, {p \in all \X all : axset_compare(p[1], p[2])})

\* The table after a row more, and where each row packed so far is: what a
\* state's iTknOfst and iNtOfst say.
PackInit == [table |-> acttab_alloc, rows |-> << >>, shared |-> FALSE]

Pack(g, sts, sorted, x, pack) ==
    LET row == Row(g, sts, sorted, sorted[x.state + 1],
                   IF x.isTkn THEN Terminals(g) ELSE Nonterminals(g))
        put == acttab_insert(pack.table, row, x.isTkn, g.nterminal, g.nsymbol)
    IN  [table |-> put.table,
         rows |-> Append(pack.rows, [state |-> x.state, isTkn |-> x.isTkn,
                                     row |-> row, offset |-> put.offset]),
         shared |-> pack.shared \/ put.shared]

OffsetsOf(pack, isTkn) == {pack.rows[i] : i \in {j \in DOMAIN pack.rows : pack.rows[j].isTkn = isTkn}}
HasRow(pack, isTkn, n) == \E r \in OffsetsOf(pack, isTkn) : r.state = n
OffsetAt(pack, isTkn, n) == (CHOOSE r \in OffsetsOf(pack, isTkn) : r.state = n).offset

LeastOf(S) == CHOOSE m \in S : \A n \in S : m <= n

\* Offsets are listed up to the last state that has one.
LastRow(pack, isTkn) ==
    -LeastOf({-1 * r.state : r \in OffsetsOf(pack, isTkn)} \cup {1})

\* Mutant: a state without a row of tokens is looked up at offset 0.
ZeroOffset(size) == 0

\* Where a state without a row of tokens is looked up: past all actions.
NoShiftOffset(size) == size

\* The size of yy_lookahead: every token can be looked up at every offset, and
\* past all actions.
NLookahead(g, p) ==
    IF p.nAction < g.nterminal + acttab_action_size(p)
    THEN g.nterminal + acttab_action_size(p) ELSE p.nAction

ReportTable(g, sts, sorted, pack) ==
    LET p == pack.table
        size == acttab_action_size(p)
        n == nxstate(sts, sorted)
        dflt(k) == OnSymbol(sts[k].ap, Default(g))
    IN  [YYNOCODE |-> g.nsymbol,
         YYNSTATE |-> n,
         YYNRULE |-> Len(g.rules),
         YYNTOKEN |-> g.nterminal,
         YY_MIN_SHIFTREDUCE |-> minShiftReduce(sts),
         YY_ERROR_ACTION |-> errAction(g, sts),
         YY_ACCEPT_ACTION |-> accAction(g, sts),
         YY_MIN_REDUCE |-> minReduce(g, sts),
         YY_ACTTAB_COUNT |-> size,
         yy_action |->
           [i \in 0 .. size - 1 |->
              IF p.aAction[i].action < 0 THEN noAction(g, sts) ELSE p.aAction[i].action],
         yy_lookahead |->
           [i \in 0 .. NLookahead(g, p) - 1 |->
              IF i >= p.nAction THEN g.nterminal
              ELSE IF p.aAction[i].lookahead < 0 THEN g.nsymbol ELSE p.aAction[i].lookahead],
         yy_shift_ofst |->
           [s \in 0 .. LastRow(pack, TRUE) |->
              IF HasRow(pack, TRUE, s) THEN OffsetAt(pack, TRUE, s) ELSE NoShiftOffset(size)],
         yy_reduce_ofst |->
           [s \in 0 .. LastRow(pack, FALSE) |->
              IF HasRow(pack, FALSE, s) THEN OffsetAt(pack, FALSE, s)
              ELSE LeastOf({0} \cup {r.offset : r \in OffsetsOf(pack, FALSE)}) - 1],
         yy_default |->
           [s \in 0 .. n - 1 |->
              IF dflt(sorted[s + 1]) = {} THEN errAction(g, sts)
              ELSE LET i == CHOOSE i \in dflt(sorted[s + 1]) : TRUE
                   IN  compute_action(g, sts, sorted, sts[sorted[s + 1]].ap[i])],
         yyRuleInfoLhs |->
           [i \in 0 .. Len(g.rules) - 1 |-> g.rules[CHOOSE r \in Rules(g) : iRule(g)[r] = i].lhs],
         yyRuleInfoNRhs |->
           [i \in 0 .. Len(g.rules) - 1 |->
              -Len(g.rules[CHOOSE r \in Rules(g) : iRule(g)[r] = i].rhs)]]

=============================================================================
