------------------------------ MODULE Actions ------------------------------
(***************************************************************************)
(* What a parser does in each state: FindActions with resolve_conflict,    *)
(* CompressTables, ResortStates.                                           *)
(*                                                                         *)
(* An action is a record: sp the symbol it is for, its type, and x, the    *)
(* state or the rule it names.  The actions of a state are a sequence,     *)
(* sorted by actioncmp.                                                    *)
(***************************************************************************)
EXTENDS Automaton

\* enum e_action.
Types == <<"SHIFT", "ACCEPT", "REDUCE", "ERROR", "SSCONFLICT", "SRCONFLICT",
           "RRCONFLICT", "SH_RESOLVED", "RD_RESOLVED", "NOT_USED", "SHIFTREDUCE">>

Rank(a) == CHOOSE i \in DOMAIN Types : Types[i] = a.type

\* By symbol, then by type, then by rule.
actioncmp(a, b) ==
    \/ a.sp < b.sp
    \/ a.sp = b.sp /\ Rank(a) < Rank(b)
    \/ a.sp = b.sp /\ Rank(a) = Rank(b) /\ a.x < b.x

\* A complete configuration is reduced on everything that can follow it; the
\* first state accepts on the start symbol.
AllActions(g, states, fws, k) ==
    {[sp |-> s.sp, type |-> "SHIFT", x |-> s.x] : s \in states[k].shifts}
    \cup (IF k = 1 THEN {[sp |-> Start(g), type |-> "ACCEPT", x |-> 0]} ELSE {})
    \cup UNION {{[sp |-> t, type |-> "REDUCE", x |-> c[1]] :
                   t \in fws[<<k, c>>] \cap Terminals(g)} :
                 c \in {d \in states[k].cfp : Complete(g, d)}}

(***************************************************************************)
(* resolve_conflict of two actions on one symbol: the two afterwards,      *)
(* whether the conflict counts, and whether the assertions hold.           *)
(***************************************************************************)

Resolution(x, y, conflict) ==
    [x |-> x, y |-> y, conflict |-> conflict, ok |-> TRUE]

\* A shift against a reduction.
\* Mutant: the tie of a left-associative operator goes to the shift.
TieToShift(g, prec, x, y) ==
    LET shift == Prec(g, x.sp)
        rule == Prec(g, prec[y.x])
    IN  CASE prec[y.x] = NoSymbol \/ shift < 0 \/ rule < 0 ->
               Resolution(x, [y EXCEPT !.type = "SRCONFLICT"], 1)
          [] shift >= rule -> Resolution(x, [y EXCEPT !.type = "RD_RESOLVED"], 0)
          [] OTHER -> Resolution([x EXCEPT !.type = "SH_RESOLVED"], y, 0)

\* The higher precedence wins.  In a tie the operator's associativity decides,
\* and an operator that has none makes it an error.
ShiftReduce(g, prec, x, y) ==
    LET shift == Prec(g, x.sp)
        rule == Prec(g, prec[y.x])
        shiftWins == shift > rule \/ (shift = rule /\ g.assoc[x.sp] = "RIGHT")
        ruleWins == shift < rule \/ (shift = rule /\ g.assoc[x.sp] = "LEFT")
    IN  CASE prec[y.x] = NoSymbol \/ shift < 0 \/ rule < 0 ->
               Resolution(x, [y EXCEPT !.type = "SRCONFLICT"], 1)
          [] shiftWins -> Resolution(x, [y EXCEPT !.type = "RD_RESOLVED"], 0)
          [] ruleWins -> Resolution([x EXCEPT !.type = "SH_RESOLVED"], y, 0)
          [] OTHER -> Resolution([x EXCEPT !.type = "ERROR"], y, 0)

\* Mutant: a conflict between two rules is settled without being counted.
UncountedReduceReduce(g, prec, x, y) ==
    Resolution(x, [y EXCEPT !.type = "RRCONFLICT"], 0)

\* Two reductions: precedence decides, and a tie is a conflict.
ReduceReduce(g, prec, x, y) ==
    LET px == Prec(g, prec[x.x])
        py == Prec(g, prec[y.x])
    IN  CASE px < 0 \/ py < 0 \/ px = py ->
               Resolution(x, [y EXCEPT !.type = "RRCONFLICT"], 1)
          [] px > py -> Resolution(x, [y EXCEPT !.type = "RD_RESOLVED"], 0)
          [] OTHER -> Resolution([x EXCEPT !.type = "RD_RESOLVED"], y, 0)

Settled == {"SH_RESOLVED", "RD_RESOLVED", "SSCONFLICT", "SRCONFLICT", "RRCONFLICT"}

\* Two shifts on one symbol cannot happen without multi-terminals.
resolve_conflict(g, prec, x, y) ==
    CASE x.type = "SHIFT" /\ y.type = "REDUCE" -> ShiftReduce(g, prec, x, y)
      [] x.type = "REDUCE" /\ y.type = "REDUCE" -> ReduceReduce(g, prec, x, y)
      [] OTHER -> [Resolution(x, y, 0) EXCEPT !.ok = x.type \in Settled \/ y.type \in Settled]

\* The loops of FindActions: the actions of the states are collected and sorted,
\* and every two on one symbol, the ith with the jth, are resolved in turn.
Actioncmp(S) == {p \in S \X S : actioncmp(p[1], p[2])}

CollectActions(g, states, fws) ==
    [k \in DOMAIN states |->
       LET all == AllActions(g, states, fws, k) IN Sorted(all, Actioncmp(all))]

Conflicts(aps) ==
    UNION {{c \in {k} \X (DOMAIN aps[k]) \X (DOMAIN aps[k]) :
              c[2] < c[3] /\ aps[k][c[2]].sp = aps[k][c[3]].sp} : k \in DOMAIN aps}

FirstConflict(conflicts) ==
    CHOOSE c \in conflicts : \A d \in conflicts :
      \/ c = d \/ c[1] < d[1]
      \/ c[1] = d[1] /\ Configcmp(<<c[2], c[3]>>, <<d[2], d[3]>>)

\* One conflict: what is left of the two, and what there is to say of it.
Resolve(g, aps, c) ==
    LET r == resolve_conflict(g, FindRulePrecedences(g), aps[c[1]][c[2]], aps[c[1]][c[3]])
    IN  [aps |-> [aps EXCEPT ![c[1]] = [@ EXCEPT ![c[2]] = r.x, ![c[3]] = r.y]],
         conflict |-> r.conflict, ok |-> r.ok]

\* Reported, and counted as an error: a rule no state reduces.
UnreducedRule(g, aps) ==
    \E r \in Rules(g) : \A k \in DOMAIN aps : \A i \in DOMAIN aps[k] :
      ~(aps[k][i].type = "REDUCE" /\ aps[k][i].x = r)

(***************************************************************************)
(* CompressTables.                                                         *)
(***************************************************************************)

Reductions(ap) == {i \in DOMAIN ap : ap[i].type = "REDUCE"}

Count(ap, r) == Cardinality({i \in Reductions(ap) : ap[i].x = r})

\* Mutant: rules of the start symbol are not left out.
AnyReduction(g, ap) == Reductions(ap)

\* Rules of the start symbol are left out, or the end of the input would not
\* be looked at.
DefaultCandidates(g, ap) == {i \in Reductions(ap) : ~ lhsStart(g, ap[i].x)}

\* The first of the rules reduced on the most symbols becomes the default, and
\* its other reductions are dropped.  A state that does nothing else, but for
\* errors, reduces by itself.
Compress(g, ap) ==
    LET candidates == DefaultCandidates(g, ap)
        best == CHOOSE i \in candidates : \A j \in candidates :
                  \/ Count(ap, ap[j].x) < Count(ap, ap[i].x)
                  \/ Count(ap, ap[j].x) = Count(ap, ap[i].x) /\ i <= j
        rbest == ap[best].x
        others == {ap[i] : i \in DOMAIN ap} \ {ap[i] : i \in {j \in Reductions(ap) : ap[j].x = rbest}}
        kept == others \cup {[sp |-> Default(g), type |-> "REDUCE", x |-> rbest]}
    IN  IF candidates = {} THEN [ap |-> ap, autoReduce |-> FALSE, dflt |-> 0]
        ELSE [ap |-> Sorted(kept, Actioncmp(kept)),
              autoReduce |-> \A a \in others : a.type \notin {"SHIFT", "REDUCE"},
              dflt |-> rbest]

\* A shift to a state that reduces by itself reduces right away.
ShiftReduces(g, comp, ap) ==
    [i \in DOMAIN ap |->
       IF ap[i].type = "SHIFT" /\ comp[ap[i].x].autoReduce
       THEN [ap[i] EXCEPT !.type = "SHIFTREDUCE", !.x = comp[ap[i].x].dflt]
       ELSE ap[i]]

\* Of every state: its actions and whether it reduces by itself.
CompressTables(g, aps) ==
    LET comp == [k \in DOMAIN aps |-> Compress(g, aps[k])]
    IN  [k \in DOMAIN aps |->
           [ap |-> ShiftReduces(g, comp, comp[k].ap), autoReduce |-> comp[k].autoReduce]]

\* A nonterminal reduced at once by a rule that only renames it and runs no
\* code does what the new name does.
Renames(g, a) ==
    /\ a.type = "SHIFTREDUCE"
    /\ ~ g.rules[a.x].code
    /\ Len(g.rules[a.x].rhs) = 1
    /\ a.sp \in Nonterminals(g)

Renaming(g, sts) ==
    UNION {{<<k, i>> : i \in {j \in DOMAIN sts[k].ap : Renames(g, sts[k].ap[j])}} : k \in DOMAIN sts}

FirstRenaming(renaming) ==
    CHOOSE p \in renaming : \A q \in renaming : p = q \/ Configcmp(p, q)

\* The first action on the new name, of those other than the ith.
NamedBy(g, ap, i, a) ==
    LET named == {j \in DOMAIN ap \ {i} : ap[j].sp = g.rules[a.x].lhs}
    IN  {j \in named : \A l \in named : j <= l}

\* The ith action becomes a copy of that one, and is looked at again: copied is
\* what it becomes one after the other, ends what need not be followed.  When
\* there is no action to copy an assertion fails, and rules that rename in a
\* circle are followed for ever.
Rename(g, ap, i) ==
    LET next(j) == IF Renames(g, ap[j]) THEN NamedBy(g, ap, i, ap[j]) ELSE {}
        copied == Grown([js \in SUBSET DOMAIN ap |-> js \cup UNION {next(j) : j \in js}],
                        {i}, Len(ap))
        ends == {j \in copied : ~ Renames(g, ap[j])}
        end == CHOOSE j \in ends : TRUE
    IN  IF ends # {}
        THEN [ap |-> [ap EXCEPT ![i].type = ap[end].type, ![i].x = ap[end].x], outcome |-> "ok"]
        ELSE [ap |-> ap,
              outcome |-> IF \E j \in copied : next(j) = {} THEN "aborted" ELSE "hangs"]

(***************************************************************************)
(* ResortStates.  Actions of the other types are not put into the tables.  *)
(***************************************************************************)

Emitted(a) == a.type \in {"SHIFT", "SHIFTREDUCE", "REDUCE", "ERROR", "ACCEPT"}

\* What the tables are to have on a symbol.
OnSymbol(ap, sp) == {i \in DOMAIN ap : Emitted(ap[i]) /\ ap[i].sp = sp}

ActionsOn(st, symbols) == {i \in DOMAIN st.ap : Emitted(st.ap[i]) /\ st.ap[i].sp \in symbols}
nTknAct(g, st) == Cardinality(ActionsOn(st, Terminals(g)))
nNtAct(g, st) == Cardinality(ActionsOn(st, Nonterminals(g)))

\* States with more choices first, later ones before earlier ones.
ResortCompare(g, sts, k, l) ==
    LET nt(j) == nNtAct(g, sts[j])
        tkn(j) == nTknAct(g, sts[j])
    IN  \/ nt(k) > nt(l)
        \/ nt(k) = nt(l) /\ tkn(k) > tkn(l)
        \/ nt(k) = nt(l) /\ tkn(k) = tkn(l) /\ k > l

\* The places of the states in their new order; the first stays.
ResortStates(g, sts) ==
    LET rest == DOMAIN sts \ {1}
    IN  <<1>> \o Sorted(rest, {p \in rest \X rest : ResortCompare(g, sts, p[1], p[2])})

\* The states at the end that reduce by themselves need no tables.
nxstate(sts, sorted) ==
    CHOOSE n \in DOMAIN sorted :
      /\ \A i \in n + 1 .. Len(sorted) : sts[sorted[i]].autoReduce
      /\ n = 1 \/ ~ sts[sorted[n]].autoReduce

=============================================================================
