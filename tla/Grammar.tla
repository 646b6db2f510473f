------------------------------ MODULE Grammar ------------------------------
(***************************************************************************)
(* The grammar lemon works on once main() has indexed it, and what is      *)
(* computed from it before there are any states: the numbers of the rules, *)
(* their precedence symbols, which nonterminals are empty and what they    *)
(* can begin with.                                                         *)
(*                                                                         *)
(* A grammar is a record.  Symbols are their indices: $ is 0, the other    *)
(* terminals come next, then the nonterminals, and nsymbol is the index of *)
(* "{default}".  rules is the rules in the order of the file, each with    *)
(* lhs, rhs and whether it has code; the first one names the start symbol. *)
(* prec is the precedence of every terminal, -1 for none, assoc its        *)
(* associativity.  Wildcards, fallbacks, multi-terminals, the error symbol *)
(* and precedence marks on rules, which calculator.lemon does without, are *)
(* left out.                                                               *)
(***************************************************************************)
EXTENDS Integers, Sequences, FiniteSets

Terminals(g) == 0 .. g.nterminal - 1
Nonterminals(g) == g.nterminal .. g.nsymbol - 1
Default(g) == g.nsymbol
Rules(g) == DOMAIN g.rules
Start(g) == g.rules[1].lhs
RulesOf(g, symbol) == {r \in Rules(g) : g.rules[r].lhs = symbol}

\* A rule of the start symbol is never made a default.
lhsStart(g, r) == g.rules[r].lhs = Start(g)

\* What main() makes of a file: $ is a terminal, and there is a rule.
IsGrammar(g) ==
    /\ g.nterminal \in Nat \ {0} /\ g.nsymbol \in Nat /\ g.nterminal < g.nsymbol
    /\ g.rules # << >>
    /\ g.rules \in Seq([lhs : Nonterminals(g), rhs : Seq(0 .. g.nsymbol - 1), code : BOOLEAN])
    /\ g.prec \in [Terminals(g) -> Int]

NoSymbol == -1

\* iRule: from 0, the rules that have code first, each kind in file order.
iRule(g) ==
    LET Before(r, coded) ==
          Cardinality({q \in Rules(g) : q < r /\ g.rules[q].code = coded})
        coded == Cardinality({q \in Rules(g) : g.rules[q].code})
    IN  [r \in Rules(g) |-> IF g.rules[r].code THEN Before(r, TRUE)
                            ELSE coded + Before(r, FALSE)]

\* The precedence of any symbol.
Prec(g, symbol) == IF symbol \in Terminals(g) THEN g.prec[symbol] ELSE -1

\* A rule takes the precedence of its first symbol that has one.
FindRulePrecedences(g) ==
    [r \in Rules(g) |->
       LET rhs == g.rules[r].rhs
           known == {i \in DOMAIN rhs : Prec(g, rhs[i]) >= 0}
       IN  IF known = {} THEN NoSymbol
           ELSE rhs[CHOOSE i \in known : \A j \in known : i <= j]]

\* What X becomes when f, a function on sets, adds to it until it adds nothing
\* more, in up to n steps.
Grown(f, X, n) ==
    LET grown[k \in Nat] ==
          [Y \in DOMAIN f |->
             LET more == f[Y]
             IN  IF k = 0 \/ more = Y THEN Y ELSE grown[k - 1][more]]
    IN  grown[n][X]

\* The nonterminals that derive the empty string: known ones, closed under
\* the rules.
Lambda(g) ==
    LET OfEmpty(known) ==
          {g.rules[r].lhs :
             r \in {q \in Rules(g) : \A i \in DOMAIN g.rules[q].rhs : g.rules[q].rhs[i] \in known}}
    IN  Grown([known \in SUBSET Nonterminals(g) |-> known \cup OfEmpty(known)],
              {}, Cardinality(Nonterminals(g)))

\* What a string of symbols can begin with, given that of its symbols.
FirstOf(g, lambda, first, symbols) ==
    UNION {IF symbols[i] \in Terminals(g) THEN {symbols[i]} ELSE first[symbols[i]] :
             i \in {k \in DOMAIN symbols : \A j \in 1 .. k - 1 : symbols[j] \in lambda}}

\* The first sets, from pairs of a nonterminal and a terminal ...
FirstIn(g, pairs) ==
    [s \in Nonterminals(g) |-> {t \in Terminals(g) : <<s, t>> \in pairs}]

\* ... grown until no rule adds to them.
FirstSets(g, lambda) ==
    LET all == Nonterminals(g) \X Terminals(g)
        OfRules(pairs) ==
          LET first == FirstIn(g, pairs)
          IN  UNION {{<<g.rules[r].lhs, t>> :
                        t \in FirstOf(g, lambda, first, g.rules[r].rhs)} : r \in Rules(g)}
    IN  FirstIn(g, Grown([pairs \in SUBSET all |-> pairs \cup OfRules(pairs)],
                         {}, Cardinality(all)))

FindFirstSets(g) ==
    LET lambda == Lambda(g) IN [lambda |-> lambda, first |-> FirstSets(g, lambda)]

=============================================================================
