------------------------------ MODULE MCLemon ------------------------------
(***************************************************************************)
(* lemon on every grammar of a small family, and the parsers it generates  *)
(* on every word of up to MaxWord tokens, run by the engine of lempar.c.   *)
(*                                                                         *)
(* The grammars have the tokens $, x and y, the start symbol s and the     *)
(* nonterminals e and f.                                                   *)
(***************************************************************************)
EXTENDS Parsing

CONSTANTS
    MaxWord,   \* tokens of the longest word tried
    MaxRounds, \* rounds of the parser's loop for one token
    MaxRules   \* rules of the longest derivations compared

x == 1
y == 2
s == 3
e == 4
f == 5

Rule(lhs, rhs, code) == [lhs |-> lhs, rhs |-> rhs, code |-> code]

Grammar(rules, prec, assoc) ==
    [nterminal |-> 3, nsymbol |-> 6, rules |-> <<Rule(s, <<e>>, TRUE)>> \o rules,
     prec |-> prec, assoc |-> assoc]

NoPrec == [t \in 0 .. 2 |-> -1]
NoAssoc == [t \in 0 .. 2 |-> "UNK"]

\* What rules may look like.
RhsOfE == {<<f>>, <<e, x>>, <<x, e, y>>, <<f, e>>, <<e, x, e>>, <<f, f, y>>}
RhsOfF == {<< >>, <<y>>, <<x>>, <<e>>, <<f, y>>}

\* One or two rules of e and of f, the rules of f and the second of e with
\* code or without.
Plain ==
    {Grammar(<<Rule(e, p[1], TRUE)>>
             \o (IF p[1] = p[2] THEN << >> ELSE <<Rule(e, p[2], code)>>)
             \o <<Rule(f, q[1], code)>>
             \o (IF q[1] = q[2] THEN << >> ELSE <<Rule(f, q[2], code)>>),
             NoPrec, NoAssoc) :
       p \in {pq \in RhsOfE \X RhsOfE : Len(pq[1]) <= Len(pq[2])},
       q \in RhsOfF \X RhsOfF, code \in BOOLEAN}

\* An infix operator, which may be a prefix or a postfix operator as well, and
\* is left- or right-associative or not associative at all.
Operators ==
    {Grammar(<<Rule(e, <<e, x, e>>, TRUE), Rule(e, <<y>>, TRUE)>> \o other,
             [NoPrec EXCEPT ![x] = 1], [NoAssoc EXCEPT ![x] = assoc]) :
       other \in {<< >>, <<Rule(e, <<x, e>>, TRUE)>>, <<Rule(e, <<e, x>>, TRUE)>>},
       assoc \in {"LEFT", "RIGHT", "NONE"}}

\* A list that may be empty: its first state only reduces.
List == Grammar(<<Rule(e, << >>, TRUE), Rule(e, <<e, x>>, TRUE), Rule(e, <<e, y>>, FALSE)>>,
                NoPrec, NoAssoc)

\* Two nonterminals that are names of each other, a third name for both, which
\* is the program, and maybe a name for it that comes before them.
Naming ==
    {[Grammar(<<Rule(f + 2, <<f>>, FALSE), Rule(f, <<f + 2>>, code), Rule(f + 1, <<f>>, TRUE)>>
              \o other, NoPrec, NoAssoc)
      EXCEPT !.nsymbol = f + 3, !.rules[1] = Rule(s, <<f + 1>>, TRUE)] :
       other \in {<<Rule(f, <<y>>, TRUE)>>, <<Rule(f, <<e>>, FALSE), Rule(e, <<y>>, TRUE)>>},
       code \in BOOLEAN}

\* No conflict, but the last of its states has no action on a token: after x
\* a nonterminal that is always empty.
Offsetless ==
    [Grammar(<<Rule(e, << >>, TRUE), Rule(e, <<e, f, f + 1>>, TRUE), Rule(f, << >>, TRUE),
               Rule(f + 1, <<x, f + 2>>, TRUE), Rule(f + 2, << >>, TRUE)>>, NoPrec, NoAssoc)
     EXCEPT !.nsymbol = f + 3]

MCGrammars == Plain \cup Operators \cup {List} \cup Naming \cup {Offsetless}
OffsetlessOnly == {Offsetless}

-----------------------------------------------------------------------------

\* The generated parser: its argument remembers whether there was an error.
MCRuleCode(yyruleno, arg, values) == [minor |-> NoMinor, arg |-> arg]
MCsyntax_error(arg) == TRUE

RECURSIVE Rounds(_, _, _, _)
Rounds(T, p, token, rounds) ==
    IF rounds = 0 \/ ~p.ok \/ ~p.busy THEN p
    ELSE Rounds(T, Once(T, p, token, 0), token, rounds - 1)

RECURSIVE Feed(_, _, _)
Feed(T, p, tokens) ==
    IF tokens = << >> \/ ~p.ok \/ p.busy THEN p
    ELSE Feed(T, Rounds(T, Offer(p), Head(tokens), MaxRounds), Tail(tokens))

Parsed(T, word) == Feed(T, ParseInit(FALSE), word \o <<0>>)

Words == UNION {[1 .. n -> {x, y}] : n \in 0 .. MaxWord}

\* The words of up to MaxWord tokens of every symbol.
Concat(A, B) == {w \in {a \o b : a \in A, b \in B} : Len(w) <= MaxWord}

RECURSIVE OfString(_, _, _)
OfString(grammar, known, symbols) ==
    IF symbols = << >> THEN {<< >>}
    ELSE Concat(IF Head(symbols) \in Terminals(grammar) THEN {<<Head(symbols)>>}
                ELSE known[Head(symbols)],
                OfString(grammar, known, Tail(symbols)))

RECURSIVE Sentences(_, _)
Sentences(grammar, known) ==
    LET more == [n \in Nonterminals(grammar) |->
          UNION {OfString(grammar, known, grammar.rules[r].rhs) : r \in RulesOf(grammar, n)}]
    IN  IF more = known THEN known ELSE Sentences(grammar, more)

Language(grammar) == Sentences(grammar, [n \in Nonterminals(grammar) |-> {}])[Start(grammar)]

(***************************************************************************)
(* When lemon reports nothing its own assertions hold, its loops end, and  *)
(* no row is put where others are.  When, besides, every state has an      *)
(* offset, the assertions of the engine hold and its loop ends on every    *)
(* input, sentence or not; and the parser accepts all sentences of the     *)
(* grammar, unless an operator refuses to be repeated.  About              *)
(* CompressTables, which goes round when rules rename in a circle, the     *)
(* sizes of the tables written by ReportTable, the lookups of lempar.c,    *)
(* and the lookaheads that FindLinks and FindFollowSets find.              *)
(***************************************************************************)
EngineRuns ==
    /\ phase \in {"aborted", "hangs"} => errors \/ nconflict # 0
    /\ ~pack.shared
    /\ Succeeded /\ EveryStateHasOffset =>
         LET sentences == Language(g)
         IN  \A word \in Words :
               LET p == Parsed(tables, word)
               IN  /\ p.ok /\ ~p.busy
                   /\ word \in sentences /\ g.assoc[x] # "NONE" => ~p.arg

\* Leftmost derivations, as the string reached and the rules used: one rule
\* more for those that are not over.
Derive(d) ==
    LET at == {i \in DOMAIN d.form : d.form[i] \in Nonterminals(g)}
        i == LeastOf(at)
    IN  IF at = {} THEN {d}
        ELSE {[form |-> SubSeq(d.form, 1, i - 1) \o g.rules[r].rhs
                        \o SubSeq(d.form, i + 1, Len(d.form)),
               used |-> Append(d.used, r)] : r \in RulesOf(g, d.form[i])}

Short(d) == Cardinality({i \in DOMAIN d.form : d.form[i] \in Terminals(g)}) <= MaxWord

RECURSIVE Derivations(_)
Derivations(n) ==
    IF n = 0 THEN {[form |-> <<Start(g)>>, used |-> << >>]}
    ELSE {d \in UNION {Derive(d) : d \in Derivations(n - 1)} : Short(d)}

(***************************************************************************)
(* A grammar without precedences that can read a word in two ways is       *)
(* reported: no two derivations of one word use different rules.  About    *)
(* the conflicts that resolve_conflict counts.                             *)
(***************************************************************************)
AmbiguityReported ==
    Succeeded /\ g.prec = NoPrec =>
      LET words == {d \in Derivations(MaxRules) : Range(d.form) \subseteq Terminals(g)}
      IN  \A c, d \in words : c.form = d.form => c = d

=============================================================================
