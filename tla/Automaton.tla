----------------------------- MODULE Automaton -----------------------------
(***************************************************************************)
(* The states of the parser that lemon builds: FindStates with getstate,   *)
(* buildshifts and the configuration lists, FindLinks, FindFollowSets.     *)
(*                                                                         *)
(* A configuration is a rule with a dot: <<rule, dot>>.  A state is a      *)
(* record: bp its basis, cfp all its configurations, shifts the states     *)
(* reached by a symbol; fws what follows a configuration as far as is      *)
(* known, fplp the configurations of the state that inherit what follows   *)
(* one, bplp where those of the basis inherit it from.  The states are a   *)
(* sequence: the state with number n is at n + 1.  "At" is a pair of a     *)
(* state's place and a configuration in it.                                *)
(***************************************************************************)
EXTENDS Grammar, SequencesExt

Shiftable(g, c) == c[2] < Len(g.rules[c[1]].rhs)
SymbolAfter(g, c) == g.rules[c[1]].rhs[c[2] + 1]
Complete(g, c) == c[2] = Len(g.rules[c[1]].rhs)

\* What comes after the symbol that comes after the dot.
RestAfter(g, c) == SubSeq(g.rules[c[1]].rhs, c[2] + 2, Len(g.rules[c[1]].rhs))

\* Configcmp: rules in file order, then dots.
Configcmp(c, d) == c[1] < d[1] \/ (c[1] = d[1] /\ c[2] < d[2])

Configs(g) == UNION {{<<r, dot>> : dot \in 0 .. Len(g.rules[r].rhs)} : r \in Rules(g)}

\* A set as a sequence, in an order: the pairs of an element and a later one.
Sorted(S, order) ==
    LET placed == {<<Cardinality({y \in S : <<y, x>> \in order}) + 1, x>> : x \in S}
    IN  [i \in 1 .. Cardinality(S) |-> (CHOOSE p \in placed : p[1] = i)[2]]

FirstConfig(configs) ==
    CHOOSE c \in configs : \A d \in configs : d = c \/ Configcmp(c, d)

\* Configurations that the symbol after the dot of c brings in.
Brought(g, c) ==
    IF Shiftable(g, c) THEN {<<r, 0>> : r \in RulesOf(g, SymbolAfter(g, c))} ELSE {}

Closure(g, basis) ==
    Grown([cfp \in SUBSET Configs(g) |-> cfp \cup UNION {Brought(g, c) : c \in cfp}],
          basis, Cardinality(Configs(g)))

\* A new state for a basis, with what its configurations start with, and links
\* back to where the basis comes from.
NewState(g, ff, basis, fws, bplp) ==
    LET cfp == Closure(g, basis)
        By(d) == {c \in cfp : d \in Brought(g, c)}
    IN  [bp |-> basis, cfp |-> cfp, shifts |-> {}, bplp |-> bplp,
         fws |-> [d \in cfp |->
                    (IF d \in basis THEN fws ELSE {})
                    \cup UNION {FirstOf(g, ff.lambda, ff.first, RestAfter(g, c)) :
                                  c \in By(d)}],
         fplp |-> [c \in cfp |->
                     IF Shiftable(g, c) /\ Range(RestAfter(g, c)) \subseteq ff.lambda
                     THEN Brought(g, c) ELSE {}]]

\* A state that exists already takes over the links of the one not made.
CopyLinks(states, k, bplp) ==
    [states EXCEPT ![k].bplp = [c \in DOMAIN bplp |-> @[c] \cup bplp[c]]]

(***************************************************************************)
(* getstate, and buildshifts, which it calls on a new state and which      *)
(* calls it on every successor.  Their calls are a stack: for each state   *)
(* whose shifts are being built, its place and the configurations still to *)
(* be moved over, in the order of the first one for each symbol.           *)
(***************************************************************************)

\* The state with this basis, made unless it is there already.
getstate(g, ff, states, calls, basis, fws, bplp) ==
    LET same == {k \in DOMAIN states : states[k].bp = basis}
        new == NewState(g, ff, basis, fws, bplp)
    IN  IF same # {}
        THEN [states |-> CopyLinks(states, CHOOSE k \in same : TRUE, bplp), calls |-> calls]
        ELSE [states |-> Append(states, new),
              calls |-> <<[place |-> Len(states) + 1,
                           todo |-> {c \in new.cfp : Shiftable(g, c)}]>> \o calls]

\* The first state has the rules of the start symbol as its basis, and the end
\* of the input follows them.
FindStates(g, ff) ==
    LET basis == {<<r, 0>> : r \in RulesOf(g, Start(g))}
    IN  getstate(g, ff, << >>, << >>, basis, {0}, [c \in basis |-> {}])

PlaceOf(states, basis) == CHOOSE k \in DOMAIN states : states[k].bp = basis

\* The loop body of the innermost buildshifts: one symbol, one successor.
buildshifts(g, ff, states, calls) ==
    LET k == Head(calls).place
        todo == Head(calls).todo
        sp == SymbolAfter(g, FirstConfig(todo))
        moved == {c \in todo : SymbolAfter(g, c) = sp}
        basis == {<<c[1], c[2] + 1>> : c \in moved}
        got == getstate(g, ff, states, [calls EXCEPT ![1].todo = @ \ moved], basis, {},
                        [c \in basis |-> {<<k, <<c[1], c[2] - 1>>>>}])
    IN  [got EXCEPT !.states[k].shifts =
           @ \cup {[sp |-> sp, x |-> PlaceOf(got.states, basis)]}]

\* Reported, and counted as an error: the start symbol on a right-hand side,
\* and a nonterminal without a rule.
GrammarErrors(g) ==
    \/ \E r \in Rules(g) : Start(g) \in Range(g.rules[r].rhs)
    \/ \E r \in Rules(g) : \E s \in Range(g.rules[r].rhs) :
         s \in Nonterminals(g) /\ RulesOf(g, s) = {}

\* Everywhere a configuration is; state by state, and sorted in each.
Places(states) == UNION {{<<k, c>> : c \in states[k].cfp} : k \in DOMAIN states}
Before(at, to) == at[1] < to[1] \/ (at[1] = to[1] /\ Configcmp(at[2], to[2]))

\* FindLinks: where what follows a configuration follows others too.
FindLinks(states) ==
    [at \in Places(states) |->
       LET moved == <<at[2][1], at[2][2] + 1>>
       IN  {<<at[1], c>> : c \in states[at[1]].fplp[at[2]]}
           \cup {<<j, moved>> : j \in {k \in DOMAIN states :
                   moved \in states[k].bp /\ at \in states[k].bplp[moved]}}]

(***************************************************************************)
(* FindFollowSets.  A pass goes through all configurations, adds what      *)
(* follows an incomplete one to what follows those it is linked to, and    *)
(* marks those that gained something as incomplete again; passes are made  *)
(* until one changes nothing.                                              *)
(***************************************************************************)

\* The pass has yet to come to the places ahead.
FollowInit(states) ==
    [fws |-> [at \in Places(states) |-> states[at[1]].fws[at[2]]],
     incomplete |-> Places(states), ahead |-> Places(states), progress |-> FALSE]

\* Mutant: what gained something stays complete.
NotMarked(f, changed) == f.incomplete

Marked(f, changed) == f.incomplete \cup changed

\* Nothing incomplete is left in this pass.
PassOver(f) == f.incomplete \cap f.ahead = {}

\* The loop body for the next configuration of the pass that is incomplete.
Propagate(links, f) ==
    LET left == f.incomplete \cap f.ahead
        at == CHOOSE a \in left : \A b \in left : a = b \/ Before(a, b)
        changed == {to \in links[at] : ~ f.fws[at] \subseteq f.fws[to]}
    IN  [fws |-> [to \in DOMAIN f.fws |->
                    IF to \in changed THEN f.fws[to] \cup f.fws[at] ELSE f.fws[to]],
         incomplete |-> Marked(f, changed) \ {at},
         ahead |-> {to \in f.ahead : Before(at, to)},
         progress |-> f.progress \/ changed # {}]

\* Mutant: what the last pass changed counts for the next one too.
StaleNextPass(f) == [f EXCEPT !.ahead = DOMAIN f.fws]

NextPass(f) == [f EXCEPT !.ahead = DOMAIN f.fws, !.progress = FALSE]

=============================================================================
