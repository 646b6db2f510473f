------------------------------- MODULE Lemon -------------------------------
(***************************************************************************)
(* The parser generator: the phases of main() in lemon.c.  FindStates      *)
(* takes one step for each shift built, FindFollowSets one for each        *)
(* configuration it propagates from, FindActions one for each conflict,    *)
(* CompressTables one for each action renamed and ReportTable one for each *)
(* row it packs.                                                           *)
(***************************************************************************)
EXTENDS Tables, LemparTables

CONSTANT Grammars  \* the grammars that are read

ASSUME LemonAssumption == \A grammar \in Grammars : IsGrammar(grammar)

VARIABLES
    g,          \* the grammar
    phase,      \* the phase to come, or how the run has ended
    ff,         \* which nonterminals may be empty and what they begin with
    states,     \* the states with their configurations
    calls,      \* the calls of buildshifts that have not returned
    follow,     \* the follow sets under construction
    parser,     \* for each state what it does
    conflicts,  \* the pairs of actions that resolve_conflict is still to see
    errors,     \* lem.errorcnt is not 0
    nconflict,
    pack,       \* the action table under construction
    tables      \* what is generated

vars == <<g, phase, ff, states, calls, follow, parser, conflicts, errors, nconflict, pack, tables>>

links == FindLinks(states)

Init ==
    /\ g \in Grammars
    /\ phase = "start"
    /\ ff = << >>
    /\ states = << >>
    /\ calls = << >>
    /\ follow = << >>
    /\ parser = << >>
    /\ conflicts = {}
    /\ errors = FALSE
    /\ nconflict = 0
    /\ pack = PackInit
    /\ tables = << >>

\* FindRulePrecedences is left to the phase that uses it.
FirstState ==
    /\ phase = "start"
    /\ ff' = FindFirstSets(g)
    /\ LET found == FindStates(g, ff') IN states' = found.states /\ calls' = found.calls
    /\ errors' = GrammarErrors(g)
    /\ phase' = "states"
    /\ UNCHANGED <<g, follow, parser, conflicts, nconflict, pack, tables>>

BuildShifts ==
    /\ phase = "states"
    /\ calls # << >> /\ Head(calls).todo # {}
    /\ LET built == buildshifts(g, ff, states, calls)
       IN  states' = built.states /\ calls' = built.calls
    /\ UNCHANGED <<g, phase, ff, follow, parser, conflicts, errors, nconflict, pack, tables>>

ShiftsBuilt ==
    /\ phase = "states"
    /\ calls # << >> /\ Head(calls).todo = {}
    /\ calls' = Tail(calls)
    /\ UNCHANGED <<g, phase, ff, states, follow, parser, conflicts, errors, nconflict, pack, tables>>

StatesFound ==
    /\ phase = "states"
    /\ calls = << >>
    /\ follow' = FollowInit(states)
    /\ phase' = "follow"
    /\ UNCHANGED <<g, ff, states, calls, parser, conflicts, errors, nconflict, pack, tables>>

Follow ==
    /\ phase = "follow"
    /\ ~ PassOver(follow)
    /\ follow' = Propagate(links, follow)
    /\ UNCHANGED <<g, phase, ff, states, calls, parser, conflicts, errors, nconflict, pack, tables>>

FollowPass ==
    /\ phase = "follow"
    /\ PassOver(follow)
    /\ IF follow.progress
       THEN follow' = NextPass(follow) /\ UNCHANGED phase
       ELSE phase' = "actions" /\ UNCHANGED follow
    /\ UNCHANGED <<g, ff, states, calls, parser, conflicts, errors, nconflict, pack, tables>>

FindActions ==
    /\ phase = "actions"
    /\ parser' = CollectActions(g, states, follow.fws)
    /\ conflicts' = Conflicts(parser')
    /\ phase' = "conflicts"
    /\ UNCHANGED <<g, ff, states, calls, follow, errors, nconflict, pack, tables>>

ResolveConflict ==
    /\ phase = "conflicts"
    /\ conflicts # {}
    /\ LET c == FirstConflict(conflicts)
           resolved == Resolve(g, parser, c)
       IN  /\ parser' = resolved.aps
           /\ conflicts' = conflicts \ {c}
           /\ nconflict' = nconflict + resolved.conflict
           /\ phase' = IF resolved.ok THEN phase ELSE "aborted"
    /\ UNCHANGED <<g, ff, states, calls, follow, errors, pack, tables>>

ConflictsResolved ==
    /\ phase = "conflicts"
    /\ conflicts = {}
    /\ errors' = (errors \/ UnreducedRule(g, parser))
    /\ phase' = "compress"
    /\ UNCHANGED <<g, ff, states, calls, follow, parser, conflicts, nconflict, pack, tables>>

CompressAll ==
    /\ phase = "compress"
    /\ parser' = CompressTables(g, parser)
    /\ phase' = "renames"
    /\ UNCHANGED <<g, ff, states, calls, follow, conflicts, errors, nconflict, pack, tables>>

RenameAction ==
    /\ phase = "renames"
    /\ Renaming(g, parser) # {}
    /\ LET at == FirstRenaming(Renaming(g, parser))
           renamed == Rename(g, parser[at[1]].ap, at[2])
       IN  /\ parser' = [parser EXCEPT ![at[1]].ap = renamed.ap]
           /\ phase' = IF renamed.outcome = "ok" THEN phase ELSE renamed.outcome
    /\ UNCHANGED <<g, ff, states, calls, follow, conflicts, errors, nconflict, pack, tables>>

Renamed ==
    /\ phase = "renames"
    /\ Renaming(g, parser) = {}
    /\ phase' = "pack"
    /\ UNCHANGED <<g, ff, states, calls, follow, parser, conflicts, errors, nconflict, pack, tables>>

sorted == ResortStates(g, parser)

PackRow ==
    /\ phase = "pack"
    /\ Len(pack.rows) < Len(axset(g, parser, sorted))
    /\ pack' = Pack(g, parser, sorted, axset(g, parser, sorted)[Len(pack.rows) + 1], pack)
    /\ UNCHANGED <<g, phase, ff, states, calls, follow, parser, conflicts, errors, nconflict, tables>>

Report ==
    /\ phase = "pack"
    /\ Len(pack.rows) = Len(axset(g, parser, sorted))
    /\ tables' = ReportTable(g, parser, sorted, pack)
    /\ phase' = "done"
    /\ UNCHANGED <<g, ff, states, calls, follow, parser, conflicts, errors, nconflict, pack>>

\* The exit status of lemon: a parser has been written in either case.
Succeeded == phase = "done" /\ ~errors /\ nconflict = 0

Ended == phase \in {"done", "aborted", "hangs"}

Next ==
    \/ FirstState \/ BuildShifts \/ ShiftsBuilt \/ StatesFound
    \/ Follow \/ FollowPass
    \/ FindActions \/ ResolveConflict \/ ConflictsResolved
    \/ CompressAll \/ RenameAction \/ Renamed
    \/ PackRow \/ Report

Spec == Init /\ [][Next]_vars

-----------------------------------------------------------------------------

\* The places whose follow sets take over from those of the given ones, link by link.
Inheriting(given) ==
    Grown([ats \in SUBSET Places(states) |-> ats \cup UNION {links[at] : at \in ats}],
          given, Cardinality(Places(states)))

(***************************************************************************)
(* A configuration marked complete has nothing left to give: whatever can  *)
(* follow it is known to follow those it is linked to.  The loop of        *)
(* FindFollowSets may stop when all are complete only because this holds   *)
(* all along, whichever of the links go back; and then a terminal is in    *)
(* the follow set of a configuration exactly if there is a way along the   *)
(* links from one it has been in from the start.                           *)
(***************************************************************************)
FollowSetsExact ==
    /\ phase = "follow" =>
         LET to == links
         IN  \A at \in DOMAIN follow.fws \ follow.incomplete :
               \A next \in to[at] : follow.fws[at] \subseteq follow.fws[next]
    /\ phase = "actions" =>
         \A t \in Terminals(g) :
           {at \in Places(states) : t \in follow.fws[at]}
             = Inheriting({at \in Places(states) : t \in states[at[1]].fws[at[2]]})

\* The number yyruleno is that of the rule r in the tables.
IsRuleNumber(yyruleno, r) ==
    /\ yyruleno \in 0 .. tables.YYNRULE - 1 /\ yyruleno = iRule(g)[r]
    /\ tables.yyRuleInfoLhs[yyruleno] = g.rules[r].lhs
    /\ tables.yyRuleInfoNRhs[yyruleno] = -Len(g.rules[r].rhs)

\* What lempar.c does on finding the number yyact is what the action says.
Says(yyact, a) ==
    LET shifted == a.type = "SHIFTREDUCE" /\ a.sp \in Terminals(g)
    IN  /\ a.type = "SHIFT" => yyact \in 0 .. YY_MAX_SHIFT(tables) /\ sorted[yyact + 1] = a.x
        /\ shifted => /\ yyact > YY_MAX_SHIFT(tables) /\ yyact <= YY_MAX_SHIFTREDUCE(tables)
                      /\ IsRuleNumber(yyact - tables.YY_MIN_SHIFTREDUCE, a.x)
        /\ a.type \in {"REDUCE", "SHIFTREDUCE"} /\ ~shifted =>
             IsRuleNumber(yyact - tables.YY_MIN_REDUCE, a.x)
        /\ a.type = "ERROR" => yyact = tables.YY_ERROR_ACTION
        /\ a.type = "ACCEPT" => yyact = tables.YY_ACCEPT_ACTION

\* A shift that has become an error leaves a reduction beside it: then it is
\* the last of the actions on a symbol.
SaysLast(yyact, ap, sp) ==
    LET on == OnSymbol(ap, sp)
    IN  \E i \in on : (\A j \in on : j <= i) /\ Says(yyact, ap[i])

(***************************************************************************)
(* The parser does what lemon has decided for its states: with the tables  *)
(* written at last, what lempar.c looks up for a state and a symbol is the *)
(* state's action on the symbol, or its default, and the assertions it     *)
(* makes on the way hold.  About the numbers compute_action gives to       *)
(* actions, ResortStates to states and main() to rules, which are made     *)
(* into one range, and the offsets ReportTable writes.                     *)
(*                                                                         *)
(* Two things are not promised.  nAction may be past the array, since      *)
(* acttab_insert makes room before it knows the offset, and a safe row at  *)
(* the end uses nterminal slots more: then acttab_action_size and          *)
(* ReportTable read what is not there.  And states without any action on   *)
(* terminals may come after all offsets: AssertionsHold shows that they    *)
(* may be looked up.                                                       *)
(***************************************************************************)
TablesSayActions ==
    phase = "done" /\ pack.table.nAction <= pack.table.nActionAlloc =>
      /\ WellFormed(tables)
      /\ \A n \in 0 .. YY_MAX_SHIFT(tables) :
           LET ap == parser[sorted[n + 1]].ap
               dflt == OnSymbol(ap, Default(g))
           IN  /\ \A t \in Terminals(g) :
                    LET found == yy_find_shift_action(tables, t, n)
                    IN  IF OnSymbol(ap, t) # {}
                        THEN ShiftAsserts(tables, t, n) /\ SaysLast(found, ap, t)
                        ELSE n \in DOMAIN tables.yy_shift_ofst =>
                               /\ ShiftAsserts(tables, t, n)
                               /\ pack.shared \/ found = tables.yy_default[n]
               /\ \A s \in Nonterminals(g) : OnSymbol(ap, s) # {} =>
                    /\ ReduceAsserts(tables, n, s)
                    /\ SaysLast(yy_find_reduce_action(tables, n, s), ap, s)
               /\ IF dflt = {} THEN tables.yy_default[n] = tables.YY_ERROR_ACTION
                  ELSE \E i \in dflt : Says(tables.yy_default[n], ap[i])

\* What the follow sets lack.
Lacking(fws) ==
    Cardinality({lack \in (DOMAIN fws) \X Terminals(g) : lack[2] \notin fws[lack[1]]})

\* One lacks less, or there is less to go through, or a pass begins that finds nothing.
Closer ==
    LET lacked == Lacking(follow.fws)
        lacks == Lacking(follow'.fws)
        had == Cardinality(follow.incomplete)
        has == Cardinality(follow'.incomplete)
    IN  \/ lacks < lacked
        \/ lacks = lacked /\ has < had
        \/ /\ lacks = lacked /\ has = had
           /\ follow.progress /\ ~follow'.progress

(***************************************************************************)
(* FindFollowSets ends on every grammar: each step adds to a follow set,   *)
(* or leaves one configuration less to go through, or is the start of a    *)
(* pass that finds nothing unless something new is added.                  *)
(***************************************************************************)
AlwaysCloser == [][phase = "follow" /\ phase' = "follow" => Closer]_vars

=============================================================================
