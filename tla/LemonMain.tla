----------------------------- MODULE LemonMain -----------------------------
(***************************************************************************)
(* The tables lemon writes for a grammar: what the phases of main() do one *)
(* after the other, as a function of the grammar.                          *)
(***************************************************************************)
EXTENDS Tables

\* Up to 2^n steps of buildshifts, or until all calls have returned.
RECURSIVE Build(_, _, _, _)
Build(g, ff, b, n) ==
    LET half == Build(g, ff, b, n - 1)
    IN  IF b.calls = << >> THEN b
        ELSE IF n = 0
        THEN IF Head(b.calls).todo = {} THEN [b EXCEPT !.calls = Tail(@)]
                                        ELSE buildshifts(g, ff, b.states, b.calls)
        ELSE IF half.calls = << >> THEN half
        ELSE Build(g, ff, half, n - 1)

\* The follow sets that the passes of FindFollowSets come to; linked has the
\* links as pairs.
RECURSIVE Propagated(_, _)
Propagated(linked, fws) ==
    LET news == {l \in linked : ~ fws[l[1]] \subseteq fws[l[2]]}
        more == [to \in DOMAIN fws |->
                   fws[to] \cup UNION {fws[l[1]] : l \in {n \in news : n[2] = to}}]
    IN  IF more = fws THEN fws ELSE Propagated(linked, more)

Linked(links) == UNION {{<<at, to>> : to \in links[at]} : at \in DOMAIN links}

RECURSIVE Resolved(_, _, _)
Resolved(g, aps, conflicts) ==
    IF conflicts = {} THEN aps
    ELSE Resolved(g, Resolve(g, aps, FirstConflict(conflicts)).aps,
                  conflicts \ {FirstConflict(conflicts)})

RECURSIVE AllRenamed(_, _)
AllRenamed(g, sts) ==
    LET at == FirstRenaming(Renaming(g, sts))
    IN  IF Renaming(g, sts) = {} THEN sts
        ELSE AllRenamed(g, [sts EXCEPT ![at[1]].ap = Rename(g, @, at[2]).ap])

RECURSIVE PackAll(_, _, _, _, _)
PackAll(g, sts, sorted, sets, pack) ==
    IF Len(pack.rows) = Len(sets) THEN pack
    ELSE PackAll(g, sts, sorted, sets,
                 Pack(g, sts, sorted, sets[Len(pack.rows) + 1], pack))

Generated(g) ==
    LET ff == FindFirstSets(g)
        states == Build(g, ff, FindStates(g, ff), 20).states
        fws == Propagated(Linked(FindLinks(states)), FollowInit(states).fws)
        aps == CollectActions(g, states, fws)
        resolved == Resolved(g, aps, Conflicts(aps))
        sts == AllRenamed(g, CompressTables(g, resolved))
        sorted == ResortStates(g, sts)
    IN  ReportTable(g, sts, sorted, PackAll(g, sts, sorted, axset(g, sts, sorted), PackInit))

=============================================================================
