------------------------------- MODULE ActTab -------------------------------
(***************************************************************************)
(* The acttab of lemon.c: the packed action table.  The actions of a state *)
(* on its terminals, or on its nonterminals, are one row: a sequence of    *)
(* [lookahead, action], added to the current transaction one by one and    *)
(* inserted as a whole.  All rows share one array of slots.  A row sits at *)
(* an offset, its entry for a lookahead at the slot offset + lookahead, so *)
(* a slot belongs to the offset (slot - its lookahead), and a lookup at an *)
(* offset finds nothing in a slot that belongs to another one.             *)
(*                                                                         *)
(* A table is a record: aAction the slots, indexed from 0, nAction how     *)
(* many of them are in use, nActionAlloc how many there are.               *)
(***************************************************************************)
EXTENDS Integers, Sequences

\* A slot no row has used.
Empty == [lookahead |-> -1, action |-> -1]

acttab_alloc == [aAction |-> << >>, nAction |-> 0, nActionAlloc |-> 0]

\* Least and greatest lookahead of a row.
mnLookahead(row) ==
    CHOOSE m \in {row[j].lookahead : j \in DOMAIN row} :
      \A j \in DOMAIN row : m <= row[j].lookahead
mxLookahead(row) ==
    CHOOSE m \in {row[j].lookahead : j \in DOMAIN row} :
      \A j \in DOMAIN row : m >= row[j].lookahead

\* The offset of the row whose least lookahead is put into slot i, and the
\* slot of a lookahead at an offset.
Slot(offset, lookahead) == offset + lookahead

\* Slots are added when fewer than a whole row of them are left.
Grow(p, nsymbol) ==
    LET n == p.nAction + nsymbol + 1
        alloc == IF n >= p.nActionAlloc THEN n + p.nActionAlloc + 20
                                        ELSE p.nActionAlloc
    IN  [aAction |-> [k \in 0 .. alloc - 1 |->
                        IF k < p.nActionAlloc THEN p.aAction[k] ELSE Empty],
         nAction |-> p.nAction,
         nActionAlloc |-> alloc]

\* The slots in use that belong to an offset.
Belonging(p, offset) ==
    {k \in 0 .. p.nAction - 1 :
       /\ p.aAction[k].lookahead >= 0
       /\ p.aAction[k].lookahead = k - offset}

\* Every entry of the row is in the table at the offset already ...
InPlace(p, row, offset) ==
    \A j \in DOMAIN row :
      LET k == Slot(offset, row[j].lookahead)
      IN  k \in 0 .. p.nAction - 1 /\ p.aAction[k] = row[j]

\* ... and nothing else is.  A row with two entries for one lookahead never
\* counts as found, because the code compares the number of entries.
IsDuplicate(p, row, offset) ==
    /\ InPlace(p, row, offset)
    /\ \A k \in Belonging(p, offset) :
         \E j \in DOMAIN row : Slot(offset, row[j].lookahead) = k
    /\ \A i, j \in DOMAIN row : i # j => row[i].lookahead # row[j].lookahead

\* Mutant: what belongs to the offset already is not looked at.
FitsOverOthers(p, row, offset) ==
    \A j \in DOMAIN row :
      LET k == Slot(offset, row[j].lookahead)
      IN  k \in 0 .. p.nActionAlloc - 1 /\ p.aAction[k].lookahead < 0

\* The slots the row needs are empty, and none belongs to the offset yet.  An
\* empty slot, with its lookahead -1, can also seem to belong to it.
Fits(p, row, offset) ==
    /\ \A j \in DOMAIN row :
         LET k == Slot(offset, row[j].lookahead)
         IN  k \in 0 .. p.nActionAlloc - 1 /\ p.aAction[k].lookahead < 0
    /\ \A k \in 0 .. p.nAction - 1 : p.aAction[k].lookahead # k - offset

\* Offsets from the first to the last: with makeItSafe none is negative, so
\* that every terminal can be looked up.
First(row, makeItSafe) == IF makeItSafe THEN 0 ELSE - mnLookahead(row)

Duplicates(p, row, makeItSafe) ==
    {o \in First(row, makeItSafe) .. p.nAction - 1 - mnLookahead(row) :
       IsDuplicate(p, row, o)}

\* Where the search for a hole gives up: the slots there are free, but nothing
\* has looked at the rows that have the offset already.
End(p, row, makeItSafe) ==
    LET end == p.nActionAlloc - mxLookahead(row) - mnLookahead(row)
    IN  IF end < First(row, makeItSafe) THEN First(row, makeItSafe) ELSE end

Holes(p, row, makeItSafe) ==
    {o \in First(row, makeItSafe) .. End(p, row, makeItSafe) - 1 : Fits(p, row, o)}

\* The highest offset where the row is already, or the lowest hole, or where
\* the search ended, which nothing has looked at.
OffsetOf(p, row, makeItSafe) ==
    LET same == Duplicates(p, row, makeItSafe)
        holes == Holes(p, row, makeItSafe)
    IN  IF same # {} THEN CHOOSE o \in same : \A q \in same : q <= o
        ELSE IF holes # {} THEN CHOOSE o \in holes : \A q \in holes : o <= q
        ELSE End(p, row, makeItSafe)

\* Neither search found a place, and where the second ended other rows are.
Shared(p, row, makeItSafe) ==
    /\ Duplicates(p, row, makeItSafe) = {} /\ Holes(p, row, makeItSafe) = {}
    /\ Belonging(p, End(p, row, makeItSafe)) # {}

\* The slots after the row has been stored at the offset: of two entries for
\* one lookahead the last one stays.
Store(p, row, offset) ==
    [k \in DOMAIN p.aAction |->
       LET js == {j \in DOMAIN row : Slot(offset, row[j].lookahead) = k}
       IN  IF js = {} THEN p.aAction[k]
           ELSE row[CHOOSE j \in js : \A i \in js : i <= j]]

\* A safe row has room for every terminal.
Use(p, row, offset, makeItSafe, nterminal) ==
    LET used == Slot(offset, mxLookahead(row)) + 1
        n == IF p.nAction < used THEN used ELSE p.nAction
        safe == Slot(offset, mnLookahead(row)) + nterminal
    IN  IF makeItSafe /\ safe >= n THEN safe + 1 ELSE n

\* acttab_insert: the table and the offset returned.
acttab_insert(p, row, makeItSafe, nterminal, nsymbol) ==
    LET q == Grow(p, nsymbol)
        offset == OffsetOf(q, row, makeItSafe)
    IN  [table |-> [aAction |-> Store(q, row, offset),
                    nAction |-> Use(q, row, offset, makeItSafe, nterminal),
                    nActionAlloc |-> q.nActionAlloc],
         offset |-> offset,
         shared |-> Shared(q, row, makeItSafe)]

\* The size of the table without its empty tail.
acttab_action_size(p) ==
    CHOOSE n \in 0 .. p.nAction :
      /\ n > 0 => p.aAction[n - 1].lookahead >= 0
      /\ \A k \in n .. p.nAction - 1 : p.aAction[k].lookahead < 0

\* The action found at an offset for a lookahead, -1 when there is none.
Lookup(p, offset, lookahead) ==
    LET k == Slot(offset, lookahead)
    IN  IF k \in DOMAIN p.aAction /\ p.aAction[k].lookahead = lookahead
        THEN p.aAction[k].action ELSE -1

=============================================================================
