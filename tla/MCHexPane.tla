------------------------------ MODULE MCHexPane -----------------------------
(***************************************************************************)
(* Which data the model checker combines.  Typing and stacked bookmarks    *)
(* are followed on the shortest of the files, without a block; views, and  *)
(* the places in them, on the longer ones, which no digit changes.         *)
(***************************************************************************)
EXTENDS HexPaneTall

Typed == {a \in 0 .. size - 1 : data[a] # Fill}

Shortest == \A n \in Sizes : size <= n

\* State constraint.
Bounded ==
    IF Shortest
    THEN Cardinality(Typed) + Len(bookmarks) <= 2 /\ start_mark = NoMark
    ELSE Typed = {} /\ Len(bookmarks) <= 1

=============================================================================
