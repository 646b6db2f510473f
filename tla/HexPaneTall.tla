---------------------------- MODULE HexPaneTall -----------------------------
(***************************************************************************)
(* The hex pane on files at least as tall as the screen, where it keeps    *)
(* what panes.h asks of it, and the invariant that shows it.  A shorter    *)
(* file takes the view out of the buffer: see HexPane_small.cfg.           *)
(***************************************************************************)
EXTENDS HexPane

ASSUME TallFiles == \A n \in Sizes, h \in Heights : Tall(n, RowBytes, h)

\* After every key the row of the cursor is one of the rows shown, counted
\* without wrapping: the relation between cursor and scroll that each motion
\* relies on when it computes the one from the other.
ViewInv == InView(cursor, scroll, size, RowBytes, height)

\* What the proofs carry from step to step.
IInv == TypeOK /\ ViewInv /\ SavedPlacesInBounds

=============================================================================
