---------------------------- MODULE TextPaneTall ----------------------------
(***************************************************************************)
(* The text pane on files at least as tall as the screen at every width    *)
(* and height of the terminal, and the invariant that shows it keeps the   *)
(* cursor in the buffer and in view.                                       *)
(***************************************************************************)
EXTENDS TextPane

ASSUME TallTexts ==
    \A n \in Sizes, h \in Heights, w \in Widths : Tall(n, w, h)

\* After every key the row of the cursor is one of the rows shown, counted
\* without wrapping.
ViewInv == InView(cursor, scroll, size, width, height)

\* The marks are bytes of the buffer, and a block has no end without a start.
MarksInBounds ==
    /\ start_mark # NoMark => start_mark < size
    /\ end_mark # NoMark => end_mark < size /\ start_mark # NoMark

\* What the proofs carry from step to step.
IInv == TypeOK /\ ViewInv /\ MarksInBounds

=============================================================================
