---------------------------- MODULE HexxedSteady ----------------------------
(***************************************************************************)
(* The program on a terminal that keeps its width and a file that only     *)
(* grows, with rows enough for the screen in both panes: what its places   *)
(* need to stay in the buffer.                                             *)
(***************************************************************************)
EXTENDS Hexxed

ASSUME SteadyTerminals ==
    /\ ~MayShrink
    /\ \A t, u \in Terminals : t.width = u.width
    /\ \A n \in Sizes, t \in Terminals :
         Fits(n, RowBytes, t.height) /\ Fits(n, t.width, t.height)

\* The first row shown is a full row of the file.  The cursor need not be
\* shown: a lower terminal may have lost it.
TopOf(s, n, w) == s \in Nat /\ s < n \div w

TopInBuffer == TopOf(scroll, size, RowWidth)

\* What F3 maps is never shorter than what is mapped.
FileGrows == size <= file_size

\* What the proofs carry from step to step.
IInv == /\ TypeOK /\ CursorInBounds /\ TopInBuffer /\ FileGrows
        /\ PlacesInBounds /\ EditOnlyInHexPane

=============================================================================
