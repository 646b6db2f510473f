------------------------------ MODULE MCHexxed ------------------------------
(***************************************************************************)
(* Terminals for the model checker.  Rows of one byte in the hex pane and  *)
(* of two in the text pane make a file of 4 bytes tall enough for a screen *)
(* of height 5, which shows 3 rows.                                        *)
(***************************************************************************)
EXTENDS Hexxed

\* A terminal that changes in height only.
ResizedInHeight ==
    {[height |-> 4, width |-> 2], [height |-> 5, width |-> 2]}

\* A terminal that becomes three times as wide, or a third.
Widened ==
    {[height |-> 5, width |-> 2], [height |-> 5, width |-> 6]}

=============================================================================
