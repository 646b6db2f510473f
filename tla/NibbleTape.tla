----------------------------- MODULE NibbleTape -----------------------------
(***************************************************************************)
(* What hex editing promises, without views, rows or key codes: the file   *)
(* is a tape of nibbles under a head.  The tape changes in one way only:   *)
(* while editing, a typed digit replaces the nibble under the head and the *)
(* head goes on to the next nibble, or stays on the last one.  The head    *)
(* may be moved anywhere on the tape, and never leaves it.                 *)
(***************************************************************************)
EXTENDS Integers

VARIABLES
    tape,     \* the nibbles of the file, high nibble of a byte first
    pos,      \* the nibble under the head
    editing   \* digits are accepted

tapeVars == <<tape, pos, editing>>

Positions == DOMAIN tape

Init ==
    /\ pos \in Positions
    /\ editing = FALSE

Type(digit) ==
    /\ editing
    /\ tape' = [tape EXCEPT ![pos] = digit]
    /\ pos' = IF pos + 1 \in Positions THEN pos + 1 ELSE pos
    /\ UNCHANGED editing

Move ==
    /\ pos' \in Positions
    /\ editing' \in BOOLEAN
    /\ UNCHANGED tape

Next == Move \/ \E digit \in 0 .. 15 : Type(digit)

Spec == Init /\ [][Next]_tapeVars

=============================================================================
