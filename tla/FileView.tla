------------------------------ MODULE FileView ------------------------------
(***************************************************************************)
(* What a buffer promises about the file behind it: there is no view of a  *)
(* file until it is opened, it can then be exchanged once, whole, for a    *)
(* writable one, and it is gone for good when the buffer is closed.        *)
(***************************************************************************)
CONSTANTS
    Files,    \* files on disk
    Lengths   \* lengths of files

VARIABLES
    view,   \* the view there is: a set of at most one
    closed  \* there will be no view any more

\* A view that maps some pages of a file.
Views(writable) ==
    [file : Files, size : Lengths \ {0}, writable : {writable}]

Init == view = {} /\ closed = FALSE

Open ==
    /\ view = {} /\ ~closed
    /\ \E v \in Views(FALSE) : view' = {v}
    /\ UNCHANGED closed

Upgrade ==
    /\ \E v \in Views(FALSE) : view = {v}
    /\ \E v \in Views(TRUE) : view' = {v}
    /\ UNCHANGED closed

Close == view' = {} /\ ~closed /\ closed' = TRUE

Next == Open \/ Upgrade \/ Close

Spec == Init /\ [][Next]_<<view, closed>>

=============================================================================
