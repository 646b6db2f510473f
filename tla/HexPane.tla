------------------------------- MODULE HexPane ------------------------------
(***************************************************************************)
(* The hex pane: one action for each case of hex_driver, and hex_scroll,   *)
(* which the main driver calls to go to an offset.  Keys the driver does   *)
(* not know only redraw the screen: they are stuttering steps.             *)
(***************************************************************************)
EXTENDS Buffer

CONSTANTS
    RowBytes,  \* bytes shown on a row: 16 in the program
    Heights,   \* heights of the terminal
    Digits,    \* values of the hex digits typed in edit mode
    Offsets    \* offsets asked of hex_scroll: int64_t values of at least zero

ASSUME HexPaneAssumption ==
    /\ RowBytes \in Nat \ {0}
    /\ Heights \subseteq Nat
    /\ Digits \subseteq 0 .. 15
    /\ Offsets \subseteq 0 .. Modulus \div 2 - 1

VARIABLES
    scroll,  \* first row shown
    odd,     \* 1 when the cursor is on the low nibble, 0 on the high one
    edit,    \* edit mode
    height   \* of the terminal, from getmaxyx

paneVars == <<scroll, odd, edit>>

vars == <<size, data, cursor, start_mark, end_mark, bookmarks, editable,
          scroll, odd, edit, height>>

\* The bytes hex_update draws as selected: none in edit mode.
Selected == {a \in Block : ~edit}

\* hex_post on a buffer just opened.  It may be writable already: F3 pressed
\* in the text pane reopens it, and Enter then posts this pane.
Init ==
    /\ BufferFresh
    /\ editable \in BOOLEAN
    /\ height \in Heights
    /\ scroll = CentredScroll(0, size, RowBytes, height)
    /\ odd = 0
    /\ edit = FALSE

(***************************************************************************)
(* Moving the cursor.                                                      *)
(***************************************************************************)

\* What a motion leaves alone.
Steady == UNCHANGED <<size, data, start_mark, end_mark, bookmarks, editable,
                      edit, height>>

FollowUp == scroll' = OverscrollUp(cursor', scroll, RowBytes)

FollowDown == scroll' = OverscrollDown(cursor', scroll, size, RowBytes, height)

\* Left moves by a nibble in edit mode and by a byte outside of it, and turns
\* odd over in both.
Left ==
    /\ IF cursor > 0
       THEN /\ cursor' = IF odd = 0 \/ ~edit THEN cursor - 1 ELSE cursor
            /\ odd' = 1 - odd
       ELSE /\ cursor' = cursor
            /\ odd' = 0
    /\ FollowUp
    /\ Steady

\* The code from the label advance: Right, and what follows a typed digit.
Advance ==
    /\ IF cursor < size - 1
       THEN /\ cursor' = IF odd = 1 \/ ~edit THEN cursor + 1 ELSE cursor
            /\ odd' = 1 - odd
       ELSE /\ cursor' = cursor
            /\ odd' = IF cursor = size - 1 THEN 1 ELSE odd
    /\ FollowDown

Right == Advance /\ Steady

Down ==
    /\ cursor' = CursorDown(cursor, size, RowBytes)
    /\ FollowDown
    /\ UNCHANGED odd
    /\ Steady

Up ==
    /\ cursor' = CursorUp(cursor, RowBytes)
    /\ FollowUp
    /\ UNCHANGED odd
    /\ Steady

PageUpKey ==
    /\ scroll' = PageUp(scroll, height)
    /\ cursor' = Top(scroll', RowBytes)
    /\ UNCHANGED odd
    /\ Steady

GoEnd ==
    /\ scroll' = EndScroll(size, RowBytes, height)
    /\ cursor' = size - 1
    /\ odd' = 1
    /\ Steady

PageDownKey ==
    \/ /\ PageIsLast(scroll, size, RowBytes, height)
       /\ GoEnd
    \/ /\ ~PageIsLast(scroll, size, RowBytes, height)
       /\ scroll' = PageDown(scroll, height)
       /\ cursor' = Top(scroll', RowBytes)
       /\ UNCHANGED odd
       /\ Steady

GoHome ==
    /\ scroll' = 0
    /\ cursor' = 0
    /\ odd' = 0
    /\ Steady

\* hex_scroll, through buffer_scroll: Goto and Names.
ScrollTo(offset) ==
    /\ scroll' = CentredScroll(offset, size, RowBytes, height)
    /\ cursor' = ClampOffset(offset, size)
    /\ odd' = 0
    /\ Steady

(***************************************************************************)
(* Marks and bookmarks.                                                    *)
(***************************************************************************)

\* Mutant: clearing the block forgets its end.
ClearStartOnly == start_mark' = NoMark /\ UNCHANGED end_mark

ClearMarks == start_mark' = NoMark /\ end_mark' = NoMark

\* What v makes of the marks.
NextMarks ==
    \/ /\ start_mark = NoMark
       /\ start_mark' = cursor
       /\ UNCHANGED end_mark
    \/ /\ start_mark # NoMark
       /\ end_mark = NoMark
       /\ end_mark' = cursor
       /\ UNCHANGED start_mark
    \/ /\ HasBlock
       /\ ClearMarks

\* Mutant: v is not ignored in edit mode.
MarkAnyTime ==
    /\ NextMarks
    /\ UNCHANGED <<size, data, cursor, bookmarks, editable, height>>
    /\ UNCHANGED paneVars

\* v starts a block, then ends it, then clears it.  Not in edit mode.
Mark ==
    /\ ~edit
    /\ NextMarks
    /\ UNCHANGED <<size, data, cursor, bookmarks, editable, height>>
    /\ UNCHANGED paneVars

PushBookmark ==
    /\ BookmarkPush(cursor)
    /\ UNCHANGED <<size, data, cursor, start_mark, end_mark, editable, height>>
    /\ UNCHANGED paneVars

\* Popping goes to the bookmark through buffer_scroll.  It keeps odd, unlike
\* hex_scroll.
PopBookmark ==
    /\ bookmarks # << >>
    /\ bookmarks' = SubSeq(bookmarks, 1, Len(bookmarks) - 1)
    /\ cursor' = ClampOffset(BookmarkTop, size)
    /\ scroll' = CentredScroll(BookmarkTop, size, RowBytes, height)
    /\ UNCHANGED <<size, data, start_mark, end_mark, editable, odd, edit, height>>

(***************************************************************************)
(* Editing.                                                                *)
(***************************************************************************)

\* F3, once the main driver has tried to make the buffer writable.
EnterEdit ==
    /\ ~edit
    /\ editable
    /\ edit' = TRUE
    /\ UNCHANGED <<scroll, odd, height>>
    /\ UNCHANGED bufferVars

\* Escape, when no other character follows it at once.  When one does, it is
\* pushed back and edit mode stays: a stuttering step.
LeaveEdit ==
    /\ edit
    /\ edit' = FALSE
    /\ UNCHANGED <<scroll, odd, height>>
    /\ UNCHANGED bufferVars

\* Mutant: the digit goes to the other nibble.
SwappedNibble(byte, digit) ==
    IF odd = 0 THEN (byte \div 16) * 16 + digit ELSE digit * 16 + (byte % 16)

\* The byte with the nibble under the cursor replaced.
WithNibble(byte, digit) ==
    IF odd = 1 THEN (byte \div 16) * 16 + digit ELSE digit * 16 + (byte % 16)

\* A digit typed in edit mode.  With the cursor outside of the buffer the
\* write leaves the file's bytes alone, or faults and ends the program, which
\* is a behaviour that stops here.
Digit(digit) ==
    /\ edit
    /\ data' = IF cursor < size
               THEN [data EXCEPT ![cursor] = WithNibble(@, digit)]
               ELSE data
    /\ Advance
    /\ UNCHANGED <<size, start_mark, end_mark, bookmarks, editable, edit, height>>

\* The keys hex_driver acts on, F3 apart: the main driver prepares that one.
Key ==
    \/ Left \/ Right \/ Up \/ Down
    \/ PageUpKey \/ PageDownKey
    \/ GoHome \/ GoEnd
    \/ Mark \/ PushBookmark \/ PopBookmark
    \/ LeaveEdit
    \/ \E digit \in Digits : Digit(digit)

Next ==
    \/ Key
    \/ EnterEdit
    \/ \E offset \in Offsets : ScrollTo(offset)

Spec == Init /\ [][Next]_vars

-----------------------------------------------------------------------------

\* Every variable holds a value of its C type, and the stack of bookmarks
\* never outgrows its array.
TypeOK ==
    /\ BufferTypeOK
    /\ scroll \in Word
    /\ odd \in {0, 1}
    /\ edit \in BOOLEAN
    /\ height \in Heights

\* The cursor never points outside of the buffer, as panes.h demands.  It is
\* computed from the scroll by Page up and Page down, in unsigned arithmetic,
\* so this needs every key to keep the first row shown inside the buffer too.
CursorInBounds == cursor < size

\* The byte under the cursor is on the screen after every key: the motions
\* move the cursor and the view separately and must keep them together.
CursorDrawn == cursor \in Drawn(scroll, size, RowBytes, height)

\* The places the buffer remembers stay inside it and well formed: bookmarks
\* and both marks point to bytes of the buffer, and a block has no end
\* without a start.
SavedPlacesInBounds ==
    /\ \A i \in 1 .. Len(bookmarks) : bookmarks[i] < size
    /\ start_mark # NoMark => start_mark < size
    /\ end_mark # NoMark => end_mark < size /\ start_mark # NoMark

\* A completed block stays, wherever the cursor goes and whatever is typed:
\* edit mode hides it, keeps it through its own keys and shows it again as it
\* was.  Only v outside of edit mode ends it, and then nothing is selected.
BlockStays ==
    [][HasBlock =>
         \/ Block' = Block
         \/ ~edit /\ Selected' = {} /\ UNCHANGED <<cursor, scroll, edit>>]_vars

\* Popping a bookmark takes exactly the last one pushed off the stack and puts
\* the cursor on it, with no correction by buffer_scroll.
PopReturns ==
    [][Len(bookmarks') < Len(bookmarks) =>
         /\ Append(bookmarks', cursor') = bookmarks
         /\ cursor' \in Drawn(scroll', size, RowBytes, height)]_vars

\* Pushing never disturbs the bookmarks already there, even on a full stack.
PushKeepsOlder ==
    [][\A i \in 1 .. Len(bookmarks) :
         i <= Len(bookmarks') => bookmarks'[i] = bookmarks[i]]_vars

(***************************************************************************)
(* The abstract tape of nibbles the pane implements.                       *)
(***************************************************************************)
Tape == INSTANCE NibbleTape WITH
    tape <- [i \in 0 .. 2 * size - 1 |->
               IF i % 2 = 0 THEN data[i \div 2] \div 16 ELSE data[i \div 2] % 16],
    pos <- 2 * cursor + odd,
    editing <- edit

\* Whatever the keys, the bytes of the file change only by a digit typed in
\* edit mode, at the nibble the cursor and odd name, and the next digit goes
\* to the next nibble.
ImplementsTape == Tape!Spec

=============================================================================
