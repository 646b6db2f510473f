------------------------------- MODULE Hexxed -------------------------------
(***************************************************************************)
(* The program while no dialog is open: the main driver over the pane that *)
(* is posted.  The main driver handles Enter, F3, F5, F9 and ; itself and  *)
(* passes every other key to the pane, so a step is a key from getch to    *)
(* the next getch.  A dialog only contributes its answer: one that is      *)
(* cancelled changes nothing but the screen, a stuttering step.            *)
(*                                                                         *)
(* The terminal and the file belong to the environment.  A resize reaches  *)
(* the program as a key no driver knows: the pane only redraws, with the   *)
(* size the terminal has by then.                                          *)
(***************************************************************************)
EXTENDS Buffer

CONSTANTS
    RowBytes,     \* bytes to a row of the hex pane: 16 in the program
    Terminals,    \* sizes the terminal may take: records [height, width]
    MayShrink,    \* other programs may also truncate the file, not only append
    Digits,       \* values of the hex digits typed in edit mode
    Offsets,      \* results of at least zero of the expressions typed in Goto
    MaxComments   \* bound on the number of comments of a behaviour

ASSUME HexxedAssumption ==
    /\ RowBytes \in Nat \ {0}
    /\ Digits \subseteq 0 .. 15
    /\ Terminals \subseteq [height : Nat, width : Nat \ {0}]
    /\ MayShrink \in BOOLEAN
    /\ Offsets \subseteq 0 .. Modulus \div 2 - 1
    /\ MaxComments \in Nat

VARIABLES
    pane,       \* "hex" or "text": the type of active_pane
    scroll,     \* first row shown by that pane
    odd,        \* of the hex pane; 0 when the text pane is posted
    edit,       \* of the hex pane; FALSE when the text pane is posted
    comments,   \* offsets that have a comment
    height,     \* of the terminal
    width,      \* of the terminal
    file_size   \* length of the file on disk

vars == <<size, data, cursor, start_mark, end_mark, bookmarks, editable,
          pane, scroll, odd, edit, comments, height, width, file_size>>

environment == <<height, width, file_size>>

Heights == {t.height : t \in Terminals}

Widths == {t.width : t \in Terminals}

HexView == INSTANCE HexPane

TextView == INSTANCE TextPane

\* Bytes to a row of the pane that is posted.
RowWidth == IF pane = "hex" THEN RowBytes ELSE width

Init ==
    /\ BufferOpen
    /\ pane = "hex"
    /\ \E t \in Terminals : height = t.height /\ width = t.width
    /\ scroll = CentredScroll(cursor, size, RowWidth, height)
    /\ odd = 0
    /\ edit = FALSE
    /\ comments = {}
    /\ file_size = size

\* A key the main driver leaves to the pane.
PaneKey ==
    /\ \/ pane = "hex" /\ HexView!Key /\ UNCHANGED width
       \/ pane = "text" /\ TextView!Key /\ UNCHANGED <<odd, edit>>
    /\ UNCHANGED <<pane, comments, file_size>>

\* Mutant: the new pane starts at the top of the buffer.
PostAtTop == scroll' = 0 /\ UNCHANGED cursor

\* hex_post and text_post open the new pane where the buffer's cursor is.
PostAtCursor ==
    /\ scroll' = CentredScroll(cursor, size, RowWidth', height)
    /\ cursor' = ClampOffset(cursor, size)

\* Enter: the next pane is posted on the same buffer, with an unpost of the
\* old one that forgets its scroll, its nibble and its edit mode.
SwitchPane ==
    /\ pane' = IF pane = "hex" THEN "text" ELSE "hex"
    /\ UNCHANGED environment
    /\ PostAtCursor
    /\ odd' = 0
    /\ edit' = FALSE
    /\ UNCHANGED <<size, data, start_mark, end_mark, bookmarks, editable,
                   comments>>

\* pane_scroll.
ScrollTo(offset) ==
    /\ \/ pane = "hex" /\ HexView!ScrollTo(offset) /\ UNCHANGED width
       \/ pane = "text" /\ TextView!ScrollTo(offset) /\ UNCHANGED <<odd, edit>>
    /\ UNCHANGED <<pane, comments, file_size>>

\* F5 with an expression that has a value of at least zero.
Goto == \E offset \in Offsets : ScrollTo(offset)

\* F9 with a name chosen from the menu.
Names == \E address \in comments : ScrollTo(address)

\* Mutant: the comment is put one byte after the cursor.
CommentAfterCursor == comments' = comments \cup {cursor + 1}

AddComment == comments' = comments \cup {cursor}

\* ; with an answer: a blank one removes the comment of the byte under the
\* cursor, another one replaces it.
Comment ==
    /\ \/ AddComment
       \/ comments' = comments \ {cursor}
    /\ Cardinality(comments') <= MaxComments
    /\ UNCHANGED <<size, data, cursor, start_mark, end_mark, bookmarks,
                   editable, pane, scroll, odd, edit>>
    /\ UNCHANGED environment

\* buffer_try_reopen, when it succeeds: the buffer becomes a writable view of
\* the file as long as it is now.  Nothing else of the buffer is brought in
\* line with the new size.
Reopen ==
    /\ size' = file_size
    /\ data' = [a \in 0 .. file_size - 1 |-> Fill]
    /\ editable' = TRUE

\* Mutant: the text pane takes F3 for itself.
EditAnywhere == edit' = TRUE

\* hex_driver enters edit mode when the buffer is writable by now.
EditInHexPane == edit' = (edit \/ (pane = "hex" /\ editable'))

\* F3.  A file that cannot be opened for writing leaves the buffer intact.
StartEditing ==
    /\ \/ ~editable /\ Reopen
       \/ UNCHANGED <<size, data, editable>>
    /\ EditInHexPane
    /\ UNCHANGED <<cursor, start_mark, end_mark, bookmarks, pane, scroll, odd,
                   comments>>
    /\ UNCHANGED environment

\* The environment.
Resize ==
    /\ \E t \in Terminals : height' = t.height /\ width' = t.width
    /\ UNCHANGED bufferVars
    /\ UNCHANGED <<pane, scroll, odd, edit, comments, file_size>>

\* Another program changes the length of the file.  While it is mapped for
\* writing this is left out: bytes past the end of the file cannot be read.
FileChanges ==
    /\ ~editable
    /\ file_size' \in Sizes
    /\ MayShrink \/ file_size' > file_size
    /\ UNCHANGED bufferVars
    /\ UNCHANGED <<pane, scroll, odd, edit, comments, height, width>>

Next ==
    \/ PaneKey
    \/ SwitchPane \/ Goto \/ Names \/ Comment \/ StartEditing
    \/ Resize \/ FileChanges

Spec == Init /\ [][Next]_vars

-----------------------------------------------------------------------------

\* Every variable holds a value of its C type.
TypeOK ==
    /\ BufferTypeOK
    /\ pane \in {"hex", "text"}
    /\ scroll \in Word
    /\ odd \in {0, 1}
    /\ edit \in BOOLEAN
    /\ comments \subseteq Word
    /\ [height |-> height, width |-> width] \in Terminals
    /\ file_size \in Sizes

\* The cursor never points outside of the buffer, as panes.h demands, whatever
\* the order of keys of both panes and of resizes.
CursorInBounds == cursor < size

\* The bytes the posted pane shows.
Shown == Drawn(scroll, size, RowWidth, height)

\* Every place the buffer remembers is a byte of it, and a block has no end
\* without a start, although both panes set and clear marks in their own way.
PlacesInBounds ==
    /\ comments \subseteq 0 .. size - 1
    /\ \A i \in 1 .. Len(bookmarks) : bookmarks[i] < size
    /\ start_mark # NoMark => start_mark < size
    /\ end_mark # NoMark => end_mark < size /\ start_mark # NoMark

\* A completed block stays the block of the buffer whatever is done in either
\* pane: switches, Goto and Names, editing, comments, a reopening that finds
\* the file longer.  Only v ends it, outside of edit mode.
BlockPersists ==
    [][HasBlock =>
         \/ Block' = Block
         \/ ~edit /\ UNCHANGED <<pane, cursor, scroll, edit, size>>]_vars

\* Edit mode is on only in the hex pane and over a writable mapping.
EditOnlyInHexPane == edit => pane = "hex" /\ editable

\* Switching panes keeps the byte under the cursor and brings it into view,
\* even when a resize had left it off the screen.
SwitchKeepsPlace ==
    [][pane' # pane => cursor' = cursor /\ cursor' \in Shown']_vars

\* A name chosen from the menu puts the cursor on a byte that has a comment,
\* and in view.
NamesFindsComment == [][Names => cursor' \in comments \cap Shown']_vars

=============================================================================
