------------------------------ MODULE TextPane ------------------------------
(***************************************************************************)
(* The text pane: one action for each case of text_driver, and text_scroll.*)
(* It shows the buffer that the hex pane shows, with as many bytes to a    *)
(* row as the terminal is wide, and moves by whole bytes.  It has no edit  *)
(* mode and no bookmark keys: those keys only redraw the screen.           *)
(***************************************************************************)
EXTENDS Buffer

CONSTANTS
    Heights,  \* heights of the terminal
    Widths,   \* widths of the terminal
    Offsets   \* offsets asked of text_scroll: int64_t values of at least zero

ASSUME TextPaneAssumption ==
    /\ Heights \subseteq Nat
    /\ Widths \subseteq Nat \ {0}
    /\ Offsets \subseteq 0 .. Modulus \div 2 - 1

VARIABLES
    scroll,  \* first row shown
    height,  \* of the terminal, from getmaxyx
    width    \* of the terminal, from getmaxyx

vars == <<size, data, cursor, start_mark, end_mark, bookmarks, editable,
          scroll, height, width>>

\* text_post keeps the offset the buffer was left at.  Bookmarks and a
\* writable mapping come from the hex pane; neither matters here.
Init ==
    /\ BufferOpen
    /\ height \in Heights
    /\ width \in Widths
    /\ scroll = CentredScroll(0, size, width, height)

\* What every key but v leaves alone.
Steady == UNCHANGED <<size, data, start_mark, end_mark, bookmarks, editable,
                      height, width>>

FollowUp == scroll' = OverscrollUp(cursor', scroll, width)

FollowDown == scroll' = OverscrollDown(cursor', scroll, size, width, height)

Left ==
    /\ cursor' = IF cursor > 0 THEN cursor - 1 ELSE cursor
    /\ FollowUp
    /\ Steady

Right ==
    /\ cursor' = IF cursor < size - 1 THEN cursor + 1 ELSE cursor
    /\ FollowDown
    /\ Steady

Up ==
    /\ cursor' = CursorUp(cursor, width)
    /\ FollowUp
    /\ Steady

Down ==
    /\ cursor' = CursorDown(cursor, size, width)
    /\ FollowDown
    /\ Steady

PageUpKey ==
    /\ scroll' = PageUp(scroll, height)
    /\ cursor' = Top(scroll', width)
    /\ Steady

GoEnd ==
    /\ scroll' = EndScroll(size, width, height)
    /\ cursor' = size - 1
    /\ Steady

PageDownKey ==
    \/ /\ PageIsLast(scroll, size, width, height)
       /\ GoEnd
    \/ /\ ~PageIsLast(scroll, size, width, height)
       /\ scroll' = PageDown(scroll, height)
       /\ cursor' = Top(scroll', width)
       /\ Steady

GoHome ==
    /\ scroll' = 0
    /\ cursor' = 0
    /\ Steady

\* text_scroll, through buffer_scroll: Goto and Names.
ScrollTo(offset) ==
    /\ scroll' = CentredScroll(offset, size, width, height)
    /\ cursor' = ClampOffset(offset, size)
    /\ Steady

\* A third v starts the next block at once, where the hex pane clears.
RestartBlock == start_mark' = cursor /\ end_mark' = NoMark

\* v starts a block, then ends it, then starts another.
Mark ==
    /\ \/ /\ start_mark = NoMark
          /\ start_mark' = cursor
          /\ UNCHANGED end_mark
       \/ /\ start_mark # NoMark
          /\ end_mark = NoMark
          /\ end_mark' = cursor
          /\ UNCHANGED start_mark
       \/ /\ HasBlock
          /\ RestartBlock
    /\ UNCHANGED <<size, data, cursor, bookmarks, editable,
                   scroll, height, width>>

\* The keys text_driver acts on.
Key ==
    \/ Left \/ Right \/ Up \/ Down
    \/ PageUpKey \/ PageDownKey
    \/ GoHome \/ GoEnd
    \/ Mark

Next == Key \/ \E offset \in Offsets : ScrollTo(offset)

Spec == Init /\ [][Next]_vars

-----------------------------------------------------------------------------

\* Every variable holds a value of its C type.
TypeOK ==
    /\ BufferTypeOK
    /\ scroll \in Word
    /\ height \in Heights
    /\ width \in Widths

\* The cursor never points outside of the buffer, as panes.h demands, at any
\* width of the terminal that leaves the file enough rows.
CursorInBounds == cursor < size

\* The byte under the cursor is on the screen after every key.
CursorDrawn == cursor \in Drawn(scroll, size, width, height)

\* Moving the cursor or the view never changes a completed block, which this
\* pane always shows.  What v makes of one is not said here.
BlockStays == [][HasBlock => Block' = Block \/ UNCHANGED <<cursor, scroll>>]_vars

=============================================================================
