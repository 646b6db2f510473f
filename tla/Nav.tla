-------------------------------- MODULE Nav ---------------------------------
(***************************************************************************)
(* The arithmetic of a scrolling view: how a motion moves the cursor of a  *)
(* buffer and the first row a pane shows.  hex_driver and text_driver hold *)
(* the same code, with 16 bytes to a row in the one and the screen's width *)
(* in the other, so the operators take the row width as a parameter:       *)
(*                                                                         *)
(*   c  cursor, a byte offset           n  size of the buffer              *)
(*   s  scroll, the first row shown     w  bytes to a row                  *)
(*   h  height of the screen: row 0 is the status bar, row h - 1 the       *)
(*      options bar, so h - 2 rows of the buffer are shown                 *)
(***************************************************************************)
EXTENDS Word

\* Offset of the first byte of the row the cursor is on.
RowStart(c, w) == c - (c % w)

\* Offset of the first byte shown, and of the row after the last but one.
Top(s, w) == Wrap(s * w)
Bottom(s, w, h) == Wrap(Top(s, w) + (h - 3) * w)

\* Mutant: the view follows the cursor only once it has left the screen.
LateOverscrollUp(c, s, w) ==
    IF RowStart(c, w) + w < Top(s, w) /\ s > 0 THEN s - 1 ELSE s

\* After the cursor went back to c: show one more row above when the cursor
\* is on one of the first two rows shown.
OverscrollUp(c, s, w) ==
    IF RowStart(c, w) < Wrap(Top(s, w) + 2 * w) /\ s > 0
    THEN s - 1
    ELSE s

\* Mutant: the test that keeps the view from passing the end is reversed.
StuckOverscrollDown(c, s, n, w, h) ==
    IF /\ RowStart(c, w) > Wrap(Bottom(s, w, h) - 2 * w)
       /\ Wrap(s + h - 3) > n \div w
    THEN Wrap(s + 1)
    ELSE s

\* After the cursor went on to c: show one more row below when the cursor is
\* near the bottom, unless the last row is already shown.
OverscrollDown(c, s, n, w, h) ==
    IF /\ RowStart(c, w) > Wrap(Bottom(s, w, h) - 2 * w)
       /\ Wrap(s + h - 3) < n \div w
    THEN Wrap(s + 1)
    ELSE s

\* Mutant: one row down without the test for the last row.
RunawayCursorDown(c, n, w) == Wrap(c + w)

\* One row down; on the last row, to the last byte.
CursorDown(c, n, w) == IF Wrap(c + w) < n THEN Wrap(c + w) ELSE n - 1

\* One row up; on the first row, to the first byte.
CursorUp(c, w) == IF c >= w THEN c - w ELSE 0

\* Mutant: a page up subtracts without asking whether a page is left.
UncheckedPageUp(s, h) == Wrap(s - (h - 3))

\* First row shown after a page up.  The cursor goes to its first byte.
PageUp(s, h) == IF s < Wrap(h - 3) THEN 0 ELSE s - Wrap(h - 3)

\* A page down from here would leave the buffer: it goes to the end instead.
PageIsLast(s, n, w, h) == Wrap(s + h - 3) >= n \div w

PageDown(s, h) == Wrap(s + h - 3)

\* First row shown when the view is at the end of the buffer.
EndScroll(n, w, h) == Wrap(n \div w - h + 3)

\* Mutant: the view starts at the row of the offset's middle, uncapped.
UncappedScroll(offset, n, w, h) == offset \div w + Wrap(h - 2) \div 2

\* buffer_scroll: the first row that puts offset in the middle of the view,
\* kept within the buffer.
CentredScroll(offset, n, w, h) ==
    LET middle == Wrap(h - 2) \div 2
        scroll == Signed(Wrap(offset \div w - middle))
        centred == IF scroll < 0 THEN 0 ELSE scroll
    IN  IF centred > EndScroll(n, w, h) THEN EndScroll(n, w, h) ELSE centred

\* Mutant: the offset is not brought back into the buffer.
RawOffset(offset, n) == offset

\* buffer_scroll: the cursor's new place, an offset past the end being
\* replaced by the last one.
ClampOffset(offset, n) == IF offset > n - 1 THEN n - 1 ELSE offset

\* The offsets the update loops of the panes draw.
Drawn(s, n, w, h) ==
    {a \in 0 .. n - 1 : Top(s, w) <= a /\ a < Top(s, w) + (h - 2) * w}

-----------------------------------------------------------------------------

\* The cursor is on one of the rows shown, counted without wrapping.
InView(c, s, n, w, h) ==
    /\ c \in 0 .. n - 1
    /\ s \in Nat
    /\ s <= c \div w
    /\ c \div w <= s + h - 3

(***************************************************************************)
(* A file of n bytes fits a terminal of height h when it has at least      *)
(* h - 3 full rows, so that the last screenful starts at a row of the      *)
(* file.  It is tall when h is also large enough for the two rows of       *)
(* overscroll at either end.                                               *)
(***************************************************************************)
Fits(n, w, h) ==
    /\ n \in Nat /\ 4 * n <= Modulus
    /\ w \in Nat \ {0}
    /\ h \in Nat /\ h >= 4
    /\ h - 3 <= n \div w

Tall(n, w, h) == Fits(n, w, h) /\ h >= 5

=============================================================================
