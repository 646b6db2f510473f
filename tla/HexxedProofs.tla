---------------------------- MODULE HexxedProofs ----------------------------
(***************************************************************************)
(* The whole session on a steady terminal: both panes in turn under the    *)
(* main driver keep every place in the buffer, for every file, height and  *)
(* word size, although the cursor may leave the screen on a resize.        *)
(***************************************************************************)
EXTENDS HexxedSteady, NavProofs, SequenceTheorems

(***************************************************************************)
(* Motions that do not ask for the cursor to be in view.                   *)
(***************************************************************************)

LEMMA TopIsByte ==
    ASSUME NEW n, NEW w, NEW h, Fits(n, w, h), NEW s, TopOf(s, n, w)
    PROVE  Top(s, w) \in 0 .. n - 1
<1>1. /\ n \in Nat /\ w \in Nat \ {0} /\ s \in Nat /\ s < n \div w
      /\ n \div w \in Nat /\ (n \div w) * w <= n
  BY FitsFacts DEF Fits, TopOf
<1>2. s * w + w <= (n \div w) * w
  BY <1>1, MulMono
<1>3. s * w < n
  <2>1. s * w \in Nat /\ (n \div w) * w \in Nat
    BY <1>1
  <2> QED
    BY <1>1, <1>2, <2>1
<1>4. InView(Top(s, w), s, n, w, h)
  BY <1>1, <1>3, RowStartInView
<1> QED
  BY <1>4 DEF InView

LEMMA OverscrollUpKeeps ==
    ASSUME NEW n, NEW w, NEW h, Fits(n, w, h), NEW s, TopOf(s, n, w), NEW c
    PROVE  TopOf(OverscrollUp(c, s, w), n, w)
<1>1. n \div w \in Nat
  BY FitsFacts
<1> QED
  BY <1>1 DEF OverscrollUp, TopOf

LEMMA OverscrollDownKeeps ==
    ASSUME NEW n, NEW w, NEW h, Fits(n, w, h), NEW s, TopOf(s, n, w), NEW c
    PROVE  TopOf(OverscrollDown(c, s, n, w, h), n, w)
<1>1. /\ n \in Nat /\ n >= 1 /\ 4 * n <= Modulus /\ h \in Nat /\ h >= 4 /\ h - 3 <= n
      /\ n \div w \in Nat /\ n \div w <= n /\ s \in Nat /\ s < n \div w
  BY FitsFacts DEF Fits, TopOf
<1>2. Wrap(s + h - 3) = s + h - 3
  BY <1>1, ModulusAssumption, WrapSmall
<1>3. Wrap(s + 1) = s + 1
  BY <1>1, ModulusAssumption, WrapSmall
<1> QED
  BY <1>1, <1>2, <1>3 DEF OverscrollDown, TopOf

LEMMA PagesKeep ==
    ASSUME NEW n, NEW w, NEW h, Fits(n, w, h), NEW s, TopOf(s, n, w)
    PROVE  /\ TopOf(PageUp(s, h), n, w)
           /\ ~PageIsLast(s, n, w, h) => TopOf(PageDown(s, h), n, w)
<1>1. /\ h \in Nat /\ h >= 4 /\ n \div w \in Nat /\ s \in Nat /\ s < n \div w
  BY FitsFacts DEF Fits, TopOf
<1>2. /\ PageUp(s, h) = IF s < h - 3 THEN 0 ELSE s - (h - 3)
      /\ PageIsLast(s, n, w, h) <=> s + h - 3 >= n \div w
      /\ PageDown(s, h) = s + h - 3
  BY <1>1, PageRows
<1> QED
  BY <1>1, <1>2 DEF TopOf

LEMMA EndsKeep ==
    ASSUME NEW n, NEW w, NEW h, Fits(n, w, h)
    PROVE  TopOf(EndScroll(n, w, h), n, w) /\ TopOf(0, n, w) /\ 0 \in 0 .. n - 1
<1>1. n \in Nat /\ n >= 1 /\ h \in Nat /\ h >= 4 /\ n \div w \in Nat /\ h - 3 <= n \div w
  BY FitsFacts DEF Fits
<1>2. EndScroll(n, w, h) = n \div w - h + 3
  BY EndScrollRows
<1> QED
  BY <1>1, <1>2 DEF TopOf

LEMMA CentredKeeps ==
    ASSUME NEW n, NEW w, NEW h, Fits(n, w, h), NEW offset \in Nat, offset < Modulus \div 2
    PROVE  /\ TopOf(CentredScroll(offset, n, w, h), n, w)
           /\ ClampOffset(offset, n) \in 0 .. n - 1
           /\ ClampOffset(offset, n) \in Drawn(CentredScroll(offset, n, w, h), n, w, h)
<1> DEFINE s == CentredScroll(offset, n, w, h)
           c == ClampOffset(offset, n)
           middle == (h - 2) \div 2
           centred == IF offset \div w < middle THEN 0 ELSE offset \div w - middle
           last == n \div w - h + 3
<1>1. InView(c, s, n, w, h)
  BY CentredInView
<1>2. c \in Drawn(s, n, w, h)
  BY <1>1, InViewDrawn
<1>3. /\ h \in Nat /\ h >= 4 /\ n \div w \in Nat /\ h - 3 <= n \div w
      /\ w \in Nat \ {0} /\ offset \div w \in Nat /\ n \in Nat
  BY FitsFacts, RowFacts DEF Fits
<1>4. s = IF centred > last THEN last ELSE centred
  BY CentredScrollRows
<1>5. s \in Nat /\ c \in 0 .. n - 1
  BY <1>1 DEF InView
<1>6. middle \in Nat
  BY <1>3
<1> HIDE DEF s, middle
<1>7. TopOf(s, n, w)
  BY <1>3, <1>4, <1>5, <1>6 DEF TopOf
<1> QED
  BY <1>2, <1>5, <1>7 DEF s

\* What the keys of both panes do to the cursor and the view, with w bytes to
\* a row.
Motion(w) ==
    \/ UNCHANGED <<cursor, scroll>>
    \/ /\ \/ cursor' = cursor
          \/ cursor > 0 /\ cursor' = cursor - 1
          \/ cursor' = CursorUp(cursor, w)
       /\ scroll' = OverscrollUp(cursor', scroll, w)
    \/ /\ \/ cursor' = cursor
          \/ cursor < size - 1 /\ cursor' = cursor + 1
          \/ cursor' = CursorDown(cursor, size, w)
       /\ scroll' = OverscrollDown(cursor', scroll, size, w, height)
    \/ scroll' = PageUp(scroll, height) /\ cursor' = Top(scroll', w)
    \/ scroll' = EndScroll(size, w, height) /\ cursor' = size - 1
    \/ /\ ~PageIsLast(scroll, size, w, height)
       /\ scroll' = PageDown(scroll, height) /\ cursor' = Top(scroll', w)
    \/ scroll' = 0 /\ cursor' = 0
    \/ \E offset \in Nat : /\ offset < Modulus \div 2
                           /\ scroll' = CentredScroll(offset, size, w, height)
                           /\ cursor' = ClampOffset(offset, size)

LEMMA MotionKeeps ==
    ASSUME NEW w, Fits(size, w, height), TopOf(scroll, size, w),
           cursor \in 0 .. size - 1, Motion(w)
    PROVE  TopOf(scroll', size, w) /\ cursor' \in 0 .. size - 1
<1>1. size \in Nat /\ size >= 1 /\ w \in Nat \ {0} /\ cursor \in Nat /\ cursor < size
  BY FitsFacts DEF Fits
<1>2. CASE UNCHANGED <<cursor, scroll>>
  BY <1>2
<1>3. CASE /\ \/ cursor' = cursor
              \/ cursor > 0 /\ cursor' = cursor - 1
              \/ cursor' = CursorUp(cursor, w)
           /\ scroll' = OverscrollUp(cursor', scroll, w)
  BY <1>1, <1>3, OverscrollUpKeeps, CursorUpRow
<1>4. CASE /\ \/ cursor' = cursor
              \/ cursor < size - 1 /\ cursor' = cursor + 1
              \/ cursor' = CursorDown(cursor, size, w)
           /\ scroll' = OverscrollDown(cursor', scroll, size, w, height)
  BY <1>1, <1>4, OverscrollDownKeeps, CursorDownRow
<1>5. CASE scroll' = PageUp(scroll, height) /\ cursor' = Top(scroll', w)
  BY <1>5, PagesKeep, TopIsByte
<1>6. CASE scroll' = EndScroll(size, w, height) /\ cursor' = size - 1
  BY <1>1, <1>6, EndsKeep
<1>7. CASE /\ ~PageIsLast(scroll, size, w, height)
           /\ scroll' = PageDown(scroll, height) /\ cursor' = Top(scroll', w)
  BY <1>7, PagesKeep, TopIsByte
<1>8. CASE scroll' = 0 /\ cursor' = 0
  BY <1>8, EndsKeep
<1>9. CASE \E offset \in Nat : /\ offset < Modulus \div 2
                               /\ scroll' = CentredScroll(offset, size, w, height)
                               /\ cursor' = ClampOffset(offset, size)
  BY <1>9, CentredKeeps
<1> QED
  BY <1>2, <1>3, <1>4, <1>5, <1>6, <1>7, <1>8, <1>9 DEF Motion

-----------------------------------------------------------------------------
(***************************************************************************)
(* The keys of the two panes.                                              *)
(***************************************************************************)

\* The panes compute with the operators this module has.
LEMMA HexNav ==
    /\ \A c, s, w : HexView!OverscrollUp(c, s, w) = OverscrollUp(c, s, w)
    /\ \A c, s, n, w, h : HexView!OverscrollDown(c, s, n, w, h) = OverscrollDown(c, s, n, w, h)
    /\ \A c, n, w : HexView!CursorDown(c, n, w) = CursorDown(c, n, w)
    /\ \A c, w : HexView!CursorUp(c, w) = CursorUp(c, w)
    /\ \A s, h : HexView!PageUp(s, h) = PageUp(s, h)
    /\ \A s, n, w, h : HexView!PageIsLast(s, n, w, h) = PageIsLast(s, n, w, h)
    /\ \A s, h : HexView!PageDown(s, h) = PageDown(s, h)
    /\ \A n, w, h : HexView!EndScroll(n, w, h) = EndScroll(n, w, h)
    /\ \A offset, n, w, h : HexView!CentredScroll(offset, n, w, h) = CentredScroll(offset, n, w, h)
    /\ \A offset, n : HexView!ClampOffset(offset, n) = ClampOffset(offset, n)
    /\ \A s, w : HexView!Top(s, w) = Top(s, w)
    /\ HexView!NoMark = NoMark
  BY DEF HexView!Wrap, HexView!Signed, HexView!Top, HexView!Bottom,
     HexView!RowStart, HexView!OverscrollUp, HexView!OverscrollDown,
     HexView!CursorDown, HexView!CursorUp, HexView!PageUp, HexView!PageIsLast,
     HexView!PageDown, HexView!EndScroll, HexView!CentredScroll,
     HexView!ClampOffset, HexView!NoMark, Wrap, Signed, Top, Bottom, RowStart,
     OverscrollUp, OverscrollDown, CursorDown, CursorUp, PageUp, PageIsLast,
     PageDown, EndScroll, CentredScroll, ClampOffset, NoMark

LEMMA TextNav ==
    /\ \A c, s, w : TextView!OverscrollUp(c, s, w) = OverscrollUp(c, s, w)
    /\ \A c, s, n, w, h : TextView!OverscrollDown(c, s, n, w, h) = OverscrollDown(c, s, n, w, h)
    /\ \A c, n, w : TextView!CursorDown(c, n, w) = CursorDown(c, n, w)
    /\ \A c, w : TextView!CursorUp(c, w) = CursorUp(c, w)
    /\ \A s, h : TextView!PageUp(s, h) = PageUp(s, h)
    /\ \A s, n, w, h : TextView!PageIsLast(s, n, w, h) = PageIsLast(s, n, w, h)
    /\ \A s, h : TextView!PageDown(s, h) = PageDown(s, h)
    /\ \A n, w, h : TextView!EndScroll(n, w, h) = EndScroll(n, w, h)
    /\ \A offset, n, w, h : TextView!CentredScroll(offset, n, w, h) = CentredScroll(offset, n, w, h)
    /\ \A offset, n : TextView!ClampOffset(offset, n) = ClampOffset(offset, n)
    /\ \A s, w : TextView!Top(s, w) = Top(s, w)
    /\ TextView!NoMark = NoMark
  BY DEF TextView!Wrap, TextView!Signed, TextView!Top, TextView!Bottom,
     TextView!RowStart, TextView!OverscrollUp, TextView!OverscrollDown,
     TextView!CursorDown, TextView!CursorUp, TextView!PageUp,
     TextView!PageIsLast, TextView!PageDown, TextView!EndScroll,
     TextView!CentredScroll, TextView!ClampOffset, TextView!NoMark, Wrap,
     Signed, Top, Bottom, RowStart, OverscrollUp, OverscrollDown, CursorDown,
     CursorUp, PageUp, PageIsLast, PageDown, EndScroll, CentredScroll,
     ClampOffset, NoMark

LEMMA HexMotion ==
    ASSUME TypeOK, PlacesInBounds, 4 * size <= Modulus,
           \/ HexView!Key
           \/ \E offset \in Nat : offset < Modulus \div 2 /\ HexView!ScrollTo(offset)
    PROVE  Motion(RowBytes)
<1>1. size \in Nat /\ bookmarks \in Seq(Word) /\ Modulus \in Nat \ {0}
  BY BufferAssumption, ModulusAssumption DEF TypeOK, BufferTypeOK
<1>2. CASE HexView!Left
  BY <1>2, HexNav DEF HexView!Left, HexView!FollowUp, Motion
<1>3. CASE HexView!Right \/ \E digit \in Digits : HexView!Digit(digit)
  BY <1>3, HexNav DEF HexView!Right, HexView!Digit, HexView!Advance, HexView!FollowDown, Motion
<1>4. CASE HexView!Up
  BY <1>4, HexNav DEF HexView!Up, HexView!FollowUp, Motion
<1>5. CASE HexView!Down
  BY <1>5, HexNav DEF HexView!Down, HexView!FollowDown, Motion
<1>6. CASE HexView!PageUpKey
  BY <1>6, HexNav DEF HexView!PageUpKey, Motion
<1>7. CASE HexView!GoEnd
  BY <1>7, HexNav DEF HexView!GoEnd, Motion
<1>8. CASE HexView!PageDownKey
  BY <1>7, <1>8, HexNav DEF HexView!PageDownKey, Motion
<1>9. CASE HexView!GoHome
  BY <1>9 DEF HexView!GoHome, Motion
<1>10. CASE \E offset \in Nat : offset < Modulus \div 2 /\ HexView!ScrollTo(offset)
  BY <1>10, HexNav DEF HexView!ScrollTo, Motion
<1>11. CASE HexView!PopBookmark
  <2> DEFINE b == bookmarks[Len(bookmarks)]
  <2>1. Len(bookmarks) \in 1 .. Len(bookmarks)
    BY <1>1, <1>11 DEF HexView!PopBookmark
  <2>2. b \in Word /\ b < size
    BY <1>1, <2>1 DEF PlacesInBounds
  <2>3. b \in Nat /\ b < Modulus \div 2
    BY <1>1, <2>2 DEF Word
  <2>4. /\ scroll' = CentredScroll(b, size, RowBytes, height)
        /\ cursor' = ClampOffset(b, size)
    BY <1>11, HexNav DEF HexView!PopBookmark, HexView!BookmarkTop
  <2> HIDE DEF b
  <2> QED
    BY <2>3, <2>4 DEF Motion
<1>12. CASE HexView!Mark \/ HexView!PushBookmark \/ HexView!LeaveEdit
  BY <1>12 DEF HexView!Mark, HexView!PushBookmark, HexView!LeaveEdit,
     HexView!paneVars, HexView!bufferVars, Motion
<1> QED
  BY <1>2, <1>3, <1>4, <1>5, <1>6, <1>7, <1>8, <1>9, <1>10, <1>11, <1>12 DEF HexView!Key

LEMMA TextMotion ==
    ASSUME \/ TextView!Key
           \/ \E offset \in Nat : offset < Modulus \div 2 /\ TextView!ScrollTo(offset)
    PROVE  Motion(width)
<1>1. CASE TextView!Left
  BY <1>1, TextNav DEF TextView!Left, TextView!FollowUp, Motion
<1>2. CASE TextView!Right
  BY <1>2, TextNav DEF TextView!Right, TextView!FollowDown, Motion
<1>3. CASE TextView!Up
  BY <1>3, TextNav DEF TextView!Up, TextView!FollowUp, Motion
<1>4. CASE TextView!Down
  BY <1>4, TextNav DEF TextView!Down, TextView!FollowDown, Motion
<1>5. CASE TextView!PageUpKey
  BY <1>5, TextNav DEF TextView!PageUpKey, Motion
<1>6. CASE TextView!GoEnd
  BY <1>6, TextNav DEF TextView!GoEnd, Motion
<1>7. CASE TextView!PageDownKey
  BY <1>6, <1>7, TextNav DEF TextView!PageDownKey, Motion
<1>8. CASE TextView!GoHome
  BY <1>8 DEF TextView!GoHome, Motion
<1>9. CASE \E offset \in Nat : offset < Modulus \div 2 /\ TextView!ScrollTo(offset)
  BY <1>9, TextNav DEF TextView!ScrollTo, Motion
<1>10. CASE TextView!Mark
  BY <1>10 DEF TextView!Mark, Motion
<1> QED
  BY <1>1, <1>2, <1>3, <1>4, <1>5, <1>6, <1>7, <1>8, <1>9, <1>10 DEF TextView!Key

\* What the keys leave alone, and what they do to the nibble and the mode.
LEMMA HexFrame ==
    ASSUME TypeOK, HexView!Key \/ \E offset \in Nat : HexView!ScrollTo(offset)
    PROVE  /\ UNCHANGED <<size, editable, height>>
           /\ odd' \in {0, 1} /\ edit' \in {edit, FALSE}
<1>1. odd \in {0, 1} /\ 1 - odd \in {0, 1}
  BY DEF TypeOK
<1>2. UNCHANGED <<size, editable, height>> /\ edit' \in {edit, FALSE}
  BY DEF HexView!Key, HexView!Left, HexView!Right, HexView!Up, HexView!Down,
     HexView!PageUpKey, HexView!PageDownKey, HexView!GoEnd, HexView!GoHome, HexView!Mark,
     HexView!PushBookmark, HexView!PopBookmark, HexView!LeaveEdit, HexView!Digit,
     HexView!ScrollTo, HexView!Steady, HexView!bufferVars, HexView!paneVars
<1>3. odd' \in {odd, 1 - odd, 0, 1}
  BY DEF HexView!Key, HexView!Left, HexView!Right, HexView!Up, HexView!Down,
     HexView!PageUpKey, HexView!PageDownKey, HexView!GoEnd, HexView!GoHome, HexView!Mark,
     HexView!PushBookmark, HexView!PopBookmark, HexView!LeaveEdit, HexView!Digit,
     HexView!ScrollTo, HexView!Steady, HexView!bufferVars, HexView!paneVars,
     HexView!Advance
<1> QED
  BY <1>1, <1>2, <1>3

LEMMA TextFrame ==
    ASSUME TextView!Key \/ \E offset \in Nat : TextView!ScrollTo(offset)
    PROVE  UNCHANGED <<size, editable, height, width, data, bookmarks>>
  BY DEF TextView!Key, TextView!Left, TextView!Right, TextView!Up, TextView!Down,
     TextView!PageUpKey, TextView!PageDownKey, TextView!GoEnd, TextView!GoHome,
     TextView!Mark, TextView!ScrollTo, TextView!Steady

LEMMA NibbleInByte ==
    ASSUME NEW byte \in 0 .. 255, NEW digit \in 0 .. 15
    PROVE  HexView!WithNibble(byte, digit) \in 0 .. 255
  BY DEF HexView!WithNibble

LEMMA HexData ==
    ASSUME TypeOK, HexView!Key \/ \E offset \in Nat : HexView!ScrollTo(offset)
    PROVE  data' \in [0 .. size - 1 -> 0 .. 255]
<1>1. data \in [0 .. size - 1 -> 0 .. 255] /\ size \in Nat /\ cursor \in Nat
  BY BufferAssumption, ModulusAssumption DEF TypeOK, BufferTypeOK, Word
<1>2. CASE \E digit \in Digits : HexView!Digit(digit)
  <2>1. PICK digit \in Digits : HexView!Digit(digit)
    BY <1>2
  <2>2. CASE cursor < size
    <3>1. cursor \in 0 .. size - 1
      BY <1>1, <2>2
    <3>2. digit \in 0 .. 15 /\ data[cursor] \in 0 .. 255
      BY <1>1, <3>1, HexxedAssumption
    <3>3. HexView!WithNibble(data[cursor], digit) \in 0 .. 255
      BY <3>2, NibbleInByte
    <3> QED
      BY <1>1, <2>1, <2>2, <3>1, <3>3 DEF HexView!Digit
  <2>3. CASE ~(cursor < size)
    BY <1>1, <2>1, <2>3 DEF HexView!Digit
  <2> QED
    BY <2>2, <2>3
<1>3. CASE ~\E digit \in Digits : HexView!Digit(digit)
  BY <1>1, <1>3 DEF HexView!Key, HexView!Left, HexView!Right, HexView!Up, HexView!Down,
     HexView!PageUpKey, HexView!PageDownKey, HexView!GoEnd, HexView!GoHome, HexView!Mark,
     HexView!PushBookmark, HexView!PopBookmark, HexView!LeaveEdit,
     HexView!ScrollTo, HexView!Steady, HexView!bufferVars, HexView!paneVars
<1> QED
  BY <1>2, <1>3

\* A mark is set to the cursor, the end after the start, or a block is dropped,
\* in the text pane for one that starts at the cursor.
MarksStep ==
    \/ UNCHANGED <<start_mark, end_mark>>
    \/ start_mark' = cursor /\ end_mark' = end_mark /\ start_mark = NoMark
    \/ start_mark' = start_mark /\ end_mark' = cursor /\ start_mark # NoMark
    \/ start_mark' \in {NoMark, cursor} /\ end_mark' = NoMark

LEMMA HexMarks ==
    ASSUME HexView!Key \/ \E offset \in Nat : HexView!ScrollTo(offset)
    PROVE  MarksStep
<1>1. CASE HexView!Mark
  BY <1>1, HexNav DEF HexView!Mark, HexView!NextMarks, HexView!HasBlock, HexView!ClearMarks,
     MarksStep
<1>2. CASE ~HexView!Mark
  <2>1. UNCHANGED <<start_mark, end_mark>>
    BY <1>2 DEF HexView!Key, HexView!Left, HexView!Right, HexView!Up, HexView!Down,
       HexView!PageUpKey, HexView!PageDownKey, HexView!GoEnd, HexView!GoHome,
       HexView!PushBookmark, HexView!PopBookmark, HexView!LeaveEdit, HexView!Digit,
       HexView!ScrollTo, HexView!Steady, HexView!bufferVars, HexView!paneVars
  <2> QED
    BY <2>1 DEF MarksStep
<1> QED
  BY <1>1, <1>2

LEMMA TextMarks ==
    ASSUME TextView!Key \/ \E offset \in Nat : TextView!ScrollTo(offset)
    PROVE  MarksStep
<1>1. CASE TextView!Mark
  BY <1>1, TextNav DEF TextView!Mark, TextView!HasBlock, TextView!RestartBlock, MarksStep
<1>2. CASE ~TextView!Mark
  <2>1. UNCHANGED <<start_mark, end_mark>>
    BY <1>2 DEF TextView!Key, TextView!Left, TextView!Right, TextView!Up, TextView!Down,
       TextView!PageUpKey, TextView!PageDownKey, TextView!GoEnd, TextView!GoHome,
       TextView!ScrollTo, TextView!Steady
  <2> QED
    BY <2>1 DEF MarksStep
<1> QED
  BY <1>1, <1>2

\* Of the keys only v changes the marks, outside of edit mode, and it moves
\* neither the cursor nor the view.
LEMMA HexBlock ==
    ASSUME HexView!Key \/ \E offset \in Nat : HexView!ScrollTo(offset)
    PROVE  \/ UNCHANGED <<start_mark, end_mark>>
           \/ ~edit /\ UNCHANGED <<cursor, scroll, edit, size>>
<1>1. CASE HexView!Mark
  BY <1>1 DEF HexView!Mark, HexView!paneVars
<1>2. CASE ~HexView!Mark
  BY <1>2 DEF HexView!Key, HexView!Left, HexView!Right, HexView!Up, HexView!Down,
     HexView!PageUpKey, HexView!PageDownKey, HexView!GoEnd, HexView!GoHome,
     HexView!PushBookmark, HexView!PopBookmark, HexView!LeaveEdit, HexView!Digit,
     HexView!ScrollTo, HexView!Steady, HexView!bufferVars, HexView!paneVars
<1> QED
  BY <1>1, <1>2

LEMMA TextBlock ==
    ASSUME TextView!Key \/ \E offset \in Nat : TextView!ScrollTo(offset)
    PROVE  \/ UNCHANGED <<start_mark, end_mark>>
           \/ UNCHANGED <<cursor, scroll, size>>
<1>1. CASE TextView!Mark
  BY <1>1 DEF TextView!Mark
<1>2. CASE ~TextView!Mark
  BY <1>2 DEF TextView!Key, TextView!Left, TextView!Right, TextView!Up, TextView!Down,
     TextView!PageUpKey, TextView!PageDownKey, TextView!GoEnd, TextView!GoHome,
     TextView!ScrollTo, TextView!Steady
<1> QED
  BY <1>1, <1>2

\* The stack grows by the cursor, while there is room, or shrinks by its top.
BookmarksStep ==
    \/ bookmarks' = bookmarks
    \/ bookmarks' = Append(bookmarks, cursor) /\ Len(bookmarks) < BOOKMARK_STACK_SIZE
    \/ bookmarks # << >> /\ bookmarks' = SubSeq(bookmarks, 1, Len(bookmarks) - 1)

LEMMA HexBookmarks ==
    ASSUME HexView!Key \/ \E offset \in Nat : HexView!ScrollTo(offset)
    PROVE  BookmarksStep
<1>1. CASE HexView!PushBookmark
  BY <1>1 DEF HexView!PushBookmark, HexView!BookmarkPush, BookmarksStep
<1>2. CASE HexView!PopBookmark
  BY <1>2 DEF HexView!PopBookmark, BookmarksStep
<1>3. CASE ~HexView!PushBookmark /\ ~HexView!PopBookmark
  <2>1. bookmarks' = bookmarks
    BY <1>3 DEF HexView!Key, HexView!Left, HexView!Right, HexView!Up, HexView!Down,
       HexView!PageUpKey, HexView!PageDownKey, HexView!GoEnd, HexView!GoHome, HexView!Mark,
       HexView!LeaveEdit, HexView!Digit,
       HexView!ScrollTo, HexView!Steady, HexView!bufferVars, HexView!paneVars
  <2> QED
    BY <2>1 DEF BookmarksStep
<1> QED
  BY <1>1, <1>2, <1>3

-----------------------------------------------------------------------------
(***************************************************************************)
(* Each step keeps the invariant.                                          *)
(***************************************************************************)

LEMMA SessionFacts ==
    ASSUME TypeOK
    PROVE  /\ size \in Nat /\ size >= 1 /\ 4 * size <= Modulus /\ Modulus \in Nat
           /\ file_size \in Nat
           /\ Fits(size, RowBytes, height) /\ Fits(size, width, height)
           /\ Fits(size, RowWidth, height)
           /\ NoMark = Modulus - 1 /\ NoMark' = NoMark
<1>1. size \in Sizes /\ file_size \in Sizes
  BY DEF TypeOK, BufferTypeOK
<1>2. PICK t \in Terminals : t.height = height /\ t.width = width
  BY DEF TypeOK
<1>3. Fits(size, RowBytes, height) /\ Fits(size, width, height)
  BY <1>1, <1>2, SteadyTerminals
<1>4. size \in Nat /\ size >= 1 /\ 4 * size <= Modulus /\ Modulus \in Nat
  BY <1>3, FitsFacts, ModulusAssumption DEF Fits
<1>5. file_size \in Nat
  BY <1>1, BufferAssumption
<1>6. NoMark = Modulus - 1 /\ NoMark' = NoMark
  BY <1>4 DEF NoMark, Wrap
<1> QED
  BY <1>3, <1>4, <1>5, <1>6 DEF RowWidth

\* The keys that go to the posted pane, Goto and Names among them.
Keys == PaneKey \/ Goto \/ Names

LEMMA KeysOfPane ==
    ASSUME IInv, Keys
    PROVE  /\ UNCHANGED <<pane, width, comments, file_size>>
           /\ \/ /\ pane = "hex"
                 /\ \/ HexView!Key
                    \/ \E offset \in Nat :
                         offset < Modulus \div 2 /\ HexView!ScrollTo(offset)
              \/ /\ pane = "text" /\ UNCHANGED <<odd, edit>>
                 /\ \/ TextView!Key
                    \/ \E offset \in Nat :
                         offset < Modulus \div 2 /\ TextView!ScrollTo(offset)
<1>1. /\ size \in Nat /\ 4 * size <= Modulus /\ Modulus \in Nat
      /\ comments \subseteq 0 .. size - 1
  BY SessionFacts DEF IInv, PlacesInBounds
<1>2. CASE PaneKey
  <2>1. TextView!Key => UNCHANGED width
    BY TextFrame
  <2> QED
    BY <1>2, <2>1 DEF PaneKey
<1>3. CASE Goto \/ Names
  <2>1. PICK offset \in Offsets \cup comments : ScrollTo(offset)
    BY <1>3 DEF Goto, Names
  <2>2. offset \in Nat /\ offset < Modulus \div 2
    BY <1>1, HexxedAssumption
  <2>3. TextView!ScrollTo(offset) => UNCHANGED width
    BY <2>2, TextFrame
  <2> QED
    BY <2>1, <2>2, <2>3 DEF ScrollTo
<1> QED
  BY <1>2, <1>3 DEF Keys

LEMMA KeysKeep ==
    ASSUME IInv, Keys
    PROVE  /\ UNCHANGED <<pane, size, editable, height, width, comments, file_size>>
           /\ cursor' \in 0 .. size - 1 /\ TopOf(scroll', size, RowWidth)
           /\ data' \in [0 .. size - 1 -> 0 .. 255]
           /\ odd' \in {0, 1} /\ edit' \in {edit, FALSE}
           /\ MarksStep /\ BookmarksStep
<1>1. /\ TypeOK /\ PlacesInBounds /\ 4 * size <= Modulus
      /\ cursor \in 0 .. size - 1 /\ TopOf(scroll, size, RowWidth)
      /\ Fits(size, RowWidth, height)
  BY SessionFacts DEF IInv, CursorInBounds, TopInBuffer, TypeOK, BufferTypeOK, Word
<1>2. UNCHANGED <<pane, width, comments, file_size>>
  BY KeysOfPane
<1>3. CASE /\ pane = "hex"
           /\ \/ HexView!Key
              \/ \E offset \in Nat : offset < Modulus \div 2 /\ HexView!ScrollTo(offset)
  <2>1. Motion(RowBytes) /\ RowWidth = RowBytes
    BY <1>1, <1>3, HexMotion DEF RowWidth
  <2>2. HexView!Key \/ \E offset \in Nat : HexView!ScrollTo(offset)
    BY <1>3
  <2>3. cursor' \in 0 .. size - 1 /\ TopOf(scroll', size, RowWidth)
    BY <1>1, <2>1, MotionKeeps
  <2> QED
    BY <1>1, <1>2, <2>2, <2>3, HexFrame, HexData, HexMarks, HexBookmarks
<1>4. CASE /\ pane = "text" /\ UNCHANGED <<odd, edit>>
           /\ \/ TextView!Key
              \/ \E offset \in Nat : offset < Modulus \div 2 /\ TextView!ScrollTo(offset)
  <2>1. Motion(width) /\ RowWidth = width
    BY <1>4, TextMotion DEF RowWidth
  <2>2. TextView!Key \/ \E offset \in Nat : TextView!ScrollTo(offset)
    BY <1>4
  <2>3. cursor' \in 0 .. size - 1 /\ TopOf(scroll', size, RowWidth)
    BY <1>1, <2>1, MotionKeeps
  <2>4. data \in [0 .. size - 1 -> 0 .. 255] /\ odd \in {0, 1}
    BY <1>1 DEF TypeOK, BufferTypeOK
  <2>5. UNCHANGED <<size, editable, height, data, bookmarks>> /\ MarksStep
    BY <2>2, TextFrame, TextMarks
  <2> QED
    BY <1>2, <1>4, <2>3, <2>4, <2>5 DEF BookmarksStep
<1> QED
  BY <1>3, <1>4, KeysOfPane

\* The marks and bookmarks of the next state are bytes of the buffer.
LEMMA PlacesKept ==
    ASSUME TypeOK, CursorInBounds, PlacesInBounds, MarksStep, BookmarksStep,
           NEW n \in Nat, size <= n
    PROVE  /\ start_mark' \in Word /\ end_mark' \in Word
           /\ bookmarks' \in Seq(Word) /\ Len(bookmarks') <= BOOKMARK_STACK_SIZE
           /\ \A i \in 1 .. Len(bookmarks') : bookmarks'[i] < n
           /\ start_mark' # NoMark => start_mark' < n
           /\ end_mark' # NoMark => end_mark' < n /\ start_mark' # NoMark
<1>1. /\ size \in Nat /\ 4 * size <= Modulus /\ Modulus \in Nat /\ size >= 1
      /\ NoMark = Modulus - 1 /\ NoMark \in Word
      /\ cursor \in Word /\ cursor \in Nat /\ cursor < size /\ cursor # NoMark
      /\ start_mark \in Word /\ end_mark \in Word
      /\ bookmarks \in Seq(Word) /\ Len(bookmarks) <= BOOKMARK_STACK_SIZE
      /\ BOOKMARK_STACK_SIZE \in Nat
  <2>1. /\ size \in Nat /\ 4 * size <= Modulus /\ Modulus \in Nat /\ size >= 1
        /\ NoMark = Modulus - 1
    BY SessionFacts
  <2>2. /\ cursor \in Word /\ cursor < size
        /\ start_mark \in Word /\ end_mark \in Word
        /\ bookmarks \in Seq(Word) /\ Len(bookmarks) <= BOOKMARK_STACK_SIZE
        /\ BOOKMARK_STACK_SIZE \in Nat
    BY BufferAssumption DEF CursorInBounds, TypeOK, BufferTypeOK
  <2>3. NoMark \in Word /\ cursor \in Nat /\ cursor # NoMark
    BY <2>1, <2>2 DEF Word
  <2> QED
    BY <2>1, <2>2, <2>3
<1>2. /\ start_mark' \in Word /\ end_mark' \in Word
      /\ start_mark' # NoMark => start_mark' < n
      /\ end_mark' # NoMark => end_mark' < n /\ start_mark' # NoMark
  <2>1. /\ start_mark # NoMark => start_mark < n
        /\ end_mark # NoMark => end_mark < n /\ start_mark # NoMark
    BY <1>1 DEF PlacesInBounds, Word
  <2> QED
    BY <1>1, <2>1 DEF MarksStep
<1>3. \A i \in 1 .. Len(bookmarks) : bookmarks[i] < n
  BY <1>1 DEF PlacesInBounds, Word
<1>4. CASE bookmarks' = bookmarks
  BY <1>1, <1>2, <1>3, <1>4
<1>5. CASE bookmarks' = Append(bookmarks, cursor) /\ Len(bookmarks) < BOOKMARK_STACK_SIZE
  <2>1. /\ bookmarks' \in Seq(Word) /\ Len(bookmarks') = Len(bookmarks) + 1
        /\ \A i \in 1 .. Len(bookmarks) : bookmarks'[i] = bookmarks[i]
        /\ bookmarks'[Len(bookmarks) + 1] = cursor
    BY <1>1, <1>5, AppendProperties
  <2>2. \A i \in 1 .. Len(bookmarks') : bookmarks'[i] < n
    BY <1>1, <1>3, <2>1
  <2> QED
    BY <1>1, <1>2, <1>5, <2>1, <2>2
<1>6. CASE bookmarks # << >> /\ bookmarks' = SubSeq(bookmarks, 1, Len(bookmarks) - 1)
  <2> DEFINE m == Len(bookmarks) - 1
  <2>1. m \in Nat /\ m < Len(bookmarks) /\ m <= BOOKMARK_STACK_SIZE
    BY <1>1, <1>6
  <2>2. \A i \in 1 .. m : bookmarks[i] \in Word /\ bookmarks[i] < n
    BY <1>1, <1>3, <2>1
  <2>3. bookmarks' = SubSeq(bookmarks, 1, m)
    BY <1>6
  <2> HIDE DEF m
  <2>4. /\ SubSeq(bookmarks, 1, m) \in Seq(Word)
        /\ Len(SubSeq(bookmarks, 1, m)) = IF 1 <= m THEN m - 1 + 1 ELSE 0
        /\ \A i \in 1 .. m - 1 + 1 : SubSeq(bookmarks, 1, m)[i] = bookmarks[1 + i - 1]
    BY <2>1, <2>2, SubSeqProperties
  <2>5. Len(bookmarks') = m /\ \A i \in 1 .. m : bookmarks'[i] = bookmarks[i]
    BY <2>1, <2>3, <2>4
  <2> QED
    BY <1>2, <2>1, <2>2, <2>3, <2>4, <2>5
<1> QED
  BY <1>4, <1>5, <1>6 DEF BookmarksStep

LEMMA InvKeys == IInv /\ Keys => IInv'
<1> SUFFICES ASSUME IInv, Keys PROVE IInv'
  OBVIOUS
<1>1. /\ TypeOK /\ CursorInBounds /\ PlacesInBounds /\ size \in Nat
      /\ 4 * size <= Modulus /\ Modulus \in Nat /\ NoMark' = NoMark
      /\ Fits(size, RowWidth, height)
  BY SessionFacts DEF IInv
<1>2. /\ UNCHANGED <<pane, size, editable, height, width, comments, file_size>>
      /\ cursor' \in 0 .. size - 1 /\ TopOf(scroll', size, RowWidth)
      /\ data' \in [0 .. size - 1 -> 0 .. 255]
      /\ odd' \in {0, 1} /\ edit' \in {edit, FALSE}
      /\ MarksStep /\ BookmarksStep
  BY KeysKeep
<1>3. /\ start_mark' \in Word /\ end_mark' \in Word
      /\ bookmarks' \in Seq(Word) /\ Len(bookmarks') <= BOOKMARK_STACK_SIZE
      /\ \A i \in 1 .. Len(bookmarks') : bookmarks'[i] < size
      /\ start_mark' # NoMark => start_mark' < size
      /\ end_mark' # NoMark => end_mark' < size /\ start_mark' # NoMark
  BY <1>1, <1>2, PlacesKept
<1>4. cursor' \in Word /\ cursor' < size /\ scroll' \in Word
  <2>1. scroll' \in Nat /\ scroll' < size \div RowWidth
        /\ size \div RowWidth \in Nat /\ size \div RowWidth <= size
    BY <1>1, <1>2, FitsFacts DEF TopOf
  <2> QED
    BY <1>1, <1>2, <2>1 DEF Word
<1>5. TypeOK'
  BY <1>1, <1>2, <1>3, <1>4 DEF TypeOK, BufferTypeOK
<1>6. PlacesInBounds'
  BY <1>1, <1>2, <1>3 DEF PlacesInBounds
<1>7. TopInBuffer'
  BY <1>2 DEF TopInBuffer, RowWidth
<1>8. CursorInBounds' /\ FileGrows'
  BY <1>2, <1>4 DEF IInv, CursorInBounds, FileGrows
<1>9. EditOnlyInHexPane'
  <2>1. edit' => edit
    BY <1>2
  <2> QED
    BY <1>2, <2>1 DEF IInv, EditOnlyInHexPane
<1> QED
  BY <1>5, <1>6, <1>7, <1>8, <1>9 DEF IInv

LEMMA InvSwitch == IInv /\ SwitchPane => IInv'
<1> SUFFICES ASSUME IInv, SwitchPane PROVE IInv'
  OBVIOUS
<1>1. /\ TypeOK /\ size \in Nat /\ 4 * size <= Modulus /\ Modulus \in Nat
      /\ NoMark' = NoMark /\ cursor \in Nat /\ cursor < size
      /\ Fits(size, RowBytes, height) /\ Fits(size, width, height)
  BY SessionFacts DEF IInv, CursorInBounds, TypeOK, BufferTypeOK, Word
<1>2. /\ pane' \in {"hex", "text"} /\ odd' = 0 /\ edit' = FALSE
      /\ UNCHANGED <<size, data, start_mark, end_mark, bookmarks, editable, comments>>
      /\ UNCHANGED <<height, width, file_size>>
      /\ scroll' = CentredScroll(cursor, size, RowWidth', height)
      /\ cursor' = ClampOffset(cursor, size)
  BY DEF SwitchPane, environment, PostAtCursor
<1>3. Fits(size, RowWidth', height)
  BY <1>1, <1>2 DEF RowWidth
<1>4. TopOf(scroll', size, RowWidth') /\ cursor' \in 0 .. size - 1
  <2>1. cursor < Modulus \div 2
    BY <1>1
  <2> QED
    BY <1>1, <1>2, <1>3, <2>1, CentredKeeps
<1>5. cursor' \in Word /\ cursor' < size /\ scroll' \in Word
  <2>1. scroll' \in Nat /\ scroll' < size \div RowWidth'
        /\ size \div RowWidth' \in Nat /\ size \div RowWidth' <= size
    BY <1>3, <1>4, FitsFacts DEF TopOf
  <2> QED
    BY <1>1, <1>4, <2>1 DEF Word
<1>6. TypeOK'
  BY <1>1, <1>2, <1>5 DEF TypeOK, BufferTypeOK
<1>7. PlacesInBounds'
  BY <1>1, <1>2 DEF IInv, PlacesInBounds
<1>8. TopInBuffer'
  BY <1>2, <1>4 DEF TopInBuffer
<1> QED
  BY <1>2, <1>5, <1>6, <1>7, <1>8 DEF IInv, CursorInBounds, FileGrows, EditOnlyInHexPane

LEMMA InvComment == IInv /\ Comment => IInv'
<1> SUFFICES ASSUME IInv, Comment PROVE IInv'
  OBVIOUS
<1>1. /\ UNCHANGED <<size, data, cursor, start_mark, end_mark, bookmarks, editable,
                     pane, scroll, odd, edit, height, width, file_size>>
      /\ comments' \subseteq comments \cup {cursor}
  BY DEF Comment, AddComment, environment
<1>2. /\ size \in Nat /\ Modulus \in Nat /\ NoMark' = NoMark
      /\ cursor \in Word /\ cursor < size
      /\ comments \subseteq Word /\ comments \subseteq 0 .. size - 1
  <2>1. size \in Nat /\ Modulus \in Nat /\ NoMark' = NoMark
    BY SessionFacts DEF IInv
  <2> QED
    BY <2>1 DEF IInv, CursorInBounds, PlacesInBounds, TypeOK, BufferTypeOK
<1>3. comments' \subseteq Word /\ comments' \subseteq 0 .. size - 1
  <2>1. cursor \in 0 .. size - 1
    BY <1>2 DEF Word
  <2> QED
    BY <1>1, <1>2, <2>1
<1> QED
  BY <1>1, <1>2, <1>3 DEF IInv, TypeOK, BufferTypeOK, CursorInBounds, TopInBuffer, RowWidth,
     FileGrows, PlacesInBounds, EditOnlyInHexPane

\* A longer file has all the offsets of a shorter one.
LEMMA LongerRange ==
    ASSUME NEW m \in Nat, NEW n \in Nat, m <= n
    PROVE  0 .. m - 1 \subseteq 0 .. n - 1
  OBVIOUS

LEMMA InvStartEditing == IInv /\ StartEditing => IInv'
<1> SUFFICES ASSUME IInv, StartEditing PROVE IInv'
  OBVIOUS
<1>1. /\ TypeOK /\ size \in Nat /\ file_size \in Nat /\ size <= file_size
      /\ NoMark' = NoMark /\ Fits(size, RowWidth, height)
  BY SessionFacts DEF IInv, FileGrows
<1>2. /\ UNCHANGED <<cursor, start_mark, end_mark, bookmarks, pane, scroll, odd,
                     comments, height, width, file_size>>
      /\ edit' = (edit \/ (pane = "hex" /\ editable'))
  BY DEF StartEditing, EditInHexPane, environment
<1>3. \/ size' = size /\ data' = data /\ editable' = editable
      \/ /\ size' = file_size /\ editable' = TRUE
         /\ data' = [a \in 0 .. file_size - 1 |-> Fill]
  BY DEF StartEditing, Reopen
<1>4. /\ size' \in Sizes /\ size' \in Nat /\ size <= size' /\ size' <= file_size
      /\ data' \in [0 .. size' - 1 -> 0 .. 255] /\ editable' \in BOOLEAN
      /\ editable => editable'
  <2>1. /\ file_size \in Sizes /\ size \in Sizes /\ Fill \in 0 .. 255
        /\ editable \in BOOLEAN /\ data \in [0 .. size - 1 -> 0 .. 255]
    BY <1>1, BufferAssumption DEF TypeOK, BufferTypeOK
  <2>2. CASE size' = size /\ data' = data /\ editable' = editable
    BY <1>1, <2>1, <2>2
  <2>3. CASE /\ size' = file_size /\ editable' = TRUE
             /\ data' = [a \in 0 .. file_size - 1 |-> Fill]
    BY <1>1, <2>1, <2>3
  <2> QED
    BY <1>3, <2>2, <2>3
<1>5. edit' \in BOOLEAN
  BY <1>1, <1>2, <1>4 DEF TypeOK
<1>6. TypeOK'
  BY <1>1, <1>2, <1>4, <1>5 DEF TypeOK, BufferTypeOK
<1>7. CursorInBounds'
  BY <1>1, <1>2, <1>4 DEF IInv, CursorInBounds, TypeOK, BufferTypeOK, Word
<1>8. PlacesInBounds'
  <2>1. /\ comments' \subseteq 0 .. size' - 1
        /\ start_mark' # NoMark => start_mark' < size'
        /\ end_mark' # NoMark => end_mark' < size' /\ start_mark' # NoMark
    <3>1. /\ comments \subseteq 0 .. size - 1
          /\ start_mark # NoMark => start_mark < size
          /\ end_mark # NoMark => end_mark < size /\ start_mark # NoMark
      BY DEF IInv, PlacesInBounds
    <3>2. start_mark \in Nat /\ end_mark \in Nat
      BY <1>1, ModulusAssumption DEF TypeOK, BufferTypeOK, Word
    <3>3. 0 .. size - 1 \subseteq 0 .. size' - 1
      <4>1. size \in Nat /\ size' \in Nat /\ size <= size'
        BY <1>1, <1>4
      <4> QED
        BY <4>1, LongerRange
    <3>4. start_mark' = start_mark /\ end_mark' = end_mark /\ comments' = comments
      BY <1>2
    <3>5. comments' \subseteq 0 .. size' - 1
      BY <3>1, <3>3, <3>4
    <3>6. start_mark # NoMark => start_mark < size'
      BY <1>1, <1>4, <3>1, <3>2
    <3>7. end_mark # NoMark => end_mark < size'
      BY <1>1, <1>4, <3>1, <3>2
    <3> QED
      BY <1>1, <3>1, <3>4, <3>5, <3>6, <3>7
  <2>2. ASSUME NEW i \in 1 .. Len(bookmarks) PROVE bookmarks[i] < size'
    <3>1. bookmarks[i] \in Word /\ bookmarks[i] < size
      BY <1>1, <2>2 DEF IInv, PlacesInBounds, TypeOK, BufferTypeOK
    <3> QED
      BY <1>1, <1>4, <3>1, ModulusAssumption DEF Word
  <2> QED
    BY <1>1, <1>2, <2>1, <2>2 DEF PlacesInBounds
<1>9. TopInBuffer'
  <2>1. RowWidth' = RowWidth /\ RowWidth \in Nat \ {0}
    BY <1>1, <1>2 DEF RowWidth, Fits
  <2>2. size \div RowWidth <= size' \div RowWidth
        /\ size \div RowWidth \in Nat /\ size' \div RowWidth \in Nat
    BY <1>1, <1>4, <2>1, RowMono, RowFacts
  <2>3. scroll \in Nat /\ scroll < size \div RowWidth
    BY DEF IInv, TopInBuffer, TopOf
  <2> QED
    BY <1>2, <2>1, <2>2, <2>3 DEF TopInBuffer, TopOf
<1>10. EditOnlyInHexPane'
  BY <1>2, <1>4 DEF IInv, EditOnlyInHexPane
<1> QED
  BY <1>2, <1>4, <1>6, <1>7, <1>8, <1>9, <1>10 DEF IInv, FileGrows

LEMMA InvResize == IInv /\ Resize => IInv'
<1> SUFFICES ASSUME IInv, Resize PROVE IInv'
  OBVIOUS
<1>1. PICK t \in Terminals : height' = t.height /\ width' = t.width
  BY DEF Resize
<1>2. [height |-> height', width |-> width'] = t
  BY <1>1, HexxedAssumption
<1>3. width' = width
  <2>1. PICK u \in Terminals : u.height = height /\ u.width = width
    BY DEF IInv, TypeOK
  <2> QED
    BY <1>1, <2>1, SteadyTerminals
<1>4. /\ UNCHANGED <<size, data, cursor, start_mark, end_mark, bookmarks, editable>>
      /\ UNCHANGED <<pane, scroll, odd, edit, comments, file_size>> /\ NoMark' = NoMark
  BY SessionFacts DEF IInv, Resize, bufferVars
<1> QED
  BY <1>2, <1>3, <1>4 DEF IInv, TypeOK, BufferTypeOK, CursorInBounds, TopInBuffer, RowWidth,
     FileGrows, PlacesInBounds, EditOnlyInHexPane

LEMMA InvFileChanges == IInv /\ FileChanges => IInv'
<1> SUFFICES ASSUME IInv, FileChanges PROVE IInv'
  OBVIOUS
<1>1. /\ UNCHANGED <<size, data, cursor, start_mark, end_mark, bookmarks, editable>>
      /\ UNCHANGED <<pane, scroll, odd, edit, comments, height, width>> /\ NoMark' = NoMark
      /\ file_size' \in Sizes
  BY SessionFacts DEF IInv, FileChanges, bufferVars
<1>2. size <= file_size'
  <2>1. size \in Nat /\ file_size \in Nat /\ file_size' \in Nat
    BY <1>1, SessionFacts, BufferAssumption DEF IInv
  <2> QED
    BY <2>1, SteadyTerminals DEF IInv, FileGrows, FileChanges
<1> QED
  BY <1>1, <1>2 DEF IInv, TypeOK, BufferTypeOK, CursorInBounds, TopInBuffer, RowWidth,
     FileGrows, PlacesInBounds, EditOnlyInHexPane

LEMMA InvNext == IInv /\ [Next]_vars => IInv'
<1>1. ASSUME IInv, UNCHANGED vars PROVE IInv'
  BY <1>1 DEF vars, NoMark, Wrap, IInv, TypeOK, BufferTypeOK, CursorInBounds, TopInBuffer,
     RowWidth, FileGrows, PlacesInBounds, EditOnlyInHexPane
<1> QED
  BY <1>1, InvKeys, InvSwitch, InvComment, InvStartEditing, InvResize, InvFileChanges
     DEF Next, Keys

LEMMA InvInit == Init => IInv
<1> SUFFICES ASSUME Init PROVE IInv
  OBVIOUS
<1>1. PICK t \in Terminals : height = t.height /\ width = t.width
  BY DEF Init
<1>2. [height |-> height, width |-> width] = t
  BY <1>1, HexxedAssumption
<1>3. size \in Sizes /\ Fits(size, RowBytes, height)
  BY <1>1, SteadyTerminals DEF Init, BufferOpen, BufferFresh
<1>4. /\ size \in Nat /\ size >= 1 /\ 4 * size <= Modulus /\ Modulus \in Nat
      /\ NoMark = Modulus - 1
  BY <1>3, FitsFacts, ModulusAssumption DEF Fits, NoMark, Wrap
<1>5. TopOf(scroll, size, RowBytes)
  <2>1. 0 < Modulus \div 2
    BY <1>4
  <2>2. scroll = CentredScroll(0, size, RowBytes, height)
    BY DEF Init, BufferOpen, BufferFresh, RowWidth
  <2> QED
    BY <1>3, <2>1, <2>2, CentredKeeps
<1>6. scroll \in Word /\ 0 \in Word /\ NoMark \in Word
  <2>1. scroll \in Nat /\ scroll < size \div RowBytes
        /\ size \div RowBytes \in Nat /\ size \div RowBytes <= size
    BY <1>3, <1>5, FitsFacts DEF TopOf
  <2> QED
    BY <1>4, <2>1 DEF Word
<1>7. data \in [0 .. size - 1 -> 0 .. 255] /\ bookmarks \in Seq(Word) /\ Len(bookmarks) = 0
  BY BufferAssumption DEF Init, BufferOpen, BufferFresh
<1>8. TypeOK
  <2>1. /\ cursor = 0 /\ start_mark = NoMark /\ end_mark = NoMark
        /\ editable \in BOOLEAN /\ pane = "hex" /\ odd = 0 /\ edit = FALSE
        /\ comments = {} /\ file_size = size
    BY DEF Init, BufferOpen, BufferFresh
  <2>2. BOOKMARK_STACK_SIZE \in Nat
    BY BufferAssumption
  <2>3. BufferTypeOK
    BY <1>3, <1>6, <1>7, <2>1, <2>2 DEF BufferTypeOK
  <2> QED
    BY <1>2, <1>3, <1>6, <2>1, <2>3 DEF TypeOK
<1>9. PlacesInBounds
  BY <1>7 DEF Init, BufferOpen, BufferFresh, PlacesInBounds
<1>10. CursorInBounds /\ TopInBuffer /\ FileGrows /\ EditOnlyInHexPane
  BY <1>4, <1>5 DEF Init, BufferOpen, BufferFresh, CursorInBounds, TopInBuffer, RowWidth,
     FileGrows, EditOnlyInHexPane
<1> QED
  BY <1>8, <1>9, <1>10 DEF IInv

LEMMA InvAlways == Spec => []IInv
  BY InvInit, InvNext, PTL DEF Spec

-----------------------------------------------------------------------------
(***************************************************************************)
(* The theorems.                                                           *)
(***************************************************************************)

\* The variables of the whole program keep their C types, through reopening
\* and resizing.
THEOREM SessionTypeCorrect == Spec => []TypeOK
<1>1. IInv => TypeOK
  BY DEF IInv
<1> QED
  BY <1>1, InvAlways, PTL

\* No order of keys of both panes, switches, reopenings and changes of height
\* takes the cursor out of the buffer, as panes.h demands.
THEOREM SessionCursorInBuffer == Spec => []CursorInBounds
<1>1. IInv => CursorInBounds
  BY DEF IInv
<1> QED
  BY <1>1, InvAlways, PTL

\* Marks that both panes set and clear in their own way, bookmarks and
\* comments stay bytes of the buffer.
THEOREM SessionPlacesInBuffer == Spec => []PlacesInBounds
<1>1. IInv => PlacesInBounds
  BY DEF IInv
<1> QED
  BY <1>1, InvAlways, PTL

\* Edit mode is on only in the hex pane over a writable mapping, whichever of
\* the two drivers sees F3, Escape and Enter.
THEOREM SessionEditIsSafe == Spec => []EditOnlyInHexPane
<1>1. IInv => EditOnlyInHexPane
  BY DEF IInv
<1> QED
  BY <1>1, InvAlways, PTL

\* A switch of panes keeps the byte under the cursor and shows it, even when a
\* resize had left it off the screen.
THEOREM SwitchesKeepPlace == Spec => SwitchKeepsPlace
<1>1. ASSUME IInv, [Next]_vars
      PROVE  [pane' # pane => cursor' = cursor /\ cursor' \in Shown']_vars
  <2>1. SUFFICES ASSUME Next, pane' # pane PROVE cursor' = cursor /\ cursor' \in Shown'
    BY <1>1
  <2>2. SwitchPane
    <3>1. ~Keys
      BY <1>1, <2>1, KeysOfPane
    <3> QED
      BY <2>1, <3>1 DEF Next, Keys, Comment, StartEditing, Resize, FileChanges
  <2>3. /\ size' = size /\ height' = height /\ width' = width
        /\ pane' \in {"hex", "text"}
        /\ scroll' = CentredScroll(cursor, size, RowWidth', height)
        /\ cursor' = ClampOffset(cursor, size)
    BY <2>2 DEF SwitchPane, environment, PostAtCursor
  <2>4. /\ size \in Nat /\ 4 * size <= Modulus /\ Modulus \in Nat
        /\ cursor \in Nat /\ cursor < size
        /\ Fits(size, RowBytes, height) /\ Fits(size, width, height)
    BY <1>1, SessionFacts DEF IInv, CursorInBounds, TypeOK, BufferTypeOK, Word
  <2>5. Fits(size, RowWidth', height)
    BY <2>3, <2>4 DEF RowWidth
  <2>6. cursor < Modulus \div 2
    BY <2>4
  <2>7. cursor' \in Drawn(scroll', size, RowWidth', height)
    BY <2>3, <2>4, <2>5, <2>6, CentredKeeps
  <2>8. cursor' = cursor
    BY <2>3, <2>4 DEF ClampOffset
  <2> QED
    BY <2>3, <2>7, <2>8 DEF Shown
<1> QED
  BY <1>1, InvAlways, PTL DEF Spec, SwitchKeepsPlace

\* A name chosen from the menu takes the cursor to a byte that has a comment,
\* and shows it, in either pane.
THEOREM NamesFindTheirComment == Spec => NamesFindsComment
<1>1. ASSUME IInv, [Next]_vars
      PROVE  [Names => cursor' \in comments \cap Shown']_vars
  <2>1. SUFFICES ASSUME Names PROVE cursor' \in comments \cap Shown'
    BY <1>1
  <2>2. PICK address \in comments : ScrollTo(address)
    BY <2>1 DEF Names
  <2>3. /\ size \in Nat /\ 4 * size <= Modulus /\ Modulus \in Nat
        /\ address \in Nat /\ address < size /\ Fits(size, RowWidth, height)
    BY <1>1, <2>2, SessionFacts DEF IInv, PlacesInBounds
  <2>4. address < Modulus \div 2
    BY <2>3
  <2>5. UNCHANGED <<pane, size, height, width>>
    BY <1>1, <2>1, KeysKeep DEF Keys
  <2>6. /\ scroll' = CentredScroll(address, size, RowWidth, height)
        /\ cursor' = ClampOffset(address, size)
    BY <2>2, HexNav, TextNav DEF ScrollTo, HexView!ScrollTo, TextView!ScrollTo, RowWidth
  <2>7. cursor' \in Drawn(scroll', size, RowWidth, height)
    BY <2>3, <2>4, <2>6, CentredKeeps
  <2>8. cursor' = address
    BY <2>3, <2>6 DEF ClampOffset
  <2>9. RowWidth' = RowWidth
    BY <2>5 DEF RowWidth
  <2> QED
    BY <2>2, <2>5, <2>7, <2>8, <2>9 DEF Shown
<1> QED
  BY <1>1, InvAlways, PTL DEF Spec, NamesFindsComment

\* A completed block is the same bytes after every step of the program, also
\* when a reopening has made the buffer longer, or v has just been typed
\* outside of edit mode.
THEOREM BlocksPersist == Spec => BlockPersists
<1>1. ASSUME IInv, [Next]_vars
      PROVE  [HasBlock =>
                \/ Block' = Block
                \/ ~edit /\ UNCHANGED <<pane, cursor, scroll, edit, size>>]_vars
  <2>1. SUFFICES ASSUME HasBlock
                 PROVE  \/ Block' = Block
                        \/ ~edit /\ UNCHANGED <<pane, cursor, scroll, edit, size>>
    OBVIOUS
  <2>2. /\ size \in Nat /\ file_size \in Nat /\ size <= file_size
        /\ NoMark' = NoMark /\ TypeOK /\ PlacesInBounds
    BY <1>1, SessionFacts DEF IInv, FileGrows
  <2>3. /\ start_mark \in Nat /\ start_mark < size
        /\ end_mark \in Nat /\ end_mark < size
    BY <2>1, <2>2 DEF HasBlock, PlacesInBounds, TypeOK, BufferTypeOK, Word
  <2>4. CASE UNCHANGED <<start_mark, end_mark>> /\ size' \in {size, file_size}
    BY <2>1, <2>2, <2>3, <2>4 DEF Block, HasBlock
  <2>5. CASE Keys
    <3>1. UNCHANGED <<pane, size>>
      BY <1>1, <2>5, KeysKeep
    <3>2. CASE pane = "hex"
      <4>1. HexView!Key \/ \E offset \in Nat : HexView!ScrollTo(offset)
        BY <1>1, <2>5, <3>2, KeysOfPane
      <4> QED
        BY <2>4, <3>1, <4>1, HexBlock
    <3>3. CASE pane # "hex"
      <4>1. /\ UNCHANGED edit
            /\ TextView!Key \/ \E offset \in Nat : TextView!ScrollTo(offset)
        BY <1>1, <2>5, <3>3, KeysOfPane
      <4>2. ~edit
        BY <1>1, <3>3 DEF IInv, EditOnlyInHexPane
      <4> QED
        BY <2>4, <3>1, <4>1, <4>2, TextBlock
    <3> QED
      BY <3>2, <3>3
  <2>6. CASE StartEditing
    BY <2>4, <2>6 DEF StartEditing, Reopen
  <2>7. CASE SwitchPane \/ Comment \/ Resize \/ FileChanges \/ UNCHANGED vars
    BY <2>4, <2>7 DEF SwitchPane, Comment, Resize, FileChanges, bufferVars, vars
  <2> QED
    BY <1>1, <2>5, <2>6, <2>7 DEF Next, Keys
<1> QED
  BY <1>1, InvAlways, PTL DEF Spec, BlockPersists

=============================================================================
