--------------------------- MODULE HexPaneProofs ----------------------------
(***************************************************************************)
(* The hex pane on tall files: for every size, height and offset its       *)
(* invariant is inductive, and the safety properties follow from it.       *)
(***************************************************************************)
EXTENDS HexPaneTall, NavProofs, SequenceTheorems

\* The type invariant and the assumptions give the hypothesis of NavProofs.
LEMMA PaneIsTall ==
    ASSUME TypeOK
    PROVE  /\ Tall(size, RowBytes, height) /\ Fits(size, RowBytes, height)
           /\ size \in Nat /\ size >= 2 /\ 4 * size <= Modulus
           /\ Modulus \in Nat
           /\ RowBytes \in Nat \ {0}
           /\ height \in Nat
           /\ NoMark = Modulus - 1
<1>1. size \in Sizes /\ height \in Heights
  BY DEF TypeOK, BufferTypeOK
<1>2. Tall(size, RowBytes, height) /\ Fits(size, RowBytes, height)
  BY <1>1, TallFiles DEF Tall
<1>3. size \in Nat /\ size >= 2 /\ 4 * size <= Modulus
  BY <1>2, TallFacts DEF Tall, Fits
<1>4. NoMark = Modulus - 1
  BY <1>3, ModulusAssumption DEF NoMark, Wrap
<1> QED
  BY <1>2, <1>3, <1>4, ModulusAssumption DEF Tall, Fits

\* A cursor in view is a word, and so is the scroll.
LEMMA ViewWords ==
    ASSUME TypeOK, NEW c, NEW s, InView(c, s, size, RowBytes, height)
    PROVE  /\ c \in Word /\ c < size
           /\ s \in Word
<1>1. /\ Tall(size, RowBytes, height) /\ Fits(size, RowBytes, height)
      /\ size \in Nat /\ 4 * size <= Modulus /\ Modulus \in Nat
  BY PaneIsTall
<1>2. /\ c \in Nat /\ c < size
      /\ s \in Nat /\ s <= size \div RowBytes
  BY <1>1, InViewFacts
<1>3. size \div RowBytes \in Nat /\ size \div RowBytes <= size
  BY <1>1, TallFacts
<1> QED
  BY <1>1, <1>2, <1>3 DEF Word

\* Asking for an offset of the buffer, or any offset of a Goto, shows it.
LEMMA ScrollToInView ==
    ASSUME TypeOK, NEW offset \in Nat, offset < Modulus \div 2
    PROVE  InView(ClampOffset(offset, size),
                  CentredScroll(offset, size, RowBytes, height),
                  size, RowBytes, height)
  BY PaneIsTall, CentredInView

-----------------------------------------------------------------------------
(***************************************************************************)
(* Every key keeps the cursor in view.                                     *)
(***************************************************************************)

\* The code at advance moves by a byte at most, and the view follows.
LEMMA AdvanceInView ==
    ASSUME TypeOK, ViewInv, Advance
    PROVE  InView(cursor', scroll', size, RowBytes, height)
<1>1. /\ Tall(size, RowBytes, height) /\ Fits(size, RowBytes, height)
      /\ size \in Nat /\ RowBytes \in Nat \ {0}
  BY PaneIsTall
<1>2. cursor \in Nat /\ cursor < size /\ cursor \div RowBytes \in Nat
  BY <1>1, InViewFacts DEF ViewInv
<1>3. scroll' = OverscrollDown(cursor', scroll, size, RowBytes, height)
  BY DEF Advance, FollowDown
<1>4. cursor' = cursor \/ (cursor' = cursor + 1 /\ cursor + 1 < size)
  BY <1>1, <1>2 DEF Advance
<1>5. /\ cursor' \in Nat /\ cursor <= cursor' /\ cursor' < size
      /\ cursor' \div RowBytes <= cursor \div RowBytes + 1
  <2>1. CASE cursor' = cursor
    BY <1>2, <2>1
  <2>2. CASE cursor' = cursor + 1 /\ cursor + 1 < size
    <3>1. (cursor + 1) \div RowBytes <= cursor \div RowBytes + 1
      BY <1>1, <1>2, NextByteRow
    <3> QED
      BY <1>2, <2>2, <3>1
  <2> QED
    BY <1>4, <2>1, <2>2
<1> QED
  BY <1>1, <1>3, <1>5, FollowDownInView DEF ViewInv

LEMMA LeftInView ==
    ASSUME TypeOK, ViewInv, Left
    PROVE  InView(cursor', scroll', size, RowBytes, height)
<1>1. /\ Tall(size, RowBytes, height) /\ Fits(size, RowBytes, height)
      /\ size \in Nat /\ RowBytes \in Nat \ {0}
  BY PaneIsTall
<1>2. cursor \in Nat /\ cursor < size /\ cursor \div RowBytes \in Nat
  BY <1>1, InViewFacts DEF ViewInv
<1>3. scroll' = OverscrollUp(cursor', scroll, RowBytes)
  BY DEF Left, FollowUp
<1>4. cursor' = cursor \/ (cursor' = cursor - 1 /\ cursor > 0)
  BY DEF Left
<1>5. /\ cursor' \in Nat /\ cursor' <= cursor
      /\ cursor \div RowBytes - 1 <= cursor' \div RowBytes
  <2>1. CASE cursor' = cursor
    BY <1>2, <2>1
  <2>2. CASE cursor' = cursor - 1 /\ cursor > 0
    <3>1. cursor - 1 \in Nat /\ cursor - 1 + 1 = cursor
      BY <1>2, <2>2
    <3>2. cursor \div RowBytes <= (cursor - 1) \div RowBytes + 1
      BY <1>1, <3>1, NextByteRow
    <3>3. (cursor - 1) \div RowBytes \in Nat
      BY <1>1, <3>1, RowFacts
    <3> QED
      BY <1>2, <2>2, <3>1, <3>2, <3>3
  <2> QED
    BY <1>4, <2>1, <2>2
<1> QED
  BY <1>1, <1>3, <1>5, FollowUpInView DEF ViewInv

\* A step changes neither the buffer's size nor the terminal.
LEMMA StepFrame ==
    ASSUME [Next]_vars
    PROVE  size' = size /\ height' = height
  BY DEF Next, vars, Key, Left, Right, Up, Down, PageUpKey, PageDownKey, GoEnd,
         GoHome, ScrollTo, Mark, PushBookmark, PopBookmark, EnterEdit,
         LeaveEdit, Digit, Steady, bufferVars

\* What the marks, the bookmarks and the edit mode do does not move the view.
LEMMA StandStill ==
    ASSUME Mark \/ PushBookmark \/ EnterEdit \/ LeaveEdit \/ UNCHANGED vars
    PROVE  UNCHANGED <<cursor, scroll>>
  BY DEF Mark, PushBookmark, EnterEdit, LeaveEdit, paneVars, bufferVars, vars

LEMMA StepView ==
    ASSUME IInv, [Next]_vars
    PROVE  ViewInv'
<1> SUFFICES InView(cursor', scroll', size, RowBytes, height)
  BY StepFrame DEF ViewInv
<1>1. /\ TypeOK /\ ViewInv /\ SavedPlacesInBounds
      /\ Tall(size, RowBytes, height) /\ Fits(size, RowBytes, height)
      /\ size \in Nat /\ 4 * size <= Modulus /\ Modulus \in Nat
      /\ RowBytes \in Nat \ {0}
      /\ cursor \in Nat /\ cursor < size
  BY PaneIsTall, InViewFacts DEF IInv, ViewInv
<1>2. CASE Left
  BY <1>1, <1>2, LeftInView
<1>3. CASE Right \/ \E digit \in Digits : Digit(digit)
  <2>1. Advance
    BY <1>3 DEF Right, Digit
  <2> QED
    BY <1>1, <2>1, AdvanceInView
<1>4. CASE Up
  <2>1. /\ cursor' = CursorUp(cursor, RowBytes)
        /\ scroll' = OverscrollUp(cursor', scroll, RowBytes)
    BY <1>4 DEF Up, FollowUp
  <2>2. /\ cursor' \in Nat /\ cursor' <= cursor
        /\ cursor \div RowBytes - 1 <= cursor' \div RowBytes
    BY <1>1, <2>1, CursorUpRow
  <2> QED
    BY <1>1, <2>1, <2>2, FollowUpInView DEF ViewInv
<1>5. CASE Down
  <2>1. /\ cursor' = CursorDown(cursor, size, RowBytes)
        /\ scroll' = OverscrollDown(cursor', scroll, size, RowBytes, height)
    BY <1>5 DEF Down, FollowDown
  <2>2. /\ cursor' \in Nat /\ cursor <= cursor' /\ cursor' < size
        /\ cursor' \div RowBytes <= cursor \div RowBytes + 1
    BY <1>1, <2>1, CursorDownRow
  <2> QED
    BY <1>1, <2>1, <2>2, FollowDownInView DEF ViewInv
<1>6. CASE PageUpKey
  BY <1>1, <1>6, PageUpInView DEF PageUpKey, ViewInv
<1>7. CASE GoEnd
  BY <1>1, <1>7, EndInView DEF GoEnd
<1>8. CASE PageDownKey
  <2>1. CASE GoEnd
    BY <1>7, <2>1
  <2>2. CASE ~PageIsLast(scroll, size, RowBytes, height)
    <3>1. scroll' = PageDown(scroll, height) /\ cursor' = Top(scroll', RowBytes)
      BY <1>8, <2>2 DEF PageDownKey
    <3> QED
      BY <1>1, <2>2, <3>1, PageDownInView DEF ViewInv
  <2> QED
    BY <1>8, <2>1, <2>2 DEF PageDownKey
<1>9. CASE GoHome
  BY <1>1, <1>9, HomeInView DEF GoHome
<1>10. CASE \E offset \in Offsets : ScrollTo(offset)
  <2>1. PICK offset \in Offsets : ScrollTo(offset)
    BY <1>10
  <2>2. offset \in Nat /\ offset < Modulus \div 2
    BY <1>1, HexPaneAssumption
  <2> QED
    BY <1>1, <2>1, <2>2, ScrollToInView DEF ScrollTo
<1>11. CASE PopBookmark
  <2>1. bookmarks \in Seq(Word) /\ bookmarks # << >>
    BY <1>1, <1>11 DEF TypeOK, BufferTypeOK, PopBookmark
  <2>2. Len(bookmarks) \in 1 .. Len(bookmarks)
    BY <2>1
  <2>3. BookmarkTop \in Word /\ BookmarkTop < size
    BY <1>1, <2>1, <2>2 DEF BookmarkTop, SavedPlacesInBounds
  <2>4. BookmarkTop \in Nat /\ BookmarkTop < Modulus \div 2
    BY <1>1, <2>3 DEF Word
  <2> QED
    BY <1>1, <1>11, <2>4, ScrollToInView DEF PopBookmark
<1>12. CASE Mark \/ PushBookmark \/ EnterEdit \/ LeaveEdit \/ UNCHANGED vars
  BY <1>1, <1>12, StandStill DEF ViewInv
<1> QED
  BY <1>2, <1>3, <1>4, <1>5, <1>6, <1>7, <1>8, <1>9, <1>10, <1>11, <1>12
     DEF Next, Key

-----------------------------------------------------------------------------
(***************************************************************************)
(* The other parts of the invariant.                                       *)
(***************************************************************************)

\* A digit replaces a nibble of a byte by a nibble: the result is a byte.
LEMMA NibbleInByte ==
    ASSUME NEW byte \in 0 .. 255, NEW digit \in 0 .. 15
    PROVE  WithNibble(byte, digit) \in 0 .. 255
  BY DEF WithNibble

LEMMA StepData ==
    ASSUME TypeOK, [Next]_vars
    PROVE  data' \in [0 .. size - 1 -> 0 .. 255]
<1>1. data \in [0 .. size - 1 -> 0 .. 255]
  BY DEF TypeOK, BufferTypeOK
<1>2. CASE \E digit \in Digits : Digit(digit)
  <2>1. PICK digit \in Digits : Digit(digit)
    BY <1>2
  <2>2. CASE cursor < size
    <3>1. cursor \in 0 .. size - 1
      <4>1. size \in Nat /\ Modulus \in Nat
        BY PaneIsTall
      <4> QED
        BY <2>2, <4>1 DEF TypeOK, BufferTypeOK, Word
    <3>2. WithNibble(data[cursor], digit) \in 0 .. 255
      BY <1>1, <3>1, HexPaneAssumption, NibbleInByte
    <3> QED
      BY <1>1, <2>1, <2>2, <3>1, <3>2 DEF Digit
  <2>3. CASE ~(cursor < size)
    BY <1>1, <2>1, <2>3 DEF Digit
  <2> QED
    BY <2>2, <2>3
<1>3. CASE ~\E digit \in Digits : Digit(digit)
  BY <1>1, <1>3 DEF Next, vars, Key, Left, Right, Up, Down, PageUpKey,
     PageDownKey, GoEnd, GoHome, ScrollTo, Mark, PushBookmark, PopBookmark,
     EnterEdit, LeaveEdit, Steady, bufferVars
<1> QED
  BY <1>2, <1>3

\* A mark is set to the cursor, the end after the start, or both are cleared,
\* outside of edit mode.
LEMMA StepMarks ==
    ASSUME [Next]_vars
    PROVE  \/ UNCHANGED <<start_mark, end_mark>>
           \/ start_mark = NoMark /\ start_mark' = cursor /\ end_mark' = end_mark
           \/ /\ start_mark # NoMark /\ start_mark' = start_mark
              /\ end_mark = NoMark /\ end_mark' = cursor
           \/ /\ start_mark' = NoMark /\ end_mark' = NoMark
              /\ ~edit /\ UNCHANGED <<cursor, scroll, edit>>
<1>1. CASE Mark
  BY <1>1, StandStill DEF Mark, NextMarks, HasBlock, ClearMarks, paneVars
<1>2. CASE ~Mark
  <2>1. UNCHANGED <<start_mark, end_mark>>
    BY <1>2 DEF Next, vars, Key, Left, Right, Up, Down, PageUpKey,
       PageDownKey, GoEnd, GoHome, ScrollTo, PushBookmark, PopBookmark,
       EnterEdit, LeaveEdit, Digit, Steady, bufferVars
  <2> QED
    BY <2>1
<1> QED
  BY <1>1, <1>2

\* The stack of bookmarks grows by the cursor, shrinks by its top or stays.
LEMMA StepBookmarks ==
    ASSUME [Next]_vars
    PROVE  \/ bookmarks' = bookmarks
           \/ /\ bookmarks' = Append(bookmarks, cursor)
              /\ Len(bookmarks) < BOOKMARK_STACK_SIZE
           \/ /\ bookmarks # << >>
              /\ bookmarks' = SubSeq(bookmarks, 1, Len(bookmarks) - 1)
<1>1. CASE PushBookmark
  BY <1>1 DEF PushBookmark, BookmarkPush
<1>2. CASE PopBookmark
  BY <1>2 DEF PopBookmark
<1>3. CASE ~PushBookmark /\ ~PopBookmark
  BY <1>3 DEF Next, vars, Key, Left, Right, Up, Down, PageUpKey,
     PageDownKey, GoEnd, GoHome, ScrollTo, Mark, EnterEdit, LeaveEdit, Digit,
     Steady, bufferVars
<1> QED
  BY <1>1, <1>2, <1>3

\* The stack grows shorter by a pop only.
LEMMA Popped ==
    ASSUME [Next]_vars, bookmarks \in Seq(Word), cursor \in Word,
           Len(bookmarks') < Len(bookmarks)
    PROVE  PopBookmark
<1>1. Len(bookmarks) \in Nat /\ Len(Append(bookmarks, cursor)) = Len(bookmarks) + 1
  BY AppendProperties
<1>2. CASE PushBookmark
  BY <1>1, <1>2 DEF PushBookmark, BookmarkPush
<1>3. CASE ~PushBookmark /\ ~PopBookmark
  <2>1. bookmarks' = bookmarks
    BY <1>3 DEF Next, vars, Key, Left, Right, Up, Down, PageUpKey,
       PageDownKey, GoEnd, GoHome, ScrollTo, Mark, EnterEdit, LeaveEdit, Digit,
       Steady, bufferVars
  <2> QED
    BY <1>1, <2>1
<1> QED
  BY <1>2, <1>3

\* Every bookmark of the next state is a bookmark of this one or the cursor.
LEMMA BookmarksFrom ==
    ASSUME TypeOK, [Next]_vars
    PROVE  /\ bookmarks' \in Seq(Word)
           /\ Len(bookmarks') <= BOOKMARK_STACK_SIZE
           /\ \A i \in 1 .. Len(bookmarks') :
                \/ bookmarks'[i] = cursor
                \/ i \in 1 .. Len(bookmarks) /\ bookmarks'[i] = bookmarks[i]
<1>1. /\ bookmarks \in Seq(Word) /\ Len(bookmarks) \in Nat
      /\ Len(bookmarks) <= BOOKMARK_STACK_SIZE
      /\ BOOKMARK_STACK_SIZE \in Nat
      /\ cursor \in Word
  BY BufferAssumption DEF TypeOK, BufferTypeOK
<1>2. CASE bookmarks' = bookmarks
  BY <1>1, <1>2
<1>3. CASE /\ bookmarks' = Append(bookmarks, cursor)
           /\ Len(bookmarks) < BOOKMARK_STACK_SIZE
  BY <1>1, <1>3
<1>4. CASE /\ bookmarks # << >>
           /\ bookmarks' = SubSeq(bookmarks, 1, Len(bookmarks) - 1)
  <2>1. Len(bookmarks) - 1 \in 0 .. Len(bookmarks)
    BY <1>1, <1>4
  <2>2. \A i \in 1 .. Len(bookmarks) - 1 : bookmarks[i] \in Word
    BY <1>1, <2>1
  <2> DEFINE n == Len(bookmarks) - 1
  <2>3. /\ SubSeq(bookmarks, 1, n) \in Seq(Word)
        /\ Len(SubSeq(bookmarks, 1, n)) = IF 1 <= n THEN n - 1 + 1 ELSE 0
        /\ \A i \in 1 .. n - 1 + 1 : SubSeq(bookmarks, 1, n)[i] = bookmarks[1 + i - 1]
    <3> HIDE DEF n
    <3>1. n \in Int /\ 1 \in Int /\ \A i \in 1 .. n : bookmarks[i] \in Word
      BY <2>1, <2>2 DEF n
    <3> QED
      BY <3>1, SubSeqProperties
  <2>4. n \in Nat /\ bookmarks' = SubSeq(bookmarks, 1, n)
    BY <1>1, <1>4, <2>1
  <2>5. bookmarks' \in Seq(Word) /\ Len(bookmarks') = n
    <3> HIDE DEF n
    <3> QED
      BY <2>3, <2>4
  <2>6. \A i \in 1 .. n : bookmarks'[i] = bookmarks[i]
    <3> HIDE DEF n
    <3> QED
      BY <2>3, <2>4
  <2> QED
    BY <1>1, <2>1, <2>5, <2>6
<1> QED
  BY <1>2, <1>3, <1>4, StepBookmarks

LEMMA StepType ==
    ASSUME IInv, [Next]_vars
    PROVE  TypeOK'
<1>1. TypeOK
  BY DEF IInv
<1>2. size' = size /\ height' = height
  BY StepFrame
<1>3. cursor' \in Word /\ scroll' \in Word
  <2>1. InView(cursor', scroll', size, RowBytes, height)
    BY <1>2, StepView DEF ViewInv
  <2> QED
    BY <1>1, <2>1, ViewWords
<1>4. start_mark' \in Word /\ end_mark' \in Word
  <2>1. start_mark \in Word /\ end_mark \in Word /\ cursor \in Word
    BY <1>1 DEF TypeOK, BufferTypeOK
  <2>2. NoMark \in Word
    BY <1>1, PaneIsTall DEF Word
  <2> QED
    BY <2>1, <2>2, StepMarks
<1>5. data' \in [0 .. size - 1 -> 0 .. 255]
  BY <1>1, StepData
<1>6. bookmarks' \in Seq(Word) /\ Len(bookmarks') <= BOOKMARK_STACK_SIZE
  BY <1>1, BookmarksFrom
<1>7. editable' = editable
  BY DEF Next, vars, Key, Left, Right, Up, Down, PageUpKey, PageDownKey, GoEnd,
     GoHome, ScrollTo, Mark, PushBookmark, PopBookmark, EnterEdit, LeaveEdit,
     Digit, Steady, bufferVars
<1>8. odd' \in {0, 1}
  <2>1. odd \in {0, 1}
    BY <1>1 DEF TypeOK
  <2> QED
    BY <2>1 DEF Next, vars, Key, Left, Right, Up, Down, PageUpKey, PageDownKey,
       GoEnd, GoHome, ScrollTo, Mark, PushBookmark, PopBookmark, EnterEdit,
       LeaveEdit, Digit, Steady, bufferVars, paneVars, Advance
<1>9. edit' \in BOOLEAN
  <2>1. edit' \in {edit, TRUE, FALSE}
    BY DEF Next, vars, Key, Left, Right, Up, Down, PageUpKey, PageDownKey,
       GoEnd, GoHome, ScrollTo, Mark, PushBookmark, PopBookmark, EnterEdit,
       LeaveEdit, Digit, Steady, bufferVars, paneVars
  <2> QED
    BY <1>1, <2>1 DEF TypeOK
<1> QED
  BY <1>1, <1>2, <1>3, <1>4, <1>5, <1>6, <1>7, <1>8, <1>9
     DEF TypeOK, BufferTypeOK

LEMMA StepPlaces ==
    ASSUME IInv, [Next]_vars
    PROVE  SavedPlacesInBounds'
<1>1. TypeOK /\ ViewInv /\ SavedPlacesInBounds
  BY DEF IInv
<1>2. cursor < size /\ cursor \in Nat /\ size \in Nat
  BY <1>1, PaneIsTall, InViewFacts DEF ViewInv
<1>3. size' = size
  BY StepFrame
<1>4. \A i \in 1 .. Len(bookmarks') : bookmarks'[i] < size
  BY <1>1, <1>2, BookmarksFrom DEF SavedPlacesInBounds
<1>5. /\ start_mark' # NoMark => start_mark' < size
      /\ end_mark' # NoMark => end_mark' < size /\ start_mark' # NoMark
  <2>1. NoMark = Modulus - 1 /\ 4 * size <= Modulus /\ Modulus \in Nat
    BY <1>1, PaneIsTall
  <2>2. cursor # NoMark
    BY <1>2, <2>1
  <2> QED
    BY <1>1, <1>2, <2>2, StepMarks DEF SavedPlacesInBounds
<1>6. NoMark' = NoMark
  BY DEF NoMark, Wrap
<1> QED
  BY <1>3, <1>4, <1>5, <1>6 DEF SavedPlacesInBounds

LEMMA InitIInv ==
    ASSUME Init
    PROVE  IInv
<1>1. size \in Sizes /\ height \in Heights
  BY DEF Init, BufferFresh
<1>2. Tall(size, RowBytes, height) /\ Fits(size, RowBytes, height)
  BY <1>1, TallFiles DEF Tall
<1>3. /\ size \in Nat /\ size >= 2 /\ 4 * size <= Modulus /\ Modulus \in Nat
      /\ RowBytes \in Nat \ {0}
  BY <1>2, TallFacts, ModulusAssumption DEF Tall, Fits
<1>4. ViewInv
  <2>1. 0 \in Nat /\ 0 < Modulus \div 2
    BY <1>3
  <2>2. InView(ClampOffset(0, size), CentredScroll(0, size, RowBytes, height),
               size, RowBytes, height)
    BY <1>2, <2>1, CentredInView
  <2>3. cursor = ClampOffset(0, size)
    BY <1>3 DEF Init, BufferFresh, ClampOffset
  <2> QED
    BY <2>2, <2>3 DEF Init, ViewInv
<1>5. cursor \in Word /\ scroll \in Word
  <2>1. /\ cursor \in Nat /\ cursor < size
        /\ scroll \in Nat /\ scroll <= size \div RowBytes
        /\ size \div RowBytes \in Nat /\ size \div RowBytes <= size
    BY <1>2, <1>4, InViewFacts, TallFacts DEF ViewInv
  <2> QED
    BY <1>3, <2>1 DEF Word
<1>6. NoMark \in Word
  BY <1>3, ModulusAssumption DEF NoMark, Wrap, Word
<1>7. TypeOK
  <2>1. bookmarks \in Seq(Word) /\ Len(bookmarks) = 0
    BY DEF Init, BufferFresh
  <2>2. data \in [0 .. size - 1 -> 0 .. 255]
    BY BufferAssumption DEF Init, BufferFresh
  <2> QED
    BY <1>1, <1>5, <1>6, <2>1, <2>2, BufferAssumption
       DEF Init, BufferFresh, TypeOK, BufferTypeOK
<1>8. SavedPlacesInBounds
  BY DEF Init, BufferFresh, SavedPlacesInBounds
<1> QED
  BY <1>4, <1>7, <1>8 DEF IInv

-----------------------------------------------------------------------------
(***************************************************************************)
(* The theorems.                                                           *)
(***************************************************************************)

\* The invariant holds in every reachable state.
THEOREM Invariance == Spec => []IInv
<1>1. Init => IInv
  BY InitIInv
<1>2. IInv /\ [Next]_vars => IInv'
  BY StepView, StepType, StepPlaces DEF IInv
<1> QED
  BY <1>1, <1>2, PTL DEF Spec

\* The state of the pane and of the buffer keep the types of their C
\* declarations, and the stack of bookmarks stays within its array.
THEOREM TypeCorrect == Spec => []TypeOK
<1>1. IInv => TypeOK
  BY DEF IInv
<1> QED
  BY <1>1, Invariance, PTL

\* On a tall file the row of the cursor stays among the rows shown, as the
\* motions that compute scroll and cursor from each other rely on.
THEOREM CursorStaysInView == Spec => []ViewInv
<1>1. IInv => ViewInv
  BY DEF IInv
<1> QED
  BY <1>1, Invariance, PTL

\* On a tall file no sequence of keys takes the cursor out of the buffer.
THEOREM CursorStaysInBuffer == Spec => []CursorInBounds
<1>1. IInv => CursorInBounds
  BY PaneIsTall, InViewFacts DEF IInv, ViewInv, CursorInBounds
<1> QED
  BY <1>1, Invariance, PTL

\* On a tall file every key leaves the byte under the cursor on the screen.
THEOREM CursorStaysDrawn == Spec => []CursorDrawn
<1>1. IInv => CursorDrawn
  BY PaneIsTall, InViewDrawn DEF IInv, ViewInv, CursorDrawn
<1> QED
  BY <1>1, Invariance, PTL

\* Bookmarks and marks always name bytes of the buffer.
THEOREM PlacesStayInBuffer == Spec => []SavedPlacesInBounds
<1>1. IInv => SavedPlacesInBounds
  BY DEF IInv
<1> QED
  BY <1>1, Invariance, PTL

\* Pushing a bookmark, on a full stack too, and popping one leave the bookmarks
\* below alone.
THEOREM OlderBookmarksStay == Spec => PushKeepsOlder
<1>1. IInv /\ [Next]_vars =>
        [\A i \in 1 .. Len(bookmarks) :
           i <= Len(bookmarks') => bookmarks'[i] = bookmarks[i]]_vars
  <2> SUFFICES ASSUME IInv, [Next]_vars, NEW i \in 1 .. Len(bookmarks),
                      i <= Len(bookmarks')
               PROVE  bookmarks'[i] = bookmarks[i]
    OBVIOUS
  <2>1. bookmarks \in Seq(Word) /\ Len(bookmarks) \in Nat
    BY DEF IInv, TypeOK, BufferTypeOK
  <2>2. CASE bookmarks' = bookmarks
    BY <2>2
  <2>3. CASE bookmarks' = Append(bookmarks, cursor)
    BY <2>1, <2>3
  <2>4. CASE /\ bookmarks # << >>
             /\ bookmarks' = SubSeq(bookmarks, 1, Len(bookmarks) - 1)
    <3>1. bookmarks' \in Seq(Word) /\ Len(bookmarks') \in Nat
      BY BookmarksFrom DEF IInv
    <3>2. SubSeq(bookmarks, 1, Len(bookmarks) - 1)
            = [j \in 1 .. Len(bookmarks) - 1 |-> bookmarks[1 + j - 1]]
      BY <2>1
    <3>3. i \in 1 .. Len(bookmarks) - 1
      BY <2>1, <2>4, <3>1, <3>2
    <3> QED
      BY <2>1, <2>4, <3>2, <3>3
  <2> QED
    BY <2>2, <2>3, <2>4, StepBookmarks
<1> QED
  BY <1>1, Invariance, PTL DEF Spec, PushKeepsOlder

\* What has been pushed last is on top of a stack without its top.
LEMMA TopOnRest ==
    ASSUME NEW S, NEW stack \in Seq(S), stack # << >>
    PROVE  /\ stack[Len(stack)] \in S
           /\ Append(SubSeq(stack, 1, Len(stack) - 1), stack[Len(stack)]) = stack
<1> DEFINE n == Len(stack) - 1
           rest == SubSeq(stack, 1, n)
<1>1. n \in Nat /\ Len(stack) = n + 1 /\ \A i \in 1 .. n + 1 : stack[i] \in S
  BY ElementOfSeq, EmptySeq
<1>2. /\ rest \in Seq(S) /\ Len(rest) = n
      /\ \A i \in 1 .. n : rest[i] = stack[i]
  <2>1. n \in Int /\ 1 \in Int /\ \A i \in 1 .. n : stack[i] \in S
    BY <1>1
  <2> HIDE DEF n
  <2>2. /\ SubSeq(stack, 1, n) \in Seq(S)
        /\ Len(SubSeq(stack, 1, n)) = IF 1 <= n THEN n - 1 + 1 ELSE 0
        /\ \A i \in 1 .. n - 1 + 1 : SubSeq(stack, 1, n)[i] = stack[1 + i - 1]
    BY <2>1, SubSeqProperties
  <2> QED
    BY <1>1, <2>2
<1>3. stack[n + 1] \in S
  BY <1>1
<1> HIDE DEF n, rest
<1>4. Append(rest, stack[n + 1]) = stack
  <2>1. /\ Append(rest, stack[n + 1]) \in Seq(S)
        /\ Len(Append(rest, stack[n + 1])) = n + 1
        /\ Append(rest, stack[n + 1])[n + 1] = stack[n + 1]
        /\ \A i \in 1 .. n : Append(rest, stack[n + 1])[i] = rest[i]
    BY <1>1, <1>2, <1>3, AppendProperties
  <2>2. ASSUME NEW i \in 1 .. n + 1
        PROVE  Append(rest, stack[n + 1])[i] = stack[i]
    BY <1>1, <1>2, <2>1
  <2> QED
    BY <1>1, <2>1, <2>2, SeqEqual
<1> QED
  BY <1>1, <1>3, <1>4 DEF n, rest

\* A pop takes the newest bookmark, and the cursor goes right there, in view:
\* buffer_scroll never has to correct a bookmark.
THEOREM PopsReturn == Spec => PopReturns
<1>1. ASSUME IInv, [Next]_vars
      PROVE  [Len(bookmarks') < Len(bookmarks) =>
                /\ Append(bookmarks', cursor') = bookmarks
                /\ cursor' \in Drawn(scroll', size, RowBytes, height)]_vars
  <2>1. SUFFICES ASSUME Len(bookmarks') < Len(bookmarks)
                 PROVE  /\ Append(bookmarks', cursor') = bookmarks
                        /\ cursor' \in Drawn(scroll', size, RowBytes, height)
    OBVIOUS
  <2>2. bookmarks \in Seq(Word) /\ Len(bookmarks) \in Nat /\ cursor \in Word
    BY <1>1 DEF IInv, TypeOK, BufferTypeOK
  <2>3. PopBookmark
    BY <1>1, <2>1, <2>2, Popped
  <2>4. /\ bookmarks[Len(bookmarks)] \in Word
        /\ Append(SubSeq(bookmarks, 1, Len(bookmarks) - 1), bookmarks[Len(bookmarks)])
             = bookmarks
    BY <2>2, <2>3, TopOnRest DEF PopBookmark
  <2>5. bookmarks[Len(bookmarks)] < size
    <3>1. Len(bookmarks) \in 1 .. Len(bookmarks)
      BY <2>2, <2>3, EmptySeq DEF PopBookmark
    <3> QED
      BY <1>1, <3>1 DEF IInv, SavedPlacesInBounds
  <2>6. cursor' = bookmarks[Len(bookmarks)]
    <3>1. size \in Nat /\ Modulus \in Nat
      BY <1>1, PaneIsTall DEF IInv
    <3> QED
      BY <2>3, <2>4, <2>5, <3>1 DEF PopBookmark, BookmarkTop, ClampOffset, Word
  <2>7. InView(cursor', scroll', size, RowBytes, height)
    BY <1>1, StepView, StepFrame DEF ViewInv
  <2>8. cursor' \in Drawn(scroll', size, RowBytes, height)
    BY <1>1, <2>7, PaneIsTall, InViewDrawn DEF IInv
  <2> QED
    BY <2>3, <2>4, <2>6, <2>8 DEF PopBookmark
<1> QED
  BY <1>1, Invariance, PTL DEF Spec, PopReturns

\* A completed block is what it was after every key, in edit mode and out of
\* it, or v has just cleared it outside of edit mode and nothing is selected.
THEOREM BlocksStay == Spec => BlockStays
<1>1. ASSUME [Next]_vars
      PROVE  [HasBlock =>
                \/ Block' = Block
                \/ ~edit /\ Selected' = {} /\ UNCHANGED <<cursor, scroll, edit>>]_vars
  <2>1. SUFFICES ASSUME HasBlock
                 PROVE  \/ Block' = Block
                        \/ ~edit /\ Selected' = {} /\ UNCHANGED <<cursor, scroll, edit>>
    OBVIOUS
  <2>2. size' = size /\ NoMark' = NoMark
    BY <1>1, StepFrame DEF NoMark, Wrap
  <2>3. CASE UNCHANGED <<start_mark, end_mark>>
    BY <2>1, <2>2, <2>3 DEF Block, HasBlock
  <2>4. CASE /\ start_mark' = NoMark /\ end_mark' = NoMark
             /\ ~edit /\ UNCHANGED <<cursor, scroll, edit>>
    BY <2>2, <2>4 DEF Block, Selected
  <2> QED
    BY <1>1, <2>1, <2>3, <2>4, StepMarks DEF HasBlock
<1> QED
  BY <1>1, PTL DEF Spec, BlockStays

-----------------------------------------------------------------------------
(***************************************************************************)
(* The pane implements the tape of nibbles.                                *)
(***************************************************************************)

\* The nibbles of the file, as the refinement mapping reads them.
Nibbles ==
    [i \in 0 .. 2 * size - 1 |->
       IF i % 2 = 0 THEN data[i \div 2] \div 16 ELSE data[i \div 2] % 16]

\* The nibble under the cursor.
HeadPos == 2 * cursor + odd

LEMMA HeadOnTape ==
    ASSUME IInv
    PROVE  /\ size \in Nat /\ cursor \in Nat /\ cursor < size /\ odd \in {0, 1}
           /\ data \in [0 .. size - 1 -> 0 .. 255]
           /\ DOMAIN Nibbles = 0 .. 2 * size - 1
           /\ HeadPos \in DOMAIN Nibbles
<1>1. /\ size \in Nat /\ cursor \in Nat /\ cursor < size /\ odd \in {0, 1}
  BY PaneIsTall, InViewFacts DEF IInv, TypeOK, ViewInv
<1>2. data \in [0 .. size - 1 -> 0 .. 255]
  BY DEF IInv, TypeOK, BufferTypeOK
<1> QED
  BY <1>1, <1>2 DEF Nibbles, HeadPos

\* Of the two nibbles of a byte one is replaced and the other kept.
LEMMA NibbleOfByte ==
    ASSUME NEW byte \in 0 .. 255, NEW digit \in 0 .. 15
    PROVE  /\ odd = 0 => /\ WithNibble(byte, digit) \div 16 = digit
                         /\ WithNibble(byte, digit) % 16 = byte % 16
           /\ odd = 1 => /\ WithNibble(byte, digit) \div 16 = byte \div 16
                         /\ WithNibble(byte, digit) % 16 = digit
<1>1. /\ byte \div 16 \in 0 .. 15 /\ byte % 16 \in 0 .. 15
      /\ byte = (byte \div 16) * 16 + (byte % 16)
  OBVIOUS
<1>2. \A hi, lo \in 0 .. 15 : /\ (hi * 16 + lo) \div 16 = hi
                              /\ (hi * 16 + lo) % 16 = lo
  OBVIOUS
<1>3. CASE odd = 0
  <2>1. WithNibble(byte, digit) = digit * 16 + (byte % 16)
    BY <1>3 DEF WithNibble
  <2> QED
    BY <1>1, <1>2, <1>3, <2>1
<1>4. CASE odd = 1
  <2>1. WithNibble(byte, digit) = (byte \div 16) * 16 + digit
    BY <1>4 DEF WithNibble
  <2> QED
    BY <1>1, <1>2, <1>4, <2>1
<1> QED
  BY <1>3, <1>4

\* A digit replaces the nibble under the cursor and no other.
LEMMA DigitOnTape ==
    ASSUME IInv, NEW digit \in 0 .. 15, Digit(digit)
    PROVE  Nibbles' = [Nibbles EXCEPT ![HeadPos] = digit]
<1>1. /\ size \in Nat /\ cursor \in Nat /\ cursor < size /\ odd \in {0, 1}
      /\ data \in [0 .. size - 1 -> 0 .. 255]
      /\ HeadPos \in DOMAIN Nibbles
  BY HeadOnTape
<1>2. /\ size' = size
      /\ data' = [data EXCEPT ![cursor] = WithNibble(data[cursor], digit)]
  BY <1>1 DEF Digit
<1> DEFINE byte == data[cursor]
           N(i, d) == IF i % 2 = 0 THEN d[i \div 2] \div 16 ELSE d[i \div 2] % 16
<1>3. byte \in 0 .. 255 /\ cursor \in 0 .. size - 1
  BY <1>1
<1>4. /\ odd = 0 => /\ WithNibble(byte, digit) \div 16 = digit
                    /\ WithNibble(byte, digit) % 16 = byte % 16
      /\ odd = 1 => /\ WithNibble(byte, digit) \div 16 = byte \div 16
                    /\ WithNibble(byte, digit) % 16 = digit
  BY <1>3, NibbleOfByte
<1>5. \A i \in 0 .. 2 * size - 1 :
        N(i, data') = IF i = HeadPos THEN digit ELSE N(i, data)
  <2> TAKE i \in 0 .. 2 * size - 1
  <2>1. i \div 2 \in 0 .. size - 1 /\ i % 2 \in {0, 1}
        /\ i = 2 * (i \div 2) + (i % 2)
    BY <1>1
  <2>2. CASE i \div 2 # cursor
    <3>1. i # HeadPos
      BY <1>1, <2>1, <2>2 DEF HeadPos
    <3>2. data'[i \div 2] = data[i \div 2]
      BY <1>1, <1>2, <2>1, <2>2
    <3> QED
      BY <3>1, <3>2
  <2>3. CASE i \div 2 = cursor
    <3>1. data'[i \div 2] = WithNibble(byte, digit)
      BY <1>1, <1>2, <1>3, <2>3
    <3>2. i = HeadPos <=> i % 2 = odd
      BY <1>1, <2>1, <2>3 DEF HeadPos
    <3> QED
      BY <1>1, <1>4, <2>1, <2>3, <3>1, <3>2
  <2> QED
    BY <2>2, <2>3
<1>6. Nibbles' = [i \in 0 .. 2 * size - 1 |-> N(i, data')]
  BY <1>2 DEF Nibbles
<1>7. Nibbles = [i \in 0 .. 2 * size - 1 |-> N(i, data)]
  BY DEF Nibbles
<1> HIDE DEF N
<1> QED
  BY <1>5, <1>6, <1>7

\* After the digit the head is on the next nibble, or still on the last one.
LEMMA HeadAfterDigit ==
    ASSUME IInv, NEW digit, Digit(digit)
    PROVE  HeadPos' = IF HeadPos + 1 \in DOMAIN Nibbles THEN HeadPos + 1 ELSE HeadPos
<1>1. /\ size \in Nat /\ cursor \in Nat /\ cursor < size /\ odd \in {0, 1}
      /\ DOMAIN Nibbles = 0 .. 2 * size - 1
  BY HeadOnTape
<1>2. edit /\ Advance
  BY DEF Digit
<1>3. CASE cursor < size - 1
  BY <1>1, <1>2, <1>3 DEF Advance, HeadPos
<1>4. CASE cursor = size - 1
  BY <1>1, <1>2, <1>4 DEF Advance, HeadPos
<1> QED
  BY <1>1, <1>3, <1>4

\* Every other step leaves the tape alone.
LEMMA TapeKept ==
    ASSUME [Next]_vars, ~\E digit \in Digits : Digit(digit)
    PROVE  Nibbles' = Nibbles
<1>1. UNCHANGED <<size, data>>
  BY DEF Next, vars, Key, Left, Right, Up, Down, PageUpKey, PageDownKey, GoEnd,
     GoHome, ScrollTo, Mark, PushBookmark, PopBookmark, EnterEdit, LeaveEdit,
     Steady, bufferVars
<1> QED
  BY <1>1 DEF Nibbles

\* On tall files the hex pane implements the tape: its bytes change by digits
\* typed in edit mode at the nibble under the cursor and in no other way.
THEOREM TapeImplemented == Spec => ImplementsTape
<1>1. Init => Tape!Init
  <2> SUFFICES ASSUME Init PROVE Tape!Init
    OBVIOUS
  <2>1. HeadPos \in DOMAIN Nibbles
    BY InitIInv, HeadOnTape
  <2>2. edit = FALSE
    BY DEF Init
  <2> QED
    BY <2>1, <2>2 DEF Tape!Init, Tape!Positions, HeadPos, Nibbles
<1>2. IInv /\ IInv' /\ [Next]_vars => [Tape!Next]_(Tape!tapeVars)
  <2> SUFFICES ASSUME IInv, IInv', [Next]_vars
               PROVE  Tape!Next \/ UNCHANGED Tape!tapeVars
    OBVIOUS
  <2>1. CASE \E digit \in Digits : Digit(digit)
    <3>1. PICK digit \in Digits : Digit(digit)
      BY <2>1
    <3>2. digit \in 0 .. 15
      BY HexPaneAssumption
    <3>3. edit /\ edit' = edit
      BY <3>1 DEF Digit
    <3>4. Nibbles' = [Nibbles EXCEPT ![HeadPos] = digit]
      BY <3>1, <3>2, DigitOnTape
    <3>5. HeadPos' = IF HeadPos + 1 \in DOMAIN Nibbles THEN HeadPos + 1 ELSE HeadPos
      BY <3>1, HeadAfterDigit
    <3>6. Tape!Type(digit)
      BY <3>3, <3>4, <3>5 DEF Tape!Type, Tape!Positions, Nibbles, HeadPos
    <3> QED
      BY <3>2, <3>6 DEF Tape!Next
  <2>2. CASE ~\E digit \in Digits : Digit(digit)
    <3>1. Nibbles' = Nibbles
      BY <2>2, TapeKept
    <3>2. (HeadPos \in DOMAIN Nibbles)'
      BY HeadOnTape, PTL
    <3>3. edit' \in BOOLEAN
      BY DEF IInv, TypeOK
    <3>4. Tape!Move
      BY <3>1, <3>2, <3>3 DEF Tape!Move, Tape!Positions, Nibbles, HeadPos
    <3> QED
      BY <3>4 DEF Tape!Next
  <2> QED
    BY <2>1, <2>2
<1> QED
  BY <1>1, <1>2, Invariance, PTL DEF Spec, ImplementsTape, Tape!Spec

=============================================================================
