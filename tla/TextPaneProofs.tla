--------------------------- MODULE TextPaneProofs ---------------------------
(***************************************************************************)
(* The text pane on tall files: the lemmas of NavProofs with the width of  *)
(* the terminal for the width of a row.                                    *)
(***************************************************************************)
EXTENDS TextPaneTall, NavProofs

\* The type invariant and the assumptions give the hypothesis of NavProofs.
LEMMA PaneIsTall ==
    ASSUME TypeOK
    PROVE  /\ Tall(size, width, height) /\ Fits(size, width, height)
           /\ size \in Nat /\ size >= 2 /\ 4 * size <= Modulus
           /\ Modulus \in Nat
           /\ width \in Nat \ {0}
           /\ NoMark = Modulus - 1
<1>1. size \in Sizes /\ height \in Heights /\ width \in Widths
  BY DEF TypeOK, BufferTypeOK
<1>2. Tall(size, width, height) /\ Fits(size, width, height)
  BY <1>1, TallTexts DEF Tall
<1>3. size \in Nat /\ size >= 2 /\ 4 * size <= Modulus
  BY <1>2, TallFacts DEF Tall, Fits
<1>4. NoMark = Modulus - 1
  BY <1>3, ModulusAssumption DEF NoMark, Wrap
<1> QED
  BY <1>2, <1>3, <1>4, ModulusAssumption DEF Tall, Fits

\* A cursor in view is a word, and so is the scroll.
LEMMA ViewWords ==
    ASSUME TypeOK, NEW c, NEW s, InView(c, s, size, width, height)
    PROVE  c \in Word /\ s \in Word
<1>1. /\ Tall(size, width, height) /\ Fits(size, width, height)
      /\ size \in Nat /\ 4 * size <= Modulus /\ Modulus \in Nat
  BY PaneIsTall
<1>2. /\ c \in Nat /\ c < size
      /\ s \in Nat /\ s <= size \div width
  BY <1>1, InViewFacts
<1>3. size \div width \in Nat /\ size \div width <= size
  BY <1>1, TallFacts
<1> QED
  BY <1>1, <1>2, <1>3 DEF Word

-----------------------------------------------------------------------------
(***************************************************************************)
(* Every key keeps the cursor in view.                                     *)
(***************************************************************************)

LEMMA LeftInView ==
    ASSUME TypeOK, ViewInv, Left
    PROVE  InView(cursor', scroll', size, width, height)
<1>1. Tall(size, width, height) /\ Fits(size, width, height) /\ size \in Nat /\ width \in Nat \ {0}
  BY PaneIsTall
<1>2. cursor \in Nat /\ cursor < size /\ cursor \div width \in Nat
  BY <1>1, InViewFacts DEF ViewInv
<1>3. scroll' = OverscrollUp(cursor', scroll, width)
  BY DEF Left, FollowUp
<1>4. /\ cursor' \in Nat /\ cursor' <= cursor
      /\ cursor \div width - 1 <= cursor' \div width
  <2>1. CASE cursor > 0
    <3>1. cursor - 1 \in Nat /\ cursor - 1 + 1 = cursor
      BY <1>2, <2>1
    <3>2. cursor \div width <= (cursor - 1) \div width + 1
      BY <1>1, <3>1, NextByteRow
    <3>3. (cursor - 1) \div width \in Nat
      BY <1>1, <3>1, RowFacts
    <3> QED
      BY <1>2, <2>1, <3>1, <3>2, <3>3 DEF Left
  <2>2. CASE ~(cursor > 0)
    BY <1>2, <2>2 DEF Left
  <2> QED
    BY <2>1, <2>2
<1> QED
  BY <1>1, <1>3, <1>4, FollowUpInView DEF ViewInv

LEMMA RightInView ==
    ASSUME TypeOK, ViewInv, Right
    PROVE  InView(cursor', scroll', size, width, height)
<1>1. Tall(size, width, height) /\ Fits(size, width, height) /\ size \in Nat /\ width \in Nat \ {0}
  BY PaneIsTall
<1>2. cursor \in Nat /\ cursor < size /\ cursor \div width \in Nat
  BY <1>1, InViewFacts DEF ViewInv
<1>3. scroll' = OverscrollDown(cursor', scroll, size, width, height)
  BY DEF Right, FollowDown
<1>4. /\ cursor' \in Nat /\ cursor <= cursor' /\ cursor' < size
      /\ cursor' \div width <= cursor \div width + 1
  <2>1. (cursor + 1) \div width <= cursor \div width + 1
    BY <1>1, <1>2, NextByteRow
  <2> QED
    BY <1>1, <1>2, <2>1 DEF Right
<1> QED
  BY <1>1, <1>3, <1>4, FollowDownInView DEF ViewInv

\* A step changes neither the buffer nor the terminal, marks apart.
LEMMA StepFrame ==
    ASSUME [Next]_vars
    PROVE  UNCHANGED <<size, data, bookmarks, editable, height, width>>
  BY DEF Next, vars, Key, Left, Right, Up, Down, PageUpKey, PageDownKey, GoEnd,
         GoHome, ScrollTo, Mark, Steady

LEMMA StepView ==
    ASSUME IInv, [Next]_vars
    PROVE  ViewInv'
<1> SUFFICES InView(cursor', scroll', size, width, height)
  BY StepFrame DEF ViewInv
<1>1. /\ TypeOK /\ ViewInv
      /\ Tall(size, width, height) /\ Fits(size, width, height)
      /\ size \in Nat /\ 4 * size <= Modulus /\ Modulus \in Nat
      /\ width \in Nat \ {0}
      /\ cursor \in Nat /\ cursor < size
  BY PaneIsTall, InViewFacts DEF IInv, ViewInv
<1>2. CASE Left
  BY <1>1, <1>2, LeftInView
<1>3. CASE Right
  BY <1>1, <1>3, RightInView
<1>4. CASE Up
  <2>1. /\ cursor' = CursorUp(cursor, width)
        /\ scroll' = OverscrollUp(cursor', scroll, width)
    BY <1>4 DEF Up, FollowUp
  <2>2. /\ cursor' \in Nat /\ cursor' <= cursor
        /\ cursor \div width - 1 <= cursor' \div width
    BY <1>1, <2>1, CursorUpRow
  <2> QED
    BY <1>1, <2>1, <2>2, FollowUpInView DEF ViewInv
<1>5. CASE Down
  <2>1. /\ cursor' = CursorDown(cursor, size, width)
        /\ scroll' = OverscrollDown(cursor', scroll, size, width, height)
    BY <1>5 DEF Down, FollowDown
  <2>2. /\ cursor' \in Nat /\ cursor <= cursor' /\ cursor' < size
        /\ cursor' \div width <= cursor \div width + 1
    BY <1>1, <2>1, CursorDownRow
  <2> QED
    BY <1>1, <2>1, <2>2, FollowDownInView DEF ViewInv
<1>6. CASE PageUpKey
  BY <1>1, <1>6, PageUpInView DEF PageUpKey, ViewInv
<1>7. CASE GoEnd
  BY <1>1, <1>7, EndInView DEF GoEnd
<1>8. CASE PageDownKey
  <2>1. CASE GoEnd
    BY <1>7, <2>1
  <2>2. CASE ~PageIsLast(scroll, size, width, height)
    <3>1. scroll' = PageDown(scroll, height) /\ cursor' = Top(scroll', width)
      BY <1>8, <2>2 DEF PageDownKey
    <3> QED
      BY <1>1, <2>2, <3>1, PageDownInView DEF ViewInv
  <2> QED
    BY <1>8, <2>1, <2>2 DEF PageDownKey
<1>9. CASE GoHome
  BY <1>1, <1>9, HomeInView DEF GoHome
<1>10. CASE \E offset \in Offsets : ScrollTo(offset)
  <2>1. PICK offset \in Offsets : ScrollTo(offset)
    BY <1>10
  <2>2. offset \in Nat /\ offset < Modulus \div 2
    BY <1>1, TextPaneAssumption
  <2> QED
    BY <1>1, <2>1, <2>2, CentredInView DEF ScrollTo
<1>11. CASE Mark \/ UNCHANGED vars
  BY <1>1, <1>11 DEF Mark, vars, ViewInv
<1> QED
  BY <1>2, <1>3, <1>4, <1>5, <1>6, <1>7, <1>8, <1>9, <1>10, <1>11
     DEF Next, Key

-----------------------------------------------------------------------------
(***************************************************************************)
(* The other parts of the invariant, and the theorems.                     *)
(***************************************************************************)

\* A mark is set to the cursor, the end after the start, or the block starts
\* again at the cursor.
LEMMA StepMarks ==
    ASSUME [Next]_vars
    PROVE  \/ UNCHANGED <<start_mark, end_mark>>
           \/ start_mark = NoMark /\ start_mark' = cursor /\ end_mark' = end_mark
           \/ /\ start_mark # NoMark /\ start_mark' = start_mark
              /\ end_mark = NoMark /\ end_mark' = cursor
           \/ /\ start_mark' = cursor /\ end_mark' = NoMark
              /\ UNCHANGED <<cursor, scroll>>
<1>1. CASE Mark
  BY <1>1 DEF Mark, HasBlock, RestartBlock
<1>2. CASE ~Mark
  BY <1>2 DEF Next, vars, Key, Left, Right, Up, Down, PageUpKey, PageDownKey,
     GoEnd, GoHome, ScrollTo, Steady
<1> QED
  BY <1>1, <1>2

LEMMA StepType ==
    ASSUME IInv, [Next]_vars
    PROVE  TypeOK'
<1>1. TypeOK
  BY DEF IInv
<1>2. cursor' \in Word /\ scroll' \in Word
  <2>1. InView(cursor', scroll', size, width, height)
    BY StepFrame, StepView DEF ViewInv
  <2> QED
    BY <1>1, <2>1, ViewWords
<1>3. start_mark' \in Word /\ end_mark' \in Word
  <2>1. start_mark \in Word /\ end_mark \in Word /\ cursor \in Word
    BY <1>1 DEF TypeOK, BufferTypeOK
  <2>2. NoMark \in Word
    BY <1>1, PaneIsTall DEF Word
  <2> QED
    BY <2>1, <2>2, StepMarks
<1> QED
  BY <1>1, <1>2, <1>3, StepFrame DEF TypeOK, BufferTypeOK

LEMMA StepMarksInBounds ==
    ASSUME IInv, [Next]_vars
    PROVE  MarksInBounds'
<1>1. TypeOK /\ ViewInv /\ MarksInBounds
  BY DEF IInv
<1>2. cursor < size /\ cursor \in Nat /\ size \in Nat
  BY <1>1, PaneIsTall, InViewFacts DEF ViewInv
<1>3. cursor # NoMark
  BY <1>1, <1>2, PaneIsTall
<1>4. NoMark' = NoMark
  BY DEF NoMark, Wrap
<1> QED
  BY <1>1, <1>2, <1>3, <1>4, StepMarks, StepFrame DEF MarksInBounds

LEMMA InitIInv ==
    ASSUME Init
    PROVE  IInv
<1>1. size \in Sizes /\ height \in Heights /\ width \in Widths
  BY DEF Init, BufferOpen, BufferFresh
<1>2. Tall(size, width, height) /\ Fits(size, width, height)
  BY <1>1, TallTexts DEF Tall
<1>3. /\ size \in Nat /\ size >= 2 /\ 4 * size <= Modulus /\ Modulus \in Nat
      /\ width \in Nat \ {0}
  BY <1>2, TallFacts, ModulusAssumption DEF Tall, Fits
<1>4. ViewInv
  <2>1. 0 \in Nat /\ 0 < Modulus \div 2
    BY <1>3
  <2>2. InView(ClampOffset(0, size), CentredScroll(0, size, width, height),
               size, width, height)
    BY <1>2, <2>1, CentredInView
  <2>3. cursor = ClampOffset(0, size)
    BY <1>3 DEF Init, BufferOpen, BufferFresh, ClampOffset
  <2> QED
    BY <2>2, <2>3 DEF Init, ViewInv
<1>5. cursor \in Word /\ scroll \in Word
  <2>1. /\ cursor \in Nat /\ cursor < size
        /\ scroll \in Nat /\ scroll <= size \div width
        /\ size \div width \in Nat /\ size \div width <= size
    BY <1>2, <1>4, InViewFacts, TallFacts DEF ViewInv
  <2> QED
    BY <1>3, <2>1 DEF Word
<1>6. NoMark \in Word
  BY <1>3, ModulusAssumption DEF NoMark, Wrap, Word
<1>7. TypeOK
  <2>1. bookmarks \in Seq(Word) /\ Len(bookmarks) = 0
    BY DEF Init, BufferOpen, BufferFresh
  <2>2. data \in [0 .. size - 1 -> 0 .. 255]
    BY BufferAssumption DEF Init, BufferOpen, BufferFresh
  <2> QED
    BY <1>1, <1>5, <1>6, <2>1, <2>2, BufferAssumption
       DEF Init, BufferOpen, BufferFresh, TypeOK, BufferTypeOK
<1>8. MarksInBounds
  BY DEF Init, BufferOpen, BufferFresh, MarksInBounds
<1> QED
  BY <1>4, <1>7, <1>8 DEF IInv

\* The invariant holds in every reachable state.
THEOREM TextInvariance == Spec => []IInv
<1>1. Init => IInv
  BY InitIInv
<1>2. IInv /\ [Next]_vars => IInv'
  BY StepView, StepType, StepMarksInBounds DEF IInv
<1> QED
  BY <1>1, <1>2, PTL DEF Spec

\* The variables keep the types of their C declarations.
THEOREM TextTypeCorrect == Spec => []TypeOK
<1>1. IInv => TypeOK
  BY DEF IInv
<1> QED
  BY <1>1, TextInvariance, PTL

\* On a tall file the row of the cursor stays among the rows shown, as the
\* motions that compute scroll and cursor from each other rely on.
THEOREM TextCursorStaysInView == Spec => []ViewInv
<1>1. IInv => ViewInv
  BY DEF IInv
<1> QED
  BY <1>1, TextInvariance, PTL

\* On a tall file no sequence of keys takes the cursor out of the buffer.
THEOREM TextCursorStaysInBuffer == Spec => []CursorInBounds
<1>1. IInv => CursorInBounds
  BY PaneIsTall, InViewFacts DEF IInv, ViewInv, CursorInBounds
<1> QED
  BY <1>1, TextInvariance, PTL

\* On a tall file every key leaves the byte under the cursor on the screen.
THEOREM TextCursorStaysDrawn == Spec => []CursorDrawn
<1>1. IInv => CursorDrawn
  BY PaneIsTall, InViewDrawn DEF IInv, ViewInv, CursorDrawn
<1> QED
  BY <1>1, TextInvariance, PTL

\* Marks are bytes of the buffer, and no block has an end without a start,
\* whatever order v, the motions and Goto come in.
THEOREM TextMarksStayInBuffer == Spec => []MarksInBounds
<1>1. IInv => MarksInBounds
  BY DEF IInv
<1> QED
  BY <1>1, TextInvariance, PTL

\* A completed block of the text pane changes by v only, which moves neither the
\* cursor nor the view.
THEOREM TextBlocksStay == Spec => BlockStays
<1>1. ASSUME [Next]_vars
      PROVE  [HasBlock => Block' = Block \/ UNCHANGED <<cursor, scroll>>]_vars
  <2>1. SUFFICES ASSUME HasBlock
                 PROVE  Block' = Block \/ UNCHANGED <<cursor, scroll>>
    OBVIOUS
  <2>2. size' = size /\ NoMark' = NoMark
    BY <1>1, StepFrame DEF NoMark, Wrap
  <2>3. CASE UNCHANGED <<start_mark, end_mark>>
    BY <2>1, <2>2, <2>3 DEF Block, HasBlock
  <2> QED
    BY <1>1, <2>1, <2>3, StepMarks DEF HasBlock
<1> QED
  BY <1>1, PTL DEF Spec, BlockStays

=============================================================================
