----------------------------- MODULE NavProofs ------------------------------
(***************************************************************************)
(* What the operators of Nav compute when nothing wraps, in terms of rows: *)
(* the row of an offset a is a \div w.                                     *)
(***************************************************************************)
EXTENDS Nav, TLAPS

\* A number that fits a word is what an unsigned variable holds.
LEMMA WrapSmall ==
    ASSUME NEW i \in Int, 0 <= i, i < Modulus
    PROVE  Wrap(i) = i
  BY ModulusAssumption DEF Wrap

\* Multiplying by a row width keeps order: products compare as rows do.
LEMMA MulMono ==
    ASSUME NEW a \in Int, NEW b \in Int, NEW w \in Nat \ {0}, a < b
    PROVE  a * w + w <= b * w
<1>1. b - a - 1 \in Nat /\ w \in Nat
  OBVIOUS
<1>2. (b - a - 1) * w >= 0
  BY <1>1
<1>3. (b - a - 1) * w = b * w - a * w - w
  BY <1>1
<1> QED
  BY <1>2, <1>3

\* A product is no smaller than its factors.
LEMMA MulGrows ==
    ASSUME NEW a \in Nat, NEW w \in Nat \ {0}
    PROVE  a * w \in Nat /\ a <= a * w
<1>1. a * (w - 1) >= 0
  OBVIOUS
<1>2. a * (w - 1) = a * w - a
  OBVIOUS
<1> QED
  BY <1>1, <1>2

\* An offset lies on its row.
LEMMA RowFacts ==
    ASSUME NEW a \in Nat, NEW w \in Nat \ {0}
    PROVE  /\ a \div w \in Nat
           /\ (a \div w) * w <= a
           /\ a < (a \div w) * w + w
           /\ RowStart(a, w) = (a \div w) * w
  BY DEF RowStart

\* The row of an offset is the only one the offset lies on.
LEMMA RowUnique ==
    ASSUME NEW a \in Nat, NEW w \in Nat \ {0}, NEW q \in Int,
           q * w <= a, a < q * w + w
    PROVE  a \div w = q
<1>1. /\ a \div w \in Nat
      /\ (a \div w) * w <= a
      /\ a < (a \div w) * w + w
  BY RowFacts
<1>2. ~(a \div w < q)
  BY <1>1, MulMono
<1>3. ~(q < a \div w)
  BY <1>1, MulMono
<1> QED
  BY <1>1, <1>2, <1>3

\* Rows are in the order of their offsets.
LEMMA RowMono ==
    ASSUME NEW a \in Nat, NEW b \in Nat, NEW w \in Nat \ {0}, a <= b
    PROVE  a \div w <= b \div w
<1>1. /\ a \div w \in Nat /\ (a \div w) * w <= a
      /\ b \div w \in Nat /\ b < (b \div w) * w + w
  BY RowFacts
<1>2. ~(b \div w < a \div w)
  BY <1>1, MulMono
<1> QED
  BY <1>1, <1>2

\* Everything the motions compute from a view inside a file that fits is small.
LEMMA FitsFacts ==
    ASSUME NEW n, NEW w, NEW h, Fits(n, w, h)
    PROVE  /\ n \div w \in Nat
           /\ (n \div w) * w <= n
           /\ (h - 3) * w <= n
           /\ w <= n
           /\ n \div w <= n
           /\ h - 3 <= n
           /\ n >= 1
<1> USE DEF Fits
<1>1. n \div w \in Nat /\ (n \div w) * w <= n
  BY RowFacts
<1>2. (h - 3) * w <= (n \div w) * w
  <2>1. CASE h - 3 = n \div w
    BY <2>1
  <2>2. CASE h - 3 < n \div w
    BY <1>1, <2>2, MulMono
  <2> QED
    BY <1>1, <2>1, <2>2
<1>3. w <= (h - 3) * w
  <2>1. 0 * w + w <= (h - 3) * w
    BY MulMono
  <2> QED
    BY <2>1
<1>4. n \div w <= (n \div w) * w
  BY <1>1, MulGrows
<1> QED
  BY <1>1, <1>2, <1>3, <1>4

LEMMA TallFacts ==
    ASSUME NEW n, NEW w, NEW h, Tall(n, w, h)
    PROVE  /\ Fits(n, w, h)
           /\ n \div w \in Nat
           /\ (n \div w) * w <= n
           /\ (h - 3) * w <= n
           /\ 2 * w <= n
           /\ n \div w <= n
           /\ h - 3 <= n
           /\ n >= 2
<1>1. Fits(n, w, h) /\ w \in Nat \ {0} /\ h \in Nat /\ h >= 5
  BY DEF Tall, Fits
<1>2. 2 * w <= (h - 3) * w
  <2>1. CASE h - 3 = 2
    BY <1>1, <2>1
  <2>2. CASE 2 < h - 3
    BY <1>1, <2>2, MulMono
  <2> QED
    BY <1>1, <2>1, <2>2
<1>3. (h - 3) * w <= n /\ n \in Nat
  BY <1>1, FitsFacts DEF Fits
<1> QED
  BY <1>1, <1>2, <1>3, FitsFacts

\* A row that starts in the file is one of its first n \div w rows, or the
\* one after them.
LEMMA RowInFile ==
    ASSUME NEW n, NEW w, NEW h, Fits(n, w, h),
           NEW s \in Nat, s <= n \div w
    PROVE  s * w \in Nat /\ s * w <= n
<1> USE DEF Fits
<1>1. n \div w \in Nat /\ (n \div w) * w <= n
  BY FitsFacts
<1>2. s * w <= (n \div w) * w
  <2>1. CASE s < n \div w
    BY <1>1, <2>1, MulMono
  <2> QED
    BY <1>1, <2>1
<1>3. s * w \in Nat
  OBVIOUS
<1> QED
  BY <1>1, <1>2, <1>3

LEMMA OverscrollUpRows ==
    ASSUME NEW n, NEW w, NEW h, Fits(n, w, h),
           NEW c \in Nat, NEW s \in Nat, s <= n \div w
    PROVE  OverscrollUp(c, s, w) =
             IF c \div w < s + 2 /\ s > 0 THEN s - 1 ELSE s
<1> USE DEF Fits
<1>1. s * w \in Nat /\ s * w <= n /\ w <= n /\ n >= 1
  BY RowInFile, FitsFacts
<1>2. Top(s, w) = s * w
  BY <1>1, WrapSmall, ModulusAssumption DEF Top
<1>3. Wrap(Top(s, w) + 2 * w) = (s + 2) * w
  <2>1. s * w + 2 * w = (s + 2) * w
    OBVIOUS
  <2> QED
    BY <1>1, <1>2, <2>1, WrapSmall, ModulusAssumption
<1>4. RowStart(c, w) = (c \div w) * w /\ c \div w \in Nat
  BY RowFacts
<1>5. (c \div w) * w < (s + 2) * w <=> c \div w < s + 2
  <2>1. c \div w < s + 2 => (c \div w) * w + w <= (s + 2) * w
    BY <1>4, MulMono
  <2>2. s + 2 < c \div w => (s + 2) * w + w <= (c \div w) * w
    BY <1>4, MulMono
  <2> QED
    BY <1>4, <2>1, <2>2
<1> QED
  BY <1>3, <1>4, <1>5 DEF OverscrollUp

LEMMA OverscrollDownRows ==
    ASSUME NEW n, NEW w, NEW h, Tall(n, w, h),
           NEW c \in Nat, NEW s \in Nat, s <= n \div w
    PROVE  OverscrollDown(c, s, n, w, h) =
             IF c \div w > s + h - 5 /\ s + h - 3 < n \div w THEN s + 1 ELSE s
<1> USE ModulusAssumption DEF Tall, Fits
<1>1. /\ s * w \in Nat /\ s * w <= n /\ 2 * w <= n
      /\ h - 3 <= n /\ (h - 3) * w <= n /\ n >= 2
      /\ n \div w \in Nat /\ n \div w <= n
  BY RowInFile, TallFacts
<1>2. Top(s, w) = s * w
  BY <1>1, WrapSmall DEF Top
<1>3. (h - 3) * w \in Nat
  OBVIOUS
<1>4. Bottom(s, w, h) = s * w + (h - 3) * w
  BY <1>1, <1>2, <1>3, WrapSmall DEF Bottom
<1>5. Wrap(Bottom(s, w, h) - 2 * w) = (s + h - 5) * w
  <2>1. s * w + (h - 3) * w - 2 * w = (s + h - 5) * w
    OBVIOUS
  <2>2. (s + h - 5) * w >= 0
    OBVIOUS
  <2> QED
    BY <1>1, <1>3, <1>4, <2>1, <2>2, WrapSmall
<1>6. Wrap(s + h - 3) = s + h - 3
  BY <1>1, WrapSmall
<1>7. Wrap(s + 1) = s + 1
  BY <1>1, WrapSmall
<1>8. RowStart(c, w) = (c \div w) * w /\ c \div w \in Nat
  BY RowFacts
<1>9. (c \div w) * w > (s + h - 5) * w <=> c \div w > s + h - 5
  <2>1. s + h - 5 < c \div w => (s + h - 5) * w + w <= (c \div w) * w
    BY <1>8, MulMono
  <2>2. c \div w < s + h - 5 => (c \div w) * w + w <= (s + h - 5) * w
    BY <1>8, MulMono
  <2> QED
    BY <1>8, <2>1, <2>2
<1> QED
  BY <1>5, <1>6, <1>7, <1>8, <1>9 DEF OverscrollDown

LEMMA EndScrollRows ==
    ASSUME NEW n, NEW w, NEW h, Fits(n, w, h)
    PROVE  EndScroll(n, w, h) = n \div w - h + 3
  BY FitsFacts, WrapSmall, ModulusAssumption DEF EndScroll, Fits

LEMMA PageRows ==
    ASSUME NEW n, NEW w, NEW h, Fits(n, w, h),
           NEW s \in Nat, s <= n \div w
    PROVE  /\ PageUp(s, h) = IF s < h - 3 THEN 0 ELSE s - (h - 3)
           /\ PageIsLast(s, n, w, h) <=> s + h - 3 >= n \div w
           /\ PageDown(s, h) = s + h - 3
<1> USE ModulusAssumption DEF Fits
<1>1. n \div w \in Nat /\ n \div w <= n /\ h - 3 <= n /\ n >= 1
  BY FitsFacts
<1>2. Wrap(h - 3) = h - 3
  BY <1>1, WrapSmall
<1>3. Wrap(s + h - 3) = s + h - 3
  BY <1>1, WrapSmall
<1> QED
  BY <1>1, <1>2, <1>3 DEF PageUp, PageIsLast, PageDown

LEMMA CentredScrollRows ==
    ASSUME NEW n, NEW w, NEW h, Fits(n, w, h),
           NEW offset \in Nat, offset < Modulus \div 2
    PROVE  LET middle == (h - 2) \div 2
               centred == IF offset \div w < middle THEN 0
                          ELSE offset \div w - middle
               last == n \div w - h + 3
           IN  CentredScroll(offset, n, w, h) =
                 IF centred > last THEN last ELSE centred
<1> USE ModulusAssumption DEF Fits
<1> DEFINE middle == (h - 2) \div 2
<1>1. n \div w \in Nat /\ n \div w <= n /\ h - 3 <= n /\ n >= 1
  BY FitsFacts
<1>2. Wrap(h - 2) = h - 2
  BY <1>1, WrapSmall
<1>3. middle \in Nat /\ middle <= n
  BY <1>1
<1>4. offset \div w \in Nat /\ offset \div w <= offset
  <2>1. offset \div w \in Nat /\ (offset \div w) * w <= offset
    BY RowFacts
  <2> QED
    BY <2>1, MulGrows
<1> HIDE DEF middle
<1>5. CASE offset \div w < middle
  <2>1. Wrap(offset \div w - middle) = offset \div w - middle + Modulus
    BY <1>1, <1>3, <1>4, <1>5 DEF Wrap
  <2>2. Signed(Wrap(offset \div w - middle)) < 0
    BY <1>1, <1>3, <1>4, <1>5, <2>1 DEF Signed
  <2> QED
    BY <1>2, <1>5, <2>2, EndScrollRows DEF CentredScroll, middle
<1>6. CASE offset \div w >= middle
  <2>1. Wrap(offset \div w - middle) = offset \div w - middle
    BY <1>3, <1>4, <1>6, WrapSmall
  <2>2. Signed(Wrap(offset \div w - middle)) = offset \div w - middle
    BY <1>3, <1>4, <1>6, <2>1 DEF Signed
  <2>3. CentredScroll(offset, n, w, h) =
          LET EndRow == EndScroll(n, w, h)
          IN  IF offset \div w - middle > EndRow THEN EndRow ELSE offset \div w - middle
    BY <1>2, <1>3, <1>4, <1>6, <2>2 DEF CentredScroll, middle
  <2> QED
    BY <1>3, <1>4, <1>6, <2>3, EndScrollRows DEF middle
<1> QED
  BY <1>3, <1>4, <1>5, <1>6

-----------------------------------------------------------------------------
(***************************************************************************)
(* Each motion takes a view that shows the cursor to one that shows it.    *)
(***************************************************************************)

\* A view that shows the cursor starts in the file.
LEMMA InViewFacts ==
    ASSUME NEW n, NEW w, NEW h, Fits(n, w, h),
           NEW c, NEW s, InView(c, s, n, w, h)
    PROVE  /\ c \in Nat /\ c < n /\ c \div w \in Nat
           /\ s \in Nat /\ s <= n \div w
           /\ s * w \in Nat /\ s * w <= c
<1> USE DEF Fits, InView
<1>1. c \in Nat /\ c < n /\ s \in Nat
  OBVIOUS
<1>2. c \div w \in Nat /\ (c \div w) * w <= c
  BY <1>1, RowFacts
<1>3. c \div w <= n \div w
  BY <1>1, RowMono
<1>4. s <= n \div w
  BY <1>1, <1>2, <1>3, FitsFacts
<1>5. s * w \in Nat /\ s * w <= (c \div w) * w
  <2>1. CASE s = c \div w
    BY <1>1, <1>2, <2>1
  <2>2. CASE s < c \div w
    BY <1>1, <1>2, <2>2, MulMono
  <2> QED
    BY <1>1, <1>2, <2>1, <2>2
<1> QED
  BY <1>1, <1>2, <1>4, <1>5

\* The bytes drawn include the cursor of such a view.
LEMMA InViewDrawn ==
    ASSUME NEW n, NEW w, NEW h, Fits(n, w, h),
           NEW c, NEW s, InView(c, s, n, w, h)
    PROVE  c \in Drawn(s, n, w, h)
<1> USE ModulusAssumption DEF Fits
<1>1. /\ c \in Nat /\ c < n /\ c \div w \in Nat
      /\ s \in Nat /\ s * w \in Nat /\ s * w <= c
  BY InViewFacts
<1>2. Top(s, w) = s * w
  BY <1>1, WrapSmall DEF Top
<1>3. c < (c \div w) * w + w
  BY <1>1, RowFacts
<1>4. (c \div w) * w + w <= s * w + (h - 2) * w
  <2>1. c \div w < s + (h - 2)
    BY <1>1 DEF InView
  <2>2. (c \div w) * w + w <= (s + (h - 2)) * w
    BY <1>1, <2>1, MulMono
  <2> QED
    BY <1>1, <2>2
<1>5. c < s * w + (h - 2) * w
  BY <1>1, <1>3, <1>4
<1> QED
  BY <1>1, <1>2, <1>5 DEF Drawn

\* The view that follows a cursor moved back, by a row at most, shows it.
LEMMA FollowUpInView ==
    ASSUME NEW n, NEW w, NEW h, Tall(n, w, h),
           NEW c, NEW s, InView(c, s, n, w, h),
           NEW d \in Nat, d <= c, c \div w - 1 <= d \div w
    PROVE  InView(d, OverscrollUp(d, s, w), n, w, h)
<1>1. c \in Nat /\ c < n /\ s \in Nat /\ s <= n \div w
  BY TallFacts, InViewFacts
<1>2. d \div w \in Nat /\ d \div w <= c \div w /\ c \div w \in Nat
  BY <1>1, RowMono, RowFacts DEF Tall, Fits
<1>3. OverscrollUp(d, s, w) = IF d \div w < s + 2 /\ s > 0 THEN s - 1 ELSE s
  BY <1>1, TallFacts, OverscrollUpRows
<1> QED
  BY <1>1, <1>2, <1>3 DEF InView, Tall, Fits

\* The view that follows a cursor moved on, by a row at most, shows it.
LEMMA FollowDownInView ==
    ASSUME NEW n, NEW w, NEW h, Tall(n, w, h),
           NEW c, NEW s, InView(c, s, n, w, h),
           NEW d \in Nat, c <= d, d < n, d \div w <= c \div w + 1
    PROVE  InView(d, OverscrollDown(d, s, n, w, h), n, w, h)
<1>1. c \in Nat /\ s \in Nat /\ s <= n \div w
  BY TallFacts, InViewFacts
<1>2. n \in Nat /\ w \in Nat \ {0} /\ d <= n
  BY DEF Tall, Fits
<1>3. /\ d \div w \in Nat /\ c \div w \in Nat /\ n \div w \in Nat
      /\ c \div w <= d \div w /\ d \div w <= n \div w
  <2>1. d \div w \in Nat /\ c \div w \in Nat /\ n \div w \in Nat
    BY <1>1, <1>2, RowFacts
  <2>2. c \div w <= d \div w
    BY <1>1, <1>2, RowMono
  <2>3. d \div w <= n \div w
    BY <1>2, RowMono
  <2> QED
    BY <2>1, <2>2, <2>3
<1>4. OverscrollDown(d, s, n, w, h) =
        IF d \div w > s + h - 5 /\ s + h - 3 < n \div w THEN s + 1 ELSE s
  BY <1>1, OverscrollDownRows
<1> QED
  BY <1>1, <1>3, <1>4 DEF InView, Tall, Fits

\* A row up and a row down are motions by a row at most.
LEMMA CursorUpRow ==
    ASSUME NEW w \in Nat \ {0}, NEW c \in Nat
    PROVE  /\ CursorUp(c, w) \in Nat
           /\ CursorUp(c, w) <= c
           /\ c \div w - 1 <= CursorUp(c, w) \div w
<1>1. c \div w \in Nat /\ (c \div w) * w <= c /\ c < (c \div w) * w + w
  BY RowFacts
<1>2. CASE c >= w
  <2>1. (c \div w - 1) * w = (c \div w) * w - w
    BY <1>1
  <2>2. (c - w) \div w = c \div w - 1
    BY <1>1, <1>2, <2>1, RowUnique
  <2> QED
    BY <1>1, <1>2, <2>2 DEF CursorUp
<1>3. CASE c < w
  <2>1. c \div w = 0 /\ 0 \div w = 0
    BY <1>3, RowUnique
  <2> QED
    BY <1>3, <2>1 DEF CursorUp
<1> QED
  BY <1>2, <1>3

LEMMA CursorDownRow ==
    ASSUME NEW n, NEW w, NEW h, Fits(n, w, h),
           NEW c \in Nat, c < n
    PROVE  /\ CursorDown(c, n, w) \in Nat
           /\ c <= CursorDown(c, n, w)
           /\ CursorDown(c, n, w) < n
           /\ CursorDown(c, n, w) \div w <= c \div w + 1
<1>1. n \in Nat /\ w \in Nat \ {0} /\ 4 * n <= Modulus /\ w <= n
  BY FitsFacts DEF Fits
<1>2. Wrap(c + w) = c + w
  BY <1>1, WrapSmall, ModulusAssumption
<1>3. c \div w \in Nat /\ (c \div w) * w <= c /\ c < (c \div w) * w + w
  BY <1>1, RowFacts
<1>4. (c + w) \div w = c \div w + 1
  <2>1. (c \div w + 1) * w = (c \div w) * w + w
    BY <1>1, <1>3
  <2>2. /\ c + w \in Nat /\ c \div w + 1 \in Int
        /\ (c \div w + 1) * w <= c + w
        /\ c + w < (c \div w + 1) * w + w
    BY <1>1, <1>3, <2>1
  <2> QED
    BY <1>1, <2>2, RowUnique
<1>5. CASE c + w < n
  BY <1>1, <1>2, <1>4, <1>5 DEF CursorDown
<1>6. CASE c + w >= n
  <2>1. (n - 1) \div w <= (c + w) \div w
    BY <1>1, <1>6, RowMono
  <2> QED
    BY <1>1, <1>2, <1>4, <1>6, <2>1 DEF CursorDown
<1> QED
  BY <1>1, <1>5, <1>6

\* So is a byte forward or back.
LEMMA NextByteRow ==
    ASSUME NEW w \in Nat \ {0}, NEW c \in Nat
    PROVE  (c + 1) \div w <= c \div w + 1
<1>1. c \div w \in Nat /\ c < (c \div w) * w + w
  BY RowFacts
<1>2. (c + 1) \div w \in Nat /\ ((c + 1) \div w) * w <= c + 1
  <2>1. c + 1 \in Nat
    OBVIOUS
  <2> QED
    BY <2>1, RowFacts
<1>3. (c \div w + 1) * w = (c \div w) * w + w
  BY <1>1
<1>4. ~(c \div w + 1 < (c + 1) \div w)
  <2>1. c \div w + 1 < (c + 1) \div w
          => (c \div w + 1) * w + w <= ((c + 1) \div w) * w
    BY <1>1, <1>2, MulMono
  <2>2. (c \div w) * w \in Nat /\ ((c + 1) \div w) * w \in Nat
    BY <1>1, <1>2
  <2> QED
    BY <1>1, <1>2, <1>3, <2>1, <2>2
<1> QED
  BY <1>1, <1>2, <1>4

\* A jump to the first byte of a row of the file shows it.
LEMMA RowStartInView ==
    ASSUME NEW n, NEW w, NEW h, Fits(n, w, h),
           NEW r \in Nat, r * w < n
    PROVE  Top(r, w) = r * w /\ InView(Top(r, w), r, n, w, h)
<1>1. n \in Nat /\ w \in Nat \ {0} /\ h \in Nat /\ h >= 4 /\ 4 * n <= Modulus
  BY DEF Fits
<1>2. r * w \in Nat
  BY <1>1
<1>3. Top(r, w) = r * w
  BY <1>1, <1>2, WrapSmall, ModulusAssumption DEF Top
<1>4. (r * w) \div w = r
  BY <1>1, <1>2, RowUnique
<1> QED
  BY <1>1, <1>2, <1>3, <1>4 DEF InView

LEMMA HomeInView ==
    ASSUME NEW n, NEW w, NEW h, Fits(n, w, h)
    PROVE  InView(0, 0, n, w, h)
<1>1. /\ n \in Nat /\ n >= 1 /\ w \in Nat \ {0} /\ h \in Nat /\ h >= 4
  BY FitsFacts DEF Fits
<1>2. 0 \div w = 0
  BY <1>1, RowUnique
<1> QED
  BY <1>1, <1>2 DEF InView

LEMMA PageUpInView ==
    ASSUME NEW n, NEW w, NEW h, Fits(n, w, h),
           NEW c, NEW s, InView(c, s, n, w, h)
    PROVE  InView(Top(PageUp(s, h), w), PageUp(s, h), n, w, h)
<1>1. /\ c \in Nat /\ c < n /\ s \in Nat /\ s <= n \div w
      /\ s * w \in Nat /\ s * w <= c
  BY InViewFacts
<1>2. n \in Nat /\ n >= 1 /\ w \in Nat \ {0} /\ h \in Nat /\ h >= 4
  BY FitsFacts DEF Fits
<1>3. PageUp(s, h) = IF s < h - 3 THEN 0 ELSE s - (h - 3)
  BY <1>1, PageRows
<1>4. CASE s < h - 3
  <2>1. PageUp(s, h) = 0
    BY <1>3, <1>4
  <2>2. 0 * w < n
    BY <1>2
  <2> QED
    BY <2>1, <2>2, RowStartInView
<1>5. CASE s >= h - 3
  <2>1. PageUp(s, h) = s - (h - 3) /\ s - (h - 3) \in Nat
    BY <1>1, <1>2, <1>3, <1>5
  <2>2. (s - (h - 3)) * w + w <= s * w
    BY <1>1, <1>2, MulMono
  <2>3. (s - (h - 3)) * w \in Nat
    BY <1>2, <2>1
  <2>4. (s - (h - 3)) * w < n
    BY <1>1, <1>2, <2>2, <2>3
  <2> QED
    BY <2>1, <2>4, RowStartInView
<1> QED
  BY <1>1, <1>2, <1>4, <1>5

LEMMA PageDownInView ==
    ASSUME NEW n, NEW w, NEW h, Fits(n, w, h),
           NEW c, NEW s, InView(c, s, n, w, h), ~PageIsLast(s, n, w, h)
    PROVE  InView(Top(PageDown(s, h), w), PageDown(s, h), n, w, h)
<1>1. s \in Nat /\ s <= n \div w
  BY InViewFacts
<1>2. /\ n \in Nat /\ w \in Nat \ {0} /\ h \in Nat /\ h >= 4
      /\ n \div w \in Nat /\ (n \div w) * w <= n
  BY FitsFacts DEF Fits
<1>3. PageDown(s, h) = s + h - 3 /\ s + h - 3 < n \div w
  BY <1>1, <1>2, PageRows
<1>4. s + h - 3 \in Nat /\ (s + h - 3) * w + w <= (n \div w) * w
  BY <1>1, <1>2, <1>3, MulMono
<1>5. (s + h - 3) * w < n
  <2>1. (s + h - 3) * w \in Nat /\ (n \div w) * w \in Nat
    BY <1>2, <1>4
  <2> QED
    BY <1>2, <1>4, <2>1
<1> QED
  BY <1>3, <1>4, <1>5, RowStartInView

LEMMA EndInView ==
    ASSUME NEW n, NEW w, NEW h, Fits(n, w, h)
    PROVE  InView(n - 1, EndScroll(n, w, h), n, w, h)
<1>1. /\ n \in Nat /\ n >= 1 /\ w \in Nat \ {0} /\ h \in Nat /\ h >= 4
      /\ h - 3 <= n \div w /\ n \div w \in Nat
  BY FitsFacts DEF Fits
<1>2. EndScroll(n, w, h) = n \div w - h + 3
  BY EndScrollRows
<1>3. (n - 1) \div w \in Nat /\ (n - 1) \div w <= n \div w
  <2>1. n - 1 \in Nat /\ n - 1 <= n
    BY <1>1
  <2> QED
    BY <1>1, <2>1, RowMono, RowFacts
<1>4. n \div w <= (n - 1) \div w + 1
  <2>1. n - 1 \in Nat /\ n - 1 + 1 = n
    BY <1>1
  <2> QED
    BY <1>1, <2>1, NextByteRow
<1> QED
  BY <1>1, <1>2, <1>3, <1>4 DEF InView

\* Goto and its kin show the offset asked for, or the end of the buffer.
LEMMA CentredInView ==
    ASSUME NEW n, NEW w, NEW h, Fits(n, w, h),
           NEW offset \in Nat, offset < Modulus \div 2
    PROVE  InView(ClampOffset(offset, n), CentredScroll(offset, n, w, h),
                  n, w, h)
<1> DEFINE middle == (h - 2) \div 2
           row == offset \div w
           last == n \div w - h + 3
           c == ClampOffset(offset, n)
           s == CentredScroll(offset, n, w, h)
<1>1. /\ n \in Nat /\ n >= 1 /\ w \in Nat \ {0} /\ h \in Nat /\ h >= 4
      /\ h - 3 <= n \div w /\ n \div w \in Nat
  BY FitsFacts DEF Fits
<1>2. LET centred == IF row < middle THEN 0 ELSE row - middle
      IN  s = IF centred > last THEN last ELSE centred
  BY CentredScrollRows
<1>3. c \in 0 .. n - 1 /\ c <= offset
  BY <1>1 DEF ClampOffset
<1>4. middle \in Nat /\ middle <= h - 3
  BY <1>1
<1>5. /\ row \in Nat /\ c \div w \in Nat
      /\ c \div w <= row /\ c \div w <= n \div w
  <2> HIDE DEF c
  <2>1. c \in Nat /\ c <= n
    BY <1>1, <1>3
  <2>2. row \in Nat /\ c \div w \in Nat
    BY <1>1, <2>1, RowFacts
  <2>3. c \div w <= row
    BY <1>1, <1>3, <2>1, RowMono
  <2>4. c \div w <= n \div w
    BY <1>1, <2>1, RowMono
  <2> QED
    BY <2>2, <2>3, <2>4
<1>6. c \div w = row \/ c = n - 1
  BY DEF ClampOffset
<1>7. n \div w <= (n - 1) \div w + 1
  <2>1. n - 1 \in Nat /\ n - 1 + 1 = n
    BY <1>1
  <2> QED
    BY <1>1, <2>1, NextByteRow
<1> HIDE DEF middle, row, c, s
<1>8. s \in Nat /\ s <= c \div w /\ c \div w <= s + h - 3
  BY <1>1, <1>2, <1>4, <1>5, <1>6, <1>7
<1> QED
  BY <1>3, <1>8 DEF InView, c, s

=============================================================================
