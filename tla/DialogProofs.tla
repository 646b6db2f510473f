---------------------------- MODULE DialogProofs ----------------------------
(***************************************************************************)
(* Keys reach the program in the order they were typed, for every set of   *)
(* keys and however many are typed.                                        *)
(***************************************************************************)
EXTENDS Dialog, SequenceTheorems, TLAPS

\* The histories and the queue are sequences, and add up.
InOrder ==
    /\ typed \in Seq(Keys)
    /\ handled \in Seq(Keys)
    /\ queue \in Seq(Keys)
    /\ KeysInOrder

\* What getch and the peek do to the queue.
Take ==
    /\ queue # << >>
    /\ handled' = Append(handled, Head(queue))
    /\ queue' = Tail(queue)
    /\ typed' = typed

\* Moving the head of the queue to the end of the history keeps the order.
LEMMA TakeKeepsOrder ==
    ASSUME InOrder, Take
    PROVE  InOrder'
<1>1. Head(queue) \in Keys /\ queue' \in Seq(Keys)
  BY HeadTailProperties DEF InOrder, Take
<1>2. handled' \in Seq(Keys)
  BY <1>1, AppendProperties DEF InOrder, Take
<1>3. handled' \o queue' = handled \o queue
  <2>1. Append(handled, Head(queue)) = handled \o <<Head(queue)>>
    BY <1>1, AppendIsConcat DEF InOrder
  <2>2. queue = <<Head(queue)>> \o Tail(queue)
    BY DEF InOrder, Take
  <2>3. (handled \o <<Head(queue)>>) \o Tail(queue)
          = handled \o (<<Head(queue)>> \o Tail(queue))
    BY <1>1, ConcatAssociative DEF InOrder, Take
  <2> QED
    BY <2>1, <2>2, <2>3 DEF Take
<1> QED
  BY <1>1, <1>2, <1>3 DEF InOrder, Take, KeysInOrder

\* A typed key goes to the end of both.
LEMMA TypeKeepsOrder ==
    ASSUME InOrder, NEW key \in Typeable, Type(key)
    PROVE  InOrder'
<1>1. key \in Keys
  BY DialogAssumption
<1>2. /\ typed' = typed \o <<key>> /\ typed' \in Seq(Keys)
      /\ queue' = queue \o <<key>> /\ queue' \in Seq(Keys)
      /\ handled' = handled
  BY <1>1, AppendIsConcat, AppendProperties DEF InOrder, Type
<1>3. handled \o (queue \o <<key>>) = (handled \o queue) \o <<key>>
  BY <1>1, ConcatAssociative DEF InOrder
<1> QED
  BY <1>2, <1>3 DEF InOrder, KeysInOrder

\* An Escape that stands alone is the whole queue.
LEMMA AloneIsTake ==
    ASSUME EscapeAlone
    PROVE  Take
  BY DEF EscapeAlone, Take

\* Every step of the program takes the head of the queue, or none.
LEMMA ProgramTakes ==
    ASSUME Program
    PROVE  Take \/ UNCHANGED <<typed, handled, queue>>
<1>1. ASSUME NEW keys, Read(keys) PROVE Take
  BY <1>1 DEF Read, Take
<1>2. ASSUME EscapeInSequence PROVE Take
  BY <1>2 DEF EscapeInSequence, Take
<1>3. ASSUME NEW keys, NEW dialog, Open(keys, dialog) PROVE Take
  BY <1>1, <1>3 DEF Open
<1> QED
  BY <1>1, <1>2, <1>3, AloneIsTake
  DEF Program, Quit, OpenDialog, StartEditing, SwitchPane, LeaveEdit, KeepEdit,
      PaneKey, IgnoreEscape, InputKey, MenuKey, ErrorKey, CalculatorKey,
      AcceptInput, EndInput, AskEscapeAgain, ChooseItem, CancelMenu,
      CloseError, CloseCalculator, IsEsc

\* The sequences add up in every reachable state.
THEOREM KeysInSequences == Spec => []InOrder
<1>1. Init => InOrder
  BY DEF Init, InOrder, KeysInOrder
<1>2. InOrder /\ [Next]_vars => InOrder'
  <2> SUFFICES ASSUME InOrder, [Next]_vars PROVE InOrder'
    OBVIOUS
  <2>1. CASE Program
    <3>1. CASE Take
      BY <3>1, TakeKeepsOrder
    <3>2. CASE UNCHANGED <<typed, handled, queue>>
      BY <3>2 DEF InOrder, KeysInOrder
    <3> QED
      BY <2>1, <3>1, <3>2, ProgramTakes
  <2>2. CASE ReadNothing
    BY <2>2 DEF ReadNothing, vars, InOrder, KeysInOrder
  <2>3. ASSUME NEW key \in Typeable, Type(key) PROVE InOrder'
    BY <2>3, TypeKeepsOrder
  <2>4. CASE UNCHANGED vars
    BY <2>4 DEF vars, InOrder, KeysInOrder
  <2> QED
    BY <2>1, <2>2, <2>3, <2>4 DEF Next
<1> QED
  BY <1>1, <1>2, PTL DEF Spec

\* No key is lost, repeated or overtaken between the user and the loops that
\* read it, through every dialog and every peek after an Escape.
THEOREM KeysStayInOrder == Spec => []KeysInOrder
<1>1. InOrder => KeysInOrder
  BY DEF InOrder
<1> QED
  BY <1>1, KeysInSequences, PTL

-----------------------------------------------------------------------------
(***************************************************************************)
(* Where the program can be, and what the dialogs give back.               *)
(***************************************************************************)

\* The part of the type invariant that is not about keys.
ControlOK ==
    /\ nodelay \in BOOLEAN
    /\ at \in Dialogs \cup {"main", "input ended", "quit"}
    /\ edit \in BOOLEAN
    /\ answer \in {NONE, TEXT, ITEM}

LEMMA MainKeysKeepControl ==
    ASSUME ControlOK,
           \/ Quit \/ OpenDialog \/ StartEditing \/ SwitchPane
           \/ LeaveEdit \/ KeepEdit \/ PaneKey
    PROVE  ControlOK'
<1>1. CASE Quit
  BY <1>1 DEF ControlOK, Quit, Read
<1>2. ASSUME NEW keys, NEW dialog \in Dialogs, Open(keys, dialog)
      PROVE  ControlOK'
  BY <1>2 DEF ControlOK, Open, Read
<1>3. CASE OpenDialog
  BY <1>2, <1>3 DEF OpenDialog, Dialogs
<1>4. CASE StartEditing
  BY <1>2, <1>4 DEF ControlOK, StartEditing, Read, Dialogs
<1>5. CASE SwitchPane
  BY <1>5 DEF ControlOK, SwitchPane, Read
<1>6. CASE LeaveEdit
  BY <1>6 DEF ControlOK, LeaveEdit
<1>7. CASE KeepEdit \/ PaneKey
  BY <1>7 DEF ControlOK, KeepEdit, PaneKey, EscapeInSequence, Read, Stay
<1> QED
  BY <1>1, <1>3, <1>4, <1>5, <1>6, <1>7

LEMMA DialogKeysKeepControl ==
    ASSUME ControlOK,
           \/ IgnoreEscape \/ InputKey \/ MenuKey \/ ErrorKey \/ CalculatorKey
           \/ AcceptInput \/ EndInput \/ AskEscapeAgain
           \/ ChooseItem \/ CancelMenu \/ CloseError \/ CloseCalculator
    PROVE  ControlOK'
<1>1. CASE IgnoreEscape \/ InputKey \/ MenuKey \/ ErrorKey \/ CalculatorKey
  BY <1>1 DEF ControlOK, IgnoreEscape, InputKey, MenuKey, ErrorKey,
     CalculatorKey, EscapeInSequence, Read, Stay
<1>2. ASSUME NEW result \in {NONE, TEXT, ITEM}, Close(result),
             nodelay' \in BOOLEAN
      PROVE  ControlOK'
  BY <1>2 DEF ControlOK, Close
<1>3. ASSUME NEW keys, Read(keys) PROVE nodelay' \in BOOLEAN
  BY <1>3 DEF ControlOK, Read
<1>4. CASE EndInput
  BY <1>4 DEF ControlOK, EndInput, IsEsc
<1>5. CASE AskEscapeAgain
  BY <1>2, <1>5 DEF AskEscapeAgain
<1>6. CASE AcceptInput \/ ChooseItem
  BY <1>2, <1>3, <1>6 DEF AcceptInput, ChooseItem
<1>7. CASE CancelMenu
  BY <1>2, <1>3, <1>7 DEF CancelMenu, IsEsc
<1>8. CASE CloseError \/ CloseCalculator
  BY <1>2, <1>3, <1>8 DEF ControlOK, CloseError, CloseCalculator, IsEsc
<1> QED
  BY <1>1, <1>4, <1>5, <1>6, <1>7, <1>8

\* The program is always in one of its loops, and the sequences of keys hold
\* keys only: never the ERR of a read without waiting.
THEOREM DialogTypeCorrect == Spec => []TypeOK
<1>1. Init => ControlOK
  BY DEF Init, ControlOK
<1>2. ControlOK /\ [Next]_vars => ControlOK'
  <2> SUFFICES ASSUME ControlOK, [Next]_vars PROVE ControlOK'
    OBVIOUS
  <2>1. CASE Program
    BY <2>1, MainKeysKeepControl, DialogKeysKeepControl DEF Program
  <2>2. CASE ReadNothing
    BY <2>2 DEF ReadNothing, vars, ControlOK
  <2>3. CASE \E key \in Typeable : Type(key)
    BY <2>3 DEF Type, ControlOK
  <2>4. CASE UNCHANGED vars
    BY <2>4 DEF vars, ControlOK
  <2> QED
    BY <2>1, <2>2, <2>3, <2>4 DEF Next
<1>3. Spec => []ControlOK
  BY <1>1, <1>2, PTL DEF Spec
<1>4. InOrder /\ ControlOK => TypeOK
  BY DEF InOrder, ControlOK, TypeOK
<1> QED
  BY <1>3, <1>4, KeysInSequences, PTL

-----------------------------------------------------------------------------
(***************************************************************************)
(* How dialogs end.                                                        *)
(***************************************************************************)

\* What ends a dialog.
Ending ==
    \/ AcceptInput \/ EndInput \/ ChooseItem \/ CancelMenu \/ CloseError
    \/ CloseCalculator

\* All other steps taken in a dialog stay there, or open it.
LEMMA OnlyEndingsLeave ==
    ASSUME [Next]_vars, at \in Dialogs, at' \notin Dialogs
    PROVE  Ending
<1>1. at # "main" /\ at # "input ended" /\ at # "quit" /\ at' # at
  BY DEF Dialogs
<1>2. CASE \/ Quit \/ OpenDialog \/ StartEditing \/ SwitchPane
           \/ LeaveEdit \/ KeepEdit \/ PaneKey
  BY <1>1, <1>2 DEF Quit, OpenDialog, Open, StartEditing, SwitchPane, LeaveEdit,
     KeepEdit, PaneKey
<1>3. CASE IgnoreEscape \/ InputKey \/ MenuKey \/ ErrorKey \/ CalculatorKey
  BY <1>1, <1>3 DEF IgnoreEscape, InputKey, MenuKey, ErrorKey, CalculatorKey, Stay
<1>4. CASE AskEscapeAgain
  BY <1>1, <1>4 DEF AskEscapeAgain
<1>5. CASE ReadNothing \/ UNCHANGED vars
  BY <1>1, <1>5 DEF ReadNothing, vars
<1>6. CASE \E key \in Typeable : Type(key)
  BY <1>1, <1>6 DEF Type
<1> QED
  BY <1>2, <1>3, <1>4, <1>5, <1>6 DEF Next, Program, Ending

\* An end of a dialog has read a key.
LEMMA EndingTakes ==
    ASSUME InOrder, Ending
    PROVE  /\ Head(queue) \in Keys
           /\ handled' = Append(handled, Head(queue))
           /\ handled'[Len(handled')] = Head(queue)
<1>1. Take
  <2>1. ASSUME NEW keys, Read(keys) PROVE Take
    BY <2>1 DEF Read, Take
  <2> QED
    BY <2>1, AloneIsTake DEF Ending, AcceptInput, EndInput, ChooseItem,
       CancelMenu, CloseError, CloseCalculator, IsEsc
<1>2. Head(queue) \in Keys
  BY <1>1, HeadTailProperties DEF InOrder, Take
<1>3. handled' = Append(handled, Head(queue)) /\ handled \in Seq(Keys)
  BY <1>1 DEF InOrder, Take
<1>4. handled'[Len(handled')] = Head(queue)
  BY <1>2, <1>3
<1> QED
  BY <1>2, <1>3, <1>4

\* A dialog ends on a key of the user's only, also when it has been opened
\* while getch does not wait.
THEOREM DialogsWait == Spec => DialogWaits
<1>1. ASSUME InOrder, [Next]_vars
      PROVE  [at' \notin Dialogs /\ at \in Dialogs =>
                handled' \in {Append(handled, key) : key \in Keys}]_vars
  <2>1. SUFFICES ASSUME at' \notin Dialogs, at \in Dialogs
                 PROVE  handled' \in {Append(handled, key) : key \in Keys}
    OBVIOUS
  <2>2. Ending
    BY <1>1, <2>1, OnlyEndingsLeave
  <2> QED
    BY <1>1, <2>2, EndingTakes
<1> QED
  BY <1>1, KeysInSequences, PTL DEF Spec, DialogWaits

\* A menu gives an item exactly when an Enter ended it: Escape and the zero
\* byte give none, whatever was typed around them.
THEOREM MenuAnswers == Spec => CancelledMenuIsNone
<1>1. ASSUME InOrder, [Next]_vars
      PROVE  [at = "menu" /\ at' = "main" =>
                (answer' = ITEM <=> handled'[Len(handled')] \in Enter)]_vars
  <2>1. SUFFICES ASSUME at = "menu", at' = "main"
                 PROVE  answer' = ITEM <=> handled'[Len(handled')] \in Enter
    OBVIOUS
  <2>2. Ending
    BY <1>1, <2>1, OnlyEndingsLeave DEF Dialogs
  <2>3. handled'[Len(handled')] = Head(queue)
    BY <1>1, <2>2, EndingTakes
  <2>4. ChooseItem \/ CancelMenu
    BY <2>1, <2>2 DEF Ending, AcceptInput, EndInput, CloseError, CloseCalculator
  <2>5. CASE ChooseItem
    BY <2>3, <2>5 DEF ChooseItem, Read, Close
  <2>6. CASE CancelMenu
    <3>1. answer' = NONE /\ NONE # ITEM
      BY <2>6 DEF CancelMenu, Close, NONE, ITEM
    <3>2. Head(queue) \in {"escape", "zero"}
      BY <2>6 DEF CancelMenu, IsEsc, EscapeAlone, Read
    <3> QED
      BY <2>3, <3>1, <3>2 DEF Enter
  <2> QED
    BY <2>4, <2>5, <2>6
<1> QED
  BY <1>1, KeysInSequences, PTL DEF Spec, CancelledMenuIsNone

=============================================================================
