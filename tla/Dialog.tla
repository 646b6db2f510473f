------------------------------- MODULE Dialog -------------------------------
(***************************************************************************)
(* Keys on their way to the program: the terminal's queue, the blocking    *)
(* mode of getch, and the loops that read keys, those of the main driver   *)
(* and of the four dialogs.  Escape is told from the start of a sequence   *)
(* by asking, without waiting, whether another key follows; that key is    *)
(* pushed back.  What a key does to the buffer is left to the module       *)
(* Hexxed, and what it does to the text of a field is left out.            *)
(*                                                                         *)
(* getch waits while the queue is empty, unless nodelay is on: then it     *)
(* returns ERR at once.  Keys arrive at any moment, also between two calls *)
(* of getch for the same Escape.                                           *)
(***************************************************************************)
EXTENDS Naturals, Sequences

CONSTANTS
    Typeable,  \* the keys the user types
    MaxKeys    \* bound on the number of keys of a behaviour

(***************************************************************************)
(* Keys, by what tells them apart somewhere: the keys of the main driver   *)
(* that open a dialog, both codes of Enter, the zero byte of Control-space *)
(* and one key that stands for all others.                                 *)
(***************************************************************************)
Keys == {"=", ";", "F3", "F5", "F9", "F10",
         "newline", "KEY_ENTER", "escape", "zero", "other"}

ASSUME DialogAssumption ==
    /\ Typeable \subseteq Keys
    /\ MaxKeys \in Nat

Enter == {"newline", "KEY_ENTER"}

VARIABLES
    typed,    \* history: every key typed so far
    handled,  \* history: the keys the program has read for good
    queue,    \* keys typed or pushed back that getch will return
    nodelay,  \* getch does not wait
    at,       \* the loop the program is in
    edit,     \* edit mode of the hex pane
    answer    \* what the last prompt or menu returned

terminal == <<typed, handled, queue, nodelay>>

vars == <<typed, handled, queue, nodelay, at, edit, answer>>

Dialogs == {"input", "menu", "error", "calculator"}

\* What prompt_input and prompt_menu return.
NONE == "NULL or -1"
TEXT == "the text of the field"
ITEM == "the index of an item"

Init ==
    /\ typed = << >>
    /\ handled = << >>
    /\ queue = << >>
    /\ nodelay = FALSE
    /\ at = "main"
    /\ edit = FALSE
    /\ answer = NONE

\* The user.
Type(key) ==
    /\ Len(typed) < MaxKeys
    /\ typed' = Append(typed, key)
    /\ queue' = Append(queue, key)
    /\ UNCHANGED <<handled, nodelay, at, edit, answer>>

(***************************************************************************)
(* Reading keys.                                                           *)
(***************************************************************************)

\* getch returns one of the keys given, with no peek after it.
Read(keys) ==
    /\ queue # << >>
    /\ Head(queue) \in keys
    /\ handled' = Append(handled, Head(queue))
    /\ queue' = Tail(queue)
    /\ UNCHANGED <<typed, nodelay>>

\* Mutant: what the peek returned is pushed back even when it is ERR.
PushingErrBack ==
    /\ queue = <<"escape">>
    /\ handled' = Append(handled, "escape")
    /\ queue' = <<"ERR">>
    /\ UNCHANGED typed

\* An Escape is read, and the peek finds no other key.
EscapeAlone ==
    /\ queue = <<"escape">>
    /\ handled' = Append(handled, "escape")
    /\ queue' = << >>
    /\ UNCHANGED typed

\* Mutant: the key that was read to see whether one follows is dropped.
DroppingPeek ==
    /\ Len(queue) > 1
    /\ Head(queue) = "escape"
    /\ handled' = Append(handled, "escape")
    /\ queue' = Tail(Tail(queue))
    /\ nodelay' = FALSE
    /\ UNCHANGED typed

\* An Escape is read, and the peek finds another key, which is pushed back.
EscapeInSequence ==
    /\ Len(queue) > 1
    /\ Head(queue) = "escape"
    /\ handled' = Append(handled, "escape")
    /\ queue' = Tail(queue)
    /\ nodelay' = FALSE
    /\ UNCHANGED typed

\* input_is_esc returns 1: it leaves nodelay on.
IsEsc == EscapeAlone /\ nodelay' = TRUE

\* The dialog goes on to its next key.
Stay == UNCHANGED <<at, edit, answer>>

\* The dialog ends and the main driver goes on, with this answer of a prompt.
Close(result) ==
    /\ at' = "main"
    /\ answer' = result
    /\ UNCHANGED edit

\* Mutant: the loop of a dialog takes ERR for its end.
ReadNothingCloses ==
    /\ queue = << >>
    /\ nodelay
    /\ at' = IF at \in Dialogs THEN "main" ELSE at
    /\ UNCHANGED terminal
    /\ UNCHANGED <<edit, answer>>

\* getch returns ERR at once: no driver knows that key, and every loop goes
\* round again.
ReadNothing ==
    /\ queue = << >>
    /\ nodelay
    /\ UNCHANGED vars

(***************************************************************************)
(* The main driver, while no dialog is open.                               *)
(***************************************************************************)

Quit ==
    /\ at = "main"
    /\ Read({"F10"})
    /\ at' = "quit"
    /\ UNCHANGED <<edit, answer>>

Open(keys, dialog) ==
    /\ at = "main"
    /\ Read(keys)
    /\ at' = dialog
    /\ UNCHANGED <<edit, answer>>

\* F9 shows a menu, or an error when there are no comments.
OpenDialog ==
    \/ Open({"="}, "calculator")
    \/ Open({";", "F5"}, "input")
    \/ Open({"F9"}, "menu")
    \/ Open({"F9"}, "error")

\* F3 starts editing in the hex pane.  In the text pane it does not, and a
\* file that cannot be written gives an error.
StartEditing ==
    \/ at = "main" /\ Read({"F3"}) /\ edit' \in {edit, TRUE} /\ UNCHANGED <<at, answer>>
    \/ ~edit /\ Open({"F3"}, "error")

\* Enter posts the other pane, which forgets edit mode.
SwitchPane ==
    /\ at = "main"
    /\ Read(Enter)
    /\ edit' = FALSE
    /\ UNCHANGED <<at, answer>>

\* Escape leaves edit mode and makes getch wait again.
LeaveEdit ==
    /\ at = "main"
    /\ edit
    /\ EscapeAlone
    /\ nodelay' = FALSE
    /\ edit' = FALSE
    /\ UNCHANGED <<at, answer>>

\* Mutant: the Escape is pushed back instead of the key after it.
UnreadEscape ==
    /\ at = "main"
    /\ edit
    /\ Len(queue) > 1
    /\ Head(queue) = "escape"
    /\ nodelay' = FALSE
    /\ UNCHANGED <<typed, handled, queue>>
    /\ Stay

KeepEdit ==
    /\ at = "main"
    /\ edit
    /\ EscapeInSequence
    /\ Stay

PaneKey ==
    /\ at = "main"
    /\ Read({"zero", "other"} \cup (IF edit THEN {} ELSE {"escape"}))
    /\ Stay

(***************************************************************************)
(* The dialogs.                                                            *)
(***************************************************************************)

\* An Escape with a key right behind it means nothing to any dialog.
IgnoreEscape ==
    /\ at \in Dialogs
    /\ EscapeInSequence
    /\ Stay

\* The keys a dialog goes on after: most are for the form or the menu, and
\* those they do not know for nobody.
InputKey ==
    /\ at = "input"
    /\ Read(Keys \ (Enter \cup {"escape", "zero"}))
    /\ Stay

MenuKey ==
    /\ at = "menu"
    /\ Read(Keys \ (Enter \cup {"escape", "zero"}))
    /\ Stay

\* prompt_error knows only one of the codes of Enter.
ErrorKey ==
    /\ at = "error"
    /\ Read(Keys \ {"KEY_ENTER", "escape", "zero"})
    /\ Stay

\* Enter evaluates the expression and stays.
CalculatorKey ==
    /\ at = "calculator"
    /\ Read(Keys \ {"escape"})
    /\ Stay

\* prompt_input: Enter, or the zero byte that ends the loop.
AcceptInput ==
    /\ at = "input"
    /\ Read(Enter \cup {"zero"})
    /\ Close(TEXT)

\* prompt_input: Escape ends the loop.
EndInput ==
    /\ at = "input"
    /\ IsEsc
    /\ at' = "input ended"
    /\ UNCHANGED <<edit, answer>>

\* prompt_input, after its loop: the same Escape is asked about again.
AskEscapeAgain ==
    /\ at = "input ended"
    /\ nodelay' = (queue = << >>)
    /\ Close(IF queue = << >> THEN NONE ELSE TEXT)
    /\ UNCHANGED <<typed, handled, queue>>

ChooseItem ==
    /\ at = "menu"
    /\ Read(Enter)
    /\ Close(ITEM)

\* Mutant: the index is that of the item under the bar, however the menu ends.
CancelMenuOnItem ==
    /\ at = "menu"
    /\ IsEsc \/ Read({"zero"})
    /\ Close(ITEM)

CancelMenu ==
    /\ at = "menu"
    /\ IsEsc \/ Read({"zero"})
    /\ Close(NONE)

CloseError ==
    /\ at = "error"
    /\ IsEsc \/ Read({"KEY_ENTER", "zero"})
    /\ Close(answer)

CloseCalculator ==
    /\ at = "calculator"
    /\ IsEsc
    /\ Close(answer)

Program ==
    \/ Quit \/ OpenDialog \/ StartEditing \/ SwitchPane
    \/ LeaveEdit \/ KeepEdit \/ PaneKey
    \/ IgnoreEscape \/ InputKey \/ MenuKey \/ ErrorKey \/ CalculatorKey
    \/ AcceptInput \/ EndInput \/ AskEscapeAgain
    \/ ChooseItem \/ CancelMenu \/ CloseError \/ CloseCalculator

Next ==
    \/ Program
    \/ at # "quit" /\ ReadNothing
    \/ \E key \in Typeable : Type(key)

\* The program runs on while it has something to do.  The user need not type.
Spec == Init /\ [][Next]_vars /\ WF_vars(Program)

-----------------------------------------------------------------------------

\* Every variable holds one of its values.
TypeOK ==
    /\ typed \in Seq(Keys)
    /\ handled \in Seq(Keys)
    /\ queue \in Seq(Keys)
    /\ nodelay \in BOOLEAN
    /\ at \in Dialogs \cup {"main", "input ended", "quit"}
    /\ edit \in BOOLEAN
    /\ answer \in {NONE, TEXT, ITEM}

\* Keys are read in the order they were typed, each exactly once, although
\* the program reads past an Escape and pushes the next key back.
KeysInOrder == typed = handled \o queue

\* No loop strands the user: while the program runs, it gets to read every key
\* that was typed, in whatever dialog it is and whether getch waits or not.
EveryKeyRead == []<>(queue = << >> \/ at = "quit")

\* A dialog ends only on a key of the user's, also when it was opened while
\* getch does not wait and returns ERR at once.
DialogWaits ==
    [][at' \notin Dialogs /\ at \in Dialogs =>
         handled' \in {Append(handled, key) : key \in Keys}]_vars

\* prompt_menu returns -1 when it is cancelled with Escape, however the keys
\* before and after it were timed (render.h says so).
CancelledMenuIsNone ==
    [][at = "menu" /\ at' = "main" =>
         (answer' = ITEM <=> handled'[Len(handled')] \in Enter)]_vars

\* prompt_input sets user_input to NULL when it is cancelled with Escape:
\* render.h says so.
CancelledInputIsNull ==
    [][at = "input ended" /\ at' = "main" => answer' = NONE]_vars

=============================================================================
