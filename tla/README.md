# hexxed in TLA+

A verification development for **hexxed**, a terminal hex editor in C: models
of its parts that TLC checks on small instances, and theorems about them that
TLAPS proves for every instance. `src/` below is the repository.

## 1. The system

hexxed opens one file, maps it into memory and shows it in one of two *panes*
(hex and text). A single thread reads keys with ncurses' `getch`, the main
driver handles some of them itself (also by opening a *dialog* that reads
further keys) and passes the rest to the posted pane. Bytes are edited in place
in a shared mapping, so there is no save.

| component | source | state | operations |
|---|---|---|---|
| buffer | `buffer.c`, `buffer.h`, `panes.h` | path, descriptor, mapping, size, `editable`, cursor, start and end mark, stack of bookmarks, table of comments | open, try_reopen, close, scroll, block start/end/clear, bookmark push/pop, comment set/remove, read_u8 .. read_u64 |
| hex pane | `panes.c` (`hex_*`) | `scroll` (first row shown), `odd` (nibble), `edit` | post, unpost, update, scroll, driver (one case per key) |
| text pane | `panes.c` (`text_*`) | `scroll` | the same, with rows as wide as the terminal |
| main driver | `main.c` | the active pane | Enter (switch), F3 (edit), F5 (Goto), F9 (Names), `;` (comment), `=` (calculator), F10 (quit) |
| dialogs | `render.c` | key queue and blocking mode of the terminal, the field, the menu | `prompt_input`, `prompt_menu`, `prompt_error`, `prompt_calculator`, `input_is_esc` |
| calculator | `calculator.lemon`, `buffer.c` (`buffer_read*`) | the place in the expression, the parser, `error` and `result` | `calculator_eval`: the loop over the characters, the rules' code, `@` and `#` to read the buffer |
| parser engine | `lempar.c` | `yystack`, `yyerrcnt` | `Parse`: shift, reduce, accept, errors, overflow of the stack |
| parser generator | `lemon.c` | grammar, states, follow sets, actions, action table | the phases of `main`, from the indexed grammar to the generated tables |
| rendering | `render.c`, `hex_update`, `text_update` | none the program reads back | bars, borders, colours, rows |

**Interactions.** Panes, main driver and dialogs all work on one `buffer_t`.
Its cursor is the only place shared by the panes: a switch unposts one pane
(dropping its scroll, nibble and edit mode) and posts the other, which scrolls to
the buffer's cursor. F3 is handled twice: the main driver reopens the buffer for
writing, then the hex driver enters edit mode if that worked. Goto and Names end
in `pane_scroll`. Goto and the calculator dialog call `calculator_eval`, which reads
the buffer at its cursor. At build time `lemon` turns the grammar of `calculator.lemon`
into tables, and the engine of `lempar.c` runs on them. Two parties run beside the program: the terminal (keys at any
moment, resizes) and other programs (which may change, truncate or replace the file).

**What is hard about it.**

* All positions are unsigned 64-bit words and every motion computes the cursor
  from the scroll, the scroll from the cursor, or each on its own. Rows are
  counted from the terminal's height, read anew on every key. A slip at a
  boundary shows only after a certain sequence of keys.
* Marks, bookmarks and comments are offsets kept from earlier keys; marks are set
  by one key with a different rule in each pane.
* Editing depends on two flags set by two drivers, and on a nibble that moving,
  Goto, End and pops all change or keep in their own way.
* Escape is told from a sequence by one read without waiting, and the key read
  too much is pushed back; the blocking mode may stay changed.
* Opening and reopening are sequences of system calls that may each fail, with
  other programs acting in between.
* The calculator moves a pointer by what `strtoull` found, back one and on one; its
  parser throws tokens away after an error or when its stack is full, and must
  still not end in a success.
* The generator packs the actions of all states into one array in which rows overlap,
  drops and merges actions on the way, and iterates to fixed points under flags.

**What makes each part correct.** The cursor *"MAY NOT point outside of a
buffer"* (`panes.h:6-7`) and is on the screen after every key; marks, bookmarks
and comments are bytes of the buffer; a completed block does not change by moving,
editing or switching panes; bookmarks are a stack; a byte changes only by a digit typed in edit mode, one
nibble at the cursor, over a writable mapping; a switch of panes and a chosen name
land in view at the right byte; keys are read in order, none lost; a dialog ends on
the user's key only and reports a cancellation as one; no descriptor or mapping
leaks and a failed reopen changes nothing; an expression, and nothing else, has a value,
the one its precedences give it; a generated parser accepts the language of its
grammar, and an ambiguous grammar is reported. `PROJECT.json` ("hazards") lists, line by
line, where each of these could go wrong.

## 2. Modules

```
Word ── Nav ── Buffer ─┬─ HexPane ── HexPaneTall ─┬─ HexPaneProofs
   │      │            │     │                     └─ MCHexPane
   │      │            │     └─ refines NibbleTape
   │      │            ├─ TextPane ── TextPaneTall ── TextPaneProofs
   │      │            └─ Hexxed ─┬─ MCHexxed        (Hexxed INSTANCEs both panes)
   │      │                       └─ HexxedSteady ─┬─ HexxedProofs
   │      │                                        └─ MCSession
   │      └─ NavProofs (used by the proofs of the panes and of Hexxed)
   └─ BufferRead ── Calculator ─┬─ CalculatorProofs
CalculatorGrammar ──────┘       └─ MCCalculator (INSTANCEs LemonMain)
Grammar ── Automaton ── Actions ─┬─ Tables ─┬─ Lemon ───┬─ Parsing ─┬─ MCLemon
                         ActTab ─┘          │    │      │           └─ LemonProofs
                                            └────│──────│── LemonMain
                               LemparTables ─────┴─ Lempar   (also INSTANCEd by Calculator)
Dialog ── DialogProofs
FileBuffer ── FileBufferProofs
     └─ refines FileView
```

| module | models | in the code |
|---|---|---|
| `Word` | `Wrap` and `Signed`: unsigned and signed words of `Modulus` values | `uint64_t`, `int64_t` |
| `Nav` | what both panes compute from cursor, scroll, size, row width and height: overscroll, page up and down, end, the centred scroll and the clamp of `buffer_scroll`, the offsets drawn | `panes.c:266-374`, `542-680`, `buffer.c:267-294` |
| `Buffer` | the fields of `buffer_t` the panes use, marks, bookmarks, the freshly opened buffer | `buffer.c`, `buffer.h` |
| `HexPane` | one action for each case of `hex_driver`, and `hex_scroll` | `panes.c:236-462` |
| `TextPane` | one action for each case of `text_driver`, and `text_scroll` | `panes.c:542-692` |
| `HexPaneTall`, `TextPaneTall` | the panes under the assumption that the file fills the screen, and their inductive invariants | |
| `MCHexPane` | the combinations of data the model checker follows (`Bounded`) | |
| `NibbleTape` | abstract: a tape of nibbles with a head, written at the head only | |
| `Hexxed` | the main driver over whichever pane is posted, comments, Goto, Names, F3, resizes, a file other programs change | `main.c:53-170` |
| `HexxedSteady`, `MCSession` | `Hexxed` under the assumption that the width stays, the file does not shrink and both panes' rows fill the screen; the inductive invariant; the run's terminals | |
| `Dialog` | the terminal's queue and blocking mode, `input_is_esc`, the key loops of the main driver and the four dialogs | `render.c`, `main.c` |
| `FileBuffer` | open, reopen and close, one action for each system call with its failures, and other programs | `buffer.c:18-140` |
| `FileView` | abstract: a view of a file, exchanged once and whole, then closed | |
| `BufferRead` | `buffer_read` with its bound check, and the integers of 1 to 8 bytes in both byte orders | `buffer.c:140-265` |
| `CalculatorGrammar` | tokens, precedences and rules, as `lemon` indexes them | `calculator.lemon` |
| `Calculator` | one call of `calculator_eval`: one step for each round of its loop and of the loop in `Parse`; the rules' code | `calculator.lemon` |
| `LemparTables` | how the engine reads the tables: the lookups with their assertions, and what it takes for granted (`WellFormed`) | `lempar.c` |
| `Lempar` | the engine: shift, reduce, accept, error, overflow, with every assertion | `lempar.c` |
| `Grammar` | rule numbers, precedence symbols, first sets | `lemon.c` |
| `Automaton` | `FindStates` with the recursion of `getstate` and `buildshifts`, `FindLinks`, `FindFollowSets` | `lemon.c` |
| `Actions` | `FindActions` with `resolve_conflict`, `CompressTables`, `ResortStates` | `lemon.c` |
| `ActTab` | the action table: `acttab_insert`, the lookups it is made for | `lemon.c` |
| `Tables` | `compute_action`, the order of packing, the arrays `ReportTable` writes | `lemon.c` |
| `Lemon` | the phases of `main` as steps: 14 actions | `lemon.c` |
| `Parsing` | `lemon`, then the parser it has made called with a word token by token: a step for each call of `Parse` and each round of its loop | `lemon.c`, `lempar.c` |
| `LemonMain` | the same phases as one function from a grammar to its tables, used to make the calculator's; recursive, and for TLC only | `lemon.c` |
| `MCLemon`, `MCCalculator` | the families of grammars and of inputs, and the references both are compared with: derivations, and values read off the precedences | |

**How state corresponds.** Variables carry the names of the C fields (`cursor`,
`start_mark`, `scroll`, `odd`, `edit`, `editable`, ...). `height` and `width` are
what `getmaxyx` returns, `data` the bytes of the mapping. The stack of bookmarks is a
sequence of at most `BOOKMARK_STACK_SIZE` offsets. An unset mark is `NoMark`, the
word of all ones, as in the code. `Block` is what the marks enclose, computed alike by
both panes; the text pane always draws it as selected, the hex pane outside of edit mode only
(`HexPane.Selected`). In `FileBuffer` a mapping records its
address, file, length and protection, and lengths count pages; in `Dialog` keys are
classes, told apart by what some loop does with them.

**How actions correspond.** In the panes a step is one key: the whole case, with
the scroll that follows it. In `Hexxed` a step is a key from one `getch` of the main
loop to the next, a dialog contributing the answer it gives (a cancelled one is a
stutter); F3 is main's reopen and the pane's `edit` in one step because no key is read
in between. In `Dialog` a step is one `getch`, the peek after an Escape being part of it
where the code makes one, and the second peek of `prompt_input` a step of its own,
since keys can arrive before it. In `FileBuffer` a step is one system call with the
assignments up to the next. In `Calculator` a step is a round of the loop over the
expression or of the loop in `Parse`; in `Lemon` a step is one round of the loop a phase of `main` consists of: a shift that
`buildshifts` builds (with the stack of its calls that have not returned as a variable), a
configuration `FindFollowSets` propagates from, a pair of actions for `resolve_conflict`, an action
`CompressTables` renames, a row `ReportTable` packs.

**Deliberate abstractions.** Row width of the hex pane is a constant (16 in the
code) and words have `Modulus` values (2^64 in the code), so that boundaries are
close together; the formulas are the code's. `hex_update` and `text_update`
matter only by the set of offsets they draw (`Nav.Drawn`). A comment is present or
absent, since the panes and Names use its address only. After a truncation reads of
lost pages would fault, so a file mapped for writing is not changed further.
Integers of the calculator have `8 * ByteBits` bits (64 in the code), and its bytes
`ByteBits`. C leaves overflow, a shift by too much and the least integer divided by -1
undefined: the first two are modelled as the instructions of x86-64 have it, the
division as a stop of the program. `lemon` keeps its data in linked lists and bitsets;
the model keeps them as sets and as sequences where the code sorts or numbers them.
Configurations and rules are numbered as the code does, because the tables depend on it.

## 3. Runs

| run | question | result |
|---|---|---|
| `hex_view` | Do all motions, Goto, marks, bookmarks and edits keep the cursor in the buffer and drawn, the places in the buffer, completed blocks unchanged? Does editing implement `NibbleTape`, and do bookmarks form a stack? | holds |
| `text_view` | The same as `hex_view` for the text driver, at two widths. | holds |
| `session` | Both panes under the main driver with comments, Goto, Names, F3, pane switches, changing heights and a growing file: places, edit mode, switches, Names, and the block that survives all of them. | holds |
| `dialog_keys` | Keys in any order and timing through all loops: order kept, each read in the end, no dialog ends by itself, a cancelled menu reports -1. | holds |
| `file_calls` | Every call failing at every point, files changing in between: no leaks, the buffer backed, a reopen atomic (`FileView`). | holds |
| `lemon` | 1265 grammars through all phases, and the parser made on every word: does it accept sentences only, and all of them, meet its assertions, and end; are ambiguities reported; are follow sets exact, and do the tables say what the states do? | holds |
| `calculator` | 2770 expressions and scraps with two buffers each, and the tables `lemon` makes for the calculator's grammar: the value the declared precedences give or a refusal, no read out of bounds, an end. | holds |
| `hex_small_file` | The cursor on a file with fewer rows than the screen. | violated |
| `dialog_race` | A prompt cancelled with Escape returns no input. | violated |
| `calculator_overflow` | A success of `calculator_eval` means the input was an expression. | violated |
| `calculator_precedence` | The operators follow C's precedence order. | violated |
| `lemon_offsets` | The parser of a grammar without conflicts meets the assertions of `lempar.c`. | violated |

Each of the five violations contradicts the manual, a comment or an assertion of the repository:

* `hex_small_file`: End computes `size / 16 - height + 3` unsigned (`panes.c:365`).
  With fewer full rows than `height - 3` it wraps, and Page up sets the cursor
  from the wrapped scroll (`panes.c:342-350`), outside of the buffer (`panes.h:6-7`).
* `dialog_race`: `prompt_input` asks `input_is_esc` again after its loop
  (`render.c:347`). A key that arrived in between makes the answer "no", and the
  field is returned as if accepted, where `render.h:46` promises NULL.
* `calculator_overflow`: when `yystack` is full `yy_shift` empties it (`lempar.c:658`),
  and since no `%stack_overflow` is declared the parse goes on from the first state.
  What remains may be an expression of its own: with a stack of 3, `! ! ( 1` succeeds with the
  value 1. In the program 100 open parentheses and a 5 do it, where `render.c:117` says
  *"If an error occurs, zero out the result fields."*
* `calculator_precedence`: the manual has the operators *"follow the C operator precendence order"*
  (`hexxed.1.scd:74-75`), but `calculator.lemon:334-335` declares one level for `&&` and `||` and one
  for `&`, `^` and `|`. `2|1^2` is 1, and would be 3 in C; the real program says 1.
  `EvaluatesAsDeclared` of the `calculator` run compares with the levels as declared.
* `lemon_offsets`: `ReportTable` ends `yy_shift_ofst` with the last state that has a row of
  tokens (`lemon.c:4669`). A state whose only actions are a default and one on a nonterminal
  may come after it, and it is looked up before it is reduced: *"assert( stateno <= YY_SHIFT_COUNT )"*
  (`lempar.c:514`) fails. The grammar is `s ::= e. e ::= . e ::= e f h. f ::= . h ::= X k. k ::= .`,
  the input `X X`; the real program does the same, and without assertions reads past the array.

### Bounds, and why they are enough

* `Modulus = 1024` leaves room for sizes of up to a quarter of it, as 2^64 does for any
  file; wrap-around and sign change still happen (offset 500 of a Goto lies just
  below the sign bit, small-file scrolls wrap below zero).
* `Heights = {5, 6}` show 3 and 4 rows: 5 is the least height where the two rows of
  overscroll do not meet (the program insists on a larger screen at start-up, the
  smaller one is the harder case), and two heights make half a screen round
  in both directions. `Sizes` has a file with a full last row and one with a short last
  row, none to two rows more than the screen, so that both ends are in reach of every
  motion. `RowBytes` 1 to 3, `Widths = {2, 3}`.
* `BOOKMARK_STACK_SIZE` 1 or 2: a full stack is two or three keys away.
* `hex_view` combines its data as `MCHexPane.Bounded` says, a state constraint: on the file of 6 bytes
  typed bytes and bookmarks are at most two together and there is no block; on those of 8 and 9 bytes there are
  blocks, one bookmark at most, edit mode, but no step is followed from a typed digit (the digit itself is
  checked). Bytes, bookmarks and marks interact through the cursor only, and all of them
  together would multiply the states: 388514 as it is.
* `session`: rows of one byte in the hex pane and two in the text pane, heights 4 and 5,
  one comment. The height may change at any moment; the width does not,
  since the bounds do not survive that (see 5).
* `MaxKeys = 4` in `dialog_keys`: a dialog is opened, an Escape and the key behind it
  arrive in either order with any read, and one key follows. Peeks never look
  more than one key ahead.
* `FileBuffer`: two files may take the path in turn, lengths of 0 to 2 pages (a length of
  zero makes `mmap` fail). There are never more than two descriptors or mappings
  to choose from, and `TypeOK` checks that two are enough.

* `lemon`: every choice of one or two rules for each of two nonterminals out of 6 and 5
  right-hand sides, with code or without, the operator grammars with each associativity,
  an empty list, grammars of rules that name each other, and one with a state that has no
  offset: empty rules, left and right
  recursion, renaming rules, circles of them, states found again while they are being built,
  shared rows. 191 of the grammars pass without a report, the others have conflicts or errors. Words of up to 4 tokens
  (`MaxWord`, `Inputs`). 9 stack entries (`YYSTACKDEPTH`) and 15 rounds to a token (`MaxRounds`) are enough for
  them: fewer would show in `EngineRuns` as a sentence refused or a loop cut off. Derivations of
  up to 7 rules (`MaxRules`). The parser of every grammar that comes to its tables reads every word, with
  conflicts or without: 493322 states. `lemon_offsets` has the one grammar of these that does it.
* `calculator`: values of 16 bits (`ByteBits = 2`), so that the limits, shifts by the
  width and saturated literals can be written in a few digits; all pairs of operators,
  bare, in parentheses and with prefixes; literals of every base, also cut off; reads of
  every size at the start and at the end of the file; all scraps of up to 4 of five
  tokens. A stack of 12 is never full. 112344 states. The overflow run has a stack of 3, the one about
  precedences the same inputs as `calculator`.
  The tables modelled for this grammar were compared with the ones the real `lemon`
  writes: they are the same, number by number.

Deadlock is checked everywhere but where the system stops: in `Dialog` and `FileBuffer`
the program ends (F10, or a failed open) or the user has no more keys, `Calculator` is one
call, `Lemon` one run, and in `Parsing` the input ends.

### Fairness

`Dialog` and `Calculator` state fairness. In `Dialog` it is `WF_vars(Program)`. The program is one sequential
thread that continues when `getch` has something to return, so it takes a step that stays
possible. Nothing is assumed of the user. `EveryKeyRead` then says that no mode of
the terminal and no loop lets typed keys lie. `Calculator`'s is that of a call that is
not interrupted, weak fairness of `Next`, written without ENABLED: a step is possible
exactly while `ret` is "running". `Terminates` rests on it. `Lemon` needs none: its
`AlwaysCloser` says of each step of the iteration that it brings the end closer, which
is more than that the end comes. The other modules have safety properties only: their
steps are the user's or other programs' choice.

### Mutants

Every property of every passing run has a *mutant* in `PROJECT.json`: a plausible bug in
one mapped definition (kept beside it and marked as such) under which TLC finds
the property violated.

## 4. Theorems

| module | theorem | says |
|---|---|---|
| `HexPaneProofs` | `TypeCorrect`, `CursorStaysInBuffer`, `CursorStaysDrawn`, `CursorStaysInView`, `PlacesStayInBuffer` | the invariants of `hex_view` |
| | `OlderBookmarksStay`, `PopsReturn` | pushes and pops leave older bookmarks alone, and a pop goes to the newest |
| | `BlocksStay` | a completed block changes neither by moving nor by editing, but by `v` outside of edit mode |
| | `TapeImplemented` | `Spec => ImplementsTape` |
| `TextPaneProofs` | `TextTypeCorrect`, `TextCursorStaysInBuffer`, `TextCursorStaysDrawn`, `TextMarksStayInBuffer` | the invariants of `text_view` |
| | `TextCursorStaysInView` | the stronger one they rest on, `ViewInv` |
| | `TextBlocksStay` | a completed block does not change by moving |
| `HexxedProofs` | `SessionTypeCorrect`, `SessionCursorInBuffer`, `SessionPlacesInBuffer`, `SessionEditIsSafe` | the invariants of `session` |
| | `SwitchesKeepPlace`, `NamesFindTheirComment`, `BlocksPersist` | its action properties |
| `DialogProofs` | `KeysStayInOrder`, `KeysInSequences`, `DialogTypeCorrect` | keys are read once and in order, for any set and number of keys |
| | `DialogsWait`, `MenuAnswers` | a dialog ends on a key of the user's; a menu gives an item exactly on Enter |
| `FileBufferProofs` | `NoLeak`, `AlwaysBacked`, `FileTypeCorrect` | the invariants of `file_calls` |
| | `ViewImplemented` | `Spec => ImplementsFileView` |
| `CalculatorProofs` | `EvaluationInBounds` | `Spec => []InBounds`: input, file and stack |
| | `EveryRoundMovesOn` | each round of the loop over the expression passes a character or ends the call |
| `LemonProofs` | `StatesInvAlways`, `AutomatonIsComplete` | what `FindStates` has built is right at every point, and in the end the whole automaton |
| | `FollowSetsAreExact`, `FollowSetsCloser` | `FindFollowSets` ends, with exactly what can follow |
| | `ConflictsAreDecided` | after `FindActions` no two actions on one symbol are in force, and what the order of the rules decides is reported |
| | `EmptyIsTable`, `RowIsFound`, `InsertKeepsRows` | `acttab_insert`: rows overlaid in one array stay in it and are found again |
| | `TablesInvAlways`, `RowsAreKept` | so is every row `ReportTable` packs |
| | `AcceptedAreSentences` | `ParsingSpec => []AcceptsSentences`: what a parser made by `lemon` accepts is a sentence of its grammar |
| | `AssertionsOfEngine` | `ParsingSpec => []EngineAsserts`: the assertions of `lempar.c` hold, whatever tokens come, if every state has an offset |
| | `GeneratorInParsing` | what is proved of `lemon` alone (`Lemon!Spec`) holds of `lemon` followed by its parser |
| | `WrittenInvAlways`, `TablesSayTheActions` | with the tables written `lempar.c` finds for each state and symbol the state's action, or its default, and its assertions about the arrays hold |

**Assumptions.** `WordAssumption`, `BufferAssumption` and the modules' own
assumptions give constants their types. The panes' theorems also assume `TallFiles` or
`TallTexts`: every size `n`, height `h` and row width `w` satisfies `Nav!Tall`, that is
`4n <= Modulus`, `h >= 5` and `h - 3 <= n \div w`. The last part is what
`hex_small_file` shows cannot be dropped. `SteadyTerminals` asks the same of both panes'
rows, with `h >= 4` (`Nav!Fits`), and that the width stays and the file does not shrink: the
first because a text pane made wider leaves the buffer (see 5), and a file cut short under F3 leaves the cursor behind
as well. The calculator's tables are any that are `WellFormed`, which says only that
actions are states, pending reductions or rules: what `TablesSayTheActions` proves of the tables of
every grammar.
Sizes, heights, widths, the word size, the stacks' depths, expressions and files are otherwise
arbitrary. TLC evaluates each assumption in a run.

**The panes.** That the cursor is in the buffer is not inductive: Page up computes it from
`scroll` alone. The invariant that carries is `ViewInv`, that the row of the cursor
is one of those shown, *counted without wrapping*:
`scroll <= cursor \div w <= scroll + h - 3`. `NavProofs` has one lemma for each
computation of `Nav`: under `Tall`, from a cursor in view, it never wraps and
ends in view. With this the step lemmas of the panes are short. The hex pane's
`IInv == TypeOK /\ ViewInv /\ SavedPlacesInBounds`
needs the third conjunct because a pop takes the cursor to a bookmark; the text
pane's has `MarksInBounds` in its place. `hex_view` and `text_view` check
the conjuncts with TLC. The refinement of `NibbleTape` follows from a lemma for
each kind of step, with the remainder of the two halves of a byte as arithmetic.

**The session.** `ViewInv` does not survive a resize: a lower terminal loses the cursor's
row, and later keys bring it back or not. What survives is weaker, `TopInBuffer`: the first
row shown is a full row of the file. It is enough, because every key either sets the cursor
from that row, moves it by a row with a check against the end, or clamps it; the
lemmas of `HexxedProofs` show for each computation of `Nav` that from a top and a
cursor in the buffer it leads to such a pair, wherever the cursor is relative to the screen.
`FileGrows` (the mapping is never longer than the file) gives the reopening. Both panes are
instances, so a key of either is reduced to one of a few kinds of change of scroll, cursor,
marks and bookmarks first (`KeysKeep`), and `PlacesKept` handles marks and bookmarks for both.
`SwitchesKeepPlace` and `NamesFindTheirComment` then need only that a centred scroll shows
its offset. `BlocksPersist` needs `PlacesInBounds` and `FileGrows`: a reopening changes the size, and only because
the marks are in the smaller buffer is the block the same bytes in the larger one.

**Keys.** `KeysInOrder` together with the types of the three sequences is inductive. Each
read takes the head of the queue, and the key the peek gives back is where it was.

**The file.** `NothingLeaks` and `ViewBacked` follow from `IInv` of
`FileBufferProofs`, which says for each place between two calls exactly which descriptors
and mappings exist. The refinement maps the view to the mapping the buffer points at.

**The calculator.** `InBounds` is inductive once it says more of the parser: that it is
a stack of at most `YYSTACKDEPTH` entries which is empty only after the call is over
(`yy_accept` pops the start symbol). One lemma for each function of the engine shows that, for any
well-formed tables, even wrong ones, it keeps to its stack or stops at an assertion.
For the input, `LexemeMoves` follows the pointer through `strtoull` (space, sign, prefix,
digits) and each prefix of the loop: it goes on by one character at least, and never past the
character that ends the input, because that is neither space nor digit. Hence
`EveryRoundMovesOn`.

**The generator.** The theorems hold for every grammar that is one (`IsGrammar`: symbols in range, a
rule at least), conflicts, errors, empty and unreachable rules included. Six invariants carry them, and one
more the parser.

*`StatesInv`*, from `FindFirstSets` to `FindFollowSets`. `getstate` and `buildshifts` call each other,
so the automaton is looked at half built: states exist whose shifts are not, and a link may be added to a
state that was finished long ago. The invariant therefore says of what exists that it is right
(`IsAutomaton`: each state the closure of its basis, no basis twice, each shift to the state its
configurations move to, with the links that follow from it) and of what does not that it is still
owed (`NoneForgotten`: each symbol after a dot has its shift, or a call on the stack has it to
do). When the stack is empty nothing is owed, which is `AutomatonIsComplete`. For the follow sets,
`IsFollow` has a bound on either side: what a configuration was given is in its set, what is in its set
it inherits from one that was given it, and one that is not incomplete has passed on all it has. The
last part is what the order of visits could break, since a set may grow behind one that is done. When all are
complete the bounds meet, whatever the links: `FollowSetsAreExact`. That the loop ends is a lexicographic order on what
the sets lack, the configurations that are incomplete, and the flag (`FollowSetsCloser`).

*`ConflictsInv`* is about the pairs of actions `resolve_conflict` has seen. A later pair may change the
types of an earlier one, so it says that types only advance (an action that is out stays out)
and that a pair once settled stays so.

*`TablesInv`* is about the rows. Every row shares slots with others, so that a row stays where it is
found cannot follow from its own slots alone. `InTable` says that each entry of a row is in its
slot, `Alone` that no other slot in its range claims to be: a slot belongs to the offset that its
lookahead points back to. `acttab_insert` finds the row as it is, or free slots at an offset to which no
other slot points; then storing it neither takes a slot of an earlier row nor adds an entry to one. The code does
not check that its search has found either. `PlaceFound` shows what happens when it has not: by
the room `Grow` leaves, the slots where the search ends are free and inside the array (a row with an entry for
symbol 0 always finds a hole), but the offset may be that of other rows. So every row is found
again, unconditionally, and no write is out of bounds; that nothing else is found is proved unless the search ended
in this way (`pack.shared`), which `EngineRuns` finds not to happen in its grammars.

*`WrittenInv`* is about numbers. Until the conflicts are resolved it says which types of actions there are and that
each names a state or a rule there is (`Naming`); after `CompressTables` also that no shift goes to a state that reduces by
itself (`NamingStates`), because such states have no number below `YYNSTATE` and `compute_action` would give the shift one
that means something else. `ResortStates` places every state once and `main` numbers every rule once
(`RulesNumbered`: two numberings, of rules with code and without, that meet), so that a number in a slot of the table can be read in one way
only: `ActionNumbered` and `NumberSays` are the two directions. While rows are packed `RowsWritten` says that they
are those of `axset`, in order, and that no slot holds a number beyond the last rule's. A lookup then goes from
`yy_shift_ofst` to the row, from the row to the slot (`InTable`, `Alone`), and from its number to the action. States without a
row are looked up past all slots in use, where `yy_lookahead` has a symbol no token is; those after the last row have no
offset at all, and nothing is said of what is looked up for them. That it is looked up is what `lemon_offsets` shows.

The theorem has one condition that the code does not establish: `nAction <= nActionAlloc`, the slots in use fit
the array. `acttab_insert` makes room for `nsymbol + 1` slots *"to hold the expanded action table in the worst
case"* (`lemon.c:683-685`) before it knows the offset, but a row that must be safe ends by counting all slots up to `nterminal` past its
offset as used (`lemon.c:778`). A row of late tokens placed at the end of the array leads there when there are few
nonterminals; `acttab_action_size` (`lemon.c:791`) and `ReportTable` (`lemon.c:4620`, `4638`) then read past the array. The proof
was stuck at this point, and the program does it: an address sanitizer reports the three reads for 17 tokens `$`, `T1` .. `T16` and the
rules `s ::= . s ::= a. a ::= T3. a ::= T13. a ::= T15. a ::= a T16. a ::= a T1 T11. a ::= a T1 T12.`, with `nAction` 43 of 40. Writes are
in bounds all the same (`InsertKeepsRows`). In the grammars of the `lemon` run, and in the calculator's, the slots fit.

*`SoundInv`* and *`StartInv`* are about what actions mean, which is what a parser rests on. What
`lemon` does after `FindStates` throws away what a state was made from: `resolve_conflict` drops
actions, a default stands for reductions on other symbols than they were found for, `autoReduce`
makes a shift to a state a reduction, a renaming rule's reduction is skipped by going at once where
its left-hand side goes, and states are sorted anew. `SoundInv` says that every action is accounted
for by the configurations of its state all the same (`IsSound`): a shift goes where the state goes
on a name of the symbol (`Leads`; rules that rename make names), a reduction is of a rule that ends
in the state, a shift that reduces at once is of one that ends where it would have gone, the
acceptance is the first state's on the start symbol; and that no nonterminal a state waits for has
lost its action (`IsDue`), without which the goto after a reduction would find an entry of something
else. `StartInv` says that rules of the start symbol are followed by `$` alone, if it is on no
right-hand side, so that they are reduced at the end of the input only: `CompressTables` makes none
of them a default.

**The parser.** `AcceptedAreSentences` joins all this with the engine of `lempar.c`, for every
grammar, whatever its conflicts, and every word. How a word can be read is `Readings`: the fewest
triples *configuration, from, to* that are closed under moving the dot over a terminal that is there
or a nonterminal that has been read, a definition that knows nothing of states or tables.
`ParsingInv` says of the parser (`Going`) that there is a way through the automaton under its stack
(`IsWay`): a state and a place in the word for each entry, such that the symbol between two
neighbours has been read between their places and leads from the one state to the other, and the
last place is that of the next token. The entries are the numbers of these states, but for the last,
which may be a reduction pending in a state that has no number (`Pending`); and the symbols of the
way are not those on the stack but names of them. The lemma that carries the proof is `WayBack`: if
a rule ends in the last state, then going back as many states as it has symbols one comes to a state
in which the rule begins, and what lies between has been read as its right-hand side. That is
because every state is the closure of its basis, and its basis what has been moved over one symbol
(`StatesInv`). So whatever default or pending reduction the parser takes, it pops what has been read
as a right-hand side and goes on from a state that waits for the left-hand side (`DueOnWay`), where
the tables have an action for it (`TablesInv`, `WrittenInv`). When the acceptance comes the start
symbol has been read from the beginning; and to the end, unless it is on a right-hand side, which
`lemon` reports (`GrammarErrors`). The theorem has two conditions, both about the packed table
(`Trusted`): the slots in use fit the array, and no search has ended at the offset of other rows.
Nothing is assumed of conflicts, of the code of rules, or of the depth of the stack; a word for
which the stack is too small is `failed`, and `AcceptedAreSentences` says nothing of it (see
`calculator_overflow`).

`AssertionsOfEngine` is about every word, failed or not: no state is looked up without an offset, a
reduction finds all of its right-hand side above the bottom of the stack (`EnoughOnWay`) and an
action for the left-hand side below it, which is neither an error nor a reduction that would wait
for a token (`GotoNumbers`), and the start symbol is accepted with only the bottom left. After a
syntax error or an overflow the tokens read are no longer what is on the stack, so that *`Going`* is
stated for any word, the empty one among them: of it every symbol counts as read (`Reading`), and
what is left is that the stack is a way through the automaton. That survives whatever the parser
throws away, since it leaves the stack as it was or the bottom of it (`BottomGoes`). So
`ParserKnown` says it twice, of the tokens read while nothing has failed, and of no tokens always.
One lemma shows both for a round of `Parse` (`RoundMade`). A pending reduction of an empty rule
would pop nothing and look up the number of the reduction itself as a state; there is none, because
a state in which an empty rule ends also shifts that rule's left-hand side, and so does not reduce
by itself (`EmptyNotAtOnce`). The theorem has the condition that every state has an
offset (`EveryStateHasOffset`), besides `Trusted`; `lemon_offsets` shows that the code does not
establish it.

Closures, follow sets, readings and what inherits from what are grown by one recursive function on sets
(`Grown`); sorting is by how many elements come before. What is needed of both is proved once:
a function that only adds to sets has reached its fixed point after as many steps as there are elements,
and in a strict order of a finite set no two have as many before them. Induction is done by taking the least
counterexample from a set of numbers. The invariants were checked with TLC on the grammars of the `lemon` run before they
were proved.

**Only model-checked.** `EveryKeyRead` and `Terminates` are liveness under fairness, beyond
the prover; `EveryRoundMovesOn` is the step that the second rests on. `AmbiguityReported` and `EvaluatesAsDeclared`
compare with derivations and values that are defined by recursion over trees, which it cannot follow
either. `EngineRuns` is the other direction of `AcceptedAreSentences`, that no sentence is refused, with the end of the engine's loop:
it holds only where nothing has been reported, and would need an induction over derivations. All other properties of the passing runs are proved.

## 5. What is left out

* **Rendering**: bars, borders, colours and text. It keeps no state that is read back, but
  for the rows shown, which `Drawn` models.
* **Start-up**: arguments, ncurses initialisation and the check of the screen's size
  (made once; a later resize may go below it).
* The text of a field, the bar of a menu and windows: ncurses' own. Names is modelled by what it comes
  to, the address of one of the comments: that `main.c:126-135` finds it by walking the table of comments
  a second time and counting to the menu's index is not.
* Reads of pages a truncation took away: nothing in the code handles them.
* `buffer_highlight_range` is never called; `buffer_from_data` only by a test.
* Of `lemon.c`: the reader of grammar files, options, reports, the copying of code into
  the template, which make up the larger part of the file; and the features `calculator.lemon` does
  without: multi-terminals, wildcards, fallbacks, the error symbol and precedence marks
  on rules. Of `lempar.c`: tracing, coverage, the growing stack, destructors, and again
  those features.
* The memory of the parser and of the generator.

Noticed while modelling and not stated as properties:

* A third `v` starts a new block in the text pane and clears it in the hex pane, while the comment in the
  text pane has *"If there is no mark, set it to the cursor. Otherwise, clear it."* (`panes.c:661`): the code
  clears neither on the second `v` nor on the third (`TextPane.RestartBlock`; no property of the text pane
  says what `v` makes of a completed block);
  `prompt_error` closes on `KEY_ENTER` but not on a newline; after an Escape closed a
  dialog `getch` stays in its non-waiting mode, so the main loop spins until the next Escape
  in edit mode (keys are still all read: `dialog_keys`); bookmark pops keep the nibble
  chosen before.
* F3 on a file cut short since it was opened leaves the cursor, marks and comments past the new
  end (`buffer.c:135`; `MayShrink = TRUE` in `Hexxed` shows it), and F3 after another file
  took the path maps that one (`buffer.c:113`; `Replace` in `FileBuffer`).
* The text pane's `scroll` counts rows of the width at an earlier key, while the width is read
  anew (`panes.c:547`): after the terminal became wider Page up multiplies the two (`panes.c:635`) and
  leaves the buffer (`Widened` for the terminals of `Hexxed` shows it).
* `calculator_eval` does not free the parser when it returns from the middle of its loop; the check
  for digits after `0n` and `0x` compares the wrong places, so that both alone are 0; after
  any other digit the base is 16, white space and a sign may follow every prefix. The manual has `0o`
  for base 8 (`hexxed.1.scd:87-92`); in the code a number that starts with 0 and a digit is octal, and `0o` is refused.
* The assertion of `resolve_conflict` (`lemon.c:1270`) fails for an operator without
  associativity whose shift is an error and two reductions: seen with the program
  itself. The errors of such operators are also lost in states that only reduce, where
  `CompressTables` and `autoReduce` replace them: `EngineRuns` leaves such operators out where it asks for sentences to be accepted.
* `acttab_insert` does not check that its search has found a place (`lemon.c:747`; see 4), and may
  count more slots as used than it has allocated (`lemon.c:778`; see 4).
* `CompressTables` follows rules that only name each other for ever, or into its assertion
  (`lemon.c:5087`); in the grammars checked only after a conflict has been reported.

## 6. Plan

Done: the panes, the session over them, the dialogs, the file, the calculator with its engine,
and the generator, with the runs and the proofs above. What would add most next:

1. Precedence marks on rules, fallbacks and wildcards in `Lemon` and `Lempar`, as far
   as grammars of this repository come to use them.
2. Comments as names with their table, and the menu of Names that counts through it (`main.c:104-141`).
