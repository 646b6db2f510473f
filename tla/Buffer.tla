------------------------------- MODULE Buffer -------------------------------
(***************************************************************************)
(* The state of buffer_t that the panes and the main driver share, and the *)
(* functions of buffer.c that change it between open and close.  The file  *)
(* and memory-mapping side of buffer_t (f, path, mmap) is not modelled     *)
(* here: data is the mapped content and size its length, at least one byte *)
(* because mmap refuses an empty file.  Highlights are left out: nothing   *)
(* in the program adds one.                                                *)
(***************************************************************************)
EXTENDS Nav, Sequences, FiniteSets

CONSTANTS
    Sizes,               \* lengths of the files that are opened
    Fill,                \* the byte every offset of a fresh file holds
    BOOKMARK_STACK_SIZE  \* 8 in the program

ASSUME BufferAssumption ==
    /\ Sizes \subseteq Nat \ {0}
    /\ \A n \in Sizes : n < Modulus
    /\ Fill \in 0 .. 255
    /\ BOOKMARK_STACK_SIZE \in Nat

VARIABLES
    size,        \* number of bytes mapped
    data,        \* the bytes mapped
    cursor,      \* offset of the byte under the cursor
    start_mark,  \* one end of the selected block, NoMark when there is none
    end_mark,    \* the other end, NoMark until the second mark is set
    bookmarks,   \* bookmarks[0 .. bookmarks_head] of the code, last pushed last
    editable     \* the file has been reopened for writing

bufferVars ==
    <<size, data, cursor, start_mark, end_mark, bookmarks, editable>>

\* Mutant: -1 stored in a signed type.
SignedNoMark == -1

\* -1 stored in a cursor_t.
NoMark == Wrap(-1)

\* What buffer_open sets up, apart from the access it opens the file with.
BufferFresh ==
    /\ size \in Sizes
    /\ data = [a \in 0 .. size - 1 |-> Fill]
    /\ cursor = 0
    /\ start_mark = NoMark
    /\ end_mark = NoMark
    /\ bookmarks = << >>

\* A buffer just opened, read-only.
BufferOpen == BufferFresh /\ editable = FALSE

BufferTypeOK ==
    /\ size \in Sizes
    /\ data \in [0 .. size - 1 -> 0 .. 255]
    /\ cursor \in Word
    /\ start_mark \in Word
    /\ end_mark \in Word
    /\ bookmarks \in Seq(Word)
    /\ Len(bookmarks) <= BOOKMARK_STACK_SIZE
    /\ editable \in BOOLEAN

\* A block has both its ends.
HasBlock == start_mark # NoMark /\ end_mark # NoMark

\* Mutant: the block runs to the cursor even when it has an end.
BlockToCursor ==
    {a \in 0 .. size - 1 : /\ start_mark # NoMark
                          /\ \/ start_mark <= a /\ a <= cursor
                             \/ cursor <= a /\ a <= start_mark}

\* The bytes between the marks, in either order, or from the start to the
\* cursor while there is no end: the update loops of both panes find them in
\* the same way.
Block ==
    LET mark_end == IF end_mark = NoMark THEN cursor ELSE end_mark
    IN  {a \in 0 .. size - 1 : /\ start_mark # NoMark
                              /\ \/ start_mark <= a /\ a <= mark_end
                                 \/ mark_end <= a /\ a <= start_mark}

(***************************************************************************)
(* Bookmarks: a stack that silently drops what does not fit.               *)
(***************************************************************************)

\* Mutant: a full stack loses its newest bookmark to the new one.
OverwritingPush(address) ==
    bookmarks' = IF Len(bookmarks) < BOOKMARK_STACK_SIZE
                 THEN Append(bookmarks, address)
                 ELSE [bookmarks EXCEPT ![Len(bookmarks)] = address]

\* Mutant: the stack has no limit.
UnboundedPush(address) == bookmarks' = Append(bookmarks, address)

BookmarkPush(address) ==
    bookmarks' = IF Len(bookmarks) < BOOKMARK_STACK_SIZE
                 THEN Append(bookmarks, address)
                 ELSE bookmarks

\* Mutant: the head is moved before the slot is read.
PredecrementTop == bookmarks[IF Len(bookmarks) > 1 THEN Len(bookmarks) - 1 ELSE 1]

\* The address buffer_bookmark_pop takes from a stack that is not empty.
BookmarkTop == bookmarks[Len(bookmarks)]

=============================================================================
