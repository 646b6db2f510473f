----------------------------- MODULE BufferRead -----------------------------
(***************************************************************************)
(* buffer_read and the integers that are read with it at the cursor.  A    *)
(* buffer is a record of size, data and cursor.                            *)
(*                                                                         *)
(* An integer of n bytes is read for n = 1, 2, 4 and 8.  A model scales    *)
(* the byte down: it has ByteBits bits, 8 in the program.                  *)
(***************************************************************************)
EXTENDS Word, Sequences

CONSTANT ByteBits

ASSUME ByteBitsAssumption == ByteBits \in Nat \ {0}

\* The values of a byte, and of an integer of n bytes.
ByteValues == 2 ^ ByteBits
Values(n) == 2 ^ (ByteBits * n)

\* Whether buffer_read gives size bytes: the sum is a size_t.
CanRead(buffer, n) == Wrap(buffer.cursor + n) <= buffer.size

\* The bytes it copies.
buffer_read(buffer, n) == [k \in 1 .. n |-> buffer.data[buffer.cursor + k - 1]]

\* The byte of weight k of an integer: from the first one, or the last.
ByteAt(v, bigEndian, k) == IF bigEndian THEN v[Len(v) - k] ELSE v[k + 1]

\* buffer_read_u8, _lu16, _bu16, _lu32, _bu32, _lu64, _bu64.
ReadUnsigned(buffer, n, bigEndian) ==
    LET v == buffer_read(buffer, n)
        upTo[k \in 0 .. n] ==
          IF k = 0 THEN 0
          ELSE upTo[k - 1] + ByteAt(v, bigEndian, k - 1) * ByteValues ^ (k - 1)
    IN  upTo[n]

\* buffer_read_i8, _li16 and the rest: the same bits in a signed type.
ReadSigned(buffer, n, bigEndian) ==
    LET u == ReadUnsigned(buffer, n, bigEndian)
    IN  IF u < Values(n) \div 2 THEN u ELSE u - Values(n)

=============================================================================
