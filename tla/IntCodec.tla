------------------------------ MODULE IntCodec ------------------------------
(***************************************************************************)
(* The integers of the stream (Serializer::write_int): four formats told   *)
(* apart by the low bits of their first byte,                              *)
(*     ...0 one byte    ..01 two bytes    .011 four bytes    1111 long     *)
(* the first three shifted so that they start at a small negative number.  *)
(* A writer appends integers, a reader that knows the formats and nothing  *)
(* else takes them off again: the stream has no separators.                *)
(*                                                                         *)
(* A byte is a digit of base Base (256); the program's numbers are too     *)
(* large for TLC, which uses a smaller base and limits to match.           *)
(***************************************************************************)
EXTENDS Integers, Sequences, SequencesExt

CONSTANTS
    Base,               \* the number of bytes there are
    Width,              \* the bytes of an i64
    MIN_SHORT_INT, MIN_TWO_BYTES_INT, MIN_FOUR_BYTES_INT,
    Values,             \* the integers written
    MaxWritten          \* how many are written

\* The numbers of n bytes.
Power[n \in 0..8] == IF n = 0 THEN 1 ELSE Base * Power[n - 1]

MAX_TWO_BYTES_INT  == MIN_TWO_BYTES_INT + Power[2] \div 4 - 1
MAX_FOUR_BYTES_INT == MIN_FOUR_BYTES_INT + Power[4] \div 8 - 1
I64 == -(Power[Width] \div 2) .. Power[Width] \div 2 - 1
LONG_INT_TRAILER == 15

ASSUME CodecAssumption ==
    /\ Base \in Nat /\ Base % 16 = 0 /\ Base > 0
    /\ Width \in 4..8
    /\ MIN_SHORT_INT \in Int /\ MIN_TWO_BYTES_INT \in Int /\ MIN_FOUR_BYTES_INT \in Int
    /\ MIN_FOUR_BYTES_INT < MIN_TWO_BYTES_INT /\ MIN_TWO_BYTES_INT < MIN_SHORT_INT
    /\ MIN_SHORT_INT <= 0
    /\ Values \subseteq I64
    /\ 2 * Width + 1 < Base \div 2 + MIN_SHORT_INT
    /\ MaxWritten \in Nat

VARIABLES
    written,            \* the integers written
    bytes,              \* Serializer.bytes
    cursor,             \* how many bytes the reader has taken
    read                \* the integers read

vars == <<written, bytes, cursor, read>>
-----------------------------------------------------------------------------
(* The writer. *)

\* The n low bytes of x, to_le_bytes.
LeBytes(x, n) == [k \in 1..n |-> (x \div Power[k - 1]) % Base]

\* A bug for the checks: the largest short integer is one too large, and its
\* byte is cut off to 0.
IsShortMutant(i) == MIN_SHORT_INT <= i /\ i <= Base \div 2 + MIN_SHORT_INT
IsShort(i) == MIN_SHORT_INT <= i /\ i < Base \div 2 + MIN_SHORT_INT
IsTwo(i)   == MIN_TWO_BYTES_INT <= i /\ i <= MAX_TWO_BYTES_INT
IsFour(i)  == MIN_FOUR_BYTES_INT <= i /\ i <= MAX_FOUR_BYTES_INT

Fixed(i) ==
    CASE IsShort(i) -> LeBytes((i - MIN_SHORT_INT) * 2, 1)
      [] ~IsShort(i) /\ IsTwo(i) -> LeBytes((i - MIN_TWO_BYTES_INT) * 4 + 1, 2)
      [] OTHER -> LeBytes((i - MIN_FOUR_BYTES_INT) * 8 + 3, 4)

Abs(i) == IF i < 0 THEN -i ELSE i

\* The bytes of x without leading zeros, at least one.
Significant(x) ==
    CHOOSE n \in 1..Width : x < Power[n] /\ (n = 1 \/ Power[n - 1] <= x)

\* write_int.  The length of a long integer is a short one.
WriteInt(i) ==
    IF IsShort(i) \/ IsTwo(i) \/ IsFour(i) THEN Fixed(i)
    ELSE LET n == Significant(Abs(i))
             neg == IF i < 0 THEN 1 ELSE 0
         IN <<LONG_INT_TRAILER>> \o Fixed(2 * n + neg) \o LeBytes(Abs(i), n)
-----------------------------------------------------------------------------
(* The reader, mypy's read_int: how long the integer at c is, and what. *)

\* The number of the n bytes from c on.
Number(c, n) ==
    LET low[k \in 0..n] == IF k = 0 THEN 0 ELSE low[k - 1] + bytes[c + k] * Power[k - 1]
    IN low[n]

FixedLength(c) ==
    CASE bytes[c + 1] % 2 = 0 -> 1
      [] bytes[c + 1] % 4 = 1 -> 2
      [] OTHER -> 4

FixedValue(c) ==
    CASE FixedLength(c) = 1 -> MIN_SHORT_INT + Number(c, 1) \div 2
      [] FixedLength(c) = 2 -> MIN_TWO_BYTES_INT + Number(c, 2) \div 4
      [] OTHER -> MIN_FOUR_BYTES_INT + Number(c, 4) \div 8

\* What is read at c: the integer and the bytes it takes.
ReadInt(c) ==
    IF bytes[c + 1] # LONG_INT_TRAILER
    THEN [value |-> FixedValue(c), length |-> FixedLength(c)]
    ELSE LET header == FixedValue(c + 1)
             start  == c + 1 + FixedLength(c + 1)
             digits == Number(start, header \div 2)
         IN [value  |-> IF header % 2 = 1 THEN -digits ELSE digits,
             length |-> start + header \div 2 - c]
-----------------------------------------------------------------------------
Init == written = << >> /\ bytes = << >> /\ cursor = 0 /\ read = << >>

Write(i) ==
    /\ Len(written) < MaxWritten
    /\ read = << >>
    /\ written' = Append(written, i)
    /\ bytes' = bytes \o WriteInt(i)
    /\ UNCHANGED <<cursor, read>>

Read ==
    /\ cursor < Len(bytes)
    /\ cursor' = cursor + ReadInt(cursor).length
    /\ read' = Append(read, ReadInt(cursor).value)
    /\ UNCHANGED <<written, bytes>>

Done == cursor = Len(bytes) /\ UNCHANGED vars

Next == (\E i \in Values : Write(i)) \/ Read \/ Done
Spec == Init /\ [][Next]_vars
-----------------------------------------------------------------------------
\* Every integer of an i64, written in any of the formats and after any other
\* integer, is read back, and the reader ends where the writer did: a value at
\* the edge of a format has not been cut off, and no first byte is taken for
\* another format's (write_int).
ReadsBack ==
    /\ IsPrefix(read, written)
    /\ cursor <= Len(bytes)
    /\ cursor = Len(bytes) => read \in {<< >>, written}
=============================================================================
