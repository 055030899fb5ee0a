-------------------------------- MODULE Wire --------------------------------
(***************************************************************************)
(* The value codecs of include/cassandra/io: how integers, strings, byte   *)
(* strings, lists and maps of the CQL binary protocol are written to a     *)
(* buffer and read back.                                                   *)
(*                                                                         *)
(* A buffer is a sequence of bytes, a byte a number below Base.  The code  *)
(* has Base = 256; the codecs depend on it only through the widths of the  *)
(* length fields, so a smaller Base brings the limits of [short] (Base^2)  *)
(* and [int] (Base^4) within reach of the model checker.                   *)
(*                                                                         *)
(* A reader is a cursor: the buffer, the offset, the value last read and   *)
(* how reading went so far: "ok", "throw" (an exception left the parser)   *)
(* or "over" (memcpy took bytes beyond the end of the buffer, which is     *)
(* undefined behaviour).  A reader that is not "ok" reads no further.      *)
(***************************************************************************)
EXTENDS Integers, Sequences

CONSTANT Base

\* Every opcode, flag and column type the driver uses must fit its field.
ASSUME BaseAssumption == Base \in Nat /\ Base >= 14

\* sizeof(T) of the integral types the protocol names.
Width == [Byte |-> 1, Short |-> 2, Int |-> 4]

Bytes == 0 .. Base - 1

\* What a digit of a number counts that has k digits after it.
Square == Base * Base
Weight == [k \in 0 .. 4 |-> <<1, Base, Square, Square * Base, Square * Square>>[k + 1]]

\* The numbers a signed [int] holds are the ones from -IntLimit to IntLimit - 1.
IntLimit == (Base \div 2) * (Square * Base)
Ints == -IntLimit .. IntLimit - 1

\* The texts a [string] and a [bytes] can announce the length of.
ShortTexts == {s \in Seq(Bytes) : Len(s) < Square}
Texts == {s \in Seq(Bytes) : Len(s) < IntLimit}

Concat(ss) ==
  LET upTo[i \in 0 .. Len(ss)] ==
        IF i = 0 THEN <<>> ELSE upTo[i - 1] \o ss[i]
  IN  upTo[Len(ss)]

-----------------------------------------------------------------------------
(* Writers.                                                                *)

\* The low w bytes of v in two's complement, most significant first: what
\* does not fit the width is dropped, as by the conversion to Short.
WriteIntBE(v, w) == [i \in 1 .. w |-> (v \div Weight[w - i]) % Base]

\* A [string], [short bytes] (w = 2), [long string] or [bytes] (w = 4): the
\* size is narrowed to the width of the length field, and that many bytes of
\* the value follow it.
WriteSized(s, w) ==
  LET size == Len(s) % Weight[w]
  IN  WriteIntBE(size, w) \o SubSeq(s, 1, size)

WriteString(s)     == WriteSized(s, Width.Short)
WriteShortBytes(s) == WriteSized(s, Width.Short)
\* The lengths of [long string] and [bytes] are below the limit of [int].
WriteLongString(s) == WriteIntBE(Len(s), Width.Int) \o s
WriteBytes(s)      == WriteIntBE(Len(s), Width.Int) \o s

\* The number of elements is narrowed to Short, the elements are all written.
WriteList(s, Write(_)) ==
  WriteIntBE(Len(s), Width.Short) \o Concat([i \in 1 .. Len(s) |-> Write(s[i])])

WritePair(kv) == WriteString(kv[1]) \o WriteString(kv[2])

\* A StringMap, given as the sequence of its entries in the order in which
\* the unordered_map is iterated.
WriteStringMap(entries) == WriteList(entries, WritePair)

-----------------------------------------------------------------------------
(* Readers.                                                                *)

Reader(data) == [data |-> data, off |-> 0, st |-> "ok", v |-> <<>>]

Fail(r, how) == [r EXCEPT !.st = how, !.v = <<>>]
Return(r, v) == [r EXCEPT !.v = v]

\* The next n bytes; going beyond the end of the buffer ends in `beyond`.
Take(r, n, beyond) ==
  IF r.st # "ok" THEN r
  ELSE IF r.off + n > Len(r.data) THEN Fail(r, beyond)
  ELSE [r EXCEPT !.off = @ + n, !.v = SubSeq(r.data, r.off + 1, r.off + n)]

\* Deviation: the integer is copied without asking whether it is there.
EnsureNothing(r, n) == Take(r, n, "over")

\* Integers are read only where there are enough bytes.
EnsureSize(r, n) == Take(r, n, "throw")

Unsigned(bytes) ==
  LET upTo[i \in 0 .. Len(bytes)] ==
        IF i = 0 THEN 0 ELSE upTo[i - 1] * Base + bytes[i]
  IN  upTo[Len(bytes)]

Signed(bytes) ==
  LET u == Unsigned(Tail(bytes))
      half == Base \div 2
      high == IF bytes[1] < half THEN bytes[1] ELSE bytes[1] - Base
  IN  high * Weight[Len(bytes) - 1] + u

AsUnsigned(r) == IF r.st = "ok" THEN Return(r, Unsigned(r.v)) ELSE r
AsSigned(r)   == IF r.st = "ok" THEN Return(r, Signed(r.v)) ELSE r
ReadUnsigned(r, w) == AsUnsigned(EnsureSize(r, w))
ReadSigned(r, w)   == AsSigned(EnsureSize(r, w))

ReadByte(r)  == ReadUnsigned(r, Width.Byte)
ReadShort(r) == ReadUnsigned(r, Width.Short)
ReadInt(r)   == ReadSigned(r, Width.Int)

\* The bytes of a string are copied without a check against the buffer.
Copied(size) == IF size.st = "ok" THEN Take(size, size.v, "over") ELSE size
ReadString(r) == Copied(ReadShort(r))

\* A null and an empty value are both the empty byte string; the bytes are
\* copied without a check against the buffer.
Counted(len) ==
  IF len.st # "ok" THEN len
  ELSE IF len.v > 0 THEN Take(len, len.v, "over")
  ELSE Return(len, <<>>)

ReadBytes(r)      == Counted(ReadInt(r))
ReadShortBytes(r) == Counted(ReadShort(r))

\* n values one after the other, as a sequence.  Each takes at least a byte,
\* so a count beyond the end of the buffer ends before this bound does.
Repeat(r, n, Read(_)) ==
  LET last == IF n <= Len(r.data) THEN n ELSE Len(r.data) + 1
      upTo[i \in 0 .. last] ==
        IF i = 0 THEN Return(r, <<>>)
        ELSE LET before == upTo[i - 1]
                 next   == Read(before)
             IN  IF next.st = "ok" THEN Return(next, Append(before.v, next.v)) ELSE next
  IN  IF r.st = "ok" THEN upTo[last] ELSE r

\* A list whose count is unsigned once it is a size_t: a negative [int] count
\* runs until the buffer is used up.
ReadList(count, Read(_)) ==
  Repeat(count,
         IF count.st = "ok" /\ count.v >= 0 THEN count.v ELSE Len(count.data) + 1,
         Read)

ReadStringList(r) == ReadList(ReadShort(r), ReadString)

ReadEntry(r) ==
  LET key  == ReadString(r)
      list == ReadStringList(key)
  IN  IF list.st = "ok" THEN Return(list, <<key.v, list.v>>) ELSE list

\* emplace keeps the first of two entries with the same key.
ReadStringMultiMap(r) ==
  LET all == ReadList(ReadShort(r), ReadEntry)
      first == {i \in 1 .. Len(all.v) : \A j \in 1 .. i - 1 : all.v[j][1] # all.v[i][1]}
  IN  IF all.st = "ok" THEN Return(all, {all.v[i] : i \in first}) ELSE all
=============================================================================
