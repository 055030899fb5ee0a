--------------------------- MODULE ExchangeProofs ---------------------------
(***************************************************************************)
(* The invariants of Exchange, for every Base from 14 on, every set of     *)
(* requests, types of columns, rows and answers, every nesting of the      *)
(* types and every place at which the connection closes.                   *)
(*                                                                         *)
(* The inductive invariant IInv says that the bytes on the wire are those  *)
(* Serialize wrote or a first part of those of the answer, and that the    *)
(* caller was given what ReadFrame and Conclude make of them.  Each        *)
(* invariant then follows from what the parsers make of what was written:  *)
(* a parser of a field that stands at the first byte of its bytes gives    *)
(* the value that was written and stands behind the last one (the lemmas   *)
(* that end in Span), one after the other through a whole answer.          *)
(***************************************************************************)
EXTENDS Exchange, WireProofs

-----------------------------------------------------------------------------
(* The bytes of a request.                                                 *)

(* The numbers of the protocol fit their fields. *)
LEMMA Codes ==
  /\ \A o \in DOMAIN Opcode : Opcode[o] \in Bytes
  /\ \A t \in DOMAIN ColumnType : ColumnType[t] \in Nat /\ ColumnType[t] < Square
  /\ \A c \in DOMAIN Consistency : Consistency[c] \in Nat /\ Consistency[c] < Square
  /\ \A x \in DOMAIN ResultKind : ResultKind[x] \in 1 .. 5
  /\ MessageDirection.request \in Bytes /\ MessageDirection.response \in Bytes
  /\ MessageDirection.request # MessageDirection.response
  /\ {0, 1, 2, 3, 8, 9} \subseteq Bytes
<1>1. Base \in Nat /\ Base >= 14 /\ Square \in Nat /\ Square >= 196
  BY Limits
<1>2. \A o \in DOMAIN Opcode : Opcode[o] \in Bytes
  BY <1>1 DEF Opcode, Bytes
<1>3. \A t \in DOMAIN ColumnType : ColumnType[t] \in Nat /\ ColumnType[t] < Square
  BY <1>1 DEF ColumnType
<1>4. \A c \in DOMAIN Consistency : Consistency[c] \in Nat /\ Consistency[c] < Square
  BY <1>1 DEF Consistency
<1>5. \A x \in DOMAIN ResultKind : ResultKind[x] \in 1 .. 5
  BY DEF ResultKind
<1>6. /\ MessageDirection.request \in Bytes /\ MessageDirection.response \in Bytes
      /\ MessageDirection.request # MessageDirection.response
      /\ {0, 1, 2, 3, 8, 9} \subseteq Bytes
  BY <1>1 DEF MessageDirection, Bytes
<1> QED
  BY <1>2, <1>3, <1>4, <1>5, <1>6

(* A frame header is nine bytes, and is read field by field as it was written. *)
LEMMA HeaderHeld ==
  ASSUME NEW data \in Seq(Nat), NEW version \in Bytes, NEW flags \in Bytes, NEW opcode \in Bytes,
         NEW id \in Nat, id < (Base \div 2) * Base, NEW length \in Nat, length < IntLimit,
         Holds(data, 0, HeaderBytes(version, flags, id, opcode, length))
  PROVE  ParseHeader(data) = [version |-> version, flags |-> flags, stream |-> id,
                              opcode |-> opcode, length |-> length]
<1> DEFINE a == WriteIntBE(version, 1)
           b == WriteIntBE(flags, 1)
           c == WriteIntBE(id, 2)
           d == WriteIntBE(opcode, 1)
           e == WriteIntBE(length, 4)
<1>1. /\ a \in Seq(Bytes) /\ Len(a) = 1 /\ b \in Seq(Bytes) /\ Len(b) = 1
      /\ c \in Seq(Bytes) /\ Len(c) = 2 /\ d \in Seq(Bytes) /\ Len(d) = 1
      /\ e \in Seq(Bytes) /\ Len(e) = 4
  BY Written, Limits DEF Bytes
<1>2. Holds(data, 0, (((a \o b) \o c) \o d) \o e)
  BY DEF HeaderBytes, Width
<1>3. /\ Holds(data, 0, a) /\ Holds(data, 0 + 1, b) /\ Holds(data, 0 + 2, c)
      /\ Holds(data, 0 + 4, d) /\ Holds(data, 0 + 5, e)
  <2> HIDE DEF a, b, c, d, e
  <2>1. 0 \in Nat /\ 1 + 1 = 2 /\ 2 + 2 = 4 /\ 4 + 1 = 5
    OBVIOUS
  <2>2. /\ Holds(data, 0, a) /\ Holds(data, 0 + Len(a), b)
        /\ Holds(data, 0 + (Len(a) + Len(b)), c)
        /\ Holds(data, 0 + ((Len(a) + Len(b)) + Len(c)), d)
        /\ Holds(data, 0 + (((Len(a) + Len(b)) + Len(c)) + Len(d)), e)
    BY <1>1, <1>2, <2>1, HoldsParts5, ZenonT(60)
  <2> QED
    BY <1>1, <2>1, <2>2, Zenon
<1>4. ReadByte(Reader(data)) = At(data, 1, version)
  <2>1. Reader(data) = At(data, 0, <<>>)
    BY DEF Reader, At
  <2>2. ReadByte(At(data, 0, <<>>)) = At(data, 0 + 1, version)
    BY <1>3, ByteHeld DEF a
  <2> QED
    BY <2>1, <2>2
<1>5. ReadByte(At(data, 1, version)) = At(data, 2, flags)
  <2>1. ReadByte(At(data, 1, version)) = At(data, 1 + 1, flags)
    BY <1>3, ByteHeld DEF b
  <2> QED
    BY <2>1
<1>6. ReadSigned(At(data, 2, flags), 2) = At(data, 4, id)
  <2>1. ReadSigned(At(data, 2, flags), 2) = At(data, 2 + 2, id)
    BY <1>3, SignedShortHeld DEF c
  <2> QED
    BY <2>1
<1>7. ReadByte(At(data, 4, id)) = At(data, 5, opcode)
  <2>1. ReadByte(At(data, 4, id)) = At(data, 4 + 1, opcode)
    BY <1>3, ByteHeld DEF d
  <2> QED
    BY <2>1
<1>8. ReadInt(At(data, 5, opcode)) = At(data, 9, length)
  <2>1. length \in Ints
    BY Limits DEF Ints
  <2>2. ReadInt(At(data, 5, opcode)) = At(data, 5 + 4, length)
    BY <1>3, <2>1, SignedHeld DEF e
  <2> QED
    BY <2>2
<1>9. /\ At(data, 1, version).v = version /\ At(data, 2, flags).v = flags
       /\ At(data, 4, id).v = id /\ At(data, 5, opcode).v = opcode /\ At(data, 9, length).v = length
  BY DEF At
<1>10. Width.Short = 2
  BY DEF Width
<1> QED
  BY <1>4, <1>5, <1>6, <1>7, <1>8, <1>9, <1>10, Zenon DEF ParseHeader

(* The bytes of a header, of which the length is the last four. *)
LEMMA HeaderWritten ==
  ASSUME NEW version \in Bytes, NEW flags \in Bytes, NEW opcode \in Bytes,
         NEW id \in Nat, NEW length \in Int
  PROVE  \E h \in Seq(Bytes) :
           /\ Len(h) = 5
           /\ HeaderBytes(version, flags, id, opcode, length) = h \o WriteIntBE(length, 4)
           /\ HeaderBytes(version, flags, id, opcode, 0) = h \o WriteIntBE(0, 4)
           /\ HeaderBytes(version, flags, id, opcode, length) \in Seq(Bytes)
           /\ Len(HeaderBytes(version, flags, id, opcode, length)) = 9
<1> DEFINE a == WriteIntBE(version, 1)
           b == WriteIntBE(flags, 1)
           c == WriteIntBE(id, 2)
           d == WriteIntBE(opcode, 1)
           e == WriteIntBE(length, 4)
           h == ((a \o b) \o c) \o d
<1>1. /\ a \in Seq(Bytes) /\ Len(a) = 1 /\ b \in Seq(Bytes) /\ Len(b) = 1
      /\ c \in Seq(Bytes) /\ Len(c) = 2 /\ d \in Seq(Bytes) /\ Len(d) = 1
      /\ e \in Seq(Bytes) /\ Len(e) = 4
  BY Written, Limits DEF Bytes
<1>2. /\ HeaderBytes(version, flags, id, opcode, length) = h \o e
      /\ HeaderBytes(version, flags, id, opcode, 0) = h \o WriteIntBE(0, 4)
  BY DEF HeaderBytes, Width
<1>3. /\ h \in Seq(Bytes) /\ Len(h) = 5
      /\ h \o e \in Seq(Bytes) /\ Len(h \o e) = 9
  <2> DEFINE m == (a \o b) \o c
  <2>1. m \in Seq(Bytes) /\ Len(m) = (1 + 1) + 2
    <3> HIDE DEF a, b, c
    <3>1. m \in Seq(Bytes) /\ Len(m) = (Len(a) + Len(b)) + Len(c)
      BY <1>1, Joined3, ZenonT(60)
    <3> HIDE DEF m
    <3> QED
      BY <1>1, <3>1, Zenon
  <2>2. h = m \o d
    OBVIOUS
  <2> HIDE DEF a, b, c, d, e, h, m
  <2>3. m \o d \in Seq(Bytes) /\ Len(m \o d) = ((1 + 1) + 2) + 1
    BY <1>1, <2>1, Joined, Zenon
  <2>4. ((1 + 1) + 2) + 1 = 5 /\ 5 + 4 = 9
    OBVIOUS
  <2>5. h \in Seq(Bytes) /\ Len(h) = 5
    BY <2>2, <2>3, <2>4, Zenon
  <2>6. h \o e \in Seq(Bytes) /\ Len(h \o e) = 5 + 4
    BY <1>1, <2>5, Joined, Zenon
  <2> QED
    BY <2>4, <2>5, <2>6, Zenon
<1> HIDE DEF h
<1> QED
  BY <1>2, <1>3

(* The number of an [int] and the halves of a [bigint] as bytes. *)
Halves(v) == Concat([i \in 1 .. Len(v) |-> WriteIntBE(v[i], 4)])

(* An [int] value is written with four bytes, a [bigint] with eight. *)
LEMMA HalvesAre ==
  /\ \A v \in [1 .. 1 -> Ints] :
       Halves(v) = WriteIntBE(v[1], 4) /\ Halves(v) \in Seq(Bytes) /\ Len(Halves(v)) = 4
  /\ \A v \in [1 .. 2 -> Ints] :
       /\ Halves(v) = WriteIntBE(v[1], 4) \o WriteIntBE(v[2], 4)
       /\ Halves(v) \in Seq(Bytes) /\ Len(Halves(v)) = 8
<1>1. Ints \subseteq Int
  BY Limits DEF Ints
<1>2. ASSUME NEW v \in [1 .. 1 -> Ints]
      PROVE  Halves(v) = WriteIntBE(v[1], 4) /\ Halves(v) \in Seq(Bytes) /\ Len(Halves(v)) = 4
  <2>1. Len(v) = 1 /\ v[1] \in Int
    <3>1. v = [i \in 1 .. 1 |-> v[i]] /\ v[1] \in Ints
      OBVIOUS
    <3>2. Len([i \in 1 .. 1 |-> v[i]]) = 1
      OBVIOUS
    <3> QED
      BY <1>1, <3>1, <3>2, Zenon
  <2>2. WriteIntBE(v[1], 4) \in Seq(Bytes) /\ Len(WriteIntBE(v[1], 4)) = 4
    BY <2>1, Written
  <2>3. [i \in 1 .. 1 |-> WriteIntBE(v[i], 4)] = <<WriteIntBE(v[1], 4)>>
    OBVIOUS
  <2>4. Halves(v) = Concat(<<WriteIntBE(v[1], 4)>>)
    BY <2>1, <2>3, Zenon DEF Halves
  <2> QED
    BY <2>2, <2>4, ConcatFew, Zenon
<1>3. ASSUME NEW v \in [1 .. 2 -> Ints]
      PROVE  /\ Halves(v) = WriteIntBE(v[1], 4) \o WriteIntBE(v[2], 4)
             /\ Halves(v) \in Seq(Bytes) /\ Len(Halves(v)) = 8
  <2> DEFINE a == WriteIntBE(v[1], 4)
             b == WriteIntBE(v[2], 4)
  <2>1. Len(v) = 2 /\ v[1] \in Int /\ v[2] \in Int
    <3>1. v = [i \in 1 .. 2 |-> v[i]] /\ v[1] \in Ints /\ v[2] \in Ints
      OBVIOUS
    <3>2. Len([i \in 1 .. 2 |-> v[i]]) = 2
      OBVIOUS
    <3> QED
      BY <1>1, <3>1, <3>2, Zenon
  <2>2. a \in Seq(Bytes) /\ Len(a) = 4 /\ b \in Seq(Bytes) /\ Len(b) = 4
    BY <2>1, Written
  <2>3. [i \in 1 .. 2 |-> WriteIntBE(v[i], 4)] = <<a, b>>
    OBVIOUS
  <2>4. Halves(v) = Concat(<<a, b>>)
    BY <2>1, <2>3, Zenon DEF Halves
  <2> HIDE DEF a, b
  <2>5. a \o b \in Seq(Bytes) /\ Len(a \o b) = 4 + 4
    BY <2>2, Joined, Zenon
  <2>6. 4 + 4 = 8
    OBVIOUS
  <2> QED
    BY <2>2, <2>4, <2>5, <2>6, ConcatFew, Zenon DEF a, b
<1> QED
  BY <1>2, <1>3

(* The buffers of the parameters of a query are texts. *)
LEMMA BufferOf ==
  ASSUME NEW arg \in Args
  PROVE  Argument(arg) \in Texts
<1>1. CASE arg \in [type : {"text"}, v : Texts]
  BY <1>1 DEF Argument
<1>2. CASE arg \in [type : {"int"}, v : [1 .. 1 -> Ints]]
  <2>1. arg.type # "text" /\ arg.v \in [1 .. 1 -> Ints]
    BY <1>2
  <2>2. Argument(arg) = Halves(arg.v)
    BY <2>1, Zenon DEF Argument, Halves, Width
  <2>3. Argument(arg) \in Seq(Bytes) /\ Len(Argument(arg)) = 4
    BY <2>1, <2>2, HalvesAre, Zenon
  <2>4. 4 < IntLimit
    BY Limits
  <2> QED
    BY <2>3, <2>4, Zenon DEF Texts
<1>3. CASE arg \in [type : {"bigint"}, v : [1 .. 2 -> Ints]]
  <2>1. arg.type # "text" /\ arg.v \in [1 .. 2 -> Ints]
    BY <1>3
  <2>2. Argument(arg) = Halves(arg.v)
    BY <2>1, Zenon DEF Argument, Halves, Width
  <2>3. Argument(arg) \in Seq(Bytes) /\ Len(Argument(arg)) = 8
    BY <2>1, <2>2, HalvesAre, Zenon
  <2>4. 8 < IntLimit
    BY Limits
  <2> QED
    BY <2>3, <2>4, Zenon DEF Texts
<1> QED
  BY <1>1, <1>2, <1>3 DEF Args

(* Bind makes a byte string of each argument. *)
LEMMA BuffersOf ==
  ASSUME NEW args \in Seq(Args)
  PROVE  Bind(args) \in Seq(Texts) /\ Len(Bind(args)) = Len(args)
<1>1. \A i \in 1 .. Len(args) : Argument(args[i]) \in Texts
  BY BufferOf
<1>2. Len(args) \in Nat
  OBVIOUS
<1> QED
  BY <1>1, <1>2 DEF Bind

(* The parameters of a query are written as bytes. *)
LEMMA ParamsWritten ==
  ASSUME NEW args \in Seq(Args)
  PROVE  WriteParams(Bind(args)) \in Seq(Bytes)
  BY BuffersOf, ListsWritten DEF WriteParams

(* What follows the text or the id of a query is written as bytes. *)
LEMMA TailWritten ==
  ASSUME NEW level \in Level, NEW args \in Seq(Args)
  PROVE  QueryTail(Consistency[level], Bind(args)) \in Seq(Bytes)
<1> DEFINE a == WriteIntBE(Consistency[level], 2)
           b == WriteIntBE(QueryFlag.skip_metadata, 1)
           c == WriteIntBE(QueryFlag.skip_metadata + QueryFlag.values, 1)
           d == WriteParams(Bind(args))
<1>1. a \in Seq(Bytes) /\ b \in Seq(Bytes) /\ c \in Seq(Bytes)
  BY Written, Codes DEF QueryFlag, Level
<1>2. d \in Seq(Bytes)
  BY ParamsWritten
<1>3. QueryTail(Consistency[level], Bind(args)) = a \o (IF Bind(args) = <<>> THEN b ELSE c \o d)
  BY DEF QueryTail, Width
<1> HIDE DEF a, b, c, d
<1>4. c \o d \in Seq(Bytes)
  BY <1>1, <1>2, Joined
<1> QED
  BY <1>1, <1>3, <1>4, Joined

(* A statement of a batch is written as bytes. *)
LEMMA StatementWritten ==
  ASSUME NEW s \in Statements
  PROVE  WriteStatement(s) \in Seq(Bytes) /\ Len(WriteStatement(s)) > 0
<1>1. s.kind \in {0, 1} /\ s.text \in Seq(Bytes) /\ s.args \in Seq(Args)
  BY DEF Statements, Texts
<1> DEFINE a == WriteIntBE(s.kind, 1)
           b == IF s.kind = 0 THEN WriteLongString(s.text) ELSE WriteShortBytes(s.text)
           c == WriteParams(Bind(s.args))
<1>2. a \in Seq(Bytes) /\ Len(a) = 1
  BY <1>1, Written
<1>3. b \in Seq(Bytes) /\ c \in Seq(Bytes)
  BY <1>1, TextsWritten, ParamsWritten
<1>4. WriteStatement(s) = a \o b \o c
  BY DEF WriteStatement, Width
<1> HIDE DEF a, b, c
<1>5. a \o b \o c \in Seq(Bytes) /\ Len(a \o b \o c) = Len(a) + Len(b) + Len(c)
  BY <1>2, <1>3, Joined3
<1>6. Len(b) \in Nat /\ Len(c) \in Nat
  BY <1>3
<1>7. Len(a) + Len(b) + Len(c) > 0
  BY <1>2, <1>6
<1> QED
  BY <1>4, <1>5, <1>7, Zenon

(* The statements of a batch are written as bytes. *)
LEMMA StatementsWritten ==
  ASSUME NEW ss \in Seq(Statements)
  PROVE  WriteList(ss, WriteStatement) \in Seq(Bytes)
<1> DEFINE ws == [i \in 1 .. Len(ss) |-> WriteStatement(ss[i])]
<1>1. Len(ss) \in Nat /\ \A i \in 1 .. Len(ss) : ss[i] \in Statements
  OBVIOUS
<1>2. \A i \in 1 .. Len(ss) : WriteStatement(ss[i]) \in Seq(Bytes)
  BY <1>1, StatementWritten
<1>3. ws \in Seq(Seq(Bytes))
  BY <1>1, <1>2
<1>4. Concat(ws) \in Seq(Bytes)
  BY <1>3, ConcatBytes
<1>5. WriteIntBE(Len(ss), 2) \in Seq(Bytes)
  BY <1>1, Written
<1>6. WriteList(ss, WriteStatement) = WriteIntBE(Len(ss), 2) \o Concat(ws)
  BY Zenon DEF WriteList, Width
<1> QED
  BY <1>4, <1>5, <1>6, Joined

(* The body of what a caller asks. *)
LEMMA AsksWritten ==
  ASSUME NEW m \in Asks
  PROVE  SerializeBody(m) \in Seq(Bytes)
<1>1. CASE m \in [op : {"query", "execute"}, text : Texts, level : Level, args : Seq(Args)]
  <2>1. /\ m.op \in {"query", "execute"} /\ m.text \in Seq(Bytes)
        /\ m.level \in Level /\ m.args \in Seq(Args)
    BY <1>1 DEF Texts
  <2> DEFINE a == WriteLongString(m.text)
             b == WriteShortBytes(m.text)
             c == QueryTail(Consistency[m.level], Bind(m.args))
  <2>2. a \in Seq(Bytes) /\ b \in Seq(Bytes) /\ c \in Seq(Bytes)
    BY <2>1, TextsWritten, TailWritten
  <2>3. SerializeBody(m) = a \o c \/ SerializeBody(m) = b \o c
    BY <2>1 DEF SerializeBody
  <2> HIDE DEF a, b, c
  <2> QED
    BY <2>2, <2>3, Joined
<1>2. CASE m \in [op : {"prepare"}, text : Texts]
  <2>1. m.op = "prepare" /\ m.text \in Seq(Bytes)
    BY <1>2 DEF Texts
  <2> QED
    BY <2>1, TextsWritten DEF SerializeBody
<1>3. CASE m \in [op : {"batch"}, level : Level, statements : Seq(Statements)]
  <2>1. m.op = "batch" /\ m.level \in Level /\ m.statements \in Seq(Statements)
    BY <1>3
  <2> DEFINE a == WriteIntBE(0, 1)
             b == WriteList(m.statements, WriteStatement)
             c == WriteIntBE(Consistency[m.level], 2)
  <2>2. a \in Seq(Bytes) /\ b \in Seq(Bytes) /\ c \in Seq(Bytes)
    BY <2>1, Written, StatementsWritten, Codes DEF Level
  <2>3. SerializeBody(m) = a \o b \o c \o a
    BY <2>1 DEF SerializeBody, BatchBody, Width
  <2> HIDE DEF a, b, c
  <2> DEFINE d == a \o b \o c
  <2>4. d \in Seq(Bytes)
    BY <2>2, Joined3
  <2> HIDE DEF d
  <2>5. d \o a \in Seq(Bytes)
    BY <2>2, <2>4, Joined
  <2> QED
    BY <2>3, <2>5, Zenon DEF d
<1> QED
  BY <1>1, <1>2, <1>3 DEF Asks

(* The texts of the handshake are short. *)
LEMMA OptionsShort ==
  /\ Version \in ShortTexts \X ShortTexts /\ Lz4Option \in ShortTexts \X ShortTexts
  /\ WritePair(Version) \in Seq(Bytes) /\ Len(WritePair(Version)) = 8
  /\ WritePair(Lz4Option) \in Seq(Bytes) /\ Len(WritePair(Lz4Option)) = 6
<1>1. {0, 3, 7, 8, 9} \subseteq Bytes /\ 3 < Square
  BY Limits DEF Bytes
<1> DEFINE a == <<8>>
           b == <<3, 0, 0>>
           c == <<7>>
           d == <<9>>
<1>2. /\ a \in Seq(Bytes) /\ Len(a) = 1 /\ b \in Seq(Bytes) /\ Len(b) = 3
      /\ c \in Seq(Bytes) /\ Len(c) = 1 /\ d \in Seq(Bytes) /\ Len(d) = 1
  BY <1>1
<1>3. a \in ShortTexts /\ b \in ShortTexts /\ c \in ShortTexts /\ d \in ShortTexts
  <2>1. 1 < Square /\ 3 < Square
    BY Limits
  <2> HIDE DEF a, b, c, d
  <2> QED
    BY <1>2, <2>1, Zenon DEF ShortTexts
<1>4. Version = <<a, b>> /\ Lz4Option = <<c, d>>
  BY DEF Version, Lz4Option, Text
<1>5. /\ WritePair(Version) = WriteString(a) \o WriteString(b)
      /\ WritePair(Lz4Option) = WriteString(c) \o WriteString(d)
  BY <1>4 DEF WritePair
<1> HIDE DEF a, b, c, d
<1>6. /\ WriteString(a) \in Seq(Bytes) /\ Len(WriteString(a)) = 2 + 1
      /\ WriteString(b) \in Seq(Bytes) /\ Len(WriteString(b)) = 2 + 3
      /\ WriteString(c) \in Seq(Bytes) /\ Len(WriteString(c)) = 2 + 1
      /\ WriteString(d) \in Seq(Bytes) /\ Len(WriteString(d)) = 2 + 1
  BY <1>2, <1>3, StringSize, Zenon
<1>7. /\ WritePair(Version) \in Seq(Bytes) /\ Len(WritePair(Version)) = (2 + 1) + (2 + 3)
      /\ WritePair(Lz4Option) \in Seq(Bytes) /\ Len(WritePair(Lz4Option)) = (2 + 1) + (2 + 1)
  BY <1>5, <1>6, Joined, ZenonT(60)
<1>8. (2 + 1) + (2 + 3) = 8 /\ (2 + 1) + (2 + 1) = 6
  OBVIOUS
<1> QED
  BY <1>3, <1>4, <1>7, <1>8, Zenon

(* The options CqlHandshake sends. *)
StartupOptions == {<<Version>>, <<Version, Lz4Option>>, <<Lz4Option, Version>>}

(* The options of STARTUP are written with at most 16 bytes. *)
LEMMA StartupWritten ==
  ASSUME NEW o \in StartupOptions
  PROVE  /\ o \in Seq(ShortTexts \X ShortTexts) /\ Len(o) \in {1, 2}
         /\ WriteStringMap(o) \in Seq(Bytes) /\ Len(WriteStringMap(o)) <= 16
<1> DEFINE a == WritePair(Version)
           b == WritePair(Lz4Option)
           c == WriteIntBE(1, 2)
           d == WriteIntBE(2, 2)
<1>1. a \in Seq(Bytes) /\ Len(a) = 8 /\ b \in Seq(Bytes) /\ Len(b) = 6
  BY OptionsShort
<1>2. c \in Seq(Bytes) /\ Len(c) = 2 /\ d \in Seq(Bytes) /\ Len(d) = 2
  BY Written
<1>3. CASE o = <<Version>>
  <2>1. o \in Seq(ShortTexts \X ShortTexts) /\ Len(o) = 1 /\ o[1] = Version
    BY <1>3, OptionsShort
  <2>2. [i \in 1 .. 1 |-> WritePair(o[i])] = <<a>>
    BY <2>1
  <2>3. WriteStringMap(o) = c \o Concat(<<a>>)
    BY <2>1, <2>2, Zenon DEF WriteStringMap, WriteList, Width
  <2> HIDE DEF a, c
  <2>4. c \o a \in Seq(Bytes) /\ Len(c \o a) = 2 + 8
    BY <1>1, <1>2, Joined, Zenon
  <2>5. WriteStringMap(o) = c \o a
    BY <1>1, <2>3, ConcatFew, Zenon
  <2>6. WriteStringMap(o) \in Seq(Bytes) /\ Len(WriteStringMap(o)) = 2 + 8
    BY <2>4, <2>5, Zenon
  <2> QED
    BY <2>1, <2>6
<1>4. CASE o = <<Version, Lz4Option>>
  <2>1. o \in Seq(ShortTexts \X ShortTexts) /\ Len(o) = 2 /\ o[1] = Version /\ o[2] = Lz4Option
    BY <1>4, OptionsShort
  <2>2. [i \in 1 .. 2 |-> WritePair(o[i])] = <<a, b>>
    BY <2>1
  <2>3. WriteStringMap(o) = d \o Concat(<<a, b>>)
    BY <2>1, <2>2, Zenon DEF WriteStringMap, WriteList, Width
  <2> HIDE DEF a, b, d
  <2> DEFINE e == a \o b
  <2>4. e \in Seq(Bytes) /\ Len(e) = 8 + 6
    BY <1>1, Joined, Zenon
  <2>5. WriteStringMap(o) = d \o e
    BY <1>1, <2>3, ConcatFew, Zenon
  <2> HIDE DEF e
  <2>6. d \o e \in Seq(Bytes) /\ Len(d \o e) = 2 + (8 + 6)
    BY <1>2, <2>4, Joined, Zenon
  <2>7. WriteStringMap(o) \in Seq(Bytes) /\ Len(WriteStringMap(o)) = 2 + (8 + 6)
    BY <2>5, <2>6, Zenon
  <2> QED
    BY <2>1, <2>7
<1>5. CASE o = <<Lz4Option, Version>>
  <2>1. o \in Seq(ShortTexts \X ShortTexts) /\ Len(o) = 2 /\ o[2] = Version /\ o[1] = Lz4Option
    BY <1>5, OptionsShort
  <2>2. [i \in 1 .. 2 |-> WritePair(o[i])] = <<b, a>>
    BY <2>1
  <2>3. WriteStringMap(o) = d \o Concat(<<b, a>>)
    BY <2>1, <2>2, Zenon DEF WriteStringMap, WriteList, Width
  <2> HIDE DEF a, b, d
  <2> DEFINE e == b \o a
  <2>4. e \in Seq(Bytes) /\ Len(e) = 6 + 8
    BY <1>1, Joined, Zenon
  <2>5. WriteStringMap(o) = d \o e
    BY <1>1, <2>3, ConcatFew, Zenon
  <2> HIDE DEF e
  <2>6. d \o e \in Seq(Bytes) /\ Len(d \o e) = 2 + (6 + 8)
    BY <1>2, <2>4, Joined, Zenon
  <2>7. WriteStringMap(o) \in Seq(Bytes) /\ Len(WriteStringMap(o)) = 2 + (6 + 8)
    BY <2>5, <2>6, Zenon
  <2> QED
    BY <2>1, <2>7
<1> QED
  BY <1>3, <1>4, <1>5 DEF StartupOptions

(* Everything that is ever asked: the handshake, and what callers ask. *)
Startups == [op : {"startup"}, options : StartupOptions]
Asking == {[op |-> "options"]} \cup Startups \cup Requests

(* The body of a request is made of bytes, and its length fits the header. *)
LEMMA BodyFits ==
  ASSUME NEW m \in Asking
  PROVE  /\ m.op \in DOMAIN Opcode /\ m # None
         /\ SerializeBody(m) \in Seq(Bytes) /\ Len(SerializeBody(m)) + 5 < IntLimit
<1>1. CASE m = [op |-> "options"]
  <2>1. m.op = "options" /\ m # None
    BY <1>1 DEF None
  <2>2. SerializeBody(m) = <<>>
    BY <2>1 DEF SerializeBody
  <2> QED
    BY <2>1, <2>2, Limits DEF Opcode
<1>2. CASE m \in Startups
  <2>1. m.op = "startup" /\ m # None /\ m.options \in StartupOptions
    BY <1>2 DEF None, Startups
  <2>2. SerializeBody(m) = WriteStringMap(m.options)
    BY <2>1 DEF SerializeBody
  <2>3. SerializeBody(m) \in Seq(Bytes) /\ Len(SerializeBody(m)) <= 16
    BY <2>1, <2>2, StartupWritten
  <2>4. Len(SerializeBody(m)) \in Nat
    BY <2>3
  <2> QED
    BY <2>1, <2>3, <2>4, Limits DEF Opcode
<1>3. CASE m \in Requests
  <2>1. m \in Asks /\ Len(SerializeBody(m)) + 5 < IntLimit
    BY <1>3, RequestsAssumption
  <2>2. m.op \in {"query", "execute", "prepare", "batch"} /\ m # None
    BY <2>1 DEF Asks, None
  <2> QED
    BY <2>1, <2>2, AsksWritten DEF Opcode
<1> QED
  BY <1>1, <1>2, <1>3 DEF Asking

(* What follows the header. *)
Packed(body, compressed) == IF compressed THEN Compress(body) ELSE body
Flags(compressed) == IF compressed THEN FrameFlag.compression ELSE 0

(* Compressed, a body has its size and the mark of LZ4 before it. *)
LEMMA PackedIs ==
  ASSUME NEW body \in Seq(Bytes), NEW compressed \in BOOLEAN
  PROVE  /\ Packed(body, compressed) \in Seq(Cells)
         /\ Len(Packed(body, compressed)) = IF compressed THEN 4 + (1 + Len(body)) ELSE Len(body)
<1>1. Len(body) \in Nat /\ body \in Seq(Cells)
  BY BytesAreNumbers
<1>2. CASE ~compressed
  BY <1>1, <1>2 DEF Packed
<1>3. CASE compressed
  <2> DEFINE n == WriteIntBE(Len(body), 4)
             z == <<Base>>
             y == z \o body
  <2>1. n \in Seq(Bytes) /\ Len(n) = 4
    BY <1>1, Written
  <2>2. n \in Seq(Cells)
    BY <2>1, BytesAreNumbers
  <2>3. z \in Seq(Cells) /\ Len(z) = 1
    BY Limits DEF Cells
  <2>4. Packed(body, compressed) = n \o y
    BY <1>3 DEF Packed, Compress, Lz4, Width
  <2> HIDE DEF n, z
  <2>5. y \in Seq(Cells) /\ Len(y) = 1 + Len(body)
    BY <1>1, <2>3, JoinedCells, Zenon
  <2> HIDE DEF y
  <2>6. n \o y \in Seq(Cells) /\ Len(n \o y) = 4 + (1 + Len(body))
    BY <2>1, <2>2, <2>5, JoinedCells, Zenon
  <2> QED
    BY <1>3, <2>4, <2>6, Zenon
<1> QED
  BY <1>2, <1>3

-----------------------------------------------------------------------------
(* Frames, and what is read of one of which a part arrives.                *)

(* A header, and what it announces the length of. *)
FrameOf(version, flags, id, opcode, b) == HeaderBytes(version, flags, id, opcode, Len(b)) \o b

(* A request is a header that announces the length of what follows it. *)
LEMMA Framed ==
  ASSUME NEW m \in Asking, NEW id \in Nat, NEW compressed \in BOOLEAN
  PROVE  Serialize(m, id, compressed) =
           FrameOf(MessageDirection.request, Flags(compressed), id, Opcode[m.op],
                   Packed(SerializeBody(m), compressed))
<1> DEFINE body == SerializeBody(m)
           b == Packed(body, compressed)
           n == Len(b)
           version == MessageDirection.request
           flags == Flags(compressed)
           op == Opcode[m.op]
<1>1. body \in Seq(Bytes) /\ Len(body) + 5 < IntLimit
  BY BodyFits
<1>2. b \in Seq(Nat)
  <2> HIDE DEF body
  <2> QED
    BY <1>1, PackedIs, CellsAreNumbers
<1>3. n \in Nat
  BY <1>2
<1>4. version \in Bytes /\ flags \in Bytes /\ op \in Bytes
  BY Codes, BodyFits DEF Flags, FrameFlag
<1>5. /\ kHeaderSize = 9 /\ kHeaderSize + 1 = 10 /\ Width.Int = 4
  BY DEF kHeaderSize, Width
<1>6. Serialize(m, id, compressed) =
        LET buffer == HeaderBytes(version, flags, id, op, 0) \o b
            length == Len(buffer) - 9
        IN  IF length > 0
            THEN SubSeq(buffer, 1, 5) \o WriteIntBE(length, 4) \o SubSeq(buffer, 10, Len(buffer))
            ELSE buffer
  BY <1>5, Zenon DEF Serialize, UpdateLength, Packed, Flags
<1> HIDE DEF body, b, version, flags, op, n
<1>7. n \in Int
  BY <1>3
<1>8. PICK h \in Seq(Bytes) :
        /\ Len(h) = 5
        /\ HeaderBytes(version, flags, id, op, n) = h \o WriteIntBE(n, 4)
        /\ HeaderBytes(version, flags, id, op, 0) = h \o WriteIntBE(0, 4)
  BY <1>7, <1>4, HeaderWritten, ZenonT(60)
<1> DEFINE z == WriteIntBE(0, 4)
<1>9. z \in Seq(Bytes) /\ Len(z) = 4
  BY Written
<1> HIDE DEF z
<1>10. h \in Seq(Nat) /\ z \in Seq(Nat)
  BY <1>9, BytesAreNumbers
<1> DEFINE buffer == h \o z \o b
<1>11. /\ SubSeq(buffer, 1, 5) = h /\ SubSeq(buffer, 10, Len(buffer)) = b
       /\ Len(buffer) = 9 + n
  <2> HIDE DEF buffer
  <2>1. h \in Seq(Nat) /\ z \in Seq(Nat) /\ b \in Seq(Nat) /\ Len(h) = 5 /\ Len(z) = 4
    BY <1>2, <1>8, <1>9, <1>10, Zenon
  <2>2. /\ SubSeq(buffer, 1, 5) = h /\ SubSeq(buffer, 10, Len(buffer)) = b
        /\ Len(buffer) = 9 + Len(b)
    BY <2>1, Updated, ZenonT(60) DEF buffer
  <2> QED
    BY <2>2 DEF n
<1>12. HeaderBytes(version, flags, id, op, 0) \o b = buffer
  BY <1>8, Zenon DEF z
<1> HIDE DEF buffer
<1>13. Len(buffer) - 9 = n
  BY <1>3, <1>11
<1>14. CASE n > 0
  <2>1. Serialize(m, id, compressed) = h \o WriteIntBE(n, 4) \o b
    BY <1>6, <1>11, <1>12, <1>13, <1>14, Zenon
  <2> QED
    BY <1>8, <2>1, Zenon DEF FrameOf, n, b, body, version, flags, op
<1>15. CASE ~(n > 0)
  <2>1. Serialize(m, id, compressed) = HeaderBytes(version, flags, id, op, 0) \o b
    BY <1>6, <1>12, <1>13, <1>15, Zenon
  <2>2. n = 0
    BY <1>3, <1>15
  <2> QED
    BY <2>1, <2>2, Zenon DEF FrameOf, n, b, body, version, flags, op
<1> QED
  BY <1>14, <1>15

(* What ParseHeader makes of the first nine bytes of a frame. *)
FrameReads(w, version, flags, id, opcode, b) ==
  LET header == [version |-> version, flags |-> flags, stream |-> id,
                 opcode |-> opcode, length |-> Len(b)]
  IN  /\ w \in Seq(Cells) /\ Len(w) = 9 + Len(b) /\ Len(b) \in Nat
      /\ SubSeq(w, 1, 9) \in Seq(Bytes) /\ Len(SubSeq(w, 1, 9)) = 9
      /\ ParseHeader(SubSeq(w, 1, 9)) = header
      /\ ParseHeader(w) = header
      /\ SubSeq(w, 10, Len(w)) = b

(* A header and what follows it: the header is read as it was written, and
   announces where the frame ends. *)
LEMMA FrameRead ==
  ASSUME NEW version \in Bytes, NEW flags \in Bytes, NEW opcode \in Bytes,
         NEW id \in Nat, id < (Base \div 2) * Base,
         NEW b \in Seq(Cells), Len(b) < IntLimit
  PROVE  FrameReads(FrameOf(version, flags, id, opcode, b), version, flags, id, opcode, b)
<1> DEFINE header == [version |-> version, flags |-> flags, stream |-> id,
                      opcode |-> opcode, length |-> Len(b)]
           h == HeaderBytes(version, flags, id, opcode, Len(b))
           w == FrameOf(version, flags, id, opcode, b)
<1>1. w = h \o b
  BY DEF FrameOf
<1> HIDE DEF w
<1>2. Len(b) \in Nat /\ Len(b) \in Int /\ b \in Seq(Nat)
  BY CellsAreNumbers
<1>3. h \in Seq(Bytes) /\ Len(h) = 9
  BY <1>2, HeaderWritten
<1>4. h \in Seq(Nat) /\ h \in Seq(Cells)
  <2> HIDE DEF h
  <2> QED
    BY <1>3, BytesAreNumbers
<1>5. /\ w \in Seq(Nat) /\ Holds(w, 0, h) /\ SubSeq(w, 1, Len(h)) = h
      /\ SubSeq(w, Len(h) + 1, Len(w)) = b
  <2> HIDE DEF h
  <2> QED
    BY <1>1, <1>2, <1>4, Cut
<1>6. w \in Seq(Cells) /\ Len(w) = Len(h) + Len(b)
  <2> HIDE DEF h
  <2> QED
    BY <1>1, <1>4, JoinedCells, Zenon
<1>7. Holds(h, 0, h)
  <2> HIDE DEF h
  <2> QED
    BY <1>3 DEF Holds
<1>8. ParseHeader(h) = header /\ ParseHeader(w) = header
  <2> DEFINE n == Len(b)
  <2>1. n \in Nat /\ n < IntLimit
    BY <1>2
  <2>2. /\ Holds(h, 0, HeaderBytes(version, flags, id, opcode, n))
        /\ Holds(w, 0, HeaderBytes(version, flags, id, opcode, n))
    BY <1>5, <1>7
  <2> HIDE DEF n, h
  <2>3. ParseHeader(h) = [version |-> version, flags |-> flags, stream |-> id,
                          opcode |-> opcode, length |-> n]
    BY <1>4, <2>1, <2>2, HeaderHeld
  <2>4. ParseHeader(w) = [version |-> version, flags |-> flags, stream |-> id,
                          opcode |-> opcode, length |-> n]
    BY <1>5, <2>1, <2>2, HeaderHeld
  <2> QED
    BY <2>3, <2>4 DEF n
<1>9. 9 + 1 = 10
  OBVIOUS
<1> HIDE DEF h
<1> QED
  BY <1>2, <1>3, <1>5, <1>6, <1>8, <1>9, Zenon DEF w, FrameReads

(* Whatever the bytes of a header, the opcode is the fifth of them. *)
LEMMA AnyHeader ==
  ASSUME NEW data \in Seq(Bytes), Len(data) = 9
  PROVE  ParseHeader(data).opcode = data[5] /\ ParseHeader(data).length \in Int
<1>1. data \in Seq(Nat)
  BY BytesAreNumbers
<1>2. Reader(data) = At(data, 0, <<>>)
  BY DEF Reader, At
<1>3. ReadByte(At(data, 0, <<>>)) = At(data, 0 + 1, data[0 + 1])
  BY AnyByte
<1>4. ReadByte(At(data, 1, data[1])) = At(data, 1 + 1, data[1 + 1])
  BY AnyByte
<1>5. \E x : ReadSigned(At(data, 2, data[2]), 2) = At(data, 4, x)
  <2>1. EnsureSize(At(data, 2, data[2]), 2) = At(data, 2 + 2, SubSeq(data, 2 + 1, 2 + 2))
    <3>1. 2 \in Nat /\ 2 + 2 <= Len(data)
      OBVIOUS
    <3> QED
      BY <1>1, <3>1, Taken, Zenon
  <2> DEFINE s == SubSeq(data, 2 + 1, 2 + 2)
  <2>2. 2 + 2 = 4
    OBVIOUS
  <2> HIDE DEF s
  <2>3. AsSigned(At(data, 4, s)) = At(data, 4, Signed(s))
    BY DEF AsSigned, Return, At
  <2> QED
    BY <2>1, <2>2, <2>3, Zenon DEF ReadSigned, s
<1>6. PICK x : ReadSigned(At(data, 2, data[2]), 2) = At(data, 4, x)
  BY <1>5
<1>7. ReadByte(At(data, 4, x)) = At(data, 4 + 1, data[4 + 1])
  BY AnyByte
<1>8. PICK n \in Int : ReadInt(At(data, 5, data[5])) = At(data, 5 + 4, n)
  <2>1. 5 \in Nat /\ 5 + 4 <= Len(data)
    OBVIOUS
  <2> QED
    BY <2>1, AnyInt, Zenon
<1>9. /\ Width.Short = 2 /\ At(data, 5, data[5]).v = data[5] /\ At(data, 5 + 4, n).v = n
      /\ 0 + 1 = 1 /\ 1 + 1 = 2 /\ 4 + 1 = 5
  BY DEF Width, At
<1> QED
  BY <1>2, <1>3, <1>4, <1>6, <1>7, <1>8, <1>9, Zenon DEF ParseHeader

(* Lz4Compressor: what was compressed is decompressed, and what was not is not. *)
LEMMA Unpacked ==
  ASSUME NEW body \in Seq(Bytes), Len(body) < IntLimit
  PROVE  Decompress(Compress(body)).st = "ok" /\ Decompress(Compress(body)).v = body
<1> DEFINE n == WriteIntBE(Len(body), 4)
           y == <<Base>> \o body
           data == n \o y
<1>1. Len(body) \in Nat /\ body \in Seq(Nat) /\ Base \in Nat
  BY BytesAreNumbers, Limits
<1>2. n \in Seq(Bytes) /\ Len(n) = 4
  BY <1>1, Written
<1>3. /\ y \in Seq(Nat) /\ Len(y) = 1 + Len(body) /\ y[1] = Base /\ y # <<>>
      /\ Tail(y) = body
  BY <1>1
<1>4. Compress(body) = data
  BY DEF Compress, Lz4, Width
<1> HIDE DEF y
<1>5. n \in Seq(Nat)
  BY <1>2, BytesAreNumbers
<1>6. data \in Seq(Nat) /\ Holds(data, 0, n) /\ SubSeq(data, 4 + 1, Len(data)) = y
  <2> HIDE DEF n
  <2>1. data \in Seq(Nat) /\ Holds(data, 0, n) /\ SubSeq(data, Len(n) + 1, Len(data)) = y
    BY <1>3, <1>5, Cut
  <2> QED
    BY <1>2, <2>1, Zenon
<1>7. ReadInt(Reader(data)) = At(data, 4, Len(body))
  <2>1. Reader(data) = At(data, 0, <<>>)
    BY DEF Reader, At
  <2>2. Len(body) < (Base \div 2) * (Base * Base * Base)
    BY Limits
  <2>3. ReadInt(At(data, 0, <<>>)) = At(data, 0 + 4, Len(body))
    <3> HIDE DEF data
    <3> QED
      BY <1>1, <1>6, <2>2, IntHeld
  <2> QED
    BY <2>1, <2>3
<1> HIDE DEF data, n
<1>8. /\ At(data, 4, Len(body)).off = 4 /\ At(data, 4, Len(body)).st = "ok"
      /\ At(data, 4, Len(body)).v = Len(body)
  BY DEF At
<1>9. IsLz4(y) /\ Len(body) = Len(y) - 1
  BY <1>1, <1>3 DEF IsLz4
<1>10. Decompress(data) = Return(At(data, 4, Len(body)), body)
  BY <1>3, <1>6, <1>7, <1>8, <1>9, Zenon DEF Decompress
<1>11. /\ Return(At(data, 4, Len(body)), body).st = "ok"
       /\ Return(At(data, 4, Len(body)), body).v = body
  BY DEF Return, At
<1> QED
  BY <1>4, <1>10, <1>11, Zenon

(* Lz4Compressor::Decompress refuses a body that was not compressed. *)
LEMMA NotPacked ==
  ASSUME NEW data \in Seq(Bytes)
  PROVE  Decompress(data).st = "throw"
<1>1. data \in Seq(Nat) /\ Len(data) \in Nat
  BY BytesAreNumbers
<1>2. Reader(data) = At(data, 0, <<>>) /\ Width.Int = 4
  BY DEF Reader, At, Width
<1> DEFINE size == ReadInt(Reader(data))
           rest == SubSeq(data, size.off + 1, Len(data))
<1>3. Decompress(data) =
        IF size.st = "ok" /\ IsLz4(rest) /\ size.v = Len(rest) - 1
        THEN Return(size, Tail(rest)) ELSE Fail(size, "throw")
  BY Zenon DEF Decompress
<1>4. CASE Len(data) < 4
  <2>1. EnsureSize(At(data, 0, <<>>), 4) = Fail(At(data, 0, <<>>), "throw")
    BY <1>1, <1>4 DEF EnsureSize, Take, At
  <2>2. AsSigned(Fail(At(data, 0, <<>>), "throw")) = Fail(At(data, 0, <<>>), "throw")
    BY DEF AsSigned, Fail, At
  <2>3. size = Fail(At(data, 0, <<>>), "throw")
    BY <1>2, <2>1, <2>2, Zenon DEF ReadInt, ReadSigned
  <2>4. Fail(At(data, 0, <<>>), "throw").st # "ok" /\ Fail(Fail(At(data, 0, <<>>), "throw"), "throw").st = "throw"
    BY DEF Fail, At
  <2> QED
    BY <1>3, <2>3, <2>4, Zenon
<1>5. CASE ~(Len(data) < 4)
  <2> DEFINE s == Signed(SubSeq(data, 1, 4))
  <2>1. EnsureSize(At(data, 0, <<>>), 4) = At(data, 0 + 4, SubSeq(data, 0 + 1, 0 + 4))
    BY <1>1, <1>5, Taken
  <2>2. EnsureSize(At(data, 0, <<>>), 4) = At(data, 4, SubSeq(data, 1, 4))
    BY <2>1
  <2>3. AsSigned(At(data, 4, SubSeq(data, 1, 4))) = At(data, 4, s)
    <3> DEFINE x == SubSeq(data, 1, 4)
    <3> HIDE DEF x
    <3>1. AsSigned(At(data, 4, x)) = At(data, 4, Signed(x))
      BY DEF AsSigned, Return, At
    <3> QED
      BY <3>1 DEF x
  <2> HIDE DEF s
  <2>4. size = At(data, 4, s)
    BY <1>2, <2>2, <2>3, Zenon DEF ReadInt, ReadSigned
  <2>5. ~IsLz4(SubSeq(data, 4 + 1, Len(data)))
    <3> DEFINE y == SubSeq(data, 4 + 1, Len(data))
    <3>1. y # <<>> => y[1] = data[5] /\ data[5] \in Bytes
      BY <1>1, <1>5
    <3>2. \A x \in Bytes : x # Base
      BY Limits DEF Bytes
    <3> QED
      BY <3>1, <3>2 DEF IsLz4
  <2>6. At(data, 4, s).off = 4 /\ Fail(At(data, 4, s), "throw").st = "throw"
    BY DEF At, Fail
  <2> HIDE DEF size
  <2> QED
    BY <1>3, <2>4, <2>5, <2>6, Zenon
<1> QED
  BY <1>4, <1>5

(* The entries of a [string multimap]. *)
Entries(r) == ReadList(ReadShort(r), ReadEntry)

(* A response without a body is refused, unless it has none. *)
LEMMA EmptyBody ==
  ASSUME NEW opcode \in ResponseOpcodes
  PROVE  \/ DoParseBody(opcode, <<>>).st = "throw"
         \/ opcode = Opcode.ready /\ DoParseBody(opcode, <<>>) = [st |-> "ok"]
<1> DEFINE r == Reader(<<>>)
           x == Fail(r, "throw")
<1>1. x.st = "throw" /\ r = At(<<>>, 0, <<>>) /\ r.st = "ok"
  BY DEF Fail, Reader, At
<1>2. EnsureSize(r, 4) = x /\ EnsureSize(r, 2) = x
  <2>1. Len(<<>>) = 0
    OBVIOUS
  <2>2. r.st = "ok" /\ r.off = 0 /\ r.data = <<>>
    BY DEF Reader
  <2>3. 0 + 4 > 0 /\ 0 + 2 > 0
    OBVIOUS
  <2> HIDE DEF r
  <2> QED
    BY <2>1, <2>2, <2>3, Zenon DEF EnsureSize, Take
<1> HIDE DEF r, x
<1>3. ReadInt(r) = x /\ ReadShort(r) = x
  <2>1. AsSigned(x) = x /\ AsUnsigned(x) = x
    BY <1>1 DEF AsSigned, AsUnsigned
  <2>2. Width.Int = 4 /\ Width.Short = 2
    BY DEF Width
  <2> QED
    BY <1>2, <2>1, <2>2, Zenon DEF ReadInt, ReadShort, ReadSigned, ReadUnsigned
<1>4. ReadString(x) = x /\ ReadString(r) = x
  <2>1. ReadString(x) = x
    BY <1>1, StuckStays
  <2>2. ReadString(r) = x
    BY <1>1, <1>3 DEF ReadString, Copied
  <2> QED
    BY <2>1, <2>2
<1>5. ParseError(r).st = "throw"
  BY <1>1, <1>3, <1>4 DEF ParseError
<1>6. ParseAuthenticate(r).st = "throw"
  BY <1>1, <1>4 DEF ParseAuthenticate
<1>7. ParseSupported(r).st = "throw"
  <2>1. ReadStringMultiMap(r) = x
    <3>1. Entries(r) = x
      BY <1>1, <1>3, Zenon DEF Entries, ReadList, Repeat
    <3> QED
      BY <1>1, <3>1, Zenon DEF ReadStringMultiMap, Entries
  <2> QED
    BY <1>1, <2>1 DEF ParseSupported
<1>8. ParseResult(r).st = "throw"
  BY <1>1, <1>3 DEF ParseResult
<1>9. /\ opcode = Opcode.error => DoParseBody(opcode, <<>>) = ParseError(r)
      /\ opcode = Opcode.ready => DoParseBody(opcode, <<>>) = [st |-> "ok"]
      /\ opcode = Opcode.authenticate => DoParseBody(opcode, <<>>) = ParseAuthenticate(r)
      /\ opcode = Opcode.supported => DoParseBody(opcode, <<>>) = ParseSupported(r)
      /\ opcode = Opcode.result => DoParseBody(opcode, <<>>) = ParseResult(r)
  BY DEF DoParseBody, Opcode, r
<1> QED
  BY <1>5, <1>6, <1>7, <1>8, <1>9 DEF ResponseOpcodes

(* ReadFrame on the first `cut` bytes of a response: it throws, or there was no
   body to wait for, or all of it came and is parsed. *)
LEMMA Received ==
  ASSUME NEW opcode \in ResponseOpcodes, NEW flags \in Bytes,
         NEW id \in Nat, id < (Base \div 2) * Base,
         NEW text \in Seq(Bytes), Len(text) + 5 < IntLimit,
         NEW packed \in BOOLEAN, NEW comp \in BOOLEAN, packed => comp, NEW w,
         w = FrameOf(MessageDirection.response, flags, id, opcode, Packed(text, packed)),
         NEW cut \in 0 .. Len(w)
  PROVE  LET f == ReadFrame(SubSeq(w, 1, cut), comp)
         IN  /\ \/ f.body.st = "throw"
                \/ opcode = Opcode.ready /\ f.header.opcode = opcode /\ f.body = [st |-> "ok"]
                \/ cut = Len(w) /\ packed = comp
             /\ cut = Len(w) /\ packed = comp =>
                  /\ f.header.opcode = opcode /\ f.header.stream = id
                  /\ f.body = DoParseBody(opcode, text)
<1> DEFINE b == Packed(text, packed)
           v == SubSeq(w, 1, cut)
           d == RecvAll(v, 9)
           header == ParseHeader(d)
           rest == SubSeq(v, 10, Len(v))
           body == RecvAll(rest, header.length)
           good == /\ v # <<>>
                   /\ header.version = MessageDirection.response
                   /\ header.opcode \in ResponseOpcodes
                   /\ header.length >= 0
                   /\ Len(rest) >= header.length
           f == ReadFrame(v, comp)
<1>1. f = IF good
          THEN [header |-> header, body |-> ParseBody(header.opcode, header.flags, body, comp)]
          ELSE [header |-> header, body |-> [st |-> "throw"]]
  <2>1. kHeaderSize = 9 /\ kHeaderSize + 1 = 10
    BY DEF kHeaderSize
  <2> QED
    BY <2>1, Zenon DEF ReadFrame, WholeBody
<1>2. b \in Seq(Cells) /\ Len(b) \in Nat /\ Len(b) < IntLimit
  <2>1. b \in Seq(Cells) /\ Len(b) = IF packed THEN 4 + (1 + Len(text)) ELSE Len(text)
    BY PackedIs
  <2>2. Len(text) \in Nat
    OBVIOUS
  <2> HIDE DEF b
  <2> QED
    BY <2>1, <2>2, Limits
<1>3. opcode \in Bytes /\ MessageDirection.response \in Bytes
  BY Codes DEF ResponseOpcodes, Opcode
<1> DEFINE whole == [version |-> MessageDirection.response, flags |-> flags, stream |-> id,
                     opcode |-> opcode, length |-> Len(b)]
           h == SubSeq(w, 1, 9)
<1>4. /\ w \in Seq(Cells) /\ Len(w) = 9 + Len(b)
      /\ h \in Seq(Bytes) /\ Len(h) = 9 /\ ParseHeader(h) = whole
      /\ SubSeq(w, 10, Len(w)) = b
  <2> DEFINE version == MessageDirection.response
  <2>1. w = FrameOf(version, flags, id, opcode, b)
    OBVIOUS
  <2>2. version \in Bytes
    BY <1>3
  <2> HIDE DEF b, version
  <2>3. FrameReads(FrameOf(version, flags, id, opcode, b), version, flags, id, opcode, b)
    BY <1>2, <1>3, <2>2, FrameRead
  <2> QED
    BY <2>1, <2>3, Zenon DEF version, h, FrameReads
<1> HIDE DEF b, h
<1>5. v \in Seq(Cells) /\ Len(v) = cut /\ \A i \in 1 .. cut : v[i] = w[i]
  BY <1>4
<1> HIDE DEF v
<1>6. \A i \in 1 .. 9 : h[i] = w[i] /\ h[i] \in Bytes
  <2>1. 9 <= Len(w)
    BY <1>2, <1>4
  <2>2. \A i \in 1 .. 9 : SubSeq(w, 1, 9)[i] = w[i]
    BY <1>4, <2>1
  <2>3. \A i \in 1 .. 9 : h[i] \in Bytes
    <3>1. h \in Seq(Bytes) /\ Len(h) = 9
      BY <1>4, Zenon
    <3> QED
      BY <3>1, Elements, Zenon
  <2> QED
    BY <2>2, <2>3 DEF h
<1>7. CASE cut = 0
  <2>1. v = <<>>
    BY <1>5, <1>7
  <2>2. f.body = [st |-> "throw"]
    <3>1. f = [header |-> header, body |-> [st |-> "throw"]]
      BY <1>1, <2>1, Zenon
    <3> HIDE DEF f, header
    <3> QED
      BY <3>1
  <2>3. cut # Len(w)
    BY <1>2, <1>4, <1>7
  <2> QED
    BY <2>2, <2>3 DEF v
<1>8. CASE cut \in 1 .. 8
  <2>1. d \in Seq(Bytes) /\ Len(d) = 9 /\ d[5] \in {0, opcode}
    <3>1. \A i \in 1 .. 9 : d[i] = IF i <= cut THEN w[i] ELSE 0
      BY <1>5 DEF RecvAll
    <3>2. d = [i \in 1 .. 9 |-> d[i]]
      BY DEF RecvAll
    <3> HIDE DEF d
    <3>3. 0 \in Bytes
      BY Codes
    <3>4. \A i \in 1 .. 9 : d[i] \in Bytes
      BY <1>6, <3>1, <3>3
    <3>5. w[5] = opcode
      <4>1. ParseHeader(h).opcode = h[5]
        BY <1>4, AnyHeader
      <4>2. h[5] = w[5]
        <5>1. 5 \in 1 .. 9
          OBVIOUS
        <5> QED
          BY <1>6, <5>1, Zenon
      <4> QED
        BY <1>4, <4>1, <4>2
    <3>6. [i \in 1 .. 9 |-> d[i]] \in Seq(Bytes) /\ Len([i \in 1 .. 9 |-> d[i]]) = 9
      BY <3>4
    <3>7. d[5] \in {0, opcode}
      BY <3>1, <3>5
    <3> QED
      BY <3>2, <3>6, <3>7, Zenon
  <2> HIDE DEF d
  <2>2. header.opcode \in {0, opcode} /\ header.length \in Int
    BY <2>1, AnyHeader, Zenon
  <2>3. rest = <<>> /\ Len(rest) = 0
    BY <1>5, <1>8
  <2> HIDE DEF header, rest
  <2>4. CASE ~good
    <3>1. f.body = [st |-> "throw"]
      <4>1. f = [header |-> header, body |-> [st |-> "throw"]]
        BY <1>1, <2>4, Zenon
      <4> HIDE DEF f
      <4> QED
        BY <4>1
    <3>2. cut # Len(w)
      BY <1>2, <1>4, <1>8
    <3> QED
      BY <3>1, <3>2 DEF v
  <2>5. CASE good
    <3>1. header.length = 0 /\ header.opcode \in ResponseOpcodes
      BY <2>2, <2>3, <2>5
    <3>2. body = <<>>
      BY <3>1 DEF RecvAll
    <3> DEFINE o == header.opcode
    <3>3. f.header = header /\ f.body = ParseBody(o, header.flags, <<>>, comp)
      <4> HIDE DEF body, good
      <4>1. f = [header |-> header, body |-> ParseBody(o, header.flags, <<>>, comp)]
        BY <1>1, <2>5, <3>2, Zenon
      <4> HIDE DEF f, o
      <4> QED
        BY <4>1
    <3>4. <<>> \in Seq(Bytes)
      OBVIOUS
    <3>5. \/ f.body.st = "throw"
          \/ o = Opcode.ready /\ f.body = [st |-> "ok"]
      <4>1. CASE comp
        <5>1. Decompress(<<>>).st = "throw"
          BY <3>4, NotPacked
        <5>2. f.body = [st |-> "throw"]
          BY <3>3, <4>1, <5>1 DEF ParseBody
        <5> QED
          BY <5>2
      <4>2. CASE ~comp
        <5>1. Return(Reader(<<>>), <<>>).st = "ok" /\ Return(Reader(<<>>), <<>>).v = <<>>
          BY DEF Return, Reader
        <5>2. f.body = DoParseBody(o, <<>>)
          BY <3>3, <4>2, <5>1, Zenon DEF ParseBody
        <5>3. o \in ResponseOpcodes
          BY <3>1
        <5> HIDE DEF o, f
        <5> QED
          BY <5>2, <5>3, EmptyBody
      <4> QED
        BY <4>1, <4>2
    <3>6. o = Opcode.ready => o = opcode
      BY <2>2 DEF Opcode
    <3>7. cut # Len(w)
      BY <1>2, <1>4, <1>8
    <3> QED
      BY <3>3, <3>5, <3>6, <3>7, Zenon DEF v
  <2> QED
    BY <2>4, <2>5
<1>9. CASE cut >= 9
  <2>1. d = h
    <3>1. \A i \in 1 .. 9 : i <= Len(v) /\ v[i] = h[i]
      <4>1. \A i \in 1 .. 9 : i \in 1 .. cut /\ i <= cut
        BY <1>4, <1>9
      <4> QED
        BY <1>5, <1>6, <4>1, Zenon
    <3>2. d = [i \in 1 .. 9 |-> h[i]]
      BY <3>1 DEF RecvAll
    <3>3. h = [i \in 1 .. 9 |-> h[i]]
      BY <1>4
    <3> QED
      BY <3>2, <3>3
  <2>2. header = whole
    BY <1>4, <2>1
  <2>3. header.length = Len(b) /\ header.opcode = opcode /\ header.stream = id
        /\ header.version = MessageDirection.response
    BY <2>2
  <2> HIDE DEF d, header
  <2>4. Len(rest) = cut - 9
    BY <1>2, <1>4, <1>5, <1>9
  <2>5. CASE cut # Len(w)
    <3>1. ~(Len(rest) >= header.length)
      BY <1>2, <1>4, <2>3, <2>4, <2>5
    <3>2. f.body = [st |-> "throw"]
      <4>1. f = [header |-> header, body |-> [st |-> "throw"]]
        BY <1>1, <3>1, Zenon
      <4> HIDE DEF f
      <4> QED
        BY <4>1
    <3> QED
      BY <2>5, <3>2 DEF v
  <2>6. CASE cut = Len(w)
    <3>1. v = w
      BY <1>4, <2>6 DEF v
    <3>2. rest = b
      BY <1>4, <3>1, Zenon
    <3>3. body = b
      <4>1. body = [i \in 1 .. Len(b) |-> b[i]]
        BY <2>3, <3>2 DEF RecvAll
      <4>2. b = [i \in 1 .. Len(b) |-> b[i]]
        BY <1>2
      <4> QED
        BY <4>1, <4>2, Zenon
    <3>4. good
      <4>1. v # <<>>
        <5>1. Len(v) # 0
          BY <1>5, <1>9
        <5> QED
          BY <5>1
      <4>2. Len(b) >= 0 /\ Len(b) >= Len(b)
        BY <1>2
      <4> QED
        BY <2>3, <3>2, <4>1, <4>2, Zenon
    <3>5. f.header = header /\ f.body = ParseBody(opcode, header.flags, b, comp)
      <4> HIDE DEF body, good
      <4>1. f = [header |-> header, body |-> ParseBody(opcode, header.flags, b, comp)]
        BY <1>1, <2>3, <3>3, <3>4, Zenon
      <4> HIDE DEF f
      <4> QED
        BY <4>1
    <3>6. CASE packed # comp
      <4>1. comp /\ ~packed
        BY <3>6
      <4>2. b = text
        BY <4>1 DEF b, Packed
      <4>3. Decompress(text).st = "throw"
        BY NotPacked
      <4>4. f.body = [st |-> "throw"]
        BY <3>5, <4>1, <4>2, <4>3 DEF ParseBody
      <4> QED
        BY <3>6, <4>4 DEF v
    <3>7. CASE packed = comp
      <4>1. f.body = DoParseBody(opcode, text)
        <5>1. CASE comp
          <6>1. b = Compress(text)
            BY <3>7, <5>1 DEF b, Packed
          <6>2. Len(text) < IntLimit
            <7>1. Len(text) \in Nat
              OBVIOUS
            <7> QED
              BY <7>1, Limits
          <6>3. Decompress(b).st = "ok" /\ Decompress(b).v = text
            BY <6>1, <6>2, Unpacked
          <6> QED
            BY <3>5, <5>1, <6>3 DEF ParseBody
        <5>2. CASE ~comp
          <6>1. b = text
            BY <3>7, <5>2 DEF b, Packed
          <6>2. Return(Reader(text), text).st = "ok" /\ Return(Reader(text), text).v = text
            BY DEF Return, Reader
          <6> QED
            BY <3>5, <5>2, <6>1, <6>2 DEF ParseBody
        <5> QED
          BY <5>1, <5>2
      <4> QED
        BY <2>3, <2>6, <3>5, <3>7, <4>1, Zenon DEF v
    <3> QED
      BY <3>6, <3>7
  <2> QED
    BY <2>5, <2>6
<1> QED
  <2>1. cut = 0 \/ cut \in 1 .. 8 \/ cut >= 9
    BY <1>4
  <2> QED
    BY <1>7, <1>8, <1>9, <2>1

-----------------------------------------------------------------------------
(* The bytes of an answer.                                                 *)

(* The bytes of a type, given those of its parts. *)
PartsOf(f, t) == [i \in 1 .. Len(t.parts) |-> f[t.parts[i]]]
FieldsOf(f, t) == [i \in 1 .. Len(t.parts) |-> WriteString(<<1>>) \o f[t.parts[i]]]
TypeRest(f, t) ==
  CASE t.name = "custom" -> WriteString(<<1, 2>>)
    [] t.name \in {"list", "set", "map"} -> Concat(PartsOf(f, t))
    [] t.name = "udt" ->
         WriteString(<<1>>) \o WriteString(<<2>>)
           \o (WriteIntBE(Len(t.parts), 2) \o Concat(FieldsOf(f, t)))
    [] t.name = "tuple" -> WriteIntBE(Len(t.parts), 2) \o Concat(PartsOf(f, t))
    [] OTHER -> <<>>
TypeBytes(f, t) == WriteIntBE(ColumnType[t.name], 2) \o TypeRest(f, t)

(* EncodeType is the function its equation chooses. *)
LEMMA TypeIs ==
  EncodeType = CHOOSE f : f = [t \in Types |-> TypeBytes(f, t)]
<1>1. Width.Short = 2
  BY DEF Width
<1> QED
  BY <1>1 DEF EncodeType, TypeBytes, TypeRest, PartsOf, FieldsOf, WriteList

(* Only the parts matter. *)
LEMMA TypeFollows ==
  ASSUME NEW t, NEW f, NEW g, \A i \in 1 .. Len(t.parts) : f[t.parts[i]] = g[t.parts[i]]
  PROVE  TypeBytes(f, t) = TypeBytes(g, t)
<1>1. PartsOf(f, t) = PartsOf(g, t) /\ FieldsOf(f, t) = FieldsOf(g, t)
  BY Zenon DEF PartsOf, FieldsOf
<1> QED
  BY <1>1, Zenon DEF TypeBytes, TypeRest

(* The recursion of EncodeType ends, since the parts of a type are nested less
   deep: there is a function that satisfies its equation. *)
Below(n) == {t \in Types : Depth[t] < n}
Solves(f, n) == f = [t \in Below(n) |-> TypeBytes(f, t)]

(* The parts of a type are types that are nested less deep. *)
LEMMA PartsBelow ==
  ASSUME NEW t \in Types
  PROVE  /\ Depth[t] \in Nat /\ t.parts \in Seq(Types) /\ t.name \in DOMAIN ColumnType
         /\ \A i \in 1 .. Len(t.parts) :
              t.parts[i] \in Types /\ Depth[t.parts[i]] \in Nat /\ Depth[t.parts[i]] < Depth[t]
<1>1. Depth[t] \in Nat /\ t.parts \in Seq(Types) /\ t.name \in DOMAIN ColumnType
  BY TypesAssumption
<1>2. \A i \in 1 .. Len(t.parts) : Depth[t.parts[i]] < Depth[t]
  BY TypesAssumption
<1>3. \A i \in 1 .. Len(t.parts) : t.parts[i] \in Types
  BY <1>1
<1>4. \A u \in Types : Depth[u] \in Nat
  BY TypesAssumption
<1> QED
  BY <1>1, <1>2, <1>3, <1>4

(* A solution of the equation for the types below a depth, at one type. *)
LEMMA SolvesOne ==
  ASSUME NEW f, NEW n \in Nat, Solves(f, n), NEW t \in Below(n)
  PROVE  f[t] = TypeBytes(f, t)
  BY Zenon DEF Solves

(* The equation has a solution for the types below every depth. *)
LEMMA SolvedAt ==
  ASSUME NEW n \in Nat
  PROVE  \E f : Solves(f, n)
<1> DEFINE S == {m \in Nat : \E f : Solves(f, m)}
<1>1. 0 \in S
  <2>1. Below(0) = {}
    <3>1. \A t \in Types : ~(Depth[t] < 0)
      BY PartsBelow
    <3> QED
      BY <3>1 DEF Below
  <2> DEFINE f == [t \in {} |-> <<>>]
  <2>2. Solves(f, 0)
    BY <2>1, Zenon DEF Solves
  <2> QED
    BY <2>2
<1>2. ASSUME NEW m \in Nat, m \in S PROVE m + 1 \in S
  <2>1. PICK f : Solves(f, m)
    BY <1>2
  <2> DEFINE g == [t \in Below(m + 1) |-> TypeBytes(f, t)]
  <2>2. ASSUME NEW t \in Below(m + 1), NEW i \in 1 .. Len(t.parts)
        PROVE  f[t.parts[i]] = g[t.parts[i]]
    <3> DEFINE p == t.parts[i]
    <3>1. t \in Types /\ Depth[t] < m + 1
      BY DEF Below
    <3>2. p \in Types /\ Depth[p] \in Nat /\ Depth[p] < Depth[t] /\ Depth[t] \in Nat
      BY <3>1, PartsBelow
    <3> HIDE DEF p
    <3>3. Depth[p] < m /\ Depth[p] < m + 1
      BY <3>1, <3>2
    <3>4. p \in Below(m) /\ p \in Below(m + 1)
      BY <3>2, <3>3 DEF Below
    <3>5. f[p] = TypeBytes(f, p)
      BY <2>1, <3>4, SolvesOne
    <3>6. g[p] = TypeBytes(f, p)
      BY <3>4, Zenon
    <3> QED
      BY <3>5, <3>6, Zenon DEF p
  <2>3. \A t \in Below(m + 1) : TypeBytes(f, t) = TypeBytes(g, t)
    <3> HIDE DEF g
    <3> QED
      BY <2>2, TypeFollows, Zenon
  <2>4. Solves(g, m + 1)
    BY <2>3, Zenon DEF Solves
  <2> HIDE DEF g
  <2> QED
    BY <2>4
<1>3. n \in S
  <2> HIDE DEF S
  <2> QED
    BY <1>1, <1>2, Induction
<1> QED
  BY <1>3

(* Two solutions agree where both are defined. *)
LEMMA SolvedOnce ==
  ASSUME NEW f, NEW g, NEW n \in Nat, NEW m \in Nat, Solves(f, n), Solves(g, m),
         NEW t \in Below(n), t \in Below(m)
  PROVE  f[t] = g[t]
<1> DEFINE S == {d \in Nat : \A u \in Below(n) : u \in Below(m) /\ Depth[u] < d => f[u] = g[u]}
<1>1. 0 \in S
  <2>1. \A u \in Below(n) : ~(Depth[u] < 0)
    BY PartsBelow DEF Below
  <2> QED
    BY <2>1
<1>2. ASSUME NEW d \in Nat, d \in S PROVE d + 1 \in S
  <2>1. SUFFICES ASSUME NEW u \in Below(n), u \in Below(m), Depth[u] < d + 1 PROVE f[u] = g[u]
    OBVIOUS
  <2>2. u \in Types /\ Depth[u] < n /\ Depth[u] < m /\ Depth[u] \in Nat
    BY <2>1, PartsBelow DEF Below
  <2>3. ASSUME NEW i \in 1 .. Len(u.parts) PROVE f[u.parts[i]] = g[u.parts[i]]
    <3> DEFINE p == u.parts[i]
    <3>1. p \in Types /\ Depth[p] \in Nat /\ Depth[p] < Depth[u]
      BY <2>2, PartsBelow
    <3> HIDE DEF p
    <3>2. Depth[p] < d /\ Depth[p] < n /\ Depth[p] < m
      BY <2>1, <2>2, <3>1
    <3>3. p \in Below(n) /\ p \in Below(m)
      BY <3>1, <3>2 DEF Below
    <3>4. f[p] = g[p]
      BY <1>2, <3>2, <3>3
    <3> QED
      BY <3>4 DEF p
  <2>4. TypeBytes(f, u) = TypeBytes(g, u)
    BY <2>3, TypeFollows
  <2>5. f[u] = TypeBytes(f, u) /\ g[u] = TypeBytes(g, u)
    BY <2>1, SolvesOne
  <2> QED
    BY <2>4, <2>5, Zenon
<1>3. Depth[t] + 1 \in Nat /\ Depth[t] < Depth[t] + 1
  BY PartsBelow DEF Below
<1>4. Depth[t] + 1 \in S
  <2> HIDE DEF S
  <2> QED
    BY <1>1, <1>2, <1>3, Induction
<1> QED
  BY <1>3, <1>4

(* EncodeType satisfies its equation. *)
LEMMA TypeEquation ==
  ASSUME NEW t \in Types
  PROVE  EncodeType[t] = TypeBytes(EncodeType, t)
<1> DEFINE Solution(n) == CHOOSE f : Solves(f, n)
           e == [u \in Types |-> Solution(Depth[u] + 1)[u]]
<1>1. ASSUME NEW n \in Nat PROVE Solves(Solution(n), n)
  BY SolvedAt, Zenon
<1> HIDE DEF Solution
<1>2. ASSUME NEW u \in Types PROVE e[u] = TypeBytes(e, u)
  <2> DEFINE n == Depth[u] + 1
             f == Solution(n)
  <2>1. n \in Nat /\ u \in Below(n) /\ Depth[u] \in Nat
    BY PartsBelow DEF Below
  <2>2. Solves(f, n)
    BY <1>1, <2>1
  <2>3. f[u] = TypeBytes(f, u)
    <3> HIDE DEF f, n
    <3> QED
      BY <2>1, <2>2, SolvesOne
  <2>4. ASSUME NEW i \in 1 .. Len(u.parts) PROVE f[u.parts[i]] = e[u.parts[i]]
    <3> DEFINE p == u.parts[i]
               m == Depth[p] + 1
               g == Solution(m)
    <3>1. p \in Types /\ Depth[p] \in Nat /\ Depth[p] < Depth[u]
      BY PartsBelow
    <3> HIDE DEF p
    <3>2. m \in Nat /\ Depth[p] < m /\ Depth[p] < n
      BY <2>1, <3>1
    <3> HIDE DEF n, m
    <3>3. p \in Below(n) /\ p \in Below(m)
      BY <3>1, <3>2 DEF Below
    <3>4. Solves(g, m)
      BY <1>1, <3>2
    <3>5. e[p] = g[p]
      BY <3>1, Zenon DEF m
    <3> HIDE DEF f, g, e
    <3>6. f[p] = g[p]
      BY <2>1, <2>2, <3>2, <3>3, <3>4, SolvedOnce
    <3> QED
      BY <3>5, <3>6, Zenon DEF p
  <2>5. e[u] = f[u]
    BY Zenon
  <2> HIDE DEF e, f, n
  <2>6. TypeBytes(f, u) = TypeBytes(e, u)
    BY <2>4, TypeFollows
  <2> QED
    BY <2>3, <2>5, <2>6, Zenon
<1>3. e = [u \in Types |-> TypeBytes(e, u)]
  BY <1>2, Zenon
<1> HIDE DEF e
<1>4. EncodeType = [u \in Types |-> TypeBytes(EncodeType, u)]
  BY <1>3, TypeIs, Zenon
<1> QED
  BY <1>4, Zenon

(* The names of tables, columns and fields, whose text is of no use. *)
LEMMA NamesShort ==
  /\ <<1>> \in ShortTexts /\ <<2>> \in ShortTexts /\ <<3>> \in ShortTexts /\ <<1, 2>> \in ShortTexts
  /\ Len(<<1>>) = 1 /\ Len(<<2>>) = 1 /\ Len(<<3>>) = 1 /\ Len(<<1, 2>>) = 2
<1>1. {1, 2, 3} \subseteq Bytes /\ 1 < Square /\ 2 < Square
  BY Limits DEF Bytes
<1>2. /\ <<1>> \in Seq(Bytes) /\ <<2>> \in Seq(Bytes) /\ <<3>> \in Seq(Bytes) /\ <<1, 2>> \in Seq(Bytes)
      /\ Len(<<1>>) = 1 /\ Len(<<2>>) = 1 /\ Len(<<3>>) = 1 /\ Len(<<1, 2>>) = 2
  BY <1>1
<1> QED
  BY <1>1, <1>2, Zenon DEF ShortTexts

(* The names a node writes into its answers. *)
LEMMA NamesWritten ==
  /\ WriteString(<<1>>) \in Seq(Bytes) /\ Len(WriteString(<<1>>)) = 3
  /\ WriteString(<<2>>) \in Seq(Bytes) /\ Len(WriteString(<<2>>)) = 3
  /\ WriteString(<<3>>) \in Seq(Bytes) /\ Len(WriteString(<<3>>)) = 3
  /\ WriteString(<<1, 2>>) \in Seq(Bytes) /\ Len(WriteString(<<1, 2>>)) = 4
<1>1. 2 + 1 = 3 /\ 2 + 2 = 4
  OBVIOUS
<1> QED
  BY <1>1, NamesShort, StringSize, Zenon

(* The forms a type has. *)
LEMMA TypeForms ==
  ASSUME NEW f, NEW t \in Types
  PROVE  \/ t.name = "custom" /\ TypeRest(f, t) = WriteString(<<1, 2>>)
         \/ /\ t.name \in {"list", "set"} /\ Len(t.parts) = 1
            /\ TypeRest(f, t) = Concat(PartsOf(f, t))
         \/ t.name = "map" /\ Len(t.parts) = 2 /\ TypeRest(f, t) = Concat(PartsOf(f, t))
         \/ /\ t.name = "udt" /\ Len(t.parts) < Square
            /\ TypeRest(f, t) = WriteString(<<1>>) \o WriteString(<<2>>)
                                  \o (WriteIntBE(Len(t.parts), 2) \o Concat(FieldsOf(f, t)))
         \/ /\ t.name = "tuple" /\ Len(t.parts) < Square
            /\ TypeRest(f, t) = WriteIntBE(Len(t.parts), 2) \o Concat(PartsOf(f, t))
         \/ t.name \in {"bigint", "int", "varchar"} /\ TypeRest(f, t) = <<>>
<1>1. t.name \in DOMAIN ColumnType /\ Arity(t)
  BY TypesAssumption
<1>2. DOMAIN ColumnType =
        {"custom", "bigint", "int", "varchar", "list", "map", "set", "udt", "tuple"}
  BY DEF ColumnType
<1>3. CASE t.name = "custom"
  BY <1>3 DEF TypeRest
<1>4. CASE t.name \in {"list", "set"}
  BY <1>1, <1>4 DEF TypeRest, Arity
<1>5. CASE t.name = "map"
  BY <1>1, <1>5 DEF TypeRest, Arity
<1>6. CASE t.name = "udt"
  BY <1>1, <1>6 DEF TypeRest, Arity
<1>7. CASE t.name = "tuple"
  BY <1>1, <1>7 DEF TypeRest, Arity
<1>8. CASE t.name \in {"bigint", "int", "varchar"}
  BY <1>8 DEF TypeRest
<1> QED
  BY <1>1, <1>2, <1>3, <1>4, <1>5, <1>6, <1>7, <1>8

(* A type is made of bytes, and of two at least. *)
LEMMA TypeWritten ==
  ASSUME NEW t \in Types
  PROVE  EncodeType[t] \in Seq(Bytes) /\ Len(EncodeType[t]) >= 2 /\ TypeRest(EncodeType, t) \in Seq(Bytes)
<1> DEFINE Good(u) == EncodeType[u] \in Seq(Bytes) /\ Len(EncodeType[u]) >= 2
                        /\ TypeRest(EncodeType, u) \in Seq(Bytes)
           S == {n \in Nat : \A u \in Types : Depth[u] < n => Good(u)}
<1>1. 0 \in S
  <2>1. \A u \in Types : ~(Depth[u] < 0)
    BY PartsBelow
  <2> QED
    BY <2>1
<1>2. ASSUME NEW n \in Nat, n \in S PROVE n + 1 \in S
  <2>1. SUFFICES ASSUME NEW u \in Types, Depth[u] < n + 1 PROVE Good(u)
    OBVIOUS
  <2> DEFINE N == Len(u.parts)
             ws == PartsOf(EncodeType, u)
             fs == FieldsOf(EncodeType, u)
             x == WriteString(<<1>>)
  <2>2. N \in Nat
    BY PartsBelow
  <2>3. ASSUME NEW i \in 1 .. N PROVE EncodeType[u.parts[i]] \in Seq(Bytes)
    <3> DEFINE p == u.parts[i]
    <3>1. p \in Types /\ Depth[p] \in Nat /\ Depth[p] < Depth[u] /\ Depth[u] \in Nat
      BY PartsBelow
    <3> HIDE DEF p
    <3>2. Depth[p] < n
      BY <2>1, <3>1
    <3>3. Good(p)
      <4> HIDE DEF Good
      <4> QED
        BY <1>2, <3>1, <3>2
    <3> QED
      BY <3>3 DEF p
  <2>4. Concat(ws) \in Seq(Bytes)
    <3>1. ws = [i \in 1 .. N |-> ws[i]] /\ \A i \in 1 .. N : ws[i] \in Seq(Bytes)
      BY <2>3, Zenon DEF PartsOf
    <3> HIDE DEF ws
    <3> QED
      BY <2>2, <3>1, PartsWritten
  <2>5. Concat(fs) \in Seq(Bytes)
    <3>1. x \in Seq(Bytes)
      BY NamesWritten
    <3> HIDE DEF x
    <3>2. \A i \in 1 .. N : x \o EncodeType[u.parts[i]] \in Seq(Bytes)
      BY <2>3, <3>1, Joined
    <3>3. fs = [i \in 1 .. N |-> fs[i]] /\ \A i \in 1 .. N : fs[i] \in Seq(Bytes)
      BY <3>2, Zenon DEF FieldsOf, x
    <3> HIDE DEF fs
    <3> QED
      BY <2>2, <3>3, PartsWritten
  <2> HIDE DEF ws, fs
  <2> DEFINE c == WriteIntBE(N, 2)
             e == TypeRest(EncodeType, u)
  <2>6. c \in Seq(Bytes)
    BY <2>2, Written
  <2>7. e \in Seq(Bytes)
    <3> HIDE DEF c
    <3> DEFINE y == WriteString(<<2>>)
               z == c \o Concat(fs)
    <3>1. c \o Concat(ws) \in Seq(Bytes) /\ z \in Seq(Bytes)
      BY <2>4, <2>5, <2>6, Joined
    <3>2. x \in Seq(Bytes) /\ y \in Seq(Bytes) /\ WriteString(<<1, 2>>) \in Seq(Bytes) /\ <<>> \in Seq(Bytes)
      BY NamesWritten
    <3>3. x \o y \o z \in Seq(Bytes)
      <4> HIDE DEF x, y, z
      <4> QED
        BY <3>1, <3>2, Joined3
    <3>4. e \in {WriteString(<<1, 2>>), Concat(ws), x \o y \o z, c \o Concat(ws), <<>>}
      BY TypeForms, Zenon DEF ws, fs, c
    <3> HIDE DEF e, x, y, z
    <3> QED
      BY <2>4, <3>1, <3>2, <3>3, <3>4
  <2>8. EncodeType[u] = WriteIntBE(ColumnType[u.name], 2) \o e
    BY TypeEquation, Zenon DEF TypeBytes
  <2> DEFINE h == WriteIntBE(ColumnType[u.name], 2)
  <2>9. h \in Seq(Bytes) /\ Len(h) = 2
    <3>1. ColumnType[u.name] \in Int
      BY PartsBelow, Codes
    <3> QED
      BY <3>1, Written
  <2> HIDE DEF h, e
  <2>10. h \o e \in Seq(Bytes) /\ Len(h \o e) = 2 + Len(e)
    BY <2>7, <2>9, Joined, Zenon
  <2>11. 2 + Len(e) >= 2
    <3>1. Len(e) \in Nat
      BY <2>7
    <3> QED
      BY <3>1
  <2> QED
    BY <2>7, <2>8, <2>10, <2>11, Zenon DEF h, e
<1>3. Depth[t] + 1 \in Nat /\ Depth[t] < Depth[t] + 1
  BY PartsBelow
<1>4. Depth[t] + 1 \in S
  <2> HIDE DEF S
  <2> QED
    BY <1>1, <1>2, <1>3, Induction
<1> QED
  BY <1>3, <1>4

(* A cell: the value of a column as a text, in front of which its length goes. *)
LEMMA CellWritten ==
  ASSUME NEW type, NEW cell, CellOf(type, cell)
  PROVE  /\ CellBytes(type, cell) \in Texts
         /\ EncodeCell(type, cell) \in Seq(Bytes) /\ Len(EncodeCell(type, cell)) >= 4
         /\ cell.null => CellBytes(type, cell) = <<>> /\ EncodeCell(type, cell) = WriteIntBE(-1, 4)
         /\ ~cell.null => /\ EncodeCell(type, cell) = WriteBytes(CellBytes(type, cell))
                          /\ CellBytes(type, cell) = IF Numeric(type) THEN Halves(cell.v) ELSE cell.v
<1>1. cell.null \in BOOLEAN
  BY DEF CellOf
<1>2. CASE cell.null
  <2>1. CellBytes(type, cell) = <<>> /\ EncodeCell(type, cell) = WriteIntBE(-1, 4)
    BY <1>2 DEF CellBytes, EncodeCell, Width
  <2>2. <<>> \in Texts
    <3>1. <<>> \in Seq(Bytes) /\ Len(<<>>) = 0
      OBVIOUS
    <3>2. 0 < IntLimit
      BY Limits
    <3> QED
      BY <3>1, <3>2, Zenon DEF Texts
  <2>3. WriteIntBE(-1, 4) \in Seq(Bytes) /\ Len(WriteIntBE(-1, 4)) = 4
    BY Written
  <2>4. 4 >= 4
    OBVIOUS
  <2> QED
    BY <1>2, <2>1, <2>2, <2>3, <2>4, Zenon
<1>3. CASE ~cell.null
  <2>1. CellBytes(type, cell) = IF Numeric(type) THEN Halves(cell.v) ELSE cell.v
    BY <1>3, Zenon DEF CellBytes, Halves, Width
  <2>2. EncodeCell(type, cell) = WriteBytes(CellBytes(type, cell))
    BY <1>3 DEF EncodeCell
  <2>3. CellBytes(type, cell) \in Texts
    <3>1. CASE type = "int"
      <4>1. Numeric(type) /\ cell.v \in [1 .. 1 -> Ints]
        BY <1>3, <3>1 DEF Numeric, CellOf
      <4>2. CellBytes(type, cell) \in Seq(Bytes) /\ Len(CellBytes(type, cell)) = 4
        BY <2>1, <4>1, HalvesAre, Zenon
      <4>3. 4 < IntLimit
        BY Limits
      <4> QED
        BY <4>2, <4>3, Zenon DEF Texts
    <3>2. CASE type = "bigint"
      <4>1. Numeric(type) /\ cell.v \in [1 .. 2 -> Ints]
        BY <1>3, <3>2 DEF Numeric, CellOf
      <4>2. CellBytes(type, cell) \in Seq(Bytes) /\ Len(CellBytes(type, cell)) = 8
        BY <2>1, <4>1, HalvesAre, Zenon
      <4>3. 8 < IntLimit
        BY Limits
      <4> QED
        BY <4>2, <4>3, Zenon DEF Texts
    <3>3. CASE type \notin {"int", "bigint"}
      <4>1. ~Numeric(type) /\ cell.v \in Texts
        BY <1>3, <3>3 DEF Numeric, CellOf
      <4> QED
        BY <2>1, <4>1
    <3> QED
      BY <3>1, <3>2, <3>3
  <2>4. CellBytes(type, cell) \in Seq(Bytes) /\ Len(CellBytes(type, cell)) \in Nat
    BY <2>3 DEF Texts
  <2> DEFINE s == CellBytes(type, cell)
  <2> HIDE DEF s
  <2>5. WriteBytes(s) \in Seq(Bytes) /\ Len(WriteBytes(s)) = 4 + Len(s)
    BY <2>4, TextsWritten DEF s
  <2>6. 4 + Len(s) >= 4
    BY <2>4 DEF s
  <2> QED
    BY <1>3, <2>1, <2>2, <2>3, <2>5, <2>6, Zenon DEF s
<1> QED
  BY <1>1, <1>2, <1>3

(* The bytes of a row and of all the rows. *)
RowBytes(types, row) == Concat([i \in 1 .. Len(row) |-> EncodeCell(types[i].name, row[i])])
RowsBytes(types, rows) == Concat([i \in 1 .. Len(rows) |-> RowBytes(types, rows[i])])

(* The rows of an answer are written as bytes. *)
LEMMA RowsWritten ==
  ASSUME NEW r, RowsReply(r)
  PROVE  /\ Len(r.types) \in Nat /\ Len(r.rows) \in Nat
         /\ \A i \in 1 .. Len(r.rows) : RowBytes(r.types, r.rows[i]) \in Seq(Bytes)
         /\ RowsBytes(r.types, r.rows) \in Seq(Bytes)
<1>1. Len(r.types) \in Nat /\ Len(r.rows) \in Nat
  BY DEF RowsReply
<1>2. ASSUME NEW i \in 1 .. Len(r.rows) PROVE RowBytes(r.types, r.rows[i]) \in Seq(Bytes)
  <2> DEFINE row == r.rows[i]
             ws == [j \in 1 .. Len(row) |-> EncodeCell(r.types[j].name, row[j])]
  <2>1. Len(row) = Len(r.types) /\ \A j \in 1 .. Len(r.types) : CellOf(r.types[j].name, row[j])
    BY DEF RowsReply
  <2> HIDE DEF row
  <2>2. \A j \in 1 .. Len(row) : EncodeCell(r.types[j].name, row[j]) \in Seq(Bytes)
    BY <2>1, CellWritten
  <2>3. ws = [j \in 1 .. Len(row) |-> ws[j]] /\ \A j \in 1 .. Len(row) : ws[j] \in Seq(Bytes)
    BY <2>2, Zenon
  <2>4. Len(row) \in Nat
    BY <1>1, <2>1
  <2>5. RowBytes(r.types, row) = Concat(ws)
    BY DEF RowBytes
  <2> HIDE DEF ws
  <2>6. Concat(ws) \in Seq(Bytes)
    BY <2>3, <2>4, PartsWritten
  <2> QED
    BY <2>5, <2>6 DEF row
<1> DEFINE rs == [i \in 1 .. Len(r.rows) |-> RowBytes(r.types, r.rows[i])]
<1>3. rs = [i \in 1 .. Len(r.rows) |-> rs[i]] /\ \A i \in 1 .. Len(r.rows) : rs[i] \in Seq(Bytes)
  BY <1>2, Zenon
<1>4. RowsBytes(r.types, r.rows) = Concat(rs)
  BY DEF RowsBytes
<1> HIDE DEF rs
<1>5. Concat(rs) \in Seq(Bytes)
  BY <1>1, <1>3, PartsWritten
<1> QED
  BY <1>1, <1>2, <1>4, <1>5

(* The columns. *)
Spec2 == WriteString(<<1>>) \o WriteString(<<2>>)
ColumnBytes(t, global) == (IF global THEN <<>> ELSE Spec2) \o WriteString(<<3>>) \o EncodeType[t]
ColumnsBytes(types, global) ==
  Concat([i \in 1 .. Len(types) |-> ColumnBytes(types[i], global)])

(* The specification of a column is written as bytes. *)
LEMMA ColumnWritten ==
  ASSUME NEW t \in Types, NEW global \in BOOLEAN
  PROVE  /\ Spec2 \in Seq(Bytes) /\ Len(Spec2) = 6
         /\ ColumnBytes(t, global) \in Seq(Bytes) /\ Len(ColumnBytes(t, global)) >= 5
<1>1. Spec2 \in Seq(Bytes) /\ Len(Spec2) = 6
  <2> DEFINE a == WriteString(<<1>>)
             b == WriteString(<<2>>)
  <2>1. a \in Seq(Bytes) /\ Len(a) = 3 /\ b \in Seq(Bytes) /\ Len(b) = 3
    BY NamesWritten
  <2> HIDE DEF a, b
  <2>2. a \o b \in Seq(Bytes) /\ Len(a \o b) = 3 + 3
    BY <2>1, Joined, Zenon
  <2>3. 3 + 3 = 6
    OBVIOUS
  <2> QED
    BY <2>2, <2>3, Zenon DEF Spec2, a, b
<1> DEFINE a == IF global THEN <<>> ELSE Spec2
           b == WriteString(<<3>>)
           c == EncodeType[t]
<1>2. a \in Seq(Bytes) /\ Len(a) \in Nat
  BY <1>1
<1>3. b \in Seq(Bytes) /\ Len(b) = 3 /\ c \in Seq(Bytes) /\ Len(c) >= 2 /\ Len(c) \in Nat
  BY NamesWritten, TypeWritten
<1>4. ColumnBytes(t, global) = a \o b \o c
  BY DEF ColumnBytes
<1> HIDE DEF a, b, c
<1>5. a \o b \o c \in Seq(Bytes) /\ Len(a \o b \o c) = Len(a) + Len(b) + Len(c)
  BY <1>2, <1>3, Joined3
<1>6. Len(a) + Len(b) + Len(c) >= 5
  BY <1>2, <1>3
<1> QED
  BY <1>1, <1>4, <1>5, <1>6, Zenon

(* The specifications of the columns are written one after the other, with the
   name of the table before them when the flag says so. *)
LEMMA ColumnsWritten ==
  ASSUME NEW types \in Seq(Types), NEW global \in BOOLEAN
  PROVE  /\ EncodeColumns(types, global) = (IF global THEN Spec2 ELSE <<>>) \o ColumnsBytes(types, global)
         /\ ColumnsBytes(types, global) \in Seq(Bytes)
         /\ Spec2 \in Seq(Bytes)
         /\ EncodeColumns(types, global) \in Seq(Bytes)
<1> DEFINE ws == [i \in 1 .. Len(types) |-> ColumnBytes(types[i], global)]
<1>1. EncodeColumns(types, global) = (IF global THEN Spec2 ELSE <<>>) \o ColumnsBytes(types, global)
  BY Zenon DEF EncodeColumns, ColumnsBytes, ColumnBytes, Spec2
<1>2. Len(types) \in Nat /\ \A i \in 1 .. Len(types) : types[i] \in Types
  OBVIOUS
<1>3. ws = [i \in 1 .. Len(types) |-> ws[i]] /\ \A i \in 1 .. Len(types) : ws[i] \in Seq(Bytes)
  <2>1. \A i \in 1 .. Len(types) : ColumnBytes(types[i], global) \in Seq(Bytes)
    BY <1>2, ColumnWritten
  <2> QED
    BY <2>1, Zenon
<1>4. ColumnsBytes(types, global) = Concat(ws)
  BY DEF ColumnsBytes
<1> HIDE DEF ws
<1>5. Concat(ws) \in Seq(Bytes)
  BY <1>2, <1>3, PartsWritten
<1>6. Spec2 \in Seq(Bytes) /\ <<>> \in Seq(Bytes)
  BY NamesWritten, Joined DEF Spec2
<1> DEFINE c == ColumnsBytes(types, global)
           s == IF global THEN Spec2 ELSE <<>>
<1>7. c \in Seq(Bytes) /\ s \in Seq(Bytes)
  BY <1>4, <1>5, <1>6
<1> HIDE DEF c, s
<1>8. s \o c \in Seq(Bytes)
  BY <1>7, Joined
<1> QED
  BY <1>1, <1>6, <1>7, <1>8, Zenon DEF c, s

(* The parts of the metadata, each there as the flags say. *)
Global(flags) == Has(flags, RowsFlag.global_table_spec)
Paging(flags) == IF Has(flags, RowsFlag.has_more_pages) THEN WriteBytes(<<1, 2, 3>>) ELSE <<>>
ColumnsOf(r) ==
  IF Has(r.flags, RowsFlag.no_metadata) THEN <<>> ELSE EncodeColumns(r.types, Global(r.flags))

(* A flag is set or it is not. *)
LEMMA HasIsBoolean ==
  \A flags, bit : Has(flags, bit) \in BOOLEAN
  BY DEF Has

(* The parts of a Rows result. *)
LEMMA RowsReplyWritten ==
  ASSUME NEW r, RowsReply(r)
  PROVE  /\ EncodeRows(r) = WriteIntBE(r.flags, 4) \o WriteIntBE(Len(r.types), 4) \o Paging(r.flags)
                              \o ColumnsOf(r) \o WriteIntBE(r.count, 4) \o RowsBytes(r.types, r.rows)
         /\ r.flags \in Ints /\ Len(r.types) \in Ints /\ r.count \in Ints
         /\ WriteIntBE(r.flags, 4) \in Seq(Bytes) /\ WriteIntBE(Len(r.types), 4) \in Seq(Bytes)
         /\ Paging(r.flags) \in Seq(Bytes) /\ ColumnsOf(r) \in Seq(Bytes)
         /\ WriteIntBE(r.count, 4) \in Seq(Bytes) /\ RowsBytes(r.types, r.rows) \in Seq(Bytes)
         /\ EncodeRows(r) \in Seq(Bytes)
<1> DEFINE a == WriteIntBE(r.flags, 4)
           b == WriteIntBE(Len(r.types), 4)
           c == Paging(r.flags)
           d == ColumnsOf(r)
           e == WriteIntBE(r.count, 4)
           f == RowsBytes(r.types, r.rows)
<1>1. EncodeRows(r) = a \o b \o c \o d \o e \o f
  BY Zenon DEF EncodeRows, Paging, ColumnsOf, Global, RowsBytes, RowBytes, Width
<1>2. /\ r.flags \in Int /\ Len(r.types) \in Int /\ r.count \in Int /\ r.types \in Seq(Types)
      /\ r.flags \in Ints /\ Len(r.types) \in Ints /\ r.count \in Ints
  <2>1. /\ r.flags \in 0 .. 7 /\ r.types \in Seq(Types) /\ Len(r.types) \in 1 .. IntLimit - 1
        /\ Len(r.rows) \in 0 .. IntLimit - 1 /\ r.count \in {-1, Len(r.rows)}
    BY DEF RowsReply
  <2>2. Len(r.rows) \in Nat
    BY RowsWritten
  <2>3. IntLimit \in Nat /\ IntLimit > 7
    BY Limits
  <2> DEFINE n == Len(r.types)
             m == Len(r.rows)
  <2> HIDE DEF n, m
  <2>4. n \in 1 .. IntLimit - 1 /\ m < IntLimit /\ m \in Nat /\ r.count \in {-1, m}
    <3>1. n \in 1 .. IntLimit - 1 /\ m \in 0 .. IntLimit - 1 /\ m \in Nat /\ r.count \in {-1, m}
      BY <2>1, <2>2 DEF n, m
    <3> QED
      BY <2>3, <3>1
  <2>5. r.flags \in Ints /\ n \in Ints /\ r.count \in Ints
    BY <2>1, <2>3, <2>4 DEF Ints
  <2>6. r.flags \in Int /\ n \in Int /\ r.count \in Int
    BY <2>1, <2>3, <2>4
  <2> QED
    BY <2>1, <2>5, <2>6 DEF n
<1>3. a \in Seq(Bytes) /\ b \in Seq(Bytes) /\ e \in Seq(Bytes)
  BY <1>2, Written
<1>4. c \in Seq(Bytes)
  <2>1. {1, 2, 3} \subseteq Bytes
    BY Codes
  <2>2. <<1, 2, 3>> \in Seq(Bytes) /\ <<>> \in Seq(Bytes)
    BY <2>1
  <2>3. WriteBytes(<<1, 2, 3>>) \in Seq(Bytes)
    BY <2>2, TextsWritten
  <2> QED
    BY <2>2, <2>3 DEF Paging
<1>5. d \in Seq(Bytes)
  <2>1. EncodeColumns(r.types, Global(r.flags)) \in Seq(Bytes)
    BY <1>2, HasIsBoolean, ColumnsWritten DEF Global
  <2> QED
    BY <2>1 DEF ColumnsOf
<1>6. f \in Seq(Bytes)
  BY RowsWritten
<1> HIDE DEF a, b, c, d, e, f
<1> DEFINE m == a \o b \o c \o d \o e
<1>7. m \in Seq(Bytes)
  BY <1>3, <1>4, <1>5, Joined5
<1> HIDE DEF m
<1>8. m \o f \in Seq(Bytes)
  BY <1>6, <1>7, JoinedBytes
<1>9. EncodeRows(r) \in Seq(Bytes)
  BY <1>1, <1>8, Zenon DEF m
<1> QED
  BY <1>1, <1>2, <1>3, <1>4, <1>5, <1>6, <1>9, Zenon DEF a, b, c, d, e, f

(* The parts of a Prepared result. *)
LEMMA PreparedReplyWritten ==
  ASSUME NEW r, PreparedReply(r)
  PROVE  /\ EncodePrepared(r) =
              WriteShortBytes(r.id) \o WriteIntBE(r.flags, 4) \o WriteIntBE(Len(r.types), 4)
                \o WriteIntBE(1, 4) \o WriteIntBE(0, 2) \o EncodeColumns(r.types, Global(r.flags))
                \o WriteIntBE(4, 4) \o WriteIntBE(0, 4)
         /\ r.flags \in Ints /\ Len(r.types) \in Ints /\ Len(r.types) \in Nat
         /\ WriteShortBytes(r.id) \in Seq(Bytes) /\ WriteIntBE(r.flags, 4) \in Seq(Bytes)
         /\ WriteIntBE(Len(r.types), 4) \in Seq(Bytes)
         /\ EncodeColumns(r.types, Global(r.flags)) \in Seq(Bytes)
         /\ EncodePrepared(r) \in Seq(Bytes)
<1> DEFINE a == WriteShortBytes(r.id)
           b == WriteIntBE(r.flags, 4)
           c == WriteIntBE(Len(r.types), 4)
           d == WriteIntBE(1, 4)
           e == WriteIntBE(0, 2)
           f == EncodeColumns(r.types, Global(r.flags))
           g == WriteIntBE(4, 4)
           h == WriteIntBE(0, 4)
<1>1. EncodePrepared(r) = a \o b \o c \o d \o e \o f \o g \o h
  <2>1. RowsFlag.no_metadata = 4 /\ Width.Int = 4 /\ Width.Short = 2
    BY DEF RowsFlag, Width
  <2> QED
    BY <2>1, Zenon DEF EncodePrepared, Global
<1>2. /\ r.flags \in 0 .. 1 /\ r.types \in Seq(Types) /\ Len(r.types) < IntLimit
      /\ r.id \in ShortTexts /\ Len(r.types) \in Nat
  BY DEF PreparedReply
<1>3. IntLimit \in Nat /\ IntLimit > 7
  BY Limits
<1>4. r.flags \in Ints /\ r.flags \in Int /\ Len(r.types) \in Ints /\ Len(r.types) \in Int
  <2> DEFINE n == Len(r.types)
  <2> HIDE DEF n
  <2>1. n \in Nat /\ n < IntLimit
    BY <1>2 DEF n
  <2>2. r.flags \in Ints /\ r.flags \in Int /\ n \in Ints /\ n \in Int
    BY <1>2, <1>3, <2>1 DEF Ints
  <2> QED
    BY <2>2 DEF n
<1>5. /\ b \in Seq(Bytes) /\ c \in Seq(Bytes) /\ d \in Seq(Bytes) /\ e \in Seq(Bytes)
      /\ g \in Seq(Bytes) /\ h \in Seq(Bytes)
  BY <1>4, Written
<1>6. a \in Seq(Bytes)
  BY <1>2, TextsWritten DEF ShortTexts
<1>7. f \in Seq(Bytes)
  BY <1>2, HasIsBoolean, ColumnsWritten DEF Global
<1> HIDE DEF a, b, c, d, e, f, g, h
<1> DEFINE m == a \o b \o c \o d \o e
           n == m \o f \o g
<1>8. m \in Seq(Bytes)
  BY <1>5, <1>6, Joined5
<1>9. n \in Seq(Bytes)
  <2> HIDE DEF m
  <2> QED
    BY <1>5, <1>7, <1>8, Joined3
<1>10. EncodePrepared(r) = n \o h
  BY <1>1
<1> HIDE DEF n
<1>11. EncodePrepared(r) \in Seq(Bytes)
  BY <1>5, <1>9, <1>10, JoinedBytes
<1> QED
  BY <1>1, <1>2, <1>4, <1>5, <1>6, <1>7, <1>11, Zenon DEF a, b, c, d, e, f, g, h

(* The names of a change of the schema and the arguments of a function. *)
NamesBytes(names) == Concat([i \in 1 .. Len(names) |-> WriteString(names[i])])
ChangeArguments(r) == IF r.arguments THEN WriteIntBE(1, 2) \o WriteString(<<1>>) ELSE <<>>

(* The parts of a Schema_change result. *)
LEMMA ChangeWritten ==
  ASSUME NEW r, SchemaChangeReply(r)
  PROVE  NamesBytes(r.names) \in Seq(Bytes) /\ ChangeArguments(r) \in Seq(Bytes)
<1> DEFINE ws == [i \in 1 .. Len(r.names) |-> WriteString(r.names[i])]
<1>1. r.names \in Seq(ShortTexts)
  BY DEF SchemaChangeReply
<1>2. Len(r.names) \in Nat /\ \A i \in 1 .. Len(r.names) : r.names[i] \in Seq(Bytes)
  BY <1>1 DEF ShortTexts
<1>3. ws = [i \in 1 .. Len(r.names) |-> ws[i]] /\ \A i \in 1 .. Len(r.names) : ws[i] \in Seq(Bytes)
  <2>1. \A i \in 1 .. Len(r.names) : WriteString(r.names[i]) \in Seq(Bytes)
    BY <1>2, TextsWritten
  <2> QED
    BY <2>1, Zenon
<1>4. NamesBytes(r.names) = Concat(ws)
  BY DEF NamesBytes
<1> HIDE DEF ws
<1>5. Concat(ws) \in Seq(Bytes)
  BY <1>2, <1>3, PartsWritten
<1>6. ChangeArguments(r) \in Seq(Bytes)
  <2> DEFINE a == WriteIntBE(1, 2)
             b == WriteString(<<1>>)
  <2>1. a \in Seq(Bytes) /\ b \in Seq(Bytes) /\ <<>> \in Seq(Bytes)
    BY Written, NamesWritten
  <2> HIDE DEF a, b
  <2>2. a \o b \in Seq(Bytes)
    BY <2>1, JoinedBytes
  <2> QED
    BY <2>1, <2>2 DEF ChangeArguments, a, b
<1> QED
  BY <1>4, <1>5, <1>6

(* A RESULT is its kind and what belongs to that kind. *)
LEMMA ResultWritten ==
  ASSUME NEW r, ResultReply(r)
  PROVE  /\ r.kind \in DOMAIN ResultKind
         /\ WriteIntBE(ResultKind[r.kind], 4) \in Seq(Bytes)
         /\ EncodeResult(r) \in Seq(Bytes)
         /\ r.kind = "void" => EncodeResult(r) = WriteIntBE(1, 4) \o <<>>
         /\ r.kind = "rows" => RowsReply(r) /\ EncodeResult(r) = WriteIntBE(2, 4) \o EncodeRows(r)
         /\ r.kind = "set_keyspace" =>
              r.name \in ShortTexts /\ EncodeResult(r) = WriteIntBE(3, 4) \o WriteString(r.name)
         /\ r.kind = "prepared" =>
              PreparedReply(r) /\ EncodeResult(r) = WriteIntBE(4, 4) \o EncodePrepared(r)
         /\ r.kind = "schema_change" =>
              /\ SchemaChangeReply(r)
              /\ EncodeResult(r) = WriteIntBE(5, 4) \o (NamesBytes(r.names) \o ChangeArguments(r))
<1>1. /\ r.kind \in {"void", "rows", "prepared", "set_keyspace", "schema_change"}
      /\ r.kind = "rows" => RowsReply(r)
      /\ r.kind = "prepared" => PreparedReply(r)
      /\ r.kind = "set_keyspace" => r.name \in ShortTexts
      /\ r.kind = "schema_change" => SchemaChangeReply(r)
  BY DEF ResultReply
<1>2. /\ ResultKind["void"] = 1 /\ ResultKind["rows"] = 2 /\ ResultKind["set_keyspace"] = 3
      /\ ResultKind["prepared"] = 4 /\ ResultKind["schema_change"] = 5 /\ Width.Int = 4 /\ Width.Short = 2
  BY DEF ResultKind, Width
<1>3. CASE r.kind = "void"
  <2>1. EncodeResult(r) = WriteIntBE(1, 4) \o <<>>
    BY <1>2, <1>3, Zenon DEF EncodeResult
  <2>2. WriteIntBE(1, 4) \in Seq(Bytes) /\ <<>> \in Seq(Bytes)
    BY Written
  <2> DEFINE a == WriteIntBE(1, 4)
  <2> HIDE DEF a
  <2>3. a \o <<>> \in Seq(Bytes)
    BY <2>2, JoinedBytes DEF a
  <2> QED
    BY <1>2, <1>3, <2>1, <2>2, <2>3 DEF a, ResultKind
<1>4. CASE r.kind = "rows"
  <2> DEFINE a == WriteIntBE(2, 4)
             b == EncodeRows(r)
  <2>1. EncodeResult(r) = a \o b
    BY <1>2, <1>4, Zenon DEF EncodeResult
  <2>2. a \in Seq(Bytes) /\ b \in Seq(Bytes)
    BY <1>1, <1>4, Written, RowsReplyWritten
  <2> HIDE DEF a, b
  <2>3. a \o b \in Seq(Bytes)
    BY <2>2, JoinedBytes
  <2> QED
    BY <1>1, <1>2, <1>4, <2>1, <2>2, <2>3 DEF a, b, ResultKind
<1>5. CASE r.kind = "set_keyspace"
  <2> DEFINE a == WriteIntBE(3, 4)
             b == WriteString(r.name)
  <2>1. EncodeResult(r) = a \o b
    BY <1>2, <1>5, Zenon DEF EncodeResult
  <2>2. a \in Seq(Bytes) /\ b \in Seq(Bytes)
    BY <1>1, <1>5, Written, TextsWritten DEF ShortTexts
  <2> HIDE DEF a, b
  <2>3. a \o b \in Seq(Bytes)
    BY <2>2, JoinedBytes
  <2> QED
    BY <1>1, <1>2, <1>5, <2>1, <2>2, <2>3 DEF a, b, ResultKind
<1>6. CASE r.kind = "prepared"
  <2> DEFINE a == WriteIntBE(4, 4)
             b == EncodePrepared(r)
  <2>1. EncodeResult(r) = a \o b
    BY <1>2, <1>6, Zenon DEF EncodeResult
  <2>2. a \in Seq(Bytes) /\ b \in Seq(Bytes)
    BY <1>1, <1>6, Written, PreparedReplyWritten
  <2> HIDE DEF a, b
  <2>3. a \o b \in Seq(Bytes)
    BY <2>2, JoinedBytes
  <2> QED
    BY <1>1, <1>2, <1>6, <2>1, <2>2, <2>3 DEF a, b, ResultKind
<1>7. CASE r.kind = "schema_change"
  <2> DEFINE a == WriteIntBE(5, 4)
             b == NamesBytes(r.names)
             c == ChangeArguments(r)
             d == b \o c
  <2>1. EncodeResult(r) = a \o d
    BY <1>2, <1>7, Zenon DEF EncodeResult, NamesBytes, ChangeArguments
  <2>2. a \in Seq(Bytes) /\ b \in Seq(Bytes) /\ c \in Seq(Bytes)
    BY <1>1, <1>7, Written, ChangeWritten
  <2> HIDE DEF a, b, c
  <2>3. d \in Seq(Bytes)
    BY <2>2, JoinedBytes
  <2> HIDE DEF d
  <2>4. a \o d \in Seq(Bytes)
    BY <2>2, <2>3, JoinedBytes
  <2> QED
    BY <1>1, <1>2, <1>7, <2>1, <2>2, <2>4 DEF a, b, c, d, ResultKind
<1> QED
  BY <1>1, <1>3, <1>4, <1>5, <1>6, <1>7

(* The options of SUPPORTED. *)
OptionBytes(o) == WriteString(o[1]) \o WriteList(o[2], WriteString)
OptionsBytes(os) == WriteIntBE(Len(os), 2) \o Concat([i \in 1 .. Len(os) |-> OptionBytes(os[i])])

(* An option of SUPPORTED is written as bytes. *)
LEMMA OptionWritten ==
  ASSUME NEW o \in ShortTexts \X Seq(ShortTexts)
  PROVE  OptionBytes(o) \in Seq(Bytes) /\ Len(OptionBytes(o)) > 0
<1> DEFINE a == WriteString(o[1])
           b == WriteList(o[2], WriteString)
<1>1. o[1] \in Seq(Bytes) /\ o[2] \in Seq(ShortTexts)
  BY DEF ShortTexts
<1>2. a \in Seq(Bytes) /\ Len(a) >= 2
  BY <1>1, TextsWritten
<1>3. b \in Seq(Bytes)
  BY <1>1, StringListWritten
<1>4. OptionBytes(o) = a \o b
  BY DEF OptionBytes
<1> HIDE DEF a, b
<1>5. a \o b \in Seq(Bytes) /\ Len(a \o b) = Len(a) + Len(b) /\ Len(a) \in Nat /\ Len(b) \in Nat
  BY <1>2, <1>3, Joined
<1>6. Len(a) + Len(b) > 0
  BY <1>2, <1>5
<1> QED
  BY <1>4, <1>5, <1>6, Zenon

(* The options of SUPPORTED are written as bytes. *)
LEMMA OptionsWritten ==
  ASSUME NEW r, SupportedReply(r)
  PROVE  OptionsBytes(r.options) \in Seq(Bytes)
<1> DEFINE os == r.options
           ws == [i \in 1 .. Len(os) |-> OptionBytes(os[i])]
           c == WriteIntBE(Len(os), 2)
<1>1. os \in Seq(ShortTexts \X Seq(ShortTexts))
  BY DEF SupportedReply
<1> HIDE DEF os
<1>2. Len(os) \in Nat /\ \A i \in 1 .. Len(os) : os[i] \in ShortTexts \X Seq(ShortTexts)
  BY <1>1
<1>3. ws = [i \in 1 .. Len(os) |-> ws[i]] /\ \A i \in 1 .. Len(os) : ws[i] \in Seq(Bytes)
  <2>1. \A i \in 1 .. Len(os) : OptionBytes(os[i]) \in Seq(Bytes)
    BY <1>2, OptionWritten
  <2> QED
    BY <2>1, Zenon
<1>4. OptionsBytes(os) = c \o Concat(ws)
  BY DEF OptionsBytes
<1>5. c \in Seq(Bytes)
  BY <1>2, Written
<1> HIDE DEF ws, c
<1>6. Concat(ws) \in Seq(Bytes)
  BY <1>2, <1>3, PartsWritten
<1> QED
  BY <1>4, <1>5, <1>6, JoinedBytes DEF os

(* The body of an answer. *)
LEMMA ReplyWritten ==
  ASSUME NEW r \in Replies
  PROVE  /\ r.op \in {"error", "ready", "authenticate", "supported", "result"}
         /\ EncodeReply(r) \in Seq(Bytes)
         /\ r.op = "error" =>
              /\ r.code \in 0 .. IntLimit - 1
              /\ EncodeReply(r) = WriteIntBE(r.code, 4) \o WriteString(<<1, 2>>)
         /\ r.op = "ready" => EncodeReply(r) = <<>>
         /\ r.op = "authenticate" => EncodeReply(r) = WriteString(<<1>>)
         /\ r.op = "supported" => SupportedReply(r) /\ EncodeReply(r) = OptionsBytes(r.options)
         /\ r.op = "result" => ResultReply(r) /\ EncodeReply(r) = EncodeResult(r)
<1>1. \/ r.op = "error" /\ r.code \in 0 .. IntLimit - 1
      \/ r.op \in {"ready", "authenticate"}
      \/ r.op = "supported" /\ SupportedReply(r)
      \/ r.op = "result" /\ ResultReply(r)
  BY RepliesAssumption
<1>2. CASE r.op = "error" /\ r.code \in 0 .. IntLimit - 1
  <2> DEFINE a == WriteIntBE(r.code, 4)
             b == WriteString(<<1, 2>>)
  <2>1. EncodeReply(r) = a \o b
    BY <1>2 DEF EncodeReply, Width
  <2>2. a \in Seq(Bytes) /\ b \in Seq(Bytes)
    <3>1. r.code \in Int
      BY <1>2, Limits
    <3> QED
      BY <3>1, Written, NamesWritten
  <2> HIDE DEF a, b
  <2>3. a \o b \in Seq(Bytes)
    BY <2>2, JoinedBytes
  <2> QED
    BY <1>2, <2>1, <2>3 DEF a, b
<1>3. CASE r.op \in {"ready", "authenticate"}
  <2>1. <<>> \in Seq(Bytes) /\ WriteString(<<1>>) \in Seq(Bytes)
    BY NamesWritten
  <2> QED
    BY <1>3, <2>1 DEF EncodeReply
<1>4. CASE r.op = "supported" /\ SupportedReply(r)
  <2>1. EncodeReply(r) = OptionsBytes(r.options)
    BY <1>4, Zenon DEF EncodeReply, OptionsBytes, OptionBytes, WriteList, Width
  <2> QED
    BY <1>4, <2>1, OptionsWritten
<1>5. CASE r.op = "result" /\ ResultReply(r)
  <2>1. EncodeReply(r) = EncodeResult(r)
    BY <1>5 DEF EncodeReply
  <2> QED
    BY <1>5, <2>1, ResultWritten
<1> QED
  BY <1>1, <1>2, <1>3, <1>4, <1>5

-----------------------------------------------------------------------------
(* The frame of an answer, and what arrives of it.                         *)

(* What a node answers, before it is compressed, and the flags of its frame. *)
Told(r, warned) == (IF warned THEN WriteList(<<Warning>>, WriteString) ELSE <<>>) \o EncodeReply(r)
AnswerFlags(warned, packed) == (IF warned THEN 8 ELSE 0) + (IF packed THEN 1 ELSE 0)

(* What a node answers is made of bytes, and its length fits the header even
   with a warning and compressed. *)
LEMMA ToldIs ==
  ASSUME NEW r \in Replies, NEW warned \in BOOLEAN
  PROVE  /\ Told(r, warned) \in Seq(Bytes) /\ Len(Told(r, warned)) + 5 < IntLimit
         /\ ~warned => Told(r, warned) = EncodeReply(r)
         /\ WriteList(<<Warning>>, WriteString) \in Seq(Bytes)
         /\ warned => Told(r, warned) = WriteList(<<Warning>>, WriteString) \o EncodeReply(r)
<1> DEFINE w == WriteList(<<Warning>>, WriteString)
           e == EncodeReply(r)
<1>1. w \in Seq(Bytes)
  <2>1. Warning \in ShortTexts
    BY ExchangeAssumption
  <2>2. <<Warning>> \in Seq(ShortTexts)
    BY <2>1
  <2> QED
    BY <2>2, StringListWritten
<1>2. e \in Seq(Bytes)
  BY ReplyWritten
<1>3. Len(e) + Len(w) + 5 < IntLimit
  BY RepliesAssumption
<1>4. Len(e) \in Nat /\ Len(w) \in Nat /\ IntLimit \in Nat
  BY <1>1, <1>2, Limits
<1> HIDE DEF w, e
<1>5. <<>> \o e = e
  BY <1>2
<1>6. w \o e \in Seq(Bytes) /\ Len(w \o e) = Len(w) + Len(e)
  BY <1>1, <1>2, Joined
<1>7. /\ ~warned => Told(r, warned) = e
      /\ warned => Told(r, warned) = w \o e
  BY <1>5, Zenon DEF Told, w, e
<1>8. Len(w) + Len(e) + 5 < IntLimit /\ Len(e) + 5 < IntLimit
  BY <1>3, <1>4
<1>9. CASE warned
  BY <1>1, <1>6, <1>7, <1>8, <1>9, Zenon DEF w, e
<1>10. CASE ~warned
  BY <1>1, <1>2, <1>7, <1>8, <1>10, Zenon DEF w, e
<1> QED
  BY <1>9, <1>10

(* The frame of an answer is a header and what was told. *)
LEMMA AnswerFramed ==
  ASSUME NEW r \in Replies, NEW id, NEW warned \in BOOLEAN, NEW packed \in BOOLEAN
  PROVE  /\ NodeFrame(r, id, warned, packed) =
              FrameOf(MessageDirection.response, AnswerFlags(warned, packed), id, Opcode[r.op],
                      Packed(Told(r, warned), packed))
         /\ AnswerFlags(warned, packed) \in Bytes
         /\ Opcode[r.op] \in ResponseOpcodes
<1>1. FrameFlag.warning = 8 /\ FrameFlag.compression = 1
  BY DEF FrameFlag
<1>2. NodeFrame(r, id, warned, packed) =
        FrameOf(MessageDirection.response, AnswerFlags(warned, packed), id, Opcode[r.op],
                Packed(Told(r, warned), packed))
  BY <1>1, Zenon DEF NodeFrame, FrameOf, AnswerFlags, Told, Packed
<1>3. AnswerFlags(warned, packed) \in {0, 1, 8, 9}
  BY DEF AnswerFlags
<1>4. Opcode[r.op] \in ResponseOpcodes
  BY ReplyWritten DEF ResponseOpcodes, Opcode
<1> QED
  BY <1>2, <1>3, <1>4, Codes

(* A stream id fits the header. *)
LEMMA StreamsFit ==
  ASSUME NEW id \in Streams \cup {0}
  PROVE  id \in Nat /\ id < (Base \div 2) * Base
<1> DEFINE top == (Base \div 2) * Base
<1>1. top \in Nat /\ top > 0
  <2> DEFINE half == Base \div 2
  <2>1. half \in Nat /\ half > 0 /\ Base \in Nat /\ Base > 0
    BY Limits
  <2> HIDE DEF half
  <2>2. half * Base \in Nat /\ half * Base > 0
    BY <2>1
  <2> QED
    BY <2>2 DEF half
<1>2. id \in Streams => id \in 0 .. top - 1
  BY ExchangeAssumption
<1> HIDE DEF top
<1>3. id \in Nat /\ id < top
  BY <1>1, <1>2
<1> QED
  BY <1>3 DEF top

(* What arrives of an answer. *)
Arrived(r, id, warned, packed, cut) == SubSeq(NodeFrame(r, id, warned, packed), 1, cut)
Whole(r, id, warned, packed) == Len(NodeFrame(r, id, warned, packed))

(* What arrives of an answer is made of bytes and the mark of LZ4. *)
LEMMA AnswerCells ==
  ASSUME NEW r \in Replies, NEW id \in Streams \cup {0}, NEW warned \in BOOLEAN, NEW packed \in BOOLEAN,
         NEW cut \in 0 .. Whole(r, id, warned, packed)
  PROVE  /\ Arrived(r, id, warned, packed, cut) \in Seq(Cells)
<1> DEFINE w == NodeFrame(r, id, warned, packed)
           b == Packed(Told(r, warned), packed)
<1>1. id \in Nat /\ id < (Base \div 2) * Base
  BY StreamsFit
<1>2. b \in Seq(Cells) /\ Len(b) < IntLimit
  <2> DEFINE t == Told(r, warned)
  <2>1. t \in Seq(Bytes) /\ Len(t) + 5 < IntLimit
    BY ToldIs
  <2> HIDE DEF t
  <2>2. b \in Seq(Cells) /\ Len(b) = IF packed THEN 4 + (1 + Len(t)) ELSE Len(t)
    BY <2>1, PackedIs DEF t
  <2>3. Len(t) \in Nat
    BY <2>1
  <2> HIDE DEF b
  <2> QED
    BY <2>1, <2>2, <2>3, Limits
<1> HIDE DEF b
<1>3. w \in Seq(Cells)
  <2> DEFINE version == MessageDirection.response
             flags == AnswerFlags(warned, packed)
             op == Opcode[r.op]
  <2>1. w = FrameOf(version, flags, id, op, b)
    BY AnswerFramed DEF b
  <2>2. version \in Bytes /\ flags \in Bytes /\ op \in Bytes
    BY AnswerFramed, Codes DEF ResponseOpcodes, Opcode
  <2> HIDE DEF version, flags, op
  <2>3. FrameReads(FrameOf(version, flags, id, op, b), version, flags, id, op, b)
    BY <1>1, <1>2, <2>2, FrameRead
  <2> QED
    BY <2>1, <2>3, Zenon DEF FrameReads
<1>4. cut \in 0 .. Len(w)
  BY DEF Whole
<1> HIDE DEF w
<1>5. SubSeq(w, 1, cut) \in Seq(Cells)
  BY <1>3, <1>4
<1> QED
  BY <1>5 DEF Arrived, w

(* What the driver makes of an opcode and a body it has parsed. *)
Judged(op, opcode, m) == Conclude(op, [header |-> [opcode |-> opcode], body |-> m])

(* What a caller is given depends on the opcode and the parsed body alone. *)
LEMMA ConcludeJudges ==
  ASSUME NEW op, NEW f
  PROVE  Conclude(op, f) = Judged(op, f.header.opcode, f.body)
<1> DEFINE o == f.header.opcode
           m == f.body
           g == [header |-> [opcode |-> o], body |-> m]
<1>1. g.header.opcode = o /\ g.body = m
  <2> HIDE DEF o, m
  <2> QED
    OBVIOUS
<1> HIDE DEF g
<1>2. Conclude(op, f) = Conclude(op, g)
  BY <1>1, Zenon DEF Conclude
<1> QED
  BY <1>2, Zenon DEF Judged, g

(* A body that could not be parsed is an exception. *)
LEMMA JudgedThrow ==
  ASSUME NEW op, NEW opcode, NEW m, m.st = "throw"
  PROVE  Judged(op, opcode, m) = Throw("read")
<1> DEFINE g == [header |-> [opcode |-> opcode], body |-> m]
<1>1. g.header.opcode = opcode /\ g.body = m
  OBVIOUS
<1> HIDE DEF g
<1>2. Conclude(op, g) = Throw("read")
  BY <1>1 DEF Conclude
<1> QED
  BY <1>2 DEF Judged, g

(* What the driver concludes from what arrives: an exception, or that the
   handshake is done, or all of the answer arrived and what it told is judged. *)
AllArrived(r, id, warned, packed, comp, cut) == cut = Whole(r, id, warned, packed) /\ packed = comp
Reading(r, id, warned, packed, comp, cut) == ReadFrame(Arrived(r, id, warned, packed, cut), comp)
Parsed(r, warned) == DoParseBody(Opcode[r.op], Told(r, warned))

(* Either it is refused, or it is a READY, or all of it arrived. *)
Concluding(op, r, id, warned, packed, comp, cut) ==
  LET f == Reading(r, id, warned, packed, comp, cut)
      o == Conclude(op, f)
  IN  /\ \/ o = Throw("read")
         \/ r.op = "ready" /\ o = Judged(op, Opcode.ready, [st |-> "ok"])
         \/ AllArrived(r, id, warned, packed, comp, cut)
      /\ AllArrived(r, id, warned, packed, comp, cut) =>
           /\ f.header.stream = id
           /\ o = Judged(op, Opcode[r.op], Parsed(r, warned))

(* The cut answer that is not refused is an empty one: ReadFrame throws unless
   all of the frame arrived as agreed, or it is the READY of a handshake. *)
LEMMA Concluded ==
  ASSUME NEW op, NEW r \in Replies, NEW id \in Streams \cup {0}, NEW warned \in BOOLEAN,
         NEW packed \in BOOLEAN, NEW comp \in BOOLEAN, packed => comp,
         NEW cut \in 0 .. Whole(r, id, warned, packed)
  PROVE  Concluding(op, r, id, warned, packed, comp, cut)
<1> DEFINE w == NodeFrame(r, id, warned, packed)
           text == Told(r, warned)
           opcode == Opcode[r.op]
           flags == AnswerFlags(warned, packed)
           f == ReadFrame(SubSeq(w, 1, cut), comp)
           all == cut = Len(w) /\ packed = comp
<1>1. id \in Nat /\ id < (Base \div 2) * Base
  BY StreamsFit
<1>2. text \in Seq(Bytes) /\ Len(text) + 5 < IntLimit
  BY ToldIs
<1>3. /\ w = FrameOf(MessageDirection.response, flags, id, opcode, Packed(text, packed))
      /\ flags \in Bytes /\ opcode \in ResponseOpcodes
  BY AnswerFramed
<1>4. cut \in 0 .. Len(w)
  BY DEF Whole
<1>5. opcode = Opcode.ready => r.op = "ready"
  BY ReplyWritten DEF Opcode
<1>6. /\ Reading(r, id, warned, packed, comp, cut) = f
      /\ AllArrived(r, id, warned, packed, comp, cut) <=> all
      /\ Parsed(r, warned) = DoParseBody(opcode, text)
  BY DEF Reading, Arrived, AllArrived, Whole, Parsed
<1> HIDE DEF w, text, opcode, flags
<1>7. /\ \/ f.body.st = "throw"
         \/ opcode = Opcode.ready /\ f.header.opcode = opcode /\ f.body = [st |-> "ok"]
         \/ all
      /\ all => /\ f.header.opcode = opcode /\ f.header.stream = id
                /\ f.body = DoParseBody(opcode, text)
  BY <1>1, <1>2, <1>3, <1>4, Received
<1> HIDE DEF f, all
<1>8. Conclude(op, f) = Judged(op, f.header.opcode, f.body)
  BY ConcludeJudges
<1>9. f.body.st = "throw" => Conclude(op, f) = Throw("read")
  BY <1>8, JudgedThrow
<1>10. /\ \/ Conclude(op, f) = Throw("read")
          \/ r.op = "ready" /\ Conclude(op, f) = Judged(op, Opcode.ready, [st |-> "ok"])
          \/ all
       /\ all => /\ f.header.stream = id
                 /\ Conclude(op, f) = Judged(op, opcode, DoParseBody(opcode, text))
  BY <1>5, <1>7, <1>8, <1>9, Zenon
<1> QED
  BY <1>6, <1>10, Zenon DEF Concluding, opcode

-----------------------------------------------------------------------------
(* The inductive invariant.                                                *)

CallersOps == {"query", "execute", "prepare", "batch"}
Given(op, f) == [outcome |-> Conclude(op, f), stream |-> f.header.stream, st |-> f.body.st]

\* What a caller is given is what ReadFrame makes of some first part of the
\* frame of the answer, and the rows are taken out of that.
Answered ==
  LET size == Whole(reply.r, stream, reply.warned, reply.packed)
  IN  /\ request.op \in CallersOps \cup {"options", "startup"}
      /\ IF phase = "open" THEN request \in [op : CallersOps] ELSE request \in Askable
      /\ reply # None
      /\ reply.r \in Answers(request.op)
      /\ reply.warned \in BOOLEAN /\ reply.packed \in BOOLEAN
      /\ reply.packed => compressor
      /\ \E cut \in 0 .. size :
           /\ reply.whole = (cut = size)
           /\ stage = "answered" =>
                wire = Arrived(reply.r, stream, reply.warned, reply.packed, cut)
           /\ stage # "answered" =>
                /\ wire = <<>>
                /\ got = Given(request.op,
                               Reading(reply.r, stream, reply.warned, reply.packed, compressor, cut))
      /\ stage = "read" => /\ got.outcome.what = "rows" /\ access.types \in RowTypes
                           /\ access.result = AsContainer(got.outcome.v, access.types)
      /\ stage = "field" => /\ got.outcome.what = "rows" /\ ~Empty(got.outcome)
                            /\ \E type \in {"int", "bigint", "text"} :
                                 /\ access.types = <<type>>
                                 /\ access.result = AsSingleField(got.outcome.v, type)

(* The inductive invariant. *)
IInv ==
  /\ phase \in {"new", "greeted", "open"} /\ offered \in BOOLEAN /\ compressor \in BOOLEAN
  /\ stage \in {"idle", "sent", "answered", "done", "read", "field"}
  /\ stream \in Streams \cup {0}
  /\ compressor => phase = "open" /\ UseCompression
  /\ stage = "idle" => request = None /\ reply = None /\ wire = <<>>
  /\ stage = "sent" => /\ request \in Askable /\ reply = None
                       /\ wire = Serialize(request, stream, compressor)
  /\ stage \notin {"idle", "sent"} => Answered

(* What may be asked at each point of a connection. *)
LEMMA AskableIs ==
  ASSUME phase \in {"new", "greeted", "open"}, offered \in BOOLEAN, NEW m \in Askable
  PROVE  /\ m \in Asking /\ m # None
         /\ phase = "open" => m.op \in CallersOps
         /\ phase # "open" => m.op \in {"options", "startup"}
         /\ phase = "greeted" => (Len(m.options) = 2 => UseCompression)
<1>1. CASE phase = "new"
  BY <1>1 DEF Askable, Asking, None
<1>2. CASE phase = "open"
  <2>1. m \in Requests
    BY <1>2 DEF Askable
  <2>2. m \in Asks
    BY <2>1, RequestsAssumption
  <2>3. m.op \in CallersOps /\ m # None
    BY <2>2 DEF Asks, CallersOps, None
  <2> QED
    BY <1>2, <2>1, <2>3 DEF Asking
<1>3. CASE phase = "greeted"
  <2>1. CASE ~(UseCompression /\ offered)
    <3>1. m = [op |-> "startup", options |-> <<Version>>]
      BY <1>3, <2>1 DEF Askable
    <3>2. m.options = <<Version>> /\ m.op = "startup" /\ m # None /\ m \in Startups
      BY <3>1 DEF None, Startups, StartupOptions
    <3>3. Len(m.options) = 1
      BY <3>2
    <3> QED
      BY <1>3, <3>2, <3>3 DEF Asking
  <2>2. CASE UseCompression /\ offered
    <3>1. PICK o \in {<<Version, Lz4Option>>, <<Lz4Option, Version>>} :
            m = [op |-> "startup", options |-> o]
      BY <1>3, <2>2 DEF Askable
    <3>2. o \in StartupOptions
      BY <3>1 DEF StartupOptions
    <3>3. m.op = "startup" /\ m # None /\ m \in Startups
      <4> HIDE DEF StartupOptions
      <4> QED
        BY <3>1, <3>2 DEF None, Startups
    <3> QED
      BY <1>3, <2>2, <3>3 DEF Asking
  <2> QED
    BY <2>1, <2>2
<1> QED
  BY <1>1, <1>2, <1>3

(* The invariant holds in the initial state. *)
LEMMA Initially ==
  Init => IInv
<1> SUFFICES ASSUME Init PROVE IInv
  OBVIOUS
<1> QED
  BY DEF Init, IInv

(* SendMessage keeps the invariant. *)
LEMMA SendKeeps ==
  ASSUME IInv, NEW m \in Askable, NEW id \in Streams \cup {0}, Send(m, id)
  PROVE  IInv'
<1>1. Askable' = Askable
  BY DEF Send, Askable
<1> QED
  BY <1>1 DEF Send, IInv

(* An answer of the node, cut anywhere, keeps the invariant. *)
LEMMA AnswerKeeps ==
  ASSUME IInv, NEW r \in Replies, NEW warned \in BOOLEAN, NEW packed \in BOOLEAN,
         Answer(r, warned, packed)
  PROVE  IInv'
<1>1. /\ stage = "sent" /\ stage' = "answered" /\ r \in Answers(request.op) /\ (packed => compressor)
      /\ request' = IF phase = "open" THEN [op |-> request.op] ELSE request
      /\ UNCHANGED <<phase, offered, compressor, stream, got, access>>
  BY DEF Answer
<1> DEFINE size == Whole(r, stream, warned, packed)
<1>2. PICK cut \in 0 .. size :
        /\ wire' = Arrived(r, stream, warned, packed, cut)
        /\ reply' = [r |-> r, warned |-> warned, packed |-> packed, whole |-> cut = size]
  BY Zenon DEF Answer, Arrived, Whole
<1>3. /\ request \in Askable /\ phase \in {"new", "greeted", "open"} /\ offered \in BOOLEAN
  BY <1>1 DEF IInv
<1>4. /\ phase = "open" => request.op \in CallersOps
      /\ phase # "open" => request.op \in {"options", "startup"}
  BY <1>3, AskableIs
<1>5. Askable' = Askable
  BY <1>1 DEF Askable
<1> HIDE DEF size
<1>6. /\ reply'.r = r /\ reply'.warned = warned /\ reply'.packed = packed
      /\ reply'.whole = (cut = size) /\ reply' # None
  BY <1>2 DEF None
<1>7. request'.op = request.op
  BY <1>1
<1>8. Answered'
  <2>1. /\ request'.op \in CallersOps \cup {"options", "startup"}
        /\ IF phase' = "open" THEN request' \in [op : CallersOps] ELSE request' \in Askable'
    BY <1>1, <1>3, <1>4, <1>5
  <2>2. reply'.r \in Answers(request'.op)
    BY <1>1, <1>6, <1>7
  <2>3. size = Whole(reply'.r, stream', reply'.warned, reply'.packed)
    BY <1>1, <1>6 DEF size
  <2>4. wire' = Arrived(reply'.r, stream', reply'.warned, reply'.packed, cut)
    BY <1>1, <1>2, <1>6
  <2>5. stage' = "answered" /\ "answered" # "read" /\ "answered" # "field" /\ cut \in 0 .. size
    BY <1>1
  <2> QED
    BY <1>1, <1>6, <2>1, <2>2, <2>3, <2>4, <2>5, Zenon DEF Answered
<1> QED
  BY <1>1, <1>8 DEF IInv

(* ReadFrame and what the caller makes of it keep the invariant. *)
LEMMA ReceiveKeeps ==
  ASSUME IInv, Receive
  PROVE  IInv'
<1>1. /\ stage = "answered" /\ stage' = "done" /\ wire' = <<>>
      /\ UNCHANGED <<phase, offered, compressor, request, stream, reply, access>>
      /\ got' = Given(request.op, ReadFrame(wire, compressor))
  BY Zenon DEF Receive, Given
<1>2. Answered
  BY <1>1 DEF IInv
<1>3. Askable' = Askable
  BY <1>1 DEF Askable
<1> DEFINE size == Whole(reply.r, stream, reply.warned, reply.packed)
<1>4. PICK cut \in 0 .. size :
        /\ reply.whole = (cut = size)
        /\ wire = Arrived(reply.r, stream, reply.warned, reply.packed, cut)
  BY <1>1, <1>2, Zenon DEF Answered
<1>5. got' = Given(request.op, Reading(reply.r, stream, reply.warned, reply.packed, compressor, cut))
  BY <1>1, <1>4, Zenon DEF Reading
<1> HIDE DEF size
<1>6. Answered'
  <2>1. "done" # "answered" /\ "done" # "read" /\ "done" # "field"
    OBVIOUS
  <2> QED
    BY <1>1, <1>2, <1>3, <1>4, <1>5, <2>1, Zenon DEF Answered, size
<1> QED
  BY <1>1, <1>6 DEF IInv

(* Reading rows or a field out of a ResultSet keeps the invariant. *)
LEMMA ReadKeeps ==
  ASSUME IInv, \/ \E types \in RowTypes : ReadRows(types)
               \/ \E type \in {"int", "bigint", "text"} : ReadField(type)
  PROVE  IInv'
<1>1. /\ stage = "done" /\ stage' \in {"read", "field"}
      /\ got.outcome.what = "rows" /\ ~Empty(got.outcome)
      /\ UNCHANGED <<phase, offered, compressor, request, stream, wire, reply, got>>
  BY DEF ReadRows, ReadField
<1>2. Answered
  BY <1>1 DEF IInv
<1>3. Askable' = Askable
  BY <1>1 DEF Askable
<1>4. stage' = "read" => \E types \in RowTypes :
        access' = [types |-> types, result |-> AsContainer(got.outcome.v, types)]
  BY DEF ReadRows, ReadField
<1>5. stage' = "read" => /\ access'.types \in RowTypes
                         /\ access'.result = AsContainer(got.outcome.v, access'.types)
  BY <1>4
<1>8. stage' = "field" => \E type \in {"int", "bigint", "text"} :
        access' = [types |-> <<type>>, result |-> AsSingleField(got.outcome.v, type)]
  BY DEF ReadRows, ReadField
<1>9. stage' = "field" => \E type \in {"int", "bigint", "text"} :
        access'.types = <<type>> /\ access'.result = AsSingleField(got.outcome.v, type)
  BY <1>8
<1> DEFINE size == Whole(reply.r, stream, reply.warned, reply.packed)
<1>6. PICK cut \in 0 .. size :
        /\ reply.whole = (cut = size)
        /\ wire = <<>>
        /\ got = Given(request.op, Reading(reply.r, stream, reply.warned, reply.packed, compressor, cut))
  <2>1. stage # "answered"
    BY <1>1
  <2> QED
    BY <1>2, <2>1, Zenon DEF Answered
<1> HIDE DEF size
<1>7. Answered'
  <2>1. stage' # "answered"
    BY <1>1
  <2> QED
    BY <1>1, <1>2, <1>3, <1>5, <1>6, <1>9, <2>1, Zenon DEF Answered, size
<1> QED
  BY <1>1, <1>7 DEF IInv

(* Going on to the next request or to a new connection keeps the invariant. *)
LEMMA FinishKeeps ==
  ASSUME IInv, Finish
  PROVE  IInv'
<1> DEFINE what == got.outcome.what
           next == CASE ~reply.whole \/ got.st # "ok" -> "new"
                     [] reply.whole /\ phase = "open" /\ got.st = "ok" -> "open"
                     [] reply.whole /\ phase = "new" /\ what = "options" -> "greeted"
                     [] reply.whole /\ phase = "greeted" /\ what = "ready" -> "open"
                     [] OTHER -> "new"
<1>1. /\ stage \in {"done", "read", "field"}
      /\ phase' = next
      /\ offered' = (next = "greeted" /\ OffersLz4(got.outcome.v))
      /\ compressor' = CompressorOf(next)
      /\ stage' = "idle" /\ request' = None /\ stream' = 0
      /\ reply' = None /\ got' = None /\ access' = None
      /\ UNCHANGED wire
  BY Zenon DEF Finish
<1>2. Answered /\ phase \in {"new", "greeted", "open"} /\ offered \in BOOLEAN
      /\ compressor \in BOOLEAN /\ (compressor => UseCompression)
  BY <1>1 DEF IInv
<1>3. wire = <<>>
  BY <1>1, <1>2 DEF Answered
<1>4. next \in {"new", "greeted", "open"} /\ (next = "open" => phase \in {"open", "greeted"})
  BY <1>2
<1> HIDE DEF next
<1>5. CompressorOf(next) \in BOOLEAN
  BY DEF CompressorOf
<1>6. ASSUME CompressorOf(next) PROVE next = "open" /\ UseCompression
  <2>1. next = "open" /\ (phase = "open" => compressor) /\ (phase = "greeted" => Len(request.options) = 2)
    BY <1>6 DEF CompressorOf
  <2>2. CASE phase = "open"
    BY <1>2, <2>1, <2>2
  <2>3. CASE phase = "greeted"
    <3>1. request \in Askable
      BY <1>2, <2>3 DEF Answered
    <3> QED
      BY <1>2, <2>1, <2>3, <3>1, AskableIs
  <2> QED
    BY <1>4, <2>1, <2>2, <2>3
<1>7. offered' \in BOOLEAN
  BY <1>1
<1> QED
  BY <1>1, <1>3, <1>4, <1>5, <1>6, <1>7 DEF IInv

(* Every step keeps the invariant. *)
LEMMA Inductive ==
  IInv /\ [Next]_vars => IInv'
<1> SUFFICES ASSUME IInv, [Next]_vars PROVE IInv'
  OBVIOUS
<1>1. CASE UNCHANGED vars
  <2>1. Askable' = Askable
    BY <1>1 DEF vars, Askable
  <2>2. Answered' = Answered
    BY <1>1, <2>1, Zenon DEF vars, Answered
  <2> QED
    BY <1>1, <2>1, <2>2 DEF vars, IInv
<1>2. CASE \E m \in Askable, id \in Streams \cup {0} : Send(m, id)
  BY <1>2, SendKeeps
<1>3. CASE \E r \in Replies, warned, packed \in BOOLEAN : Answer(r, warned, packed)
  BY <1>3, AnswerKeeps
<1>4. CASE Receive
  BY <1>4, ReceiveKeeps
<1>5. CASE \/ \E types \in RowTypes : ReadRows(types)
           \/ \E type \in {"int", "bigint", "text"} : ReadField(type)
  BY <1>5, ReadKeeps
<1>6. CASE Finish
  BY <1>6, FinishKeeps
<1> QED
  BY <1>1, <1>2, <1>3, <1>4, <1>5, <1>6 DEF Next

(* The invariant holds in every state of every behaviour. *)
LEMMA InvariantHolds ==
  Spec => []IInv
  BY Initially, Inductive, PTL DEF Spec

-----------------------------------------------------------------------------
(* Requests are delimited.                                                 *)

(* The header of every request says what it should of what follows it. *)
LEMMA RequestFramed ==
  ASSUME NEW m \in Asking, NEW id \in Streams \cup {0}, NEW comp \in BOOLEAN
  PROVE  FrameReads(Serialize(m, id, comp), MessageDirection.request, Flags(comp), id, Opcode[m.op],
                    Packed(SerializeBody(m), comp))
<1> DEFINE body == SerializeBody(m)
           b == Packed(body, comp)
           version == MessageDirection.request
           flags == Flags(comp)
           op == Opcode[m.op]
<1>1. id \in Nat /\ id < (Base \div 2) * Base
  BY StreamsFit
<1>2. body \in Seq(Bytes) /\ Len(body) + 5 < IntLimit /\ m.op \in DOMAIN Opcode
  BY BodyFits
<1>3. version \in Bytes /\ flags \in Bytes /\ op \in Bytes
  BY <1>2, Codes DEF Flags, FrameFlag
<1>4. Serialize(m, id, comp) = FrameOf(version, flags, id, op, b)
  BY <1>1, Framed
<1> HIDE DEF body, version, flags, op
<1>5. b \in Seq(Cells) /\ Len(b) = IF comp THEN 4 + (1 + Len(body)) ELSE Len(body)
  BY <1>2, PackedIs
<1> HIDE DEF b
<1>6. Len(b) < IntLimit
  <2>1. Len(body) \in Nat
    BY <1>2
  <2> QED
    BY <1>2, <1>5, <2>1, Limits
<1>7. FrameReads(FrameOf(version, flags, id, op, b), version, flags, id, op, b)
  BY <1>1, <1>3, <1>5, <1>6, FrameRead
<1> QED
  BY <1>4, <1>7, Zenon DEF b, body, version, flags, op

(* The invariant implies the types. *)
LEMMA TypesFollow ==
  IInv => TypeOK
<1> SUFFICES ASSUME IInv PROVE TypeOK
  OBVIOUS
<1>1. /\ phase \in {"new", "greeted", "open"} /\ offered \in BOOLEAN /\ compressor \in BOOLEAN
      /\ stage \in {"idle", "sent", "answered", "done", "read", "field"}
      /\ stream \in Streams \cup {0}
      /\ compressor => phase = "open" /\ UseCompression
  BY DEF IInv
<1>2. wire \in Seq(Cells)
  <2>1. CASE stage = "idle"
    BY <2>1 DEF IInv
  <2>2. CASE stage = "sent"
    <3>1. request \in Askable /\ wire = Serialize(request, stream, compressor)
      BY <2>2 DEF IInv
    <3>2. request \in Asking
      BY <1>1, <3>1, AskableIs
    <3> QED
      BY <1>1, <3>1, <3>2, RequestFramed, Zenon DEF FrameReads
  <2>3. CASE stage \notin {"idle", "sent"}
    <3>1. Answered
      BY <2>3 DEF IInv
    <3>2. CASE stage # "answered"
      BY <3>1, <3>2 DEF Answered
    <3>3. CASE stage = "answered"
      <4>1. /\ reply.r \in Answers(request.op) /\ reply.warned \in BOOLEAN /\ reply.packed \in BOOLEAN
            /\ \E cut \in 0 .. Whole(reply.r, stream, reply.warned, reply.packed) :
                 wire = Arrived(reply.r, stream, reply.warned, reply.packed, cut)
        BY <3>1, <3>3, Zenon DEF Answered
      <4>2. reply.r \in Replies
        BY <4>1 DEF Answers
      <4> QED
        BY <1>1, <4>1, <4>2, AnswerCells
    <3> QED
      BY <3>2, <3>3
  <2> QED
    BY <2>1, <2>2, <2>3
<1>3. \A i \in 1 .. Len(wire) : wire[i] \in 0 .. Base
  <2>1. \A i \in 1 .. Len(wire) : wire[i] \in Cells
    BY <1>2, Elements, Zenon
  <2> QED
    BY <2>1, Zenon DEF Cells
<1>4. stage = "idle" <=> request = None
  <2>1. stage = "idle" => request = None
    BY DEF IInv
  <2>2. stage = "sent" => request # None
    BY <1>1, AskableIs DEF IInv
  <2>3. stage \notin {"idle", "sent"} => request # None
    <3>1. SUFFICES ASSUME stage \notin {"idle", "sent"} PROVE request # None
      OBVIOUS
    <3>2. phase = "open" => request \in [op : CallersOps]
      BY <3>1 DEF IInv, Answered
    <3>3. phase # "open" => request \in Askable
      BY <3>1 DEF IInv, Answered
    <3>4. phase = "open" => request # None
      BY <3>2 DEF None
    <3> QED
      BY <1>1, <3>3, <3>4, AskableIs
  <2> QED
    BY <2>1, <2>2, <2>3
<1>5. stage \in {"answered", "done", "read", "field"} <=> reply # None
  BY <1>1 DEF IInv, Answered
<1> QED
  BY <1>1, <1>3, <1>4, <1>5 DEF TypeOK

(* The variables of an exchange take values of their kinds, and Serialize and
   CompressorOf leave a compressor only where lz4 was agreed on. *)
THEOREM TypeCorrect == Spec => []TypeOK
  BY InvariantHolds, TypesFollow, PTL

(* The invariant implies that requests are delimited. *)
LEMMA Delimits ==
  IInv => FrameDelimited
<1> SUFFICES ASSUME IInv, stage = "sent"
             PROVE  LET header == ParseHeader(SubSeq(wire, 1, kHeaderSize))
                    IN  header.length = Len(wire) - kHeaderSize /\ header.stream = stream
  BY DEF FrameDelimited
<1>1. /\ request \in Askable /\ wire = Serialize(request, stream, compressor)
      /\ phase \in {"new", "greeted", "open"} /\ offered \in BOOLEAN /\ compressor \in BOOLEAN
      /\ stream \in Streams \cup {0}
  BY DEF IInv
<1>2. request \in Asking
  BY <1>1, AskableIs
<1> DEFINE b == Packed(SerializeBody(request), compressor)
           version == MessageDirection.request
           flags == Flags(compressor)
           op == Opcode[request.op]
           header == ParseHeader(SubSeq(wire, 1, 9))
<1>3. /\ header = [version |-> version, flags |-> flags, stream |-> stream, opcode |-> op,
                   length |-> Len(b)]
      /\ Len(wire) = 9 + Len(b) /\ Len(b) \in Nat
  BY <1>1, <1>2, RequestFramed, Zenon DEF FrameReads
<1> HIDE DEF b, version, flags, op, header
<1>4. header.length = Len(b) /\ header.stream = stream
  BY <1>3
<1>5. Len(wire) - 9 = Len(b)
  BY <1>3
<1>6. kHeaderSize = 9
  BY DEF kHeaderSize
<1> QED
  BY <1>4, <1>5, <1>6, Zenon DEF header

(* RequestMessage::Serialize delimits every frame: the length in the header is
   the number of bytes after it, for every request, compressed or not. *)
THEOREM FramesDelimited == Spec => []FrameDelimited
  BY InvariantHolds, Delimits, PTL

-----------------------------------------------------------------------------
(* What the driver concludes from an ERROR.                                *)

AnyOp == CallersOps \cup {"options", "startup"}

(* The cases of Conclude. *)
LEMMA JudgedCases ==
  ASSUME NEW op, NEW opcode, NEW m
  PROVE  Judged(op, opcode, m) =
           LET class == IF m.st = "ok" /\ opcode = Opcode.error THEN CheckError(m.code) ELSE {}
           IN  CASE m.st = "throw" -> Throw("read")
                 [] m.st = "over" -> Outcome("over", <<>>)
                 [] m.st = "ok" /\ class # {} -> Throw(CHOOSE e \in class : TRUE)
                 [] m.st = "ok" /\ class = {} ->
                      CASE op = "options" -> GetOptions(opcode, m)
                        [] op = "startup" -> IF opcode = Opcode.ready THEN Outcome("ready", <<>>)
                                             ELSE Throw("unexpected")
                        [] op \notin {"options", "startup"} /\ opcode # Opcode.result -> Throw("unexpected")
                        [] op = "prepare" /\ opcode = Opcode.result -> GetPreparedStatementId(m)
                        [] op \in {"query", "execute", "batch"} /\ opcode = Opcode.result -> GetResultSet(m)
<1> DEFINE g == [header |-> [opcode |-> opcode], body |-> m]
<1>1. g.header.opcode = opcode /\ g.body = m
  OBVIOUS
<1> HIDE DEF g
<1>2. Judged(op, opcode, m) = Conclude(op, g)
  BY DEF Judged, g
<1> QED
  BY <1>1, <1>2, Zenon DEF Conclude

(* The fields of an outcome. *)
LEMMA OutcomeIs ==
  /\ \A what, v : Outcome(what, v).what = what /\ Outcome(what, v).v = v
  /\ \A class : Throw(class).what = "throw" /\ Throw(class).class = class
  BY DEF Outcome, Throw

(* An exception on the way, or a message that was read. *)
LEMMA JudgedEarly ==
  ASSUME NEW op, NEW opcode, NEW m
  PROVE  /\ m.st = "throw" => Judged(op, opcode, m).what = "throw"
         /\ m.st = "over" => Judged(op, opcode, m).what = "over"
<1>1. /\ m.st = "throw" => Judged(op, opcode, m) = Throw("read")
      /\ m.st = "over" => Judged(op, opcode, m) = Outcome("over", <<>>)
  BY JudgedCases
<1> QED
  BY <1>1, OutcomeIs, Zenon

(* An ERROR of which code and text were read. *)
LEMMA JudgedError ==
  ASSUME NEW op \in AnyOp, NEW m, m.st = "ok"
  PROVE  /\ CheckError(m.code) # {} => /\ Judged(op, Opcode.error, m).what = "throw"
                                       /\ Judged(op, Opcode.error, m).class \in CheckError(m.code)
         /\ CheckError(m.code) = {} =>
              Judged(op, Opcode.error, m).what = IF op = "options" THEN "null" ELSE "throw"
<1> DEFINE class == CheckError(m.code)
           e == CHOOSE e \in class : TRUE
           o == Judged(op, Opcode.error, m)
<1>1. Opcode.error # Opcode.supported /\ Opcode.error # Opcode.ready /\ Opcode.error # Opcode.result
  BY DEF Opcode
<1>2. class # {} => e \in class
  BY Zenon
<1>3. CASE class # {}
  <2>1. o = Throw(e)
    BY <1>3, JudgedCases
  <2> HIDE DEF class, e, o
  <2>2. o.what = "throw" /\ o.class = e
    BY <2>1, OutcomeIs, Zenon
  <2>3. o.class \in class
    BY <1>2, <1>3, <2>2, Zenon
  <2> QED
    BY <1>3, <2>2, <2>3 DEF class, o
<1>4. CASE class = {}
  <2>1. op = "options" => o = GetOptions(Opcode.error, m)
    BY <1>4, JudgedCases
  <2>2. GetOptions(Opcode.error, m) = Outcome("null", <<>>)
    BY <1>1, Zenon DEF GetOptions
  <2>3. op = "startup" => o = Throw("unexpected")
    BY <1>1, <1>4, JudgedCases
  <2>4. op \in CallersOps => o = Throw("unexpected")
    BY <1>1, <1>4, JudgedCases DEF CallersOps
  <2> HIDE DEF o
  <2>5. /\ op = "options" => o.what = "null"
        /\ op = "startup" => o.what = "throw"
        /\ op \in CallersOps => o.what = "throw"
    <3>1. Outcome("null", <<>>).what = "null" /\ Throw("unexpected").what = "throw"
      BY OutcomeIs
    <3> QED
      BY <2>1, <2>2, <2>3, <2>4, <3>1, Zenon
  <2>6. o.what = IF op = "options" THEN "null" ELSE "throw"
    BY <2>5 DEF AnyOp, CallersOps
  <2> QED
    BY <1>4, <2>6 DEF o
<1> QED
  BY <1>3, <1>4

(* The states of the parser of an ERROR, and what it makes of a whole one. *)
LEMMA ErrorParsed ==
  ASSUME NEW r \in Replies, r.op = "error", NEW warned \in BOOLEAN
  PROVE  /\ Parsed(r, warned).st \in Ends
         /\ ~warned => Parsed(r, warned) = [st |-> "ok", code |-> r.code]
<1> DEFINE data == Told(r, warned)
           code == ReadInt(Reader(data))
           text == ReadString(code)
<1>1. Parsed(r, warned) = [st |-> text.st, code |-> IF text.st = "ok" THEN code.v ELSE 0]
  <2>1. Opcode[r.op] = Opcode.error
    OBVIOUS
  <2>2. DoParseBody(Opcode.error, data) = ParseError(Reader(data))
    BY DEF DoParseBody, Opcode
  <2> QED
    BY <2>1, <2>2, Zenon DEF Parsed, ParseError
<1>2. data \in Seq(Bytes)
  BY ToldIs
<1>3. data \in Seq(Nat) /\ Reader(data) = At(data, 0, <<>>) /\ Spans(data, 0, data, Len(data))
  <2> HIDE DEF data
  <2> QED
    BY <1>2, SpansAll
<1>4. text.st \in Ends
  <2>1. Cursor(Reader(data))
    BY <1>3, CursorAt
  <2> HIDE DEF data
  <2>2. Cursor(code)
    BY <2>1, CursorReads
  <2> HIDE DEF code
  <2>3. Cursor(text)
    BY <2>2, CursorReads
  <2> HIDE DEF text
  <2> QED
    BY <2>3, Zenon DEF Cursor
<1>5. ASSUME ~warned PROVE text.st = "ok" /\ code.v = r.code
  <2> DEFINE a == WriteIntBE(r.code, 4)
             b == WriteString(<<1, 2>>)
  <2>1. data = a \o b /\ r.code \in Ints
    <3>1. EncodeReply(r) = a \o b /\ r.code \in 0 .. IntLimit - 1
      BY ReplyWritten
    <3>2. data = a \o b
      BY <1>5, <3>1, ToldIs, Zenon
    <3>3. r.code \in Ints
      BY <3>1, Limits DEF Ints
    <3> QED
      BY <3>2, <3>3
  <2>2. a \in Seq(Bytes) /\ b \in Seq(Bytes)
    <3>1. r.code \in Int
      BY <2>1, Limits DEF Ints
    <3> QED
      BY <3>1, Written, NamesWritten
  <2>3. Spans(data, 0, a \o b, Len(data))
    BY <1>3, <2>1
  <2> HIDE DEF data
  <2> DEFINE e == Len(data)
  <2>4. PICK i \in Nat : Spans(data, 0, a, i) /\ Spans(data, i, b, e)
    <3> HIDE DEF a, b
    <3> QED
      BY <1>3, <2>2, <2>3, SpansParts
  <2> HIDE DEF e
  <2>5. ReadInt(At(data, 0, <<>>)) = At(data, i, r.code)
    <3>1. 0 \in Nat /\ r.code \in Ints
      BY <2>1
    <3>2. data \in Seq(Nat) /\ Spans(data, 0, WriteIntBE(r.code, 4), i)
      BY <1>3, <2>4, Zenon
    <3> DEFINE c == r.code
               z == 0
    <3> HIDE DEF a, b, c, z, code, text
    <3>3. data \in Seq(Nat) /\ z \in Nat /\ c \in Ints /\ Spans(data, z, WriteIntBE(c, 4), i)
      BY <3>1, <3>2, Zenon DEF c, z
    <3>4. \A v : ReadInt(At(data, z, v)) = At(data, i, c)
      BY <3>3, IntSpan, ZenonT(60)
    <3> QED
      BY <3>4, Zenon DEF c, z
  <2>6. ReadString(At(data, i, r.code)) = At(data, e, <<1, 2>>)
    BY <1>3, <2>4, NamesShort, StringSpan
  <2>7. code = At(data, i, r.code) /\ text = At(data, e, <<1, 2>>)
    BY <1>3, <2>5, <2>6, Zenon
  <2> HIDE DEF code, text
  <2>8. At(data, i, r.code).v = r.code /\ At(data, e, <<1, 2>>).st = "ok"
    BY DEF At
  <2> QED
    BY <2>7, <2>8, Zenon
<1> HIDE DEF code, text
<1> QED
  BY <1>1, <1>4, <1>5

(* What the caller of a request that was answered by an ERROR is given. *)
ErrorSurfaces(op, r, warned, all, o) ==
  /\ o.what \in {"throw", "over", "null"}
  /\ all /\ ~warned /\ ~UnknownCode(r) =>
       o.what = "throw" /\ o.class \in DOMAIN ErrorCode /\ ErrorCode[o.class] = r.code
  /\ all /\ ~warned /\ UnknownCode(r) => o.what = IF op = "options" THEN "null" ELSE "throw"

(* An ERROR, cut anywhere and delivered in any way, surfaces. *)
LEMMA ErrorConcluded ==
  ASSUME NEW op \in AnyOp, NEW r \in Replies, r.op = "error", NEW id \in Streams \cup {0},
         NEW warned \in BOOLEAN, NEW packed \in BOOLEAN, NEW comp \in BOOLEAN, packed => comp,
         NEW cut \in 0 .. Whole(r, id, warned, packed)
  PROVE  ErrorSurfaces(op, r, warned, AllArrived(r, id, warned, packed, comp, cut),
                       Conclude(op, Reading(r, id, warned, packed, comp, cut)))
<1> DEFINE all == AllArrived(r, id, warned, packed, comp, cut)
           o == Conclude(op, Reading(r, id, warned, packed, comp, cut))
           m == Parsed(r, warned)
<1>1. /\ o = Throw("read") \/ all
      /\ all => o = Judged(op, Opcode.error, m)
  <2>1. Concluding(op, r, id, warned, packed, comp, cut)
    BY Concluded
  <2>2. r.op # "ready"
    OBVIOUS
  <2> QED
    BY <2>1, <2>2, Zenon DEF Concluding
<1>2. m.st \in Ends /\ (~warned => m = [st |-> "ok", code |-> r.code])
  BY ErrorParsed
<1>3. UnknownCode(r) <=> CheckError(r.code) = {}
  BY DEF UnknownCode, CheckError
<1>4. \A e \in CheckError(r.code) : e \in DOMAIN ErrorCode /\ ErrorCode[e] = r.code
  BY Zenon DEF CheckError
<1> HIDE DEF all, o, m
<1>5. CASE all
  <2>1. o = Judged(op, Opcode.error, m)
    BY <1>1, <1>5
  <2>2. o.what \in {"throw", "over", "null"}
    BY <1>2, <2>1, JudgedError, JudgedEarly DEF Ends
  <2>3. ASSUME ~warned
        PROVE  /\ ~UnknownCode(r) => o.what = "throw" /\ o.class \in CheckError(r.code)
               /\ UnknownCode(r) => o.what = IF op = "options" THEN "null" ELSE "throw"
    <3>1. m.st = "ok" /\ m.code = r.code
      BY <1>2, <2>3
    <3> QED
      BY <1>3, <2>1, <3>1, JudgedError, Zenon
  <2> QED
    BY <1>4, <2>2, <2>3, Zenon DEF ErrorSurfaces, all, o
<1>6. CASE ~all
  <2>1. o.what = "throw"
    BY <1>1, <1>6, OutcomeIs, Zenon
  <2> QED
    BY <1>6, <2>1 DEF ErrorSurfaces, all, o
<1> QED
  BY <1>5, <1>6

(* What the invariant says of an answer that was read. *)
AllCame == reply.whole /\ Agreed
ReadingOf(cut) == Reading(reply.r, stream, reply.warned, reply.packed, compressor, cut)
SizeOf == Whole(reply.r, stream, reply.warned, reply.packed)
AllOf(cut) == AllArrived(reply.r, stream, reply.warned, reply.packed, compressor, cut)

(* What the invariant says of an answer that was read. *)
LEMMA AnswerRead ==
  ASSUME IInv, stage \in {"done", "read", "field"}
  PROVE  /\ request.op \in AnyOp /\ reply.r \in Answers(request.op) /\ reply.r \in Replies
         /\ reply.warned \in BOOLEAN /\ reply.packed \in BOOLEAN /\ compressor \in BOOLEAN
         /\ reply.packed => compressor
         /\ stream \in Streams \cup {0}
         /\ \E cut \in 0 .. SizeOf :
              /\ got.outcome = Conclude(request.op, ReadingOf(cut))
              /\ got.stream = ReadingOf(cut).header.stream
              /\ AllOf(cut) <=> AllCame
<1>1. Answered /\ stage # "answered" /\ compressor \in BOOLEAN /\ stream \in Streams \cup {0}
  BY DEF IInv
<1>2. /\ request.op \in CallersOps \cup {"options", "startup"}
      /\ reply.r \in Answers(request.op)
      /\ reply.warned \in BOOLEAN /\ reply.packed \in BOOLEAN
      /\ reply.packed => compressor
  BY <1>1, Zenon DEF Answered
<1>3. PICK cut \in 0 .. SizeOf :
        /\ reply.whole = (cut = SizeOf)
        /\ got = Given(request.op, ReadingOf(cut))
  BY <1>1, Zenon DEF Answered, ReadingOf, SizeOf
<1>4. /\ got.outcome = Conclude(request.op, ReadingOf(cut))
      /\ got.stream = ReadingOf(cut).header.stream
  BY <1>3 DEF Given
<1>5. AllOf(cut) <=> AllCame
  BY <1>3, Zenon DEF AllOf, AllCame, AllArrived, Agreed, SizeOf
<1>6. reply.r \in Replies
  BY <1>2 DEF Answers
<1> QED
  BY <1>1, <1>2, <1>4, <1>5, <1>6, Zenon DEF AnyOp

(* The invariant implies that errors surface. *)
LEMMA Surfacing ==
  IInv => ErrorsSurface
<1> SUFFICES ASSUME IInv, stage = "done", reply.r.op = "error"
             PROVE  LET o == got.outcome
                        known == ~UnknownCode(reply.r)
                    IN  /\ o.what \notin {"rows", "empty", "id", "ready", "options"}
                        /\ Intact /\ known => /\ o.what = "throw" /\ o.class \in DOMAIN ErrorCode
                                               /\ ErrorCode[o.class] = reply.r.code
                        /\ Intact /\ ~known => o.what = IF request.op = "options" THEN "null" ELSE "throw"
  BY Zenon DEF ErrorsSurface
<1>1. stage \in {"done", "read", "field"}
  OBVIOUS
<1> DEFINE r == reply.r
           warned == reply.warned
           packed == reply.packed
           o == got.outcome
<1>2. /\ request.op \in AnyOp /\ r \in Replies /\ stream \in Streams \cup {0}
      /\ warned \in BOOLEAN /\ packed \in BOOLEAN /\ compressor \in BOOLEAN /\ (packed => compressor)
  BY <1>1, AnswerRead
<1>3. PICK cut \in 0 .. SizeOf : o = Conclude(request.op, ReadingOf(cut)) /\ (AllOf(cut) <=> AllCame)
  BY <1>1, AnswerRead
<1>4. r.op = "error" /\ cut \in 0 .. Whole(r, stream, warned, packed)
  BY DEF SizeOf
<1>5. ErrorSurfaces(request.op, r, warned, AllArrived(r, stream, warned, packed, compressor, cut),
                    Conclude(request.op, Reading(r, stream, warned, packed, compressor, cut)))
  <2> HIDE DEF r, warned, packed
  <2> QED
    BY <1>2, <1>4, ErrorConcluded
<1>6. ErrorSurfaces(request.op, r, warned, AllOf(cut), o)
  BY <1>3, <1>5, Zenon DEF AllOf, ReadingOf
<1>7. Intact => AllOf(cut) /\ ~warned
  BY <1>3 DEF Intact, AllCame
<1>8. o.what \in {"throw", "over", "null"}
  BY <1>6, Zenon DEF ErrorSurfaces
<1>9. o.what \notin {"rows", "empty", "id", "ready", "options"}
  BY <1>8
<1> QED
  BY <1>6, <1>7, <1>9, Zenon DEF ErrorSurfaces

(* An ERROR, however it is delivered, reaches the caller of the request as an
   exception, that of its code where CheckError has one, and never as a result. *)
THEOREM ErrorsAlwaysSurface == Spec => []ErrorsSurface
  BY InvariantHolds, Surfacing, PTL

-----------------------------------------------------------------------------
(* How a node reads a request.                                             *)

(* What a node reads in the body of a request of a kind. *)
NodeBody(op, body) ==
  LET r == Reader(body)
  IN  CASE op = "options" -> [op |-> op]
        [] op = "startup" -> [op |-> op, options |-> ReadList(ReadShort(r), NodePair).v]
        [] op = "query"   -> NodeQuery(op, ReadBytes(r))
        [] op = "execute" -> NodeQuery(op, ReadShortBytes(r))
        [] op = "prepare" -> [op |-> op, text |-> ReadBytes(r).v]
        [] op = "batch"   -> NodeBatch(r)

(* It is read as what it is, and decompressed when it was compressed. *)
LEMMA NodeReadsBody ==
  ASSUME NEW m \in Asking, NEW id \in Streams \cup {0}, NEW comp \in BOOLEAN
  PROVE  NodeReads(Serialize(m, id, comp)) = NodeBody(m.op, SerializeBody(m))
<1> DEFINE w == Serialize(m, id, comp)
           body == SerializeBody(m)
           b == Packed(body, comp)
           header == ParseHeader(w)
           rest == SubSeq(w, 10, Len(w))
           plain == IF Has(header.flags, FrameFlag.compression) THEN Decompress(rest).v ELSE rest
           op == CHOOSE o \in DOMAIN Opcode : Opcode[o] = header.opcode
<1>1. /\ header = [version |-> MessageDirection.request, flags |-> Flags(comp), stream |-> id,
                   opcode |-> Opcode[m.op], length |-> Len(b)]
      /\ rest = b
  BY RequestFramed, Zenon DEF FrameReads
<1>2. kHeaderSize + 1 = 10
  BY DEF kHeaderSize
<1>3. NodeReads(w) = NodeBody(op, plain)
  BY <1>2, Zenon DEF NodeReads, NodeBody
<1>4. body \in Seq(Bytes) /\ Len(body) < IntLimit /\ m.op \in DOMAIN Opcode
  <2>1. body \in Seq(Bytes) /\ Len(body) + 5 < IntLimit /\ m.op \in DOMAIN Opcode
    BY BodyFits
  <2> HIDE DEF body
  <2>2. Len(body) \in Nat
    BY <2>1
  <2> QED
    BY <2>1, <2>2, Limits
<1> HIDE DEF w, header, rest
<1>5. header.flags = Flags(comp) /\ header.opcode = Opcode[m.op]
  BY <1>1
<1>6. op = m.op
  <2>1. \A o \in DOMAIN Opcode : Opcode[o] = Opcode[m.op] => o = m.op
    BY <1>4 DEF Opcode
  <2>2. op \in DOMAIN Opcode /\ Opcode[op] = Opcode[m.op]
    BY <1>4, <1>5, Zenon
  <2> HIDE DEF op
  <2> QED
    BY <2>1, <2>2, Zenon
<1>7. plain = body
  <2>1. Has(header.flags, FrameFlag.compression) <=> comp
    <3>1. Flags(comp) = IF comp THEN 1 ELSE 0
      BY DEF Flags, FrameFlag
    <3>2. FrameFlag.compression = 1
      BY DEF FrameFlag
    <3>3. Has(1, 1) /\ ~Has(0, 1)
      BY DEF Has
    <3> QED
      BY <1>5, <3>1, <3>2, <3>3, Zenon
  <2>2. rest = IF comp THEN Compress(body) ELSE body
    BY <1>1, Zenon DEF Packed
  <2> HIDE DEF body
  <2>3. comp => Decompress(Compress(body)).v = body
    BY <1>4, Unpacked
  <2> QED
    BY <2>1, <2>2, <2>3, Zenon
<1> HIDE DEF plain, op, body
<1> QED
  BY <1>3, <1>6, <1>7, Zenon DEF w, body

(* The buffers of the arguments are the values of columns of their types. *)
ParamsOf(args) == [i \in 1 .. Len(args) |-> CellBytes(args[i].type, [null |-> FALSE, v |-> args[i].v])]

(* The buffers of Bind are the arguments as the values of columns. *)
LEMMA ParamsAre ==
  ASSUME NEW args \in Seq(Args)
  PROVE  Bind(args) = ParamsOf(args)
<1>1. ASSUME NEW arg \in Args
      PROVE  Argument(arg) = CellBytes(arg.type, [null |-> FALSE, v |-> arg.v])
  <2> DEFINE cell == [null |-> FALSE, v |-> arg.v]
             type == arg.type
  <2>1. ~cell.null /\ cell.v = arg.v
    OBVIOUS
  <2>2. arg.type \in {"text", "int", "bigint"}
    BY DEF Args
  <2>3. Numeric(type) <=> arg.type # "text"
    BY <2>2 DEF Numeric
  <2> HIDE DEF cell, type
  <2>4. CellBytes(type, cell) =
          IF Numeric(type) THEN Concat([i \in 1 .. Len(cell.v) |-> WriteIntBE(cell.v[i], Width.Int)])
          ELSE cell.v
    BY <2>1 DEF CellBytes
  <2>5. CellBytes(type, cell) = Argument(arg)
    BY <2>1, <2>3, <2>4, Zenon DEF Argument
  <2> QED
    BY <2>5, Zenon DEF cell, type
<1>2. \A i \in 1 .. Len(args) : args[i] \in Args
  OBVIOUS
<1> QED
  BY <1>1, <1>2, Zenon DEF Bind, ParamsOf

(* A node reads back the parameters of a query. *)
LEMMA ParamsSpan ==
  ASSUME NEW data \in Seq(Nat), NEW k \in Nat, NEW j, NEW args \in Seq(Args), Len(args) < Square,
         Spans(data, k, WriteParams(Bind(args)), j)
  PROVE  \A v : NodeParams(At(data, k, v)) = At(data, j, ParamsOf(args))
<1> DEFINE ss == Bind(args)
<1>1. ss \in Seq(Texts) /\ Len(ss) < Square /\ ss = ParamsOf(args)
  BY BuffersOf, ParamsAre
<1>2. Holds(data, k, WriteList(ss, WriteBytes)) /\ j = k + Len(WriteList(ss, WriteBytes))
  BY Zenon DEF Spans, WriteParams
<1> HIDE DEF ss
<1>3. \A v : ReadBytesList(At(data, k, v)) = At(data, j, ss)
  BY <1>1, <1>2, BytesListComesBack, Zenon
<1>4. \A v : NodeParams(At(data, k, v)) = ReadBytesList(At(data, k, v))
  BY Zenon DEF NodeParams, ReadBytesList
<1> QED
  BY <1>1, <1>3, <1>4, Zenon

(* What QUERY and EXECUTE have after the text or the id. *)
TailReads(data, k, op, x, level, args) ==
  NodeQuery(op, At(data, k, x)) =
    [op |-> op, text |-> x, level |-> Consistency[level], params |-> ParamsOf(args)]

(* A node reads back the level and the parameters of a query. *)
LEMMA TailSpan ==
  ASSUME NEW data \in Seq(Nat), NEW k \in Nat, NEW j, NEW level \in Level, NEW args \in Seq(Args),
         Len(args) < Square, NEW op, NEW x,
         Spans(data, k, QueryTail(Consistency[level], Bind(args)), j)
  PROVE  TailReads(data, k, op, x, level, args)
<1> DEFINE n == Consistency[level]
           ps == Bind(args)
           a == WriteIntBE(n, 2)
           b == WriteIntBE(2, 1)
           c == WriteIntBE(3, 1)
           d == WriteParams(ps)
           e == c \o d
           Answer1(p) == Understood(p, [op |-> op, text |-> x, level |-> n, params |-> p.v])
<1>1. n \in Nat /\ n < Square
  BY Codes DEF Level
<1>2. a \in Seq(Bytes) /\ b \in Seq(Bytes) /\ c \in Seq(Bytes)
  BY <1>1, Written
<1>3. d \in Seq(Bytes)
  BY ParamsWritten
<1>4. QueryFlag.skip_metadata = 2 /\ QueryFlag.skip_metadata + QueryFlag.values = 3
      /\ Width.Short = 2 /\ Width.Byte = 1 /\ QueryFlag.values = 1
  BY DEF QueryFlag, Width
<1>5. QueryTail(n, ps) = a \o (IF ps = <<>> THEN b ELSE e)
  BY <1>4, Zenon DEF QueryTail
<1>6. Has(3, 1) /\ ~Has(2, 1) /\ 2 \in Bytes /\ 3 \in Bytes
  BY Codes DEF Has
<1>7. ps = ParamsOf(args)
  BY ParamsAre
<1>8. \A p \in {ps} : Answer1(At(data, j, p)) = [op |-> op, text |-> x, level |-> n, params |-> p]
  <2>1. \A p : At(data, j, p).st = "ok" /\ At(data, j, p).v = p
    BY DEF At
  <2> QED
    BY <2>1, Zenon DEF Understood
<1>9. ASSUME NEW i \in Nat, NEW z, ReadShort(At(data, k, x)) = At(data, i, n),
             ReadByte(At(data, i, n)) = z, z.st = "ok"
      PROVE  NodeQuery(op, At(data, k, x)) =
               Answer1(IF Has(z.v, 1) THEN NodeParams(z) ELSE Return(z, <<>>))
  <2>1. At(data, k, x).v = x /\ At(data, i, n).v = n
    BY DEF At
  <2> QED
    BY <1>4, <1>9, <2>1, Zenon DEF NodeQuery
<1>10. CASE ps = <<>>
  <2>1. Spans(data, k, a \o b, j)
    BY <1>5, <1>10
  <2> HIDE DEF a, b, Answer1, n, ps
  <2>2. PICK i \in Nat : Spans(data, k, a, i) /\ Spans(data, i, b, j)
    BY <1>2, <2>1, SpansParts
  <2>3. ReadShort(At(data, k, x)) = At(data, i, n)
    BY <1>1, <2>2, ShortSpan DEF a
  <2>4. ReadByte(At(data, i, n)) = At(data, j, 2)
    BY <1>6, <2>2, ByteSpan DEF b
  <2>5. At(data, j, 2).st = "ok" /\ At(data, j, 2).v = 2 /\ Return(At(data, j, 2), <<>>) = At(data, j, <<>>)
    BY DEF At, Return
  <2>6. NodeQuery(op, At(data, k, x)) = Answer1(At(data, j, <<>>))
    BY <1>6, <1>9, <2>3, <2>4, <2>5, Zenon
  <2> QED
    BY <1>7, <1>8, <1>10, <2>6, Zenon DEF n, TailReads
<1>11. CASE ps # <<>>
  <2>1. Spans(data, k, a \o e, j)
    BY <1>5, <1>11
  <2>2. Spans(data, k, a \o e, j) /\ e \in Seq(Bytes)
    <3> HIDE DEF c, d
    <3> QED
      BY <1>2, <1>3, <2>1, Joined
  <2> HIDE DEF a, e, Answer1, n, ps
  <2>3. PICK i \in Nat : Spans(data, k, a, i) /\ Spans(data, i, e, j)
    BY <1>2, <2>2, SpansParts
  <2>4. PICK h \in Nat : Spans(data, i, c, h) /\ Spans(data, h, d, j)
    <3>1. Spans(data, i, c \o d, j)
      BY <2>3 DEF e
    <3> HIDE DEF c, d
    <3> QED
      BY <1>2, <1>3, <3>1, SpansParts
  <2>5. ReadShort(At(data, k, x)) = At(data, i, n)
    BY <1>1, <2>3, ShortSpan DEF a
  <2>6. ReadByte(At(data, i, n)) = At(data, h, 3)
    BY <1>6, <2>4, ByteSpan
  <2>7. NodeParams(At(data, h, 3)) = At(data, j, ps)
    BY <1>7, <2>4, ParamsSpan DEF ps
  <2>8. At(data, h, 3).st = "ok" /\ At(data, h, 3).v = 3
    BY DEF At
  <2>9. NodeQuery(op, At(data, k, x)) = Answer1(At(data, j, ps))
    BY <1>6, <1>9, <2>5, <2>6, <2>7, <2>8, Zenon
  <2> QED
    BY <1>7, <1>8, <2>9, Zenon DEF n, TailReads
<1> QED
  BY <1>10, <1>11

(* A statement of a batch, as a node should read it. *)
StatementOf(s) == [kind |-> s.kind, text |-> s.text, params |-> ParamsOf(s.args)]
SmallStatement(s) == Len(s.args) < Square /\ Len(s.text) < Square
NodeStatements(r, n) == Repeat(r, n, NodeStatement)
NodeStatementList(r) == ReadList(ReadShort(r), NodeStatement)

(* A node reads back a statement of a batch. *)
LEMMA StatementReadBack ==
  ASSUME NEW data \in Seq(Nat), NEW k \in Nat, NEW v, NEW s \in Statements, SmallStatement(s),
         Holds(data, k, WriteStatement(s))
  PROVE  NodeStatement(At(data, k, v)) = At(data, k + Len(WriteStatement(s)), StatementOf(s))
<1> DEFINE a == WriteIntBE(s.kind, 1)
           b == IF s.kind = 0 THEN WriteLongString(s.text) ELSE WriteShortBytes(s.text)
           c == WriteParams(Bind(s.args))
           x == a \o b
           j == k + Len(WriteStatement(s))
           kind == s.kind
           text == s.text
           ps == ParamsOf(s.args)
<1>1. /\ s.kind \in {0, 1} /\ s.text \in Texts /\ s.text \in Seq(Bytes) /\ s.args \in Seq(Args)
      /\ Len(s.args) < Square /\ Len(s.text) < Square
  BY DEF Statements, SmallStatement, Texts
<1>2. text \in ShortTexts /\ text \in Texts /\ kind \in Bytes /\ kind \in Int
  BY <1>1, Codes DEF ShortTexts
<1>3. WriteStatement(s) = x \o c
  <2>1. Width.Byte = 1
    BY DEF Width
  <2> QED
    BY <2>1, Zenon DEF WriteStatement
<1>4. a \in Seq(Bytes) /\ b \in Seq(Bytes) /\ c \in Seq(Bytes)
  <2>1. WriteLongString(s.text) \in Seq(Bytes) /\ WriteShortBytes(s.text) \in Seq(Bytes)
    BY <1>1, TextsWritten
  <2> QED
    BY <1>1, <1>2, <2>1, Written, ParamsWritten
<1>5. Spans(data, k, x \o c, j)
  BY <1>3, Zenon DEF Spans
<1> HIDE DEF j
<1>6. x \in Seq(Bytes)
  <2> HIDE DEF a, b
  <2> QED
    BY <1>4, Joined
<1>7. PICK h \in Nat : Spans(data, k, x, h) /\ Spans(data, h, c, j)
  <2> HIDE DEF x, c
  <2> QED
    BY <1>4, <1>5, <1>6, SpansParts
<1>8. PICK i \in Nat : Spans(data, k, a, i) /\ Spans(data, i, b, h)
  <2> HIDE DEF a, b
  <2> QED
    BY <1>4, <1>7, SpansParts
<1>9. ReadByte(At(data, k, v)) = At(data, i, kind)
  BY <1>2, <1>8, ByteSpan
<1>10. /\ kind = 0 => ReadBytes(At(data, i, kind)) = At(data, h, text)
       /\ kind # 0 => ReadShortBytes(At(data, i, kind)) = At(data, h, text)
  <2>1. ASSUME kind = 0 PROVE ReadBytes(At(data, i, kind)) = At(data, h, text)
    <3>1. b = WriteBytes(text)
      BY <1>1, <2>1, TextsWritten
    <3>2. Spans(data, i, WriteBytes(text), h)
      BY <1>8, <3>1, Zenon
    <3> HIDE DEF text, kind, b
    <3> QED
      BY <1>2, <3>2, BytesSpan
  <2>2. ASSUME kind # 0 PROVE ReadShortBytes(At(data, i, kind)) = At(data, h, text)
    <3>1. b = WriteShortBytes(text)
      BY <2>2
    <3>2. Spans(data, i, WriteShortBytes(text), h)
      BY <1>8, <3>1, Zenon
    <3> HIDE DEF text, kind, b
    <3> QED
      BY <1>2, <3>2, ShortBytesSpan
  <2> QED
    BY <2>1, <2>2
<1>11. NodeParams(At(data, h, text)) = At(data, j, ps)
  BY <1>1, <1>7, ParamsSpan
<1> HIDE DEF kind, text, ps, a, b, c, x
<1>12. NodeStatement(At(data, k, v)) = Return(At(data, j, ps), [kind |-> kind, text |-> text, params |-> ps])
  <2>1. /\ At(data, i, kind).st = "ok" /\ At(data, i, kind).v = kind
        /\ At(data, h, text).v = text
        /\ At(data, j, ps).st = "ok" /\ At(data, j, ps).v = ps
    BY DEF At
  <2>2. kind = 0 \/ kind # 0
    OBVIOUS
  <2> QED
    BY <1>9, <1>10, <1>11, <2>1, <2>2, Zenon DEF NodeStatement
<1>13. \A z : Return(At(data, j, ps), z) = At(data, j, z)
  BY AtIs
<1> QED
  BY <1>12, <1>13, Zenon DEF StatementOf, kind, text, ps, j

(* The loop over the statements of a batch reads them all. *)
LEMMA StatementsLoop ==
  ASSUME NEW data \in Seq(Nat), NEW S, NEW vs \in Seq(S), NEW off, NEW v,
         Len(vs) <= Len(data),
         \A i \in 1 .. Len(vs) : \A x :
           NodeStatement(At(data, off[i - 1], x)) = At(data, off[i], vs[i])
  PROVE  NodeStatements(At(data, off[0], v), Len(vs)) = At(data, off[Len(vs)], vs)
<1> DEFINE N == Len(vs)
           h == Gather(data, off, vs)
           Is(u) == u = [i \in 0 .. N |-> IF i = 0 THEN At(data, off[0], <<>>)
                                          ELSE Turn(u[i - 1], NodeStatement(u[i - 1]))]
<1>1. N \in Nat /\ N <= Len(data)
  OBVIOUS
<1>2. /\ h = [i \in 0 .. N |-> h[i]]
      /\ h[0] = At(data, off[0], <<>>) /\ h[N] = At(data, off[N], vs)
      /\ \A i \in 1 .. N : /\ h[i - 1] = At(data, off[i - 1], SubSeq(vs, 1, i - 1))
                            /\ Turn(h[i - 1], At(data, off[i], vs[i])) = h[i]
  BY Gathered
<1>3. \A i \in 1 .. N : NodeStatement(h[i - 1]) = At(data, off[i], vs[i])
  BY <1>2, Zenon
<1>4. Is(h)
  <2>1. \A i \in 0 .. N : i = 0 \/ i \in 1 .. N
    BY <1>1
  <2> HIDE DEF h, N
  <2>2. \A i \in 0 .. N : h[i] = IF i = 0 THEN At(data, off[0], <<>>)
                                 ELSE Turn(h[i - 1], NodeStatement(h[i - 1]))
    BY <1>2, <1>3, <2>1, Zenon
  <2> QED
    BY <1>2, <2>2, Zenon
<1> DEFINE u == CHOOSE u : Is(u)
<1>5. Is(u)
  BY <1>4, Zenon
<1>6. NodeStatements(At(data, off[0], v), N) = u[N]
  <2>1. /\ Return(At(data, off[0], v), <<>>) = At(data, off[0], <<>>)
        /\ At(data, off[0], v).st = "ok" /\ At(data, off[0], v).data = data
    BY DEF Return, At
  <2> QED
    BY <1>1, <2>1, Zenon DEF NodeStatements, Repeat, Turn
<1> HIDE DEF u
<1>7. u[0] = h[0] /\ \A i \in 1 .. N : u[i - 1] = h[i - 1] => u[i] = h[i]
  <2>1. 0 \in 0 .. N /\ \A i \in 1 .. N : i \in 0 .. N /\ i # 0
    BY <1>1
  <2> HIDE DEF h, N
  <2> QED
    BY <1>4, <1>5, <2>1, Zenon
<1>8. u[N] = h[N]
  <2> HIDE DEF h, N, Is
  <2> QED
    BY <1>1, <1>7, SameLoop
<1> QED
  BY <1>2, <1>6, <1>8, Zenon

(* A list of statements within the limits of [short] comes back. *)
LEMMA StatementsComeBack ==
  ASSUME NEW data \in Seq(Nat), NEW k \in Nat, NEW v,
         NEW ss \in Seq(Statements), Len(ss) < Square,
         \A i \in 1 .. Len(ss) : SmallStatement(ss[i]),
         Holds(data, k, WriteList(ss, WriteStatement))
  PROVE  NodeStatementList(At(data, k, v)) =
           At(data, k + Len(WriteList(ss, WriteStatement)), [i \in 1 .. Len(ss) |-> StatementOf(ss[i])])
<1> DEFINE N == Len(ss)
           ws == [i \in 1 .. N |-> WriteStatement(ss[i])]
           vs == [i \in 1 .. N |-> StatementOf(ss[i])]
<1>1. N \in Nat /\ N < Square /\ N = Len(ss)
  BY Limits
<1>2. ASSUME NEW i \in 1 .. N
      PROVE  /\ ss[i] \in Statements /\ SmallStatement(ss[i])
             /\ WriteStatement(ss[i]) \in Seq(Bytes) /\ Len(WriteStatement(ss[i])) > 0
  <2>1. ss[i] \in Statements /\ SmallStatement(ss[i])
    OBVIOUS
  <2>2. WriteStatement(ss[i]) \in Seq(Bytes) /\ Len(WriteStatement(ss[i])) > 0
    BY <2>1, StatementWritten
  <2> QED
    BY <2>1, <2>2
<1>3. ws \in Seq(Seq(Bytes)) /\ Len(ws) = N /\ \A i \in 1 .. N : ws[i] = WriteStatement(ss[i])
  BY <1>1, <1>2
<1>4. WriteList(ss, WriteStatement) = WriteIntBE(N, 2) \o Concat(ws)
  BY Zenon DEF WriteList, Width
<1>5. vs \in Seq({StatementOf(ss[i]) : i \in 1 .. N}) /\ Len(vs) = N /\ \A i \in 1 .. N : vs[i] = StatementOf(ss[i])
  BY <1>1, SMTT(60)
<1> HIDE DEF ws, N, vs
<1>6. /\ ReadShort(At(data, k, v)) = At(data, k + 2, N)
      /\ Holds(data, k + 2, Concat(ws))
      /\ k + Len(WriteList(ss, WriteStatement)) = (k + 2) + Len(Concat(ws))
  <2>1. Holds(data, k, WriteIntBE(N, 2) \o Concat(ws))
    BY <1>4
  <2> QED
    BY <1>1, <1>3, <1>4, <2>1, CountHeld, ZenonT(60)
<1>7. PICK off \in [0 .. N -> Nat] :
        /\ off[0] = k + 2 /\ off[N] = (k + 2) + Len(Concat(ws))
        /\ \A i \in 1 .. N : off[i] = off[i - 1] + Len(ws[i]) /\ Holds(data, off[i - 1], ws[i])
        /\ (\A i \in 1 .. N : Len(ws[i]) > 0) => N <= Len(data)
  <2>1. k + 2 \in Nat
    OBVIOUS
  <2> QED
    BY <1>3, <1>6, <2>1, Layout, ZenonT(60)
<1>8. N <= Len(data)
  BY <1>2, <1>3, <1>7
<1>9. ASSUME NEW i \in 1 .. N, NEW x
      PROVE  NodeStatement(At(data, off[i - 1], x)) = At(data, off[i], vs[i])
  <2>1. i - 1 \in 0 .. N
    BY <1>1
  <2>2. off[i - 1] \in Nat
    BY <1>7, <2>1
  <2>3. Holds(data, off[i - 1], WriteStatement(ss[i])) /\ off[i] = off[i - 1] + Len(WriteStatement(ss[i]))
    BY <1>3, <1>7
  <2> QED
    BY <1>2, <2>2, <2>3, StatementReadBack, <1>5
<1>10. NodeStatements(At(data, off[0], N), N) = At(data, off[N], vs)
  BY <1>1, <1>8, <1>9, StatementsLoop, <1>5
<1>11. NodeStatementList(At(data, k, v)) = NodeStatements(At(data, k + 2, N), N)
  <2>1. At(data, k + 2, N).st = "ok" /\ At(data, k + 2, N).v = N /\ N >= 0
    BY <1>1 DEF At
  <2> QED
    BY <1>6, <2>1, Zenon DEF ReadList, NodeStatements, NodeStatementList
<1> QED
  BY <1>6, <1>7, <1>10, <1>11 DEF N, vs

(* A node reads back the statements of a batch. *)
LEMMA StatementsSpan ==
  ASSUME NEW data \in Seq(Nat), NEW k \in Nat, NEW j, NEW ss \in Seq(Statements), Len(ss) < Square,
         \A i \in 1 .. Len(ss) : SmallStatement(ss[i]),
         Spans(data, k, WriteList(ss, WriteStatement), j)
  PROVE  \A v : NodeStatementList(At(data, k, v)) = At(data, j, [i \in 1 .. Len(ss) |-> StatementOf(ss[i])])
  BY StatementsComeBack, Zenon DEF Spans

(* A node reads back a batch. *)
LEMMA BatchSpan ==
  ASSUME NEW data \in Seq(Nat), NEW j, NEW m \in [op : {"batch"}, level : Level, statements : Seq(Statements)],
         Len(m.statements) < Square,
         \A i \in 1 .. Len(m.statements) : SmallStatement(m.statements[i]),
         Spans(data, 0, BatchBody(m), j)
  PROVE  NodeBatch(At(data, 0, <<>>)) =
           [op |-> "batch", statements |-> [i \in 1 .. Len(m.statements) |-> StatementOf(m.statements[i])],
            level |-> Consistency[m.level]]
<1> DEFINE n == Consistency[m.level]
           ss == m.statements
           vs == [i \in 1 .. Len(ss) |-> StatementOf(ss[i])]
           a == WriteIntBE(0, 1)
           b == WriteList(ss, WriteStatement)
           c == WriteIntBE(n, 2)
           x == a \o b \o c
<1>1. n \in Nat /\ n < Square /\ ss \in Seq(Statements)
  BY Codes DEF Level
<1>2. a \in Seq(Bytes) /\ b \in Seq(Bytes) /\ c \in Seq(Bytes)
  BY <1>1, Written, StatementsWritten
<1>3. BatchBody(m) = x \o a
  <2>1. Width.Byte = 1 /\ Width.Short = 2
    BY DEF Width
  <2> QED
    BY <2>1, Zenon DEF BatchBody
<1>4. Spans(data, 0, x \o a, j)
  BY <1>3
<1>5. x \in Seq(Bytes)
  <2> HIDE DEF a, b, c
  <2> QED
    BY <1>2, Joined3
<1>6. PICK h \in Nat : Spans(data, 0, x, h) /\ Spans(data, h, a, j)
  <2> HIDE DEF x, a
  <2> QED
    BY <1>2, <1>4, <1>5, SpansParts
<1>7. PICK e \in Nat, f \in Nat : Spans(data, 0, a, e) /\ Spans(data, e, b, f) /\ Spans(data, f, c, h)
  <2> HIDE DEF a, b, c
  <2> QED
    BY <1>2, <1>6, SpansParts3
<1>8. 0 \in Bytes /\ 0 \in Nat
  BY Codes
<1>9. \A i \in 1 .. Len(ss) : SmallStatement(ss[i])
  OBVIOUS
<1> HIDE DEF n, x
<1>10. ReadByte(At(data, 0, <<>>)) = At(data, e, 0)
  BY <1>7, <1>8, ByteSpan
<1>11. NodeStatementList(At(data, e, 0)) = At(data, f, vs)
  <2> HIDE DEF a, c, ss
  <2> QED
    BY <1>1, <1>7, <1>9, StatementsSpan DEF ss
<1> HIDE DEF vs, ss, b
<1>12. ReadShort(At(data, f, vs)) = At(data, h, n)
  BY <1>1, <1>7, ShortSpan
<1>13. ReadByte(At(data, h, n)) = At(data, j, 0)
  BY <1>6, <1>8, ByteSpan
<1>14. NodeBatch(At(data, 0, <<>>)) =
         Understood(At(data, j, 0), [op |-> "batch", statements |-> vs, level |-> n])
  <2>1. At(data, f, vs).v = vs /\ At(data, h, n).v = n
    BY DEF At
  <2> QED
    BY <1>10, <1>11, <1>12, <1>13, <2>1, Zenon DEF NodeBatch, NodeStatementList
<1>15. At(data, j, 0).st = "ok"
  BY DEF At
<1> QED
  BY <1>14, <1>15, Zenon DEF Understood, vs, ss, n

(* Asked, of each kind of request. *)
LEMMA AskedIs ==
  ASSUME NEW m
  PROVE  /\ m.op \in {"query", "execute"} =>
              Asked(m) = [op |-> m.op, text |-> m.text, level |-> Consistency[m.level], params |-> ParamsOf(m.args)]
         /\ m.op = "batch" =>
              Asked(m) = [op |-> m.op, level |-> Consistency[m.level],
                          statements |-> [i \in 1 .. Len(m.statements) |-> StatementOf(m.statements[i])]]
         /\ m.op \in {"options", "startup", "prepare"} => Asked(m) = m
<1>1. m.op \in {"query", "execute"} => m.op # "batch"
  OBVIOUS
<1>2. m.op \in {"options", "startup", "prepare"} => m.op # "batch" /\ m.op \notin {"query", "execute"}
  OBVIOUS
<1> QED
  BY <1>1, <1>2, Zenon DEF Asked, ParamsOf, StatementOf

(* What Fits says of each kind of request. *)
LEMMA FitsIs ==
  ASSUME NEW m, Fits(m)
  PROVE  /\ m.op \in {"query", "execute"} => Len(m.args) < Square
         /\ m.op = "execute" => Len(m.text) < Square
         /\ m.op = "batch" => /\ Len(m.statements) < Square
                              /\ \A i \in 1 .. Len(m.statements) : SmallStatement(m.statements[i])
  BY Zenon DEF Fits, SmallStatement

(* What a node reads of a request is what was asked, kind by kind. *)
LEMMA CallersUnderstood ==
  ASSUME NEW m \in Asks, Fits(m), NEW body, body = SerializeBody(m), body \in Seq(Bytes)
  PROVE  NodeBody(m.op, body) = Asked(m)
<1> DEFINE e == Len(body)
           r == At(body, 0, <<>>)
<1>1. body \in Seq(Nat) /\ Reader(body) = r /\ Spans(body, 0, body, e) /\ 0 \in Nat
  BY SpansAll
<1> HIDE DEF e, r
<1>2. CASE m \in [op : {"query", "execute"}, text : Texts, level : Level, args : Seq(Args)]
  <2> DEFINE tail == QueryTail(Consistency[m.level], Bind(m.args))
             text == IF m.op = "query" THEN WriteLongString(m.text) ELSE WriteShortBytes(m.text)
             x == m.text
             op == m.op
  <2>1. /\ op \in {"query", "execute"} /\ x \in Texts /\ m.level \in Level /\ m.args \in Seq(Args)
        /\ x \in Seq(Bytes)
    BY <1>2 DEF Texts
  <2>2. Len(m.args) < Square /\ (op = "execute" => x \in ShortTexts)
    BY <2>1, FitsIs DEF ShortTexts
  <2>3. body = text \o tail
    BY <2>1 DEF SerializeBody
  <2>4. text \in Seq(Bytes) /\ tail \in Seq(Bytes)
    BY <2>1, TextsWritten, TailWritten
  <2>5. Spans(body, 0, text \o tail, e)
    BY <1>1, <2>3, Zenon
  <2>6. PICK i \in Nat : Spans(body, 0, text, i) /\ Spans(body, i, tail, e)
    <3> HIDE DEF text, tail
    <3> QED
      BY <1>1, <2>4, <2>5, SpansParts
  <2>7. op = "query" => ReadBytes(r) = At(body, i, x)
    <3>1. SUFFICES ASSUME op = "query" PROVE ReadBytes(r) = At(body, i, x)
      OBVIOUS
    <3>2. text = WriteBytes(x)
      BY <2>1, <3>1, TextsWritten
    <3>3. Spans(body, 0, WriteBytes(x), i)
      BY <2>6, <3>2, Zenon
    <3> HIDE DEF text, x
    <3> QED
      BY <1>1, <2>1, <3>3, BytesSpan DEF r
  <2>8. op = "execute" => ReadShortBytes(r) = At(body, i, x)
    <3>1. SUFFICES ASSUME op = "execute" PROVE ReadShortBytes(r) = At(body, i, x)
      OBVIOUS
    <3>2. text = WriteShortBytes(x)
      BY <3>1
    <3>3. Spans(body, 0, WriteShortBytes(x), i)
      BY <2>6, <3>2, Zenon
    <3> HIDE DEF text, x
    <3> QED
      BY <1>1, <2>2, <3>1, <3>3, ShortBytesSpan DEF r
  <2>9. NodeQuery(op, At(body, i, x)) =
          [op |-> op, text |-> x, level |-> Consistency[m.level], params |-> ParamsOf(m.args)]
    <3> DEFINE level == m.level
               args == m.args
    <3>1. level \in Level /\ args \in Seq(Args) /\ Len(args) < Square
      BY <2>1, <2>2
    <3>2. Spans(body, i, QueryTail(Consistency[level], Bind(args)), e)
      BY <2>6
    <3> HIDE DEF op, x, text, level, args, tail
    <3>3. body \in Seq(Nat) /\ i \in Nat
      BY <1>1
    <3>4. TailReads(body, i, op, x, level, args)
      BY <3>1, <3>2, <3>3, TailSpan
    <3> QED
      BY <3>4 DEF level, args, TailReads
  <2>10. NodeBody(op, body) = NodeQuery(op, At(body, i, x))
    <3> HIDE DEF x, text, tail
    <3>1. CASE op = "query"
      <4>1. NodeBody(op, body) = NodeQuery(op, ReadBytes(Reader(body)))
        BY <3>1 DEF NodeBody
      <4> QED
        BY <1>1, <2>7, <3>1, <4>1, Zenon
    <3>2. CASE op = "execute"
      <4>1. NodeBody(op, body) = NodeQuery(op, ReadShortBytes(Reader(body)))
        BY <3>2 DEF NodeBody
      <4> QED
        BY <1>1, <2>8, <3>2, <4>1, Zenon
    <3> QED
      BY <2>1, <3>1, <3>2
  <2> QED
    BY <2>1, <2>9, <2>10, AskedIs, Zenon
<1>3. CASE m \in [op : {"prepare"}, text : Texts]
  <2>1. /\ m.op = "prepare" /\ m.text \in Texts /\ m.text \in Seq(Bytes)
        /\ m = [op |-> "prepare", text |-> m.text]
    BY <1>3 DEF Texts
  <2>2. body = WriteBytes(m.text)
    <3>1. body = WriteLongString(m.text)
      BY <2>1 DEF SerializeBody
    <3> QED
      BY <2>1, <3>1, TextsWritten
  <2>3. Spans(body, 0, WriteBytes(m.text), e)
    BY <1>1, <2>2, Zenon
  <2>4. ReadBytes(r) = At(body, e, m.text)
    BY <1>1, <2>1, <2>3, BytesSpan, ZenonT(60) DEF r
  <2>5. NodeBody(m.op, body) = [op |-> "prepare", text |-> ReadBytes(Reader(body)).v]
    BY <2>1 DEF NodeBody
  <2>6. At(body, e, m.text).v = m.text
    BY DEF At
  <2>7. NodeBody(m.op, body) = m
    BY <1>1, <2>1, <2>4, <2>5, <2>6, Zenon
  <2>8. m.op \in {"options", "startup", "prepare"}
    BY <2>1
  <2> QED
    BY <2>7, <2>8, AskedIs, Zenon
<1>4. CASE m \in [op : {"batch"}, level : Level, statements : Seq(Statements)]
  <2>1. m.op = "batch"
    BY <1>4
  <2>2. body = BatchBody(m)
    BY <2>1 DEF SerializeBody
  <2>3. Spans(body, 0, BatchBody(m), e)
    BY <1>1, <2>2, Zenon
  <2>4. Len(m.statements) < Square /\ \A i \in 1 .. Len(m.statements) : SmallStatement(m.statements[i])
    BY <2>1, FitsIs, Zenon
  <2> DEFINE vs == [i \in 1 .. Len(m.statements) |-> StatementOf(m.statements[i])]
             n == Consistency[m.level]
  <2>5. NodeBatch(At(body, 0, <<>>)) = [op |-> "batch", statements |-> vs, level |-> n]
    BY <1>1, <1>4, <2>3, <2>4, BatchSpan
  <2>6. NodeBody(m.op, body) = NodeBatch(Reader(body))
    BY <2>1 DEF NodeBody
  <2>7. Asked(m) = [op |-> m.op, level |-> n, statements |-> vs]
    BY <2>1, AskedIs, Zenon
  <2> HIDE DEF vs, n
  <2>8. NodeBody(m.op, body) = [op |-> "batch", statements |-> vs, level |-> n]
    BY <1>1, <2>5, <2>6, Zenon DEF r
  <2> QED
    BY <2>1, <2>7, <2>8
<1> QED
  BY <1>2, <1>3, <1>4 DEF Asks

(* A node reads in the body of a request what was asked. *)
LEMMA AskingUnderstood ==
  ASSUME NEW m \in Asking, Fits(m)
  PROVE  NodeBody(m.op, SerializeBody(m)) = Asked(m)
<1> DEFINE body == SerializeBody(m)
<1>1. body \in Seq(Bytes)
  BY BodyFits
<1>2. CASE m = [op |-> "options"]
  <2>1. m.op = "options" /\ NodeBody(m.op, body) = [op |-> "options"]
    BY <1>2 DEF NodeBody
  <2>2. m.op \in {"options", "startup", "prepare"}
    BY <2>1
  <2> QED
    BY <1>2, <2>1, <2>2, AskedIs, Zenon
<1>3. CASE m \in Startups
  <2>1. m.op = "startup" /\ m.options \in StartupOptions /\ m = [op |-> "startup", options |-> m.options]
    BY <1>3 DEF Startups
  <2> DEFINE o == m.options
             e == Len(body)
  <2>2. o \in Seq(ShortTexts \X ShortTexts) /\ Len(o) < Square
    <3>1. o \in Seq(ShortTexts \X ShortTexts) /\ Len(o) \in {1, 2}
      BY <2>1, StartupWritten
    <3>2. 1 < Square /\ 2 < Square
      BY Limits
    <3> HIDE DEF o
    <3> QED
      BY <3>1, <3>2, Zenon
  <2>3. body = WriteStringMap(o)
    BY <2>1 DEF SerializeBody
  <2>4. body \in Seq(Nat) /\ Reader(body) = At(body, 0, <<>>) /\ Spans(body, 0, body, e)
    <3> HIDE DEF body
    <3> QED
      BY <1>1, SpansAll
  <2> HIDE DEF body
  <2>5. Holds(body, 0, WriteStringMap(o))
    BY <2>3, <2>4, Zenon DEF Spans
  <2>6. ReadStringMap(At(body, 0, <<>>)) = At(body, 0 + Len(WriteStringMap(o)), o)
    <3>1. 0 \in Nat
      OBVIOUS
    <3> HIDE DEF o
    <3> QED
      BY <2>2, <2>4, <2>5, <3>1, StringMapComesBack
  <2>7. ReadStringMap(Reader(body)) = ReadList(ReadShort(Reader(body)), NodePair)
    BY Zenon DEF ReadStringMap, ReadPair, NodePair, ReadList, Repeat
  <2>8. At(body, 0 + Len(WriteStringMap(o)), o).v = o
    BY DEF At
  <2>9. NodeBody(m.op, body) = [op |-> "startup", options |-> ReadList(ReadShort(Reader(body)), NodePair).v]
    BY <2>1 DEF NodeBody
  <2>10. NodeBody(m.op, body) = m
    BY <2>1, <2>4, <2>6, <2>7, <2>8, <2>9, Zenon
  <2>11. m.op \in {"options", "startup", "prepare"}
    BY <2>1
  <2> QED
    BY <2>10, <2>11, AskedIs, Zenon DEF body
<1>4. CASE m \in Requests
  <2>1. m \in Asks
    BY <1>4, RequestsAssumption
  <2> QED
    BY <1>1, <2>1, CallersUnderstood
<1> QED
  BY <1>2, <1>3, <1>4 DEF Asking

(* The invariant implies that requests are understood. *)
LEMMA Understanding ==
  IInv => RequestUnderstood
<1> SUFFICES ASSUME IInv, stage = "sent", Fits(request) PROVE NodeReads(wire) = Asked(request)
  BY DEF RequestUnderstood
<1>1. /\ request \in Askable /\ wire = Serialize(request, stream, compressor)
      /\ phase \in {"new", "greeted", "open"} /\ offered \in BOOLEAN /\ compressor \in BOOLEAN
      /\ stream \in Streams \cup {0}
  BY DEF IInv
<1>2. request \in Asking
  BY <1>1, AskableIs
<1>3. NodeReads(Serialize(request, stream, compressor)) = NodeBody(request.op, SerializeBody(request))
  BY <1>1, <1>2, NodeReadsBody
<1>4. NodeBody(request.op, SerializeBody(request)) = Asked(request)
  BY <1>2, AskingUnderstood
<1> QED
  BY <1>1, <1>3, <1>4, Zenon

(* A node that reads the frame of a request as the protocol says finds in it what
   the caller asked, argument by argument, for every request whose counts and ids
   fit the [short] they are narrowed to. *)
THEOREM RequestsUnderstood == Spec => []RequestUnderstood
  BY InvariantHolds, Understanding, PTL

-----------------------------------------------------------------------------
(* The type of a column.                                                   *)

\* An option, given what its parts are parsed to.
PartAt(c, parts) == IF c.st = "ok" THEN parts[c.off] ELSE c
FieldAt(c, parts) == PartAt(ReadString(c), parts)
PartLoop(r, n, parts) == LET Part(c) == PartAt(c, parts) IN Repeat(r, n, Part)
FieldLoop(r, n, parts) == LET Field(c) == FieldAt(c, parts) IN Repeat(r, n, Field)
PartList(count, parts) == LET Part(c) == PartAt(c, parts) IN ReadList(count, Part)
FieldList(count, parts) == LET Field(c) == FieldAt(c, parts) IN ReadList(count, Field)

(* OptionAt by the name of the type. *)
OptionOf(name, type, parts) ==
  CASE name = "custom" -> ReadString(type)
    [] name \in {"list", "set"} -> PartAt(type, parts)
    [] name = "map" -> PartAt(PartAt(type, parts), parts)
    [] name = "udt" -> FieldList(ReadShort(ReadString(ReadString(type))), parts)
    [] name = "tuple" -> PartList(ReadShort(type), parts)
    [] OTHER -> type

(* OptionAt, once the number of the type is read. *)
LEMMA OptionIs ==
  ASSUME NEW data, NEW k, NEW i, NEW name \in DOMAIN ColumnType, NEW parts,
         ReadShort(At(data, k, <<>>)) = At(data, i, ColumnType[name])
  PROVE  OptionAt(At(data, k, <<>>), parts) = OptionOf(name, At(data, i, ColumnType[name]), parts)
<1> DEFINE type == At(data, i, ColumnType[name])
           Is(t) == type.st = "ok" /\ type.v = ColumnType[t]
<1>1. type.st = "ok" /\ type.v = ColumnType[name]
  BY DEF At
<1>2. OptionAt(At(data, k, <<>>), parts) =
        CASE Is("custom") -> ReadString(type)
          [] Is("list") \/ Is("set") -> PartAt(type, parts)
          [] Is("map") -> PartAt(PartAt(type, parts), parts)
          [] Is("udt") -> FieldList(ReadShort(ReadString(ReadString(type))), parts)
          [] Is("tuple") -> PartList(ReadShort(type), parts)
          [] OTHER -> type
  BY Zenon DEF OptionAt, PartAt, FieldAt, PartList, FieldList
<1> HIDE DEF type
<1>3. /\ Is("custom") <=> name = "custom"
      /\ Is("list") <=> name = "list"
      /\ Is("set") <=> name = "set"
      /\ Is("map") <=> name = "map"
      /\ Is("udt") <=> name = "udt"
      /\ Is("tuple") <=> name = "tuple"
  BY <1>1 DEF ColumnType
<1>4. OptionAt(At(data, k, <<>>), parts) = OptionOf(name, type, parts)
  <2>1. name \in {"list", "set"} <=> name = "list" \/ name = "set"
    OBVIOUS
  <2> HIDE DEF Is
  <2> QED
    BY <1>2, <1>3, <2>1, Zenon DEF OptionOf
<1> QED
  BY <1>4 DEF type

(* The loop over the parts of a tuple reads them all. *)
LEMMA PartsLoop ==
  ASSUME NEW data \in Seq(Nat), NEW S, NEW vs \in Seq(S), NEW off, NEW v, NEW parts,
         Len(vs) <= Len(data),
         \A i \in 1 .. Len(vs) : \A x :
           PartAt(At(data, off[i - 1], x), parts) = At(data, off[i], vs[i])
  PROVE  PartLoop(At(data, off[0], v), Len(vs), parts) = At(data, off[Len(vs)], vs)
<1> DEFINE N == Len(vs)
           h == Gather(data, off, vs)
           Is(u) == u = [i \in 0 .. N |-> IF i = 0 THEN At(data, off[0], <<>>)
                                          ELSE Turn(u[i - 1], PartAt(u[i - 1], parts))]
<1>1. N \in Nat /\ N <= Len(data)
  OBVIOUS
<1>2. /\ h = [i \in 0 .. N |-> h[i]]
      /\ h[0] = At(data, off[0], <<>>) /\ h[N] = At(data, off[N], vs)
      /\ \A i \in 1 .. N : /\ h[i - 1] = At(data, off[i - 1], SubSeq(vs, 1, i - 1))
                            /\ Turn(h[i - 1], At(data, off[i], vs[i])) = h[i]
  BY Gathered
<1>3. \A i \in 1 .. N : PartAt(h[i - 1], parts) = At(data, off[i], vs[i])
  BY <1>2, Zenon
<1>4. Is(h)
  <2>1. \A i \in 0 .. N : i = 0 \/ i \in 1 .. N
    BY <1>1
  <2> HIDE DEF h, N
  <2>2. \A i \in 0 .. N : h[i] = IF i = 0 THEN At(data, off[0], <<>>)
                                 ELSE Turn(h[i - 1], PartAt(h[i - 1], parts))
    BY <1>2, <1>3, <2>1, Zenon
  <2> QED
    BY <1>2, <2>2, Zenon
<1> DEFINE u == CHOOSE u : Is(u)
<1>5. Is(u)
  BY <1>4, Zenon
<1>6. PartLoop(At(data, off[0], v), N, parts) = u[N]
  <2>1. /\ Return(At(data, off[0], v), <<>>) = At(data, off[0], <<>>)
        /\ At(data, off[0], v).st = "ok" /\ At(data, off[0], v).data = data
    BY DEF Return, At
  <2> QED
    BY <1>1, <2>1, Zenon DEF PartLoop, Repeat, Turn
<1> HIDE DEF u
<1>7. u[0] = h[0] /\ \A i \in 1 .. N : u[i - 1] = h[i - 1] => u[i] = h[i]
  <2>1. 0 \in 0 .. N /\ \A i \in 1 .. N : i \in 0 .. N /\ i # 0
    BY <1>1
  <2> HIDE DEF h, N
  <2> QED
    BY <1>4, <1>5, <2>1, Zenon
<1>8. u[N] = h[N]
  <2> HIDE DEF h, N, Is
  <2> QED
    BY <1>1, <1>7, SameLoop
<1> QED
  BY <1>2, <1>6, <1>8, Zenon

(* The loop over the fields of a user-defined type reads them all. *)
LEMMA FieldsLoop ==
  ASSUME NEW data \in Seq(Nat), NEW S, NEW vs \in Seq(S), NEW off, NEW v, NEW parts,
         Len(vs) <= Len(data),
         \A i \in 1 .. Len(vs) : \A x :
           FieldAt(At(data, off[i - 1], x), parts) = At(data, off[i], vs[i])
  PROVE  FieldLoop(At(data, off[0], v), Len(vs), parts) = At(data, off[Len(vs)], vs)
<1> DEFINE N == Len(vs)
           h == Gather(data, off, vs)
           Is(u) == u = [i \in 0 .. N |-> IF i = 0 THEN At(data, off[0], <<>>)
                                          ELSE Turn(u[i - 1], FieldAt(u[i - 1], parts))]
<1>1. N \in Nat /\ N <= Len(data)
  OBVIOUS
<1>2. /\ h = [i \in 0 .. N |-> h[i]]
      /\ h[0] = At(data, off[0], <<>>) /\ h[N] = At(data, off[N], vs)
      /\ \A i \in 1 .. N : /\ h[i - 1] = At(data, off[i - 1], SubSeq(vs, 1, i - 1))
                            /\ Turn(h[i - 1], At(data, off[i], vs[i])) = h[i]
  BY Gathered
<1>3. \A i \in 1 .. N : FieldAt(h[i - 1], parts) = At(data, off[i], vs[i])
  BY <1>2, Zenon
<1>4. Is(h)
  <2>1. \A i \in 0 .. N : i = 0 \/ i \in 1 .. N
    BY <1>1
  <2> HIDE DEF h, N
  <2>2. \A i \in 0 .. N : h[i] = IF i = 0 THEN At(data, off[0], <<>>)
                                 ELSE Turn(h[i - 1], FieldAt(h[i - 1], parts))
    BY <1>2, <1>3, <2>1, Zenon
  <2> QED
    BY <1>2, <2>2, Zenon
<1> DEFINE u == CHOOSE u : Is(u)
<1>5. Is(u)
  BY <1>4, Zenon
<1>6. FieldLoop(At(data, off[0], v), N, parts) = u[N]
  <2>1. /\ Return(At(data, off[0], v), <<>>) = At(data, off[0], <<>>)
        /\ At(data, off[0], v).st = "ok" /\ At(data, off[0], v).data = data
    BY DEF Return, At
  <2> QED
    BY <1>1, <2>1, Zenon DEF FieldLoop, Repeat, Turn
<1> HIDE DEF u
<1>7. u[0] = h[0] /\ \A i \in 1 .. N : u[i - 1] = h[i - 1] => u[i] = h[i]
  <2>1. 0 \in 0 .. N /\ \A i \in 1 .. N : i \in 0 .. N /\ i # 0
    BY <1>1
  <2> HIDE DEF h, N
  <2> QED
    BY <1>4, <1>5, <2>1, Zenon
<1>8. u[N] = h[N]
  <2> HIDE DEF h, N, Is
  <2> QED
    BY <1>1, <1>7, SameLoop
<1> QED
  BY <1>2, <1>6, <1>8, Zenon

\* Where the bytes of a type are, and no more than e of them, the type is parsed
\* up to its end.
Goes(data, parts, e) ==
  \A t \in Types, i \in Nat, h \in Nat :
    Spans(data, i, EncodeType[t], h) /\ h <= i + e => \E x : parts[i] = At(data, h, x)

\* A reader at offset i gets to offset h, whatever it read before.
PartReads(data, i, parts, h) == \A v : \E x : PartAt(At(data, i, v), parts) = At(data, h, x)

(* A part of a type is parsed up to its end, since it is shorter than the type. *)
LEMMA PartGoes ==
  ASSUME NEW data, NEW parts, NEW e \in Nat, Goes(data, parts, e), NEW p \in Types, NEW k \in Nat, NEW j \in Nat,
         j <= k + (e + 1), NEW i \in Nat, NEW h \in Nat, k + 2 <= i, h <= j,
         Spans(data, i, EncodeType[p], h)
  PROVE  PartReads(data, i, parts, h)
<1>1. h <= i + e
  OBVIOUS
<1>2. \E x : parts[i] = At(data, h, x)
  BY <1>1, Zenon DEF Goes
<1>3. \A v : PartAt(At(data, i, v), parts) = parts[i]
  <2>1. \A v : At(data, i, v).st = "ok" /\ At(data, i, v).off = i
    BY DEF At
  <2> QED
    BY <2>1, Zenon DEF PartAt
<1> QED
  BY <1>2, <1>3, Zenon DEF PartReads

(* The bytes of the parts of a type and of the fields of a user-defined one. *)
LEMMA EveryPart ==
  ASSUME NEW t \in Types
  PROVE  /\ PartsOf(EncodeType, t) \in Seq(Seq(Bytes)) /\ Len(PartsOf(EncodeType, t)) = Len(t.parts)
         /\ FieldsOf(EncodeType, t) \in Seq(Seq(Bytes)) /\ Len(FieldsOf(EncodeType, t)) = Len(t.parts)
         /\ Len(t.parts) \in Nat
         /\ \A i \in 1 .. Len(t.parts) :
              /\ t.parts[i] \in Types
              /\ PartsOf(EncodeType, t)[i] = EncodeType[t.parts[i]]
              /\ FieldsOf(EncodeType, t)[i] = WriteString(<<1>>) \o EncodeType[t.parts[i]]
              /\ EncodeType[t.parts[i]] \in Seq(Bytes)
              /\ Len(PartsOf(EncodeType, t)[i]) > 0 /\ Len(FieldsOf(EncodeType, t)[i]) > 0
<1> DEFINE n == Len(t.parts)
           ps == PartsOf(EncodeType, t)
           fs == FieldsOf(EncodeType, t)
<1>1. n \in Nat /\ \A i \in 1 .. n : t.parts[i] \in Types
  BY PartsBelow
<1>2. ps = [i \in 1 .. n |-> ps[i]] /\ fs = [i \in 1 .. n |-> fs[i]]
  BY Zenon DEF PartsOf, FieldsOf
<1>3. \A i \in 1 .. n : ps[i] = EncodeType[t.parts[i]] /\ fs[i] = WriteString(<<1>>) \o EncodeType[t.parts[i]]
  BY Zenon DEF PartsOf, FieldsOf
<1>4. ASSUME NEW i \in 1 .. n
      PROVE  /\ EncodeType[t.parts[i]] \in Seq(Bytes)
             /\ ps[i] \in Seq(Bytes) /\ fs[i] \in Seq(Bytes)
             /\ Len(ps[i]) > 0 /\ Len(fs[i]) > 0
  <2> DEFINE a == WriteString(<<1>>)
             b == EncodeType[t.parts[i]]
  <2>1. a \in Seq(Bytes) /\ b \in Seq(Bytes) /\ Len(b) >= 2
    BY <1>1, TypeWritten, NamesWritten
  <2>2. ps[i] = b /\ fs[i] = a \o b
    BY <1>3
  <2> HIDE DEF a, b, ps, fs
  <2>3. a \o b \in Seq(Bytes) /\ Len(a \o b) = Len(a) + Len(b) /\ Len(a) \in Nat /\ Len(b) \in Nat
    BY <2>1, Joined
  <2> QED
    BY <2>1, <2>2, <2>3 DEF b
<1> HIDE DEF ps, fs, n
<1>5. ps \in Seq(Seq(Bytes)) /\ Len(ps) = n /\ fs \in Seq(Seq(Bytes)) /\ Len(fs) = n
  BY <1>1, <1>2, <1>4, PartsWritten
<1> QED
  BY <1>1, <1>3, <1>4, <1>5, Zenon DEF ps, fs, n

(* A tuple: as many parts as it says, one after the other. *)
TupleReads(data, i, v, parts, j) == \E x : PartList(ReadShort(At(data, i, v)), parts) = At(data, j, x)

(* The types of a tuple are parsed up to the end of the last. *)
LEMMA TupleSpan ==
  ASSUME NEW data \in Seq(Nat), NEW parts, NEW e \in Nat, Goes(data, parts, e), NEW t \in Types,
         Len(t.parts) < Square, NEW k \in Nat, NEW j \in Nat, j <= k + (e + 1), NEW i \in Nat, k + 2 <= i, NEW v,
         Spans(data, i, WriteIntBE(Len(t.parts), 2) \o Concat(PartsOf(EncodeType, t)), j)
  PROVE  TupleReads(data, i, v, parts, j)
<1> DEFINE n == Len(t.parts)
           a == WriteIntBE(n, 2)
           ws == PartsOf(EncodeType, t)
           b == Concat(ws)
<1>1. ws \in Seq(Seq(Bytes)) /\ Len(ws) = n /\ n \in Nat
  BY EveryPart
<1>2. \A m \in 1 .. n : t.parts[m] \in Types /\ ws[m] = EncodeType[t.parts[m]] /\ Len(ws[m]) > 0
  BY EveryPart
<1> HIDE DEF ws, n
<1>3. a \in Seq(Bytes) /\ b \in Seq(Bytes) /\ n < Square
  BY <1>1, Written, ConcatBytes DEF n
<1>4. PICK h \in Nat : Spans(data, i, a, h) /\ Spans(data, h, b, j)
  <2>1. Spans(data, i, a \o b, j)
    BY DEF ws, n
  <2> HIDE DEF a, b
  <2> QED
    BY <1>3, <2>1, SpansParts
<1>5. i <= h
  <2>1. Len(a) = 2 /\ h = i + Len(a)
    BY <1>1, <1>4, Written DEF Spans
  <2> HIDE DEF a
  <2> QED
    BY <2>1
<1>6. ReadShort(At(data, i, v)) = At(data, h, n)
  BY <1>1, <1>3, <1>4, ShortSpan
<1>7. PICK off : Laid(data, h, ws, j, off)
  BY <1>1, <1>4, LaidOut
<1>8. n <= Len(data)
  BY <1>1, <1>2, <1>4, LaidOut
<1> DEFINE vs == [m \in 1 .. n |-> PartAt(At(data, off[m - 1], <<>>), parts).v]
<1>9. vs \in Seq({vs[m] : m \in 1 .. n}) /\ Len(vs) = n
  <2>1. vs = [m \in 1 .. n |-> vs[m]]
    BY Zenon
  <2> HIDE DEF vs
  <2> QED
    BY <1>1, <2>1, MadeOf
<1>10. ASSUME NEW m \in 1 .. n, NEW x
       PROVE  PartAt(At(data, off[m - 1], x), parts) = At(data, off[m], vs[m])
  <2>1. /\ Spans(data, off[m - 1], EncodeType[t.parts[m]], off[m])
        /\ off[m - 1] \in Nat /\ h <= off[m - 1] /\ off[m] \in Nat /\ off[m] <= j
    BY <1>1, <1>2, <1>7, Zenon DEF Laid
  <2>2. k + 2 <= off[m - 1]
    BY <1>5, <2>1
  <2>3. PartReads(data, off[m - 1], parts, off[m])
    <3> DEFINE p == t.parts[m]
               c == off[m - 1]
               d == off[m]
    <3>1. p \in Types /\ c \in Nat /\ d \in Nat /\ k + 2 <= c /\ d <= j /\ Spans(data, c, EncodeType[p], d)
      BY <1>2, <2>1, <2>2
    <3> HIDE DEF p, c, d
    <3>2. PartReads(data, c, parts, d)
      BY <3>1, PartGoes
    <3> QED
      BY <3>2 DEF c, d
  <2>4. PICK z : PartAt(At(data, off[m - 1], <<>>), parts) = At(data, off[m], z)
    BY <2>3, Zenon DEF PartReads
  <2>5. vs[m] = z
    <3>1. At(data, off[m], z).v = z
      BY DEF At
    <3> QED
      BY <2>4, <3>1, Zenon
  <2>6. PartAt(At(data, off[m - 1], x), parts) = PartAt(At(data, off[m - 1], <<>>), parts)
    <3>1. /\ At(data, off[m - 1], x).st = "ok" /\ At(data, off[m - 1], x).off = off[m - 1]
          /\ At(data, off[m - 1], <<>>).st = "ok" /\ At(data, off[m - 1], <<>>).off = off[m - 1]
      BY DEF At
    <3> QED
      BY <3>1, Zenon DEF PartAt
  <2> HIDE DEF vs
  <2> QED
    BY <2>4, <2>5, <2>6, Zenon
<1> HIDE DEF vs
<1>11. PartLoop(At(data, off[0], n), n, parts) = At(data, off[n], vs)
  <2>1. \A m \in 1 .. Len(vs) : \A x : PartAt(At(data, off[m - 1], x), parts) = At(data, off[m], vs[m])
    BY <1>9, <1>10, Zenon
  <2>2. Len(vs) <= Len(data)
    BY <1>8, <1>9
  <2>3. PartLoop(At(data, off[0], n), Len(vs), parts) = At(data, off[Len(vs)], vs)
    BY <1>9, <2>1, <2>2, PartsLoop, ZenonT(60)
  <2> QED
    BY <1>9, <2>3, Zenon
<1>12. PartList(At(data, h, n), parts) = PartLoop(At(data, h, n), n, parts)
  <2>1. At(data, h, n).st = "ok" /\ At(data, h, n).v = n /\ n >= 0
    BY <1>1 DEF At
  <2> QED
    BY <2>1, Zenon DEF PartList, PartLoop, ReadList
<1>13. off[0] = h /\ off[n] = j
  BY <1>1, <1>7, Zenon DEF Laid
<1> QED
  BY <1>6, <1>11, <1>12, <1>13, Zenon DEF TupleReads

(* The fields of a user-defined type: a name and a type, one after the other. *)
FieldsRead(data, i, v, parts, j) == \E x : FieldList(ReadShort(At(data, i, v)), parts) = At(data, j, x)

(* The fields of a user-defined type are parsed up to the end of the last. *)
LEMMA FieldsSpan ==
  ASSUME NEW data \in Seq(Nat), NEW parts, NEW e \in Nat, Goes(data, parts, e), NEW t \in Types,
         Len(t.parts) < Square, NEW k \in Nat, NEW j \in Nat, j <= k + (e + 1), NEW i \in Nat, k + 2 <= i, NEW v,
         Spans(data, i, WriteIntBE(Len(t.parts), 2) \o Concat(FieldsOf(EncodeType, t)), j)
  PROVE  FieldsRead(data, i, v, parts, j)
<1> DEFINE n == Len(t.parts)
           a == WriteIntBE(n, 2)
           ws == FieldsOf(EncodeType, t)
           b == Concat(ws)
           name == WriteString(<<1>>)
<1>1. ws \in Seq(Seq(Bytes)) /\ Len(ws) = n /\ n \in Nat
  BY EveryPart
<1>2. \A m \in 1 .. n : /\ t.parts[m] \in Types /\ EncodeType[t.parts[m]] \in Seq(Bytes)
                        /\ ws[m] = name \o EncodeType[t.parts[m]] /\ Len(ws[m]) > 0
  BY EveryPart
<1> HIDE DEF ws, n
<1>3. a \in Seq(Bytes) /\ b \in Seq(Bytes) /\ n < Square
  BY <1>1, Written, ConcatBytes DEF n
<1>4. PICK h \in Nat : Spans(data, i, a, h) /\ Spans(data, h, b, j)
  <2>1. Spans(data, i, a \o b, j)
    BY DEF ws, n
  <2> HIDE DEF a, b
  <2> QED
    BY <1>3, <2>1, SpansParts
<1>5. i <= h
  <2>1. Len(a) = 2 /\ h = i + Len(a)
    BY <1>1, <1>4, Written DEF Spans
  <2> HIDE DEF a
  <2> QED
    BY <2>1
<1>6. ReadShort(At(data, i, v)) = At(data, h, n)
  BY <1>1, <1>3, <1>4, ShortSpan
<1>7. PICK off : Laid(data, h, ws, j, off)
  BY <1>1, <1>4, LaidOut
<1>8. n <= Len(data)
  BY <1>1, <1>2, <1>4, LaidOut
<1> DEFINE vs == [m \in 1 .. n |-> FieldAt(At(data, off[m - 1], <<>>), parts).v]
<1>9. vs \in Seq({vs[m] : m \in 1 .. n}) /\ Len(vs) = n
  <2>1. vs = [m \in 1 .. n |-> vs[m]]
    BY Zenon
  <2> HIDE DEF vs
  <2> QED
    BY <1>1, <2>1, MadeOf
<1>10. ASSUME NEW m \in 1 .. n, NEW x
       PROVE  FieldAt(At(data, off[m - 1], x), parts) = At(data, off[m], vs[m])
  <2> DEFINE p == t.parts[m]
             c == off[m - 1]
             d == off[m]
             q == EncodeType[p]
  <2>1. /\ Spans(data, c, name \o q, d) /\ q \in Seq(Bytes) /\ p \in Types
        /\ c \in Nat /\ h <= c /\ d \in Nat /\ d <= j
    BY <1>1, <1>2, <1>7, Zenon DEF Laid
  <2>2. name \in Seq(Bytes) /\ <<1>> \in ShortTexts /\ Len(name) \in Nat
    BY NamesWritten, NamesShort
  <2>3. vs[m] = FieldAt(At(data, c, <<>>), parts).v
    BY Zenon
  <2> HIDE DEF vs, p, c, d, q, name
  <2>4. PICK l \in Nat : Spans(data, c, name, l) /\ Spans(data, l, q, d)
    BY <2>1, <2>2, SpansParts
  <2>5. k + 2 <= l
    <3>1. l = c + Len(name)
      BY <2>4 DEF Spans
    <3> QED
      BY <1>5, <2>1, <2>2, <3>1
  <2>6. \A y : ReadString(At(data, c, y)) = At(data, l, <<1>>)
    BY <2>1, <2>2, <2>4, StringSpan DEF name
  <2>7. PartReads(data, l, parts, d)
    BY <2>1, <2>4, <2>5, PartGoes DEF q
  <2>8. PICK z : PartAt(At(data, l, <<1>>), parts) = At(data, d, z)
    BY <2>7, Zenon DEF PartReads
  <2>9. \A y : FieldAt(At(data, c, y), parts) = At(data, d, z)
    BY <2>6, <2>8, Zenon DEF FieldAt
  <2>10. vs[m] = z
    <3>1. At(data, d, z).v = z
      BY DEF At
    <3> QED
      BY <2>3, <2>9, <3>1, Zenon
  <2> QED
    BY <2>9, <2>10, Zenon DEF c, d
<1> HIDE DEF vs
<1>11. FieldLoop(At(data, off[0], n), n, parts) = At(data, off[n], vs)
  <2>1. \A m \in 1 .. Len(vs) : \A x : FieldAt(At(data, off[m - 1], x), parts) = At(data, off[m], vs[m])
    BY <1>9, <1>10, Zenon
  <2>2. Len(vs) <= Len(data)
    BY <1>8, <1>9
  <2>3. FieldLoop(At(data, off[0], n), Len(vs), parts) = At(data, off[Len(vs)], vs)
    BY <1>9, <2>1, <2>2, FieldsLoop, ZenonT(60)
  <2> QED
    BY <1>9, <2>3, Zenon
<1>12. FieldList(At(data, h, n), parts) = FieldLoop(At(data, h, n), n, parts)
  <2>1. At(data, h, n).st = "ok" /\ At(data, h, n).v = n /\ n >= 0
    BY <1>1 DEF At
  <2> QED
    BY <2>1, Zenon DEF FieldList, FieldLoop, ReadList
<1>13. off[0] = h /\ off[n] = j
  BY <1>1, <1>7, Zenon DEF Laid
<1> QED
  BY <1>6, <1>11, <1>12, <1>13, Zenon DEF FieldsRead

(* A type of any kind, of which the parts are parsed. *)
OptionReads(data, k, parts, j) == \E x : OptionAt(At(data, k, <<>>), parts) = At(data, j, x)

(* A type is parsed up to its end when shorter ones are. *)
LEMMA OptionSpan ==
  ASSUME NEW data \in Seq(Nat), NEW parts, NEW e \in Nat, Goes(data, parts, e), NEW t \in Types,
         NEW k \in Nat, NEW j \in Nat, j <= k + (e + 1), Spans(data, k, EncodeType[t], j)
  PROVE  OptionReads(data, k, parts, j)
<1> DEFINE name == t.name
           code == ColumnType[name]
           a == WriteIntBE(code, 2)
           rest == TypeRest(EncodeType, t)
           ps == PartsOf(EncodeType, t)
           n == Len(t.parts)
<1>1. name \in DOMAIN ColumnType /\ code \in Nat /\ code < Square
  BY PartsBelow, Codes
<1>2. a \in Seq(Bytes) /\ Len(a) = 2 /\ rest \in Seq(Bytes)
  BY <1>1, Written, TypeWritten
<1>3. EncodeType[t] = a \o rest
  BY TypeEquation DEF TypeBytes
<1>4. PICK i \in Nat : Spans(data, k, a, i) /\ Spans(data, i, rest, j)
  <2>1. Spans(data, k, a \o rest, j)
    BY <1>3
  <2> HIDE DEF a, rest
  <2> QED
    BY <1>2, <2>1, SpansParts
<1>5. i = k + 2 /\ k + 2 <= i
  <2> HIDE DEF a
  <2>1. i = k + Len(a)
    BY <1>4 DEF Spans
  <2> QED
    BY <1>2, <2>1
<1>6. ReadShort(At(data, k, <<>>)) = At(data, i, code)
  BY <1>1, <1>4, ShortSpan
<1> DEFINE type == At(data, i, code)
<1>7. OptionAt(At(data, k, <<>>), parts) = OptionOf(name, type, parts)
  BY <1>1, <1>6, OptionIs
<1>8. /\ ps \in Seq(Seq(Bytes)) /\ Len(ps) = n
      /\ \A m \in 1 .. n : t.parts[m] \in Types /\ ps[m] = EncodeType[t.parts[m]]
  BY EveryPart
<1>9. SUFFICES \E x : OptionOf(name, type, parts) = At(data, j, x)
  BY <1>7, Zenon DEF OptionReads
<1> HIDE DEF a, code, rest
<1>10. CASE name = "custom" /\ rest = WriteString(<<1, 2>>)
  <2>1. OptionOf(name, type, parts) = ReadString(type)
    BY <1>10 DEF OptionOf
  <2>2. Spans(data, i, WriteString(<<1, 2>>), j)
    BY <1>4, <1>10
  <2>3. ReadString(type) = At(data, j, <<1, 2>>)
    BY <2>2, NamesShort, StringSpan
  <2> QED
    BY <2>1, <2>3, Zenon
<1>11. CASE name \in {"list", "set"} /\ n = 1 /\ rest = Concat(ps)
  <2>1. OptionOf(name, type, parts) = PartAt(type, parts)
    BY <1>11 DEF OptionOf
  <2>2. PICK off : Laid(data, i, ps, j, off)
    BY <1>4, <1>8, <1>11, LaidOut
  <2>3. 1 \in 1 .. n /\ 1 - 1 = 0
    BY <1>11
  <2>4. off[0] = i /\ off[1] = j /\ Spans(data, off[0], ps[1], off[1])
    BY <1>8, <1>11, <2>2, <2>3, Zenon DEF Laid
  <2>5. Spans(data, i, EncodeType[t.parts[1]], j) /\ t.parts[1] \in Types
    BY <1>8, <2>3, <2>4, Zenon
  <2>6. j <= j
    OBVIOUS
  <2>7. PartReads(data, i, parts, j)
    BY <1>5, <2>5, <2>6, PartGoes
  <2> QED
    BY <2>1, <2>7, Zenon DEF PartReads
<1>12. CASE name = "map" /\ n = 2 /\ rest = Concat(ps)
  <2>1. OptionOf(name, type, parts) = PartAt(PartAt(type, parts), parts)
    BY <1>12 DEF OptionOf
  <2>2. PICK off : Laid(data, i, ps, j, off)
    BY <1>4, <1>8, <1>12, LaidOut
  <2>3. 1 \in 1 .. n /\ 1 - 1 = 0 /\ 2 \in 1 .. n /\ 2 - 1 = 1
    BY <1>12
  <2> DEFINE h == off[1]
  <2>4. /\ off[0] = i /\ off[2] = j /\ Spans(data, off[0], ps[1], off[1]) /\ Spans(data, off[1], ps[2], off[2])
        /\ h \in Nat /\ i <= h /\ h <= j
    BY <1>8, <1>12, <2>2, <2>3, Zenon DEF Laid
  <2>5. /\ Spans(data, i, EncodeType[t.parts[1]], h) /\ t.parts[1] \in Types
        /\ Spans(data, h, EncodeType[t.parts[2]], j) /\ t.parts[2] \in Types
    BY <1>8, <2>3, <2>4, Zenon
  <2> HIDE DEF h
  <2>6. PartReads(data, i, parts, h)
    BY <1>5, <2>4, <2>5, PartGoes
  <2>7. j <= j /\ k + 2 <= h
    BY <1>5, <2>4
  <2>8. PartReads(data, h, parts, j)
    BY <2>4, <2>5, <2>7, PartGoes
  <2>9. PICK y : PartAt(type, parts) = At(data, h, y)
    BY <2>6, Zenon DEF PartReads
  <2> QED
    BY <2>1, <2>8, <2>9, Zenon DEF PartReads
<1>13. CASE /\ name = "udt" /\ n < Square
            /\ rest = WriteString(<<1>>) \o WriteString(<<2>>) \o (WriteIntBE(n, 2) \o Concat(FieldsOf(EncodeType, t)))
  <2> DEFINE x == WriteString(<<1>>)
             y == WriteString(<<2>>)
             fs == FieldsOf(EncodeType, t)
             c == WriteIntBE(n, 2)
             d == Concat(fs)
             z == c \o d
  <2>1. OptionOf(name, type, parts) = FieldList(ReadShort(ReadString(ReadString(type))), parts)
    BY <1>13 DEF OptionOf
  <2>2. x \in Seq(Bytes) /\ y \in Seq(Bytes) /\ Len(x) = 3 /\ Len(y) = 3
    BY NamesWritten
  <2>3. z \in Seq(Bytes)
    <3>1. n \in Nat /\ fs \in Seq(Seq(Bytes))
      BY EveryPart
    <3>2. c \in Seq(Bytes) /\ d \in Seq(Bytes)
      BY <3>1, Written, ConcatBytes
    <3> HIDE DEF c, d
    <3> QED
      BY <3>2, Joined
  <2>4. PICK g \in Nat, h \in Nat : Spans(data, i, x, g) /\ Spans(data, g, y, h) /\ Spans(data, h, z, j)
    <3>1. Spans(data, i, x \o y \o z, j)
      BY <1>4, <1>13
    <3> HIDE DEF x, y, z
    <3> QED
      BY <2>2, <2>3, <3>1, SpansParts3
  <2>5. k + 2 <= h
    BY <1>5, <2>2, <2>4 DEF Spans
  <2>6. ReadString(type) = At(data, g, <<1>>) /\ ReadString(At(data, g, <<1>>)) = At(data, h, <<2>>)
    BY <2>4, NamesShort, StringSpan
  <2>7. FieldsRead(data, h, <<2>>, parts, j)
    BY <1>13, <2>4, <2>5, FieldsSpan
  <2> QED
    BY <2>1, <2>6, <2>7, Zenon DEF FieldsRead
<1>14. CASE name = "tuple" /\ n < Square /\ rest = WriteIntBE(n, 2) \o Concat(ps)
  <2>1. OptionOf(name, type, parts) = PartList(ReadShort(type), parts)
    BY <1>14 DEF OptionOf
  <2>2. Spans(data, i, WriteIntBE(n, 2) \o Concat(ps), j)
    BY <1>4, <1>14
  <2>3. TupleReads(data, i, code, parts, j)
    BY <1>5, <1>14, <2>2, TupleSpan
  <2> QED
    BY <2>1, <2>3, Zenon DEF TupleReads
<1>15. CASE name \in {"bigint", "int", "varchar"} /\ rest = <<>>
  <2>1. OptionOf(name, type, parts) = type
    BY <1>15 DEF OptionOf
  <2>2. j = i
    BY <1>4, <1>15 DEF Spans
  <2> QED
    BY <2>1, <2>2
<1> QED
  BY <1>10, <1>11, <1>12, <1>13, <1>14, <1>15, TypeForms DEF rest

(* The levels of ParseColumnOption: what it makes of each offset when types are
   nested no deeper than that. *)
MovedTo(r, k) == [r EXCEPT !.off = k, !.v = <<>>]
LevelZero(r) == [k \in 0 .. Len(r.data) |-> Fail(r, "throw")]
LevelAbove(r, parts) == [k \in 0 .. Len(r.data) |-> OptionAt(MovedTo(r, k), parts)]

(* What ParseColumnOption is given by at each depth of nesting exists. *)
IsParse(f, n, r) == f = [i \in 0 .. n |-> IF i = 0 THEN LevelZero(r) ELSE LevelAbove(r, f[i - 1])]

(* ParseColumnOption has a value at each depth of nesting. *)
LEMMA ParseExists ==
  ASSUME NEW r, NEW n \in Nat
  PROVE  \E f : IsParse(f, n, r)
<1> DEFINE S == {m \in Nat : \E f : IsParse(f, m, r)}
<1>1. 0 \in S
  <2> DEFINE f == [i \in 0 .. 0 |-> LevelZero(r)]
  <2>1. \A i \in 0 .. 0 : i = 0
    OBVIOUS
  <2>2. IsParse(f, 0, r)
    BY <2>1, Zenon DEF IsParse
  <2> HIDE DEF f
  <2> QED
    BY <2>2
<1>2. ASSUME NEW m \in Nat, m \in S PROVE m + 1 \in S
  <2>1. PICK f : IsParse(f, m, r)
    BY <1>2
  <2> DEFINE g == [i \in 0 .. m + 1 |-> IF i = 0 THEN LevelZero(r) ELSE LevelAbove(r, f[i - 1])]
  <2>2. ASSUME NEW i \in 0 .. m + 1, i # 0 PROVE f[i - 1] = g[i - 1]
    <3>1. i - 1 \in 0 .. m /\ i - 1 \in 0 .. m + 1
      BY <2>2
    <3> QED
      BY <2>1, <3>1, Zenon DEF IsParse
  <2>3. IsParse(g, m + 1, r)
    BY <2>2, Zenon DEF IsParse
  <2> HIDE DEF g
  <2> QED
    BY <2>3
<1>3. Nat \subseteq S
  <2> HIDE DEF S
  <2> QED
    BY <1>1, <1>2, Induction
<1> QED
  BY <1>3

(* ParseColumnOption is its value at a depth no type in the buffer exceeds. *)
LEMMA ParseIs ==
  ASSUME NEW r, r.st = "ok", Len(r.data) \in Nat
  PROVE  \E f : IsParse(f, Len(r.data), r) /\ ParseColumnOption(r) = f[Len(r.data)][r.off]
<1> DEFINE size == Len(r.data)
           P(f) == f = [depth \in 0 .. size |->
                          [k \in 0 .. size |-> IF depth = 0 THEN Fail(r, "throw")
                                               ELSE OptionAt([r EXCEPT !.off = k, !.v = <<>>], f[depth - 1])]]
           parse == CHOOSE f : P(f)
<1>1. ASSUME NEW f PROVE P(f) <=> IsParse(f, size, r)
  <2>1. ASSUME NEW depth \in 0 .. size
        PROVE  [k \in 0 .. size |-> IF depth = 0 THEN Fail(r, "throw")
                                    ELSE OptionAt([r EXCEPT !.off = k, !.v = <<>>], f[depth - 1])] =
                 IF depth = 0 THEN LevelZero(r) ELSE LevelAbove(r, f[depth - 1])
    <3>1. CASE depth = 0
      BY <3>1, Zenon DEF LevelZero
    <3>2. CASE depth # 0
      BY <3>2, Zenon DEF LevelAbove, MovedTo
    <3> QED
      BY <3>1, <3>2
  <2>2. [depth \in 0 .. size |->
           [k \in 0 .. size |-> IF depth = 0 THEN Fail(r, "throw")
                                ELSE OptionAt([r EXCEPT !.off = k, !.v = <<>>], f[depth - 1])]] =
        [i \in 0 .. size |-> IF i = 0 THEN LevelZero(r) ELSE LevelAbove(r, f[i - 1])]
    BY <2>1, Zenon
  <2> QED
    BY <2>2, Zenon DEF IsParse
<1>2. ParseColumnOption(r) = parse[size][r.off]
  BY Zenon DEF ParseColumnOption
<1>3. \E f : IsParse(f, size, r)
  BY ParseExists
<1>4. IsParse(parse, size, r)
  <2>1. \E f : P(f)
    BY <1>1, <1>3, Zenon
  <2>2. P(parse)
    BY <2>1, Zenon
  <2> HIDE DEF parse
  <2> QED
    BY <1>1, <2>2, Zenon
<1> HIDE DEF parse
<1> QED
  BY <1>2, <1>4, Zenon

(* A reader moved to another offset. *)
LEMMA Moved ==
  ASSUME NEW data, NEW k, NEW v, NEW i
  PROVE  MovedTo(At(data, k, v), i) = At(data, i, <<>>)
<1>1. [At(data, k, v) EXCEPT !.off = i] = At(data, i, v)
  BY DEF At
<1>2. [At(data, i, v) EXCEPT !.v = <<>>] = At(data, i, <<>>)
  BY DEF At
<1> QED
  BY <1>1, <1>2 DEF MovedTo

(* The type of a column is parsed up to its end: each part of a type has at least
   two bytes less than the type itself, so the depths suffice. *)
LEMMA DepthsSuffice ==
  ASSUME NEW data \in Seq(Nat), NEW k0, NEW v0, NEW f, IsParse(f, Len(data), At(data, k0, v0)),
         NEW e \in 0 .. Len(data)
  PROVE  Goes(data, f[e], e)
<1> DEFINE size == Len(data)
           r == At(data, k0, v0)
           S == {n \in Nat : n <= size => Goes(data, f[n], n)}
<1>1. size \in Nat /\ r.data = data /\ Len(r.data) = size
  BY DEF At
<1>2. 0 \in S
  <2>1. ASSUME NEW t \in Types, NEW i \in Nat, NEW h \in Nat, Spans(data, i, EncodeType[t], h), h <= i + 0
        PROVE  FALSE
    <3>1. Len(EncodeType[t]) \in Nat /\ Len(EncodeType[t]) >= 2
      BY TypeWritten
    <3>2. h = i + Len(EncodeType[t])
      BY <2>1 DEF Spans
    <3> QED
      BY <2>1, <3>1, <3>2
  <2>2. Goes(data, f[0], 0)
    BY <2>1, Zenon DEF Goes
  <2> QED
    BY <2>2
<1>3. ASSUME NEW n \in Nat, n \in S PROVE n + 1 \in S
  <2>1. SUFFICES ASSUME n + 1 <= size PROVE Goes(data, f[n + 1], n + 1)
    OBVIOUS
  <2>2. Goes(data, f[n], n)
    BY <1>1, <1>3, <2>1
  <2>3. n + 1 \in 0 .. size /\ n + 1 # 0 /\ (n + 1) - 1 = n
    BY <1>1, <2>1
  <2>4. f[n + 1] = LevelAbove(r, f[n])
    <3> HIDE DEF size, r
    <3>1. IsParse(f, size, r)
      BY DEF size, r
    <3> QED
      BY <2>3, <3>1, Zenon DEF IsParse
  <2>5. ASSUME NEW t \in Types, NEW i \in Nat, NEW h \in Nat, Spans(data, i, EncodeType[t], h), h <= i + (n + 1)
        PROVE  \E x : f[n + 1][i] = At(data, h, x)
    <3>1. OptionReads(data, i, f[n], h)
      <4> DEFINE parts == f[n]
      <4>1. Goes(data, parts, n)
        BY <2>2
      <4> HIDE DEF parts
      <4>2. OptionReads(data, i, parts, h)
        BY <2>5, <4>1, OptionSpan
      <4> QED
        BY <4>2 DEF parts
    <3>2. i \in 0 .. size
      <4>1. i + Len(EncodeType[t]) <= size /\ Len(EncodeType[t]) \in Nat
        BY <2>5, TypeWritten DEF Spans, Holds
      <4> QED
        BY <1>1, <4>1
    <3>3. MovedTo(r, i) = At(data, i, <<>>)
      BY Moved, Zenon
    <3>4. f[n + 1][i] = OptionAt(At(data, i, <<>>), f[n])
      <4> HIDE DEF r, size
      <4> QED
        BY <1>1, <2>4, <3>2, <3>3, Zenon DEF LevelAbove
    <3> QED
      BY <3>1, <3>4, Zenon DEF OptionReads
  <2> QED
    BY <2>5, Zenon DEF Goes
<1>4. Nat \subseteq S
  <2> HIDE DEF S
  <2> QED
    BY <1>2, <1>3, Induction
<1>5. e \in Nat /\ e <= size
  BY <1>1
<1>6. e \in S
  BY <1>4, <1>5
<1> QED
  BY <1>5, <1>6

(* A type is parsed up to its end, whatever was read before. *)
TypeReads(data, k, v, j) == \E x : ParseColumnOption(At(data, k, v)) = At(data, j, x)

(* ParseColumnOption parses every type up to its end. *)
LEMMA TypeSpan ==
  ASSUME NEW data \in Seq(Nat), NEW k \in Nat, NEW j \in Nat, NEW v, NEW t \in Types,
         Spans(data, k, EncodeType[t], j)
  PROVE  TypeReads(data, k, v, j)
<1> DEFINE r == At(data, k, v)
           size == Len(data)
<1>1. r.st = "ok" /\ r.data = data /\ r.off = k /\ Len(r.data) = size /\ size \in Nat
  BY DEF At
<1> HIDE DEF r
<1>2. PICK f : IsParse(f, size, r) /\ ParseColumnOption(r) = f[size][k]
  BY <1>1, ParseIs
<1>3. Goes(data, f[size], size)
  <2>1. size \in 0 .. size
    BY <1>1
  <2>2. IsParse(f, Len(data), At(data, k, v))
    BY <1>2 DEF r
  <2> QED
    BY <2>1, <2>2, DepthsSuffice
<1>4. j <= k + size
  <2> DEFINE l == Len(EncodeType[t])
  <2>1. j = k + l /\ k + l <= size
    BY DEF Spans, Holds
  <2> QED
    BY <1>1, <2>1
<1>5. \E x : f[size][k] = At(data, j, x)
  BY <1>3, <1>4, Zenon DEF Goes
<1> QED
  BY <1>2, <1>5, Zenon DEF r, TypeReads

(* A column: its names, without a global table spec, and its type. *)
ColumnReads(data, k, global, j) == \E x : \A v : ParseColumn(At(data, k, v), global) = At(data, j, x)

(* ParseColumn parses the specification of a column up to its end. *)
LEMMA ColumnSpan ==
  ASSUME NEW data \in Seq(Nat), NEW k \in Nat, NEW j \in Nat, NEW t \in Types, NEW global \in BOOLEAN,
         Spans(data, k, ColumnBytes(t, global), j)
  PROVE  ColumnReads(data, k, global, j)
<1> DEFINE x == WriteString(<<1>>)
           y == WriteString(<<2>>)
           z == WriteString(<<3>>)
           q == EncodeType[t]
           names == IF global THEN <<>> ELSE Spec2
<1>1. x \in Seq(Bytes) /\ y \in Seq(Bytes) /\ z \in Seq(Bytes) /\ q \in Seq(Bytes) /\ names \in Seq(Bytes)
  BY NamesWritten, TypeWritten, ColumnWritten
<1>2. Spans(data, k, names \o z \o q, j)
  BY Zenon DEF ColumnBytes
<1>3. PICK g \in Nat, h \in Nat : Spans(data, k, names, g) /\ Spans(data, g, z, h) /\ Spans(data, h, q, j)
  <2> HIDE DEF names, z, q
  <2> QED
    BY <1>1, <1>2, SpansParts3
<1>4. ASSUME NEW v
      PROVE  \E w : (IF global THEN At(data, k, v) ELSE ReadString(ReadString(At(data, k, v)))) = At(data, g, w)
  <2>1. CASE global
    <3>1. g = k
      BY <1>3, <2>1 DEF Spans
    <3> QED
      BY <2>1, <3>1
  <2>2. CASE ~global
    <3>1. Spans(data, k, x \o y, g)
      BY <1>3, <2>2 DEF Spec2
    <3>2. PICK i \in Nat : Spans(data, k, x, i) /\ Spans(data, i, y, g)
      <4> HIDE DEF x, y
      <4> QED
        BY <1>1, <3>1, SpansParts
    <3>3. ReadString(At(data, k, v)) = At(data, i, <<1>>) /\ ReadString(At(data, i, <<1>>)) = At(data, g, <<2>>)
      BY <3>2, NamesShort, StringSpan
    <3> QED
      BY <2>2, <3>3, Zenon
  <2> QED
    BY <2>1, <2>2
<1>5. \A w : ReadString(At(data, g, w)) = At(data, h, <<3>>)
  BY <1>3, NamesShort, StringSpan
<1>6. PICK e : ParseColumnOption(At(data, h, <<3>>)) = At(data, j, e)
  <2>1. TypeReads(data, h, <<3>>, j)
    BY <1>3, TypeSpan
  <2> QED
    BY <2>1, Zenon DEF TypeReads
<1>7. \A v : ParseColumn(At(data, k, v), global) = At(data, j, e)
  BY <1>4, <1>5, <1>6, Zenon DEF ParseColumn
<1> QED
  BY <1>7, Zenon DEF ColumnReads

(* The loop over the columns. *)
ColumnLoop(r, n, global) == LET Parse(c) == ParseColumn(c, global) IN Repeat(r, n, Parse)

(* The loop over the columns reads them all. *)
LEMMA ColumnsLoop ==
  ASSUME NEW data \in Seq(Nat), NEW S, NEW vs \in Seq(S), NEW off, NEW v, NEW global,
         Len(vs) <= Len(data),
         \A i \in 1 .. Len(vs) : \A x :
           ParseColumn(At(data, off[i - 1], x), global) = At(data, off[i], vs[i])
  PROVE  ColumnLoop(At(data, off[0], v), Len(vs), global) = At(data, off[Len(vs)], vs)
<1> DEFINE N == Len(vs)
           h == Gather(data, off, vs)
           Is(u) == u = [i \in 0 .. N |-> IF i = 0 THEN At(data, off[0], <<>>)
                                          ELSE Turn(u[i - 1], ParseColumn(u[i - 1], global))]
<1>1. N \in Nat /\ N <= Len(data)
  OBVIOUS
<1>2. /\ h = [i \in 0 .. N |-> h[i]]
      /\ h[0] = At(data, off[0], <<>>) /\ h[N] = At(data, off[N], vs)
      /\ \A i \in 1 .. N : /\ h[i - 1] = At(data, off[i - 1], SubSeq(vs, 1, i - 1))
                            /\ Turn(h[i - 1], At(data, off[i], vs[i])) = h[i]
  BY Gathered
<1>3. \A i \in 1 .. N : ParseColumn(h[i - 1], global) = At(data, off[i], vs[i])
  BY <1>2, Zenon
<1>4. Is(h)
  <2>1. \A i \in 0 .. N : i = 0 \/ i \in 1 .. N
    BY <1>1
  <2> HIDE DEF h, N
  <2>2. \A i \in 0 .. N : h[i] = IF i = 0 THEN At(data, off[0], <<>>)
                                 ELSE Turn(h[i - 1], ParseColumn(h[i - 1], global))
    BY <1>2, <1>3, <2>1, Zenon
  <2> QED
    BY <1>2, <2>2, Zenon
<1> DEFINE u == CHOOSE u : Is(u)
<1>5. Is(u)
  BY <1>4, Zenon
<1>6. ColumnLoop(At(data, off[0], v), N, global) = u[N]
  <2>1. /\ Return(At(data, off[0], v), <<>>) = At(data, off[0], <<>>)
        /\ At(data, off[0], v).st = "ok" /\ At(data, off[0], v).data = data
    BY DEF Return, At
  <2> QED
    BY <1>1, <2>1, Zenon DEF ColumnLoop, Repeat, Turn
<1> HIDE DEF u
<1>7. u[0] = h[0] /\ \A i \in 1 .. N : u[i - 1] = h[i - 1] => u[i] = h[i]
  <2>1. 0 \in 0 .. N /\ \A i \in 1 .. N : i \in 0 .. N /\ i # 0
    BY <1>1
  <2> HIDE DEF h, N
  <2> QED
    BY <1>4, <1>5, <2>1, Zenon
<1>8. u[N] = h[N]
  <2> HIDE DEF h, N, Is
  <2> QED
    BY <1>1, <1>7, SameLoop
<1> QED
  BY <1>2, <1>6, <1>8, Zenon

(* All the columns are parsed up to the end of the last. *)
ColumnsRead(data, k, v, n, global, j) == \E x : ParseColumns(At(data, k, v), n, global) = At(data, j, x)

(* The specifications of all the columns are parsed up to the end of the last. *)
LEMMA ColumnsSpan ==
  ASSUME NEW data \in Seq(Nat), NEW k \in Nat, NEW j \in Nat, NEW types \in Seq(Types), NEW global \in BOOLEAN,
         NEW v, Spans(data, k, EncodeColumns(types, global), j)
  PROVE  ColumnsRead(data, k, v, Len(types), global, j)
<1> DEFINE x == WriteString(<<1>>)
           y == WriteString(<<2>>)
           n == Len(types)
           ws == [i \in 1 .. n |-> ColumnBytes(types[i], global)]
           names == IF global THEN Spec2 ELSE <<>>
           b == Concat(ws)
<1>1. n \in Nat /\ \A i \in 1 .. n : types[i] \in Types
  OBVIOUS
<1>2. /\ ws = [i \in 1 .. n |-> ws[i]]
      /\ \A i \in 1 .. n : ws[i] = ColumnBytes(types[i], global) /\ ws[i] \in Seq(Bytes) /\ Len(ws[i]) >= 5
  BY <1>1, ColumnWritten, Zenon
<1>3. ws \in Seq(Seq(Bytes)) /\ Len(ws) = n /\ b \in Seq(Bytes)
  <2> HIDE DEF ws, n
  <2> QED
    BY <1>1, <1>2, PartsWritten
<1>4. Spans(data, k, names \o b, j)
  BY ColumnsWritten, Zenon DEF ColumnsBytes
<1>5. x \in Seq(Bytes) /\ y \in Seq(Bytes) /\ names \in Seq(Bytes)
  BY NamesWritten, ColumnsWritten
<1>6. PICK h \in Nat : Spans(data, k, names, h) /\ Spans(data, h, b, j)
  <2> HIDE DEF names, b
  <2> QED
    BY <1>3, <1>4, <1>5, SpansParts
<1>7. \E w : (IF global THEN ReadString(ReadString(At(data, k, v))) ELSE At(data, k, v)) = At(data, h, w)
  <2>1. CASE ~global
    <3>1. h = k
      BY <1>6, <2>1 DEF Spans
    <3> QED
      BY <2>1, <3>1
  <2>2. CASE global
    <3>1. Spans(data, k, x \o y, h)
      BY <1>6, <2>2 DEF Spec2
    <3>2. PICK i \in Nat : Spans(data, k, x, i) /\ Spans(data, i, y, h)
      <4> HIDE DEF x, y
      <4> QED
        BY <1>5, <3>1, SpansParts
    <3>3. ReadString(At(data, k, v)) = At(data, i, <<1>>) /\ ReadString(At(data, i, <<1>>)) = At(data, h, <<2>>)
      BY <3>2, NamesShort, StringSpan
    <3> QED
      BY <2>2, <3>3, Zenon
  <2> QED
    BY <2>1, <2>2
<1> HIDE DEF ws, n
<1>8. PICK off : Laid(data, h, ws, j, off)
  BY <1>3, <1>6, LaidOut
<1>9. n <= Len(data)
  <2>1. ASSUME NEW i \in 1 .. n PROVE Len(ws[i]) > 0
    <3> DEFINE w == ws[i]
    <3>1. w \in Seq(Bytes) /\ Len(w) >= 5
      BY <1>2, Zenon
    <3> HIDE DEF w
    <3>2. Len(w) > 0
      BY <3>1
    <3> QED
      BY <3>2 DEF w
  <2>2. \A i \in 1 .. Len(ws) : Len(ws[i]) > 0
    BY <1>3, <2>1, Zenon
  <2> QED
    BY <1>3, <1>6, <2>2, LaidOut
<1> DEFINE vs == [i \in 1 .. n |-> ParseColumn(At(data, off[i - 1], <<>>), global).v]
<1>10. vs \in Seq({vs[i] : i \in 1 .. n}) /\ Len(vs) = n
  <2>1. vs = [i \in 1 .. n |-> vs[i]]
    BY Zenon
  <2> HIDE DEF vs
  <2> QED
    BY <1>1, <2>1, MadeOf
<1>11. ASSUME NEW i \in 1 .. n, NEW w
       PROVE  ParseColumn(At(data, off[i - 1], w), global) = At(data, off[i], vs[i])
  <2> DEFINE t == types[i]
             c == off[i - 1]
             d == off[i]
  <2>1. t \in Types /\ c \in Nat /\ d \in Nat /\ Spans(data, c, ColumnBytes(t, global), d)
    BY <1>1, <1>2, <1>3, <1>8, Zenon DEF Laid
  <2>2. vs[i] = ParseColumn(At(data, c, <<>>), global).v
    BY Zenon
  <2> HIDE DEF t, c, d, vs
  <2>3. PICK z : \A u : ParseColumn(At(data, c, u), global) = At(data, d, z)
    BY <2>1, ColumnSpan, Zenon DEF ColumnReads
  <2>4. vs[i] = z
    <3>1. At(data, d, z).v = z
      BY DEF At
    <3> QED
      BY <2>2, <2>3, <3>1, Zenon
  <2> QED
    BY <2>3, <2>4, Zenon DEF c, d
<1> HIDE DEF vs
<1>12. ASSUME NEW w PROVE ColumnLoop(At(data, off[0], w), n, global) = At(data, off[n], vs)
  <2>1. \A m \in 1 .. Len(vs) : \A u : ParseColumn(At(data, off[m - 1], u), global) = At(data, off[m], vs[m])
    BY <1>10, <1>11, Zenon
  <2>2. Len(vs) <= Len(data)
    BY <1>9, <1>10
  <2>3. ColumnLoop(At(data, off[0], w), Len(vs), global) = At(data, off[Len(vs)], vs)
    BY <1>10, <2>1, <2>2, ColumnsLoop, ZenonT(60)
  <2> QED
    BY <1>10, <2>3, Zenon
<1>13. off[0] = h /\ off[n] = j
  BY <1>3, <1>8, Zenon DEF Laid
<1>14. ParseColumns(At(data, k, v), n, global) = At(data, j, vs)
  BY <1>7, <1>12, <1>13, Zenon DEF ParseColumns, ColumnLoop
<1> QED
  BY <1>14, Zenon DEF ColumnsRead, n

-----------------------------------------------------------------------------
(* The rows come back.                                                     *)

CellReads(data, k, type, cell, j) == \A v : ReadBytes(At(data, k, v)) = At(data, j, CellBytes(type, cell))

(* A cell comes back: its bytes, or none for a null. *)
LEMMA CellSpan ==
  ASSUME NEW data \in Seq(Nat), NEW k \in Nat, NEW j, NEW type, NEW cell, CellOf(type, cell),
         Spans(data, k, EncodeCell(type, cell), j)
  PROVE  CellReads(data, k, type, cell, j)
<1> DEFINE s == CellBytes(type, cell)
<1>1. s \in Texts /\ cell.null \in BOOLEAN
  BY CellWritten DEF CellOf
<1>2. CASE cell.null
  <2>1. Spans(data, k, WriteIntBE(-1, 4), j) /\ s = <<>>
    BY <1>2, CellWritten
  <2>2. -1 \in Ints
    BY Limits DEF Ints
  <2>3. ASSUME NEW v PROVE ReadBytes(At(data, k, v)) = At(data, j, <<>>)
    <3>1. ReadInt(At(data, k, v)) = At(data, j, -1)
      BY <2>1, <2>2, IntSpan
    <3>2. At(data, j, -1).st = "ok" /\ ~(At(data, j, -1).v > 0) /\ Return(At(data, j, -1), <<>>) = At(data, j, <<>>)
      BY AtIs
    <3> QED
      BY <3>1, <3>2, Zenon DEF ReadBytes, Counted
  <2> QED
    BY <2>1, <2>3, Zenon DEF CellReads
<1>3. CASE ~cell.null
  <2>1. Spans(data, k, WriteBytes(s), j)
    BY <1>3, CellWritten
  <2> HIDE DEF s
  <2>2. \A v : ReadBytes(At(data, k, v)) = At(data, j, s)
    BY <1>1, <2>1, BytesSpan
  <2> QED
    BY <2>2, Zenon DEF CellReads, s
<1> QED
  BY <1>1, <1>2, <1>3

\* A row of the answer, as the driver keeps it.
CellsOf(types, row) == [i \in 1 .. Len(row) |-> CellBytes(types[i].name, row[i])]
RowReads(data, k, types, row, j) == \A v : ByteStrings(At(data, k, v), Len(row)) = At(data, j, CellsOf(types, row))

(* A row comes back, cell by cell. *)
LEMMA RowSpan ==
  ASSUME NEW data \in Seq(Nat), NEW k \in Nat, NEW j, NEW types, NEW row, Len(row) \in Nat,
         \A i \in 1 .. Len(row) : CellOf(types[i].name, row[i]),
         Spans(data, k, RowBytes(types, row), j)
  PROVE  /\ RowReads(data, k, types, row, j)
         /\ Len(row) <= Len(data)
<1> DEFINE n == Len(row)
           ws == [i \in 1 .. n |-> EncodeCell(types[i].name, row[i])]
           vs == CellsOf(types, row)
<1>1. /\ ws = [i \in 1 .. n |-> ws[i]]
      /\ \A i \in 1 .. n : ws[i] = EncodeCell(types[i].name, row[i])
      /\ vs = [i \in 1 .. n |-> vs[i]]
      /\ \A i \in 1 .. n : vs[i] = CellBytes(types[i].name, row[i])
  BY Zenon DEF CellsOf
<1>2. Spans(data, k, Concat(ws), j)
  BY Zenon DEF RowBytes
<1>3. n \in Nat /\ \A i \in 1 .. n : CellOf(types[i].name, row[i])
  OBVIOUS
<1> HIDE DEF ws, vs, n
<1>4. ASSUME NEW i \in 1 .. n PROVE ws[i] \in Seq(Bytes) /\ Len(ws[i]) > 0
  <2> DEFINE w == EncodeCell(types[i].name, row[i])
  <2>1. w \in Seq(Bytes) /\ Len(w) >= 4
    BY <1>3, CellWritten
  <2>2. ws[i] = w
    BY <1>1, Zenon
  <2> HIDE DEF w
  <2>3. Len(w) > 0
    BY <2>1
  <2> QED
    BY <2>1, <2>2, <2>3, Zenon
<1>5. ws \in Seq(Seq(Bytes)) /\ Len(ws) = n
  BY <1>1, <1>3, <1>4, PartsWritten
<1>6. PICK off : Laid(data, k, ws, j, off)
  BY <1>2, <1>5, LaidOut
<1>7. n <= Len(data)
  <2>1. \A i \in 1 .. Len(ws) : Len(ws[i]) > 0
    BY <1>4, <1>5, Zenon
  <2> QED
    BY <1>2, <1>5, <2>1, LaidOut
<1>8. vs \in Seq({vs[i] : i \in 1 .. n}) /\ Len(vs) = n
  BY <1>1, <1>3, MadeOf
<1>9. ASSUME NEW i \in 1 .. n, NEW x
      PROVE  ReadBytes(At(data, off[i - 1], x)) = At(data, off[i], vs[i])
  <2> DEFINE type == types[i].name
             cell == row[i]
             c == off[i - 1]
             d == off[i]
  <2>1. CellOf(type, cell) /\ c \in Nat /\ Spans(data, c, EncodeCell(type, cell), d)
    BY <1>1, <1>3, <1>5, <1>6, Zenon DEF Laid
  <2>2. vs[i] = CellBytes(type, cell)
    BY <1>1, Zenon
  <2> HIDE DEF type, cell, c, d
  <2>3. CellReads(data, c, type, cell, d)
    BY <2>1, CellSpan
  <2> QED
    BY <2>2, <2>3, Zenon DEF CellReads, c, d
<1>10. ASSUME NEW v PROVE ByteStrings(At(data, off[0], v), n) = At(data, off[n], vs)
  <2>1. \A m \in 1 .. Len(vs) : \A x : ReadBytes(At(data, off[m - 1], x)) = At(data, off[m], vs[m])
    BY <1>8, <1>9, Zenon
  <2>2. Len(vs) <= Len(data)
    BY <1>7, <1>8
  <2>3. ByteStrings(At(data, off[0], v), Len(vs)) = At(data, off[Len(vs)], vs)
    BY <1>8, <2>1, <2>2, BytesLoop
  <2> QED
    BY <1>8, <2>3, Zenon
<1>11. off[0] = k /\ off[n] = j
  BY <1>5, <1>6, Zenon DEF Laid
<1>12. RowReads(data, k, types, row, j)
  BY <1>10, <1>11, Zenon DEF RowReads, vs, n
<1> QED
  BY <1>7, <1>12 DEF n

(* The loop over the rows. *)
RowLoop(r, n, columns) == LET ParseRow(c) == ByteStrings(c, columns) IN Repeat(r, n, ParseRow)

(* The loop over the rows reads them all. *)
LEMMA RowsLoop ==
  ASSUME NEW data \in Seq(Nat), NEW S, NEW vs \in Seq(S), NEW off, NEW v, NEW columns,
         Len(vs) <= Len(data),
         \A i \in 1 .. Len(vs) : \A x :
           ByteStrings(At(data, off[i - 1], x), columns) = At(data, off[i], vs[i])
  PROVE  RowLoop(At(data, off[0], v), Len(vs), columns) = At(data, off[Len(vs)], vs)
<1> DEFINE N == Len(vs)
           h == Gather(data, off, vs)
           Is(u) == u = [i \in 0 .. N |-> IF i = 0 THEN At(data, off[0], <<>>)
                                          ELSE Turn(u[i - 1], ByteStrings(u[i - 1], columns))]
<1>1. N \in Nat /\ N <= Len(data)
  OBVIOUS
<1>2. /\ h = [i \in 0 .. N |-> h[i]]
      /\ h[0] = At(data, off[0], <<>>) /\ h[N] = At(data, off[N], vs)
      /\ \A i \in 1 .. N : /\ h[i - 1] = At(data, off[i - 1], SubSeq(vs, 1, i - 1))
                            /\ Turn(h[i - 1], At(data, off[i], vs[i])) = h[i]
  BY Gathered
<1>3. \A i \in 1 .. N : ByteStrings(h[i - 1], columns) = At(data, off[i], vs[i])
  BY <1>2, Zenon
<1>4. Is(h)
  <2>1. \A i \in 0 .. N : i = 0 \/ i \in 1 .. N
    BY <1>1
  <2> HIDE DEF h, N
  <2>2. \A i \in 0 .. N : h[i] = IF i = 0 THEN At(data, off[0], <<>>)
                                 ELSE Turn(h[i - 1], ByteStrings(h[i - 1], columns))
    BY <1>2, <1>3, <2>1, Zenon
  <2> QED
    BY <1>2, <2>2, Zenon
<1> DEFINE u == CHOOSE u : Is(u)
<1>5. Is(u)
  BY <1>4, Zenon
<1>6. RowLoop(At(data, off[0], v), N, columns) = u[N]
  <2>1. /\ Return(At(data, off[0], v), <<>>) = At(data, off[0], <<>>)
        /\ At(data, off[0], v).st = "ok" /\ At(data, off[0], v).data = data
    BY DEF Return, At
  <2> QED
    BY <1>1, <2>1, Zenon DEF RowLoop, Repeat, Turn
<1> HIDE DEF u
<1>7. u[0] = h[0] /\ \A i \in 1 .. N : u[i - 1] = h[i - 1] => u[i] = h[i]
  <2>1. 0 \in 0 .. N /\ \A i \in 1 .. N : i \in 0 .. N /\ i # 0
    BY <1>1
  <2> HIDE DEF h, N
  <2> QED
    BY <1>4, <1>5, <2>1, Zenon
<1>8. u[N] = h[N]
  <2> HIDE DEF h, N, Is
  <2> QED
    BY <1>1, <1>7, SameLoop
<1> QED
  BY <1>2, <1>6, <1>8, Zenon

(* The rows of the answer, as the driver keeps them. *)
RowsOf(types, rows) == [i \in 1 .. Len(rows) |-> CellsOf(types, rows[i])]
TableReads(data, k, types, rows, j) ==
  \A v : RowLoop(At(data, k, v), Len(rows), Len(types)) = At(data, j, RowsOf(types, rows))

(* The rows come back, row by row. *)
LEMMA TableSpan ==
  ASSUME NEW data \in Seq(Nat), NEW k \in Nat, NEW j, NEW r, RowsReply(r),
         Spans(data, k, RowsBytes(r.types, r.rows), j)
  PROVE  TableReads(data, k, r.types, r.rows, j)
<1> DEFINE types == r.types
           rows == r.rows
           n == Len(rows)
           m == Len(types)
           ws == [i \in 1 .. n |-> RowBytes(types, rows[i])]
           vs == RowsOf(types, rows)
<1>1. /\ ws = [i \in 1 .. n |-> ws[i]]
      /\ \A i \in 1 .. n : ws[i] = RowBytes(types, rows[i])
      /\ vs = [i \in 1 .. n |-> vs[i]]
      /\ \A i \in 1 .. n : vs[i] = CellsOf(types, rows[i])
  BY Zenon DEF RowsOf
<1>2. Spans(data, k, Concat(ws), j)
  BY Zenon DEF RowsBytes
<1>3. /\ n \in Nat /\ m \in Nat /\ m >= 1
      /\ \A i \in 1 .. n : RowBytes(types, rows[i]) \in Seq(Bytes)
      /\ \A i \in 1 .. n : Len(rows[i]) = m /\ \A l \in 1 .. m : CellOf(types[l].name, rows[i][l])
  <2>1. m \in 1 .. IntLimit - 1
    BY DEF RowsReply
  <2>2. m \in Nat /\ m >= 1
    BY <2>1, Limits
  <2> QED
    BY <2>2, RowsWritten, Zenon DEF RowsReply
<1> HIDE DEF ws, vs, n, m, types, rows
<1>4. ASSUME NEW i \in 1 .. n PROVE ws[i] \in Seq(Bytes) /\ Len(ws[i]) > 0
  <2> DEFINE row == rows[i]
             w == RowBytes(types, row)
  <2>1. Len(row) = m /\ Len(row) \in Nat /\ w \in Seq(Bytes) /\ ws[i] = w
    BY <1>1, <1>3, Zenon
  <2>2. \A l \in 1 .. Len(row) : CellOf(types[l].name, row[l])
    BY <1>3, Zenon
  <2>3. w \in Seq(Nat) /\ Spans(w, 0, w, Len(w))
    <3> HIDE DEF w
    <3> QED
      BY <2>1, SpansAll
  <2> DEFINE d == w
             e == Len(w)
  <2>4. d \in Seq(Nat) /\ Spans(d, 0, RowBytes(types, row), e) /\ d \in Seq(Bytes)
    BY <2>1, <2>3, Zenon
  <2> HIDE DEF d, e, row
  <2>5. Len(row) <= Len(d)
    BY <2>1, <2>2, <2>4, RowSpan
  <2>6. Len(d) > 0
    <3> DEFINE x == Len(row)
               y == Len(d)
    <3>1. x \in Nat /\ x >= 1 /\ y \in Nat /\ x <= y
      BY <1>3, <2>1, <2>4, <2>5
    <3> HIDE DEF x, y
    <3>2. y > 0
      BY <3>1
    <3> QED
      BY <3>2 DEF y
  <2> QED
    BY <2>1, <2>6, Zenon DEF d, row
<1>5. ws \in Seq(Seq(Bytes)) /\ Len(ws) = n
  BY <1>1, <1>3, <1>4, PartsWritten
<1>6. PICK off : Laid(data, k, ws, j, off)
  BY <1>2, <1>5, LaidOut
<1>7. n <= Len(data)
  <2>1. \A i \in 1 .. Len(ws) : Len(ws[i]) > 0
    BY <1>4, <1>5, Zenon
  <2> QED
    BY <1>2, <1>5, <2>1, LaidOut
<1>8. vs \in Seq({vs[i] : i \in 1 .. n}) /\ Len(vs) = n
  BY <1>1, <1>3, MadeOf
<1>9. ASSUME NEW i \in 1 .. n, NEW x
      PROVE  ByteStrings(At(data, off[i - 1], x), m) = At(data, off[i], vs[i])
  <2> DEFINE row == rows[i]
             c == off[i - 1]
             d == off[i]
  <2>1. /\ Len(row) = m /\ Len(row) \in Nat /\ c \in Nat /\ Spans(data, c, RowBytes(types, row), d)
        /\ \A l \in 1 .. Len(row) : CellOf(types[l].name, row[l])
    BY <1>1, <1>3, <1>5, <1>6, Zenon DEF Laid
  <2>2. vs[i] = CellsOf(types, row)
    BY <1>1, Zenon
  <2> HIDE DEF row, c, d
  <2>3. RowReads(data, c, types, row, d)
    BY <2>1, RowSpan
  <2> QED
    BY <2>1, <2>2, <2>3, Zenon DEF RowReads, c, d
<1>10. ASSUME NEW v PROVE RowLoop(At(data, off[0], v), n, m) = At(data, off[n], vs)
  <2>1. \A i \in 1 .. Len(vs) : \A x : ByteStrings(At(data, off[i - 1], x), m) = At(data, off[i], vs[i])
    BY <1>8, <1>9, Zenon
  <2>2. Len(vs) <= Len(data)
    BY <1>7, <1>8
  <2>3. RowLoop(At(data, off[0], v), Len(vs), m) = At(data, off[Len(vs)], vs)
    BY <1>8, <2>1, <2>2, RowsLoop, ZenonT(60)
  <2> QED
    BY <1>8, <2>3, Zenon
<1>11. off[0] = k /\ off[n] = j
  BY <1>5, <1>6, Zenon DEF Laid
<1> QED
  BY <1>10, <1>11, Zenon DEF TableReads, vs, n, m, types, rows

(* The metadata is parsed up to its end. *)
MetadataReads(data, k, v, flags, n, j) == \E x : Metadata(At(data, k, v), flags, n) = At(data, j, x)

(* The metadata of the columns, which may be left out, is parsed up to its end. *)
LEMMA MetadataSpan ==
  ASSUME NEW data \in Seq(Nat), NEW k \in Nat, NEW j \in Nat, NEW v, NEW r, RowsReply(r),
         Spans(data, k, ColumnsOf(r), j)
  PROVE  MetadataReads(data, k, v, r.flags, Len(r.types), j)
<1> DEFINE types == r.types
           n == Len(types)
           global == Global(r.flags)
<1>1. types \in Seq(Types) /\ n \in Nat /\ ~(n < 0) /\ global \in BOOLEAN
  BY HasIsBoolean DEF RowsReply, Global
<1>2. At(data, k, v).st = "ok"
  BY AtIs
<1>3. CASE Has(r.flags, RowsFlag.no_metadata)
  <2>1. j = k
    BY <1>3 DEF ColumnsOf, Spans
  <2>2. Metadata(At(data, k, v), r.flags, n) = At(data, k, v)
    BY <1>3, Zenon DEF Metadata
  <2> QED
    BY <2>1, <2>2, Zenon DEF MetadataReads
<1>4. CASE ~Has(r.flags, RowsFlag.no_metadata)
  <2>1. Spans(data, k, EncodeColumns(types, global), j)
    BY <1>4, Zenon DEF ColumnsOf
  <2>2. Metadata(At(data, k, v), r.flags, n) = ParseColumns(At(data, k, v), n, global)
    BY <1>1, <1>2, <1>4, Zenon DEF Metadata, Global
  <2> HIDE DEF types, global
  <2>3. ColumnsRead(data, k, v, Len(types), global, j)
    BY <1>1, <2>1, ColumnsSpan
  <2> QED
    BY <2>2, <2>3, Zenon DEF ColumnsRead, MetadataReads, types
<1> QED
  BY <1>3, <1>4

(* The paging state is parsed up to its end. *)
PagingReads(data, k, v, flags, j) == \E x : PagingState(At(data, k, v), flags) = At(data, j, x)

(* The paging state, which may be left out, is parsed up to its end. *)
LEMMA PagingSpan ==
  ASSUME NEW data \in Seq(Nat), NEW k \in Nat, NEW j, NEW v, NEW flags, Spans(data, k, Paging(flags), j)
  PROVE  PagingReads(data, k, v, flags, j)
<1>1. At(data, k, v).st = "ok"
  BY AtIs
<1>2. CASE Has(flags, RowsFlag.has_more_pages)
  <2> DEFINE s == <<1, 2, 3>>
  <2>1. s \in Texts
    <3>1. s \in Seq(Bytes) /\ Len(s) = 3
      BY Limits DEF Bytes
    <3>2. 3 < IntLimit
      BY Limits
    <3> QED
      BY <3>1, <3>2 DEF Texts
  <2>2. Spans(data, k, WriteBytes(s), j)
    BY <1>2, Zenon DEF Paging
  <2> HIDE DEF s
  <2>3. ReadBytes(At(data, k, v)) = At(data, j, s)
    BY <2>1, <2>2, BytesSpan
  <2> QED
    BY <1>1, <1>2, <2>3, Zenon DEF PagingState, PagingReads
<1>3. CASE ~Has(flags, RowsFlag.has_more_pages)
  <2>1. j = k
    BY <1>3 DEF Paging, Spans
  <2> QED
    BY <1>3, <2>1, Zenon DEF PagingState, PagingReads
<1> QED
  BY <1>2, <1>3

(* The rows an answer says it has, or the exception of a negative count. *)
RowsParsed(data, k, r) ==
  \A v : ParseRows(At(data, k, v)) =
           IF r.count < 0 THEN [st |-> "throw"]
           ELSE [st |-> "ok", kind |-> 2, columns |-> Len(r.types), rows |-> RowsOf(r.types, r.rows)]

(* ParseRows takes the rows of an answer out of it. *)
LEMMA RowsSpan ==
  ASSUME NEW data \in Seq(Nat), NEW k \in Nat, NEW j, NEW r, RowsReply(r), Spans(data, k, EncodeRows(r), j)
  PROVE  RowsParsed(data, k, r)
<1> DEFINE n == Len(r.types)
           a == WriteIntBE(r.flags, 4)
           b == WriteIntBE(n, 4)
           c == Paging(r.flags)
           d == ColumnsOf(r)
           e == WriteIntBE(r.count, 4)
           f == RowsBytes(r.types, r.rows)
           x == a \o b \o c \o d
           flags == r.flags
           count == r.count
<1>1. /\ a \in Seq(Bytes) /\ b \in Seq(Bytes) /\ c \in Seq(Bytes) /\ d \in Seq(Bytes)
      /\ e \in Seq(Bytes) /\ f \in Seq(Bytes)
      /\ flags \in Ints /\ n \in Ints /\ count \in Ints
  BY RowsReplyWritten
<1>2. Spans(data, k, a \o b \o c \o d \o e \o f, j)
  BY RowsReplyWritten
<1>3. x \in Seq(Bytes)
  <2> HIDE DEF a, b, c, d
  <2>1. a \o b \o c \in Seq(Bytes)
    BY <1>1, Joined3
  <2> QED
    BY <1>1, <2>1, JoinedBytes
<1>4. PICK k4 \in Nat, k5 \in Nat : Spans(data, k, x, k4) /\ Spans(data, k4, e, k5) /\ Spans(data, k5, f, j)
  <2>1. Spans(data, k, x \o e \o f, j)
    BY <1>2
  <2> HIDE DEF x, e, f
  <2> QED
    BY <1>1, <1>3, <2>1, SpansParts3
<1>5. PICK k1 \in Nat, k2 \in Nat, k3 \in Nat :
        Spans(data, k, a, k1) /\ Spans(data, k1, b, k2) /\ Spans(data, k2, c, k3) /\ Spans(data, k3, d, k4)
  <2>1. Spans(data, k, a \o b \o c \o d, k4)
    BY <1>4
  <2> HIDE DEF a, b, c, d
  <2> QED
    BY <1>1, <2>1, SpansParts4
<1>6. \A v : ReadInt(At(data, k, v)) = At(data, k1, flags)
  <2> HIDE DEF flags
  <2> QED
    BY <1>1, <1>5, IntSpan DEF flags
<1>7. \A v : ReadInt(At(data, k1, v)) = At(data, k2, n)
  <2> HIDE DEF n
  <2> QED
    BY <1>1, <1>5, IntSpan
<1>8. PICK p : PagingState(At(data, k2, n), flags) = At(data, k3, p)
  <2>1. PagingReads(data, k2, n, flags, k3)
    BY <1>5, PagingSpan
  <2> QED
    BY <2>1, Zenon DEF PagingReads
<1>9. PICK m : Metadata(At(data, k3, p), flags, n) = At(data, k4, m)
  <2>1. MetadataReads(data, k3, p, flags, n, k4)
    BY <1>5, MetadataSpan
  <2> QED
    BY <2>1, Zenon DEF MetadataReads
<1>10. ReadInt(At(data, k4, m)) = At(data, k5, count)
  BY <1>1, <1>4, IntSpan
<1> DEFINE at == At(data, k5, count)
           rows == RowsOf(r.types, r.rows)
<1>11. at.st = "ok" /\ at.v = count /\ At(data, k1, flags).v = flags /\ At(data, k2, n).v = n
  BY AtIs
<1>12. ASSUME NEW v PROVE ParseRows(At(data, k, v)) = RowKind(Content(at, n), n)
  BY <1>6, <1>7, <1>8, <1>9, <1>10, <1>11, Zenon DEF ParseRows, AfterStart, AfterFlags
<1>13. CASE count < 0
  <2>1. Content(at, n) = Fail(at, "throw")
    BY <1>11, <1>13, Zenon DEF Content
  <2>2. Fail(at, "throw").st = "throw"
    BY DEF Fail, At
  <2>3. RowKind(Content(at, n), n) = [st |-> "throw"]
    BY <2>1, <2>2, Zenon DEF RowKind
  <2> QED
    BY <1>12, <1>13, <2>3, Zenon DEF RowsParsed
<1>14. CASE ~(count < 0)
  <2>1. count = Len(r.rows)
    <3>1. count \in {-1, Len(r.rows)}
      BY DEF RowsReply
    <3> QED
      BY <1>14, <3>1
  <2>2. Content(at, n) = RowLoop(at, count, n)
    BY <1>11, <1>14, Zenon DEF Content, RowLoop, ByteStrings
  <2>3. TableReads(data, k5, r.types, r.rows, j)
    BY <1>4, TableSpan
  <2>4. Content(at, n) = At(data, j, rows)
    BY <2>1, <2>2, <2>3, Zenon DEF TableReads
  <2>5. At(data, j, rows).st = "ok" /\ At(data, j, rows).v = rows
    <3> HIDE DEF rows
    <3> QED
      BY AtIs
  <2>6. ResultKind.rows = 2
    BY DEF ResultKind
  <2>7. RowKind(Content(at, n), n) = [st |-> "ok", kind |-> 2, columns |-> n, rows |-> rows]
    BY <2>4, <2>5, <2>6, Zenon DEF RowKind
  <2> QED
    BY <1>12, <1>14, <2>7, Zenon DEF RowsParsed
<1> QED
  BY <1>13, <1>14

-----------------------------------------------------------------------------
(* The other results.                                                      *)

Indexes(count) == ReadList(count, ReadShort)
IndexLoop(r, n) == Repeat(r, n, ReadShort)

(* The loop over the indexes reads them all. *)
LEMMA IndexesLoop ==
  ASSUME NEW data \in Seq(Nat), NEW S, NEW vs \in Seq(S), NEW off, NEW v,
         Len(vs) <= Len(data),
         \A i \in 1 .. Len(vs) : \A x :
           ReadShort(At(data, off[i - 1], x)) = At(data, off[i], vs[i])
  PROVE  IndexLoop(At(data, off[0], v), Len(vs)) = At(data, off[Len(vs)], vs)
<1> DEFINE N == Len(vs)
           h == Gather(data, off, vs)
           Is(u) == u = [i \in 0 .. N |-> IF i = 0 THEN At(data, off[0], <<>>)
                                          ELSE Turn(u[i - 1], ReadShort(u[i - 1]))]
<1>1. N \in Nat /\ N <= Len(data)
  OBVIOUS
<1>2. /\ h = [i \in 0 .. N |-> h[i]]
      /\ h[0] = At(data, off[0], <<>>) /\ h[N] = At(data, off[N], vs)
      /\ \A i \in 1 .. N : /\ h[i - 1] = At(data, off[i - 1], SubSeq(vs, 1, i - 1))
                            /\ Turn(h[i - 1], At(data, off[i], vs[i])) = h[i]
  BY Gathered
<1>3. \A i \in 1 .. N : ReadShort(h[i - 1]) = At(data, off[i], vs[i])
  BY <1>2, Zenon
<1>4. Is(h)
  <2>1. \A i \in 0 .. N : i = 0 \/ i \in 1 .. N
    BY <1>1
  <2> HIDE DEF h, N
  <2>2. \A i \in 0 .. N : h[i] = IF i = 0 THEN At(data, off[0], <<>>)
                                 ELSE Turn(h[i - 1], ReadShort(h[i - 1]))
    BY <1>2, <1>3, <2>1, Zenon
  <2> QED
    BY <1>2, <2>2, Zenon
<1> DEFINE u == CHOOSE u : Is(u)
<1>5. Is(u)
  BY <1>4, Zenon
<1>6. IndexLoop(At(data, off[0], v), N) = u[N]
  <2>1. /\ Return(At(data, off[0], v), <<>>) = At(data, off[0], <<>>)
        /\ At(data, off[0], v).st = "ok" /\ At(data, off[0], v).data = data
    BY DEF Return, At
  <2> QED
    BY <1>1, <2>1, Zenon DEF IndexLoop, Repeat, Turn
<1> HIDE DEF u
<1>7. u[0] = h[0] /\ \A i \in 1 .. N : u[i - 1] = h[i - 1] => u[i] = h[i]
  <2>1. 0 \in 0 .. N /\ \A i \in 1 .. N : i \in 0 .. N /\ i # 0
    BY <1>1
  <2> HIDE DEF h, N
  <2> QED
    BY <1>4, <1>5, <2>1, Zenon
<1>8. u[N] = h[N]
  <2> HIDE DEF h, N, Is
  <2> QED
    BY <1>1, <1>7, SameLoop
<1> QED
  BY <1>2, <1>6, <1>8, Zenon

(* The one index of a partition key. *)
LEMMA IndexSpan ==
  ASSUME NEW data \in Seq(Nat), NEW k \in Nat, NEW j, Len(data) >= 1, Spans(data, k, WriteIntBE(0, 2), j)
  PROVE  Indexes(At(data, k, 1)) = At(data, j, <<0>>)
<1> DEFINE vs == <<0>>
           off == [i \in 0 .. 1 |-> IF i = 0 THEN k ELSE j]
<1>1. off[0] = k /\ off[1] = j /\ vs[1] = 0 /\ Len(vs) = 1 /\ vs \in Seq(Nat)
  OBVIOUS
<1>2. \A x : ReadShort(At(data, k, x)) = At(data, j, 0)
  <2>1. 0 \in Nat /\ 0 < Square
    BY Limits
  <2> QED
    BY <2>1, ShortSpan
<1> HIDE DEF vs, off
<1>3. \A i \in 1 .. Len(vs) : \A x : ReadShort(At(data, off[i - 1], x)) = At(data, off[i], vs[i])
  <2>1. \A i \in 1 .. Len(vs) : i = 1 /\ i - 1 = 0
    BY <1>1
  <2> QED
    BY <1>1, <1>2, <2>1, Zenon
<1>4. IndexLoop(At(data, off[0], 1), Len(vs)) = At(data, off[Len(vs)], vs)
  BY <1>1, <1>3, IndexesLoop
<1>5. Indexes(At(data, k, 1)) = IndexLoop(At(data, k, 1), 1)
  <2>1. At(data, k, 1).st = "ok" /\ At(data, k, 1).v = 1 /\ At(data, k, 1).v >= 0
    BY AtIs
  <2> QED
    BY <2>1, Zenon DEF Indexes, IndexLoop, ReadList
<1> QED
  BY <1>1, <1>4, <1>5, Zenon DEF vs

(* The id of the statement is what ParsePrepared gives. *)
PreparedParsed(data, k, r) ==
  \A v : ParsePrepared(At(data, k, v)) = [st |-> "ok", kind |-> 4, id |-> r.id]

(* ParsePrepared takes the id of a statement out of an answer. *)
LEMMA PreparedSpan ==
  ASSUME NEW data \in Seq(Nat), NEW k \in Nat, NEW j, NEW r, PreparedReply(r), Spans(data, k, EncodePrepared(r), j)
  PROVE  PreparedParsed(data, k, r)
<1> DEFINE types == r.types
           n == Len(types)
           flags == r.flags
           global == Global(flags)
           a == WriteShortBytes(r.id)
           b == WriteIntBE(flags, 4)
           c == WriteIntBE(n, 4)
           d == WriteIntBE(1, 4)
           e == WriteIntBE(0, 2)
           f == EncodeColumns(types, global)
           g == WriteIntBE(4, 4)
           h == WriteIntBE(0, 4)
           x == a \o b \o c \o d
           y == x \o e \o f
<1>1. /\ a \in Seq(Bytes) /\ b \in Seq(Bytes) /\ c \in Seq(Bytes) /\ f \in Seq(Bytes)
      /\ flags \in Ints /\ n \in Ints /\ n \in Nat
  BY PreparedReplyWritten
<1>2. d \in Seq(Bytes) /\ e \in Seq(Bytes) /\ g \in Seq(Bytes) /\ h \in Seq(Bytes) /\ Len(e) = 2
  BY Written
<1>3. r.id \in ShortTexts /\ types \in Seq(Types) /\ global \in BOOLEAN
  BY HasIsBoolean DEF PreparedReply, Global
<1>4. 1 \in Ints
  BY Limits DEF Ints
<1>5. Spans(data, k, a \o b \o c \o d \o e \o f \o g \o h, j)
  BY PreparedReplyWritten
<1>6. x \in Seq(Bytes)
  <2> HIDE DEF a, b, c, d
  <2>1. a \o b \o c \in Seq(Bytes)
    BY <1>1, Joined3
  <2> QED
    BY <1>1, <1>2, <2>1, JoinedBytes
<1>7. y \in Seq(Bytes)
  <2> HIDE DEF x, e, f
  <2> QED
    BY <1>1, <1>2, <1>6, Joined3
<1>8. PICK k6 \in Nat : Spans(data, k, y, k6)
  <2>1. Spans(data, k, y \o g \o h, j)
    BY <1>5
  <2> HIDE DEF y, g, h
  <2> QED
    BY <1>2, <1>7, <2>1, SpansParts3
<1>9. PICK k4 \in Nat, k5 \in Nat : Spans(data, k, x, k4) /\ Spans(data, k4, e, k5) /\ Spans(data, k5, f, k6)
  <2>1. Spans(data, k, x \o e \o f, k6)
    BY <1>8
  <2> HIDE DEF x, e, f
  <2> QED
    BY <1>1, <1>2, <1>6, <2>1, SpansParts3
<1>10. PICK k1 \in Nat, k2 \in Nat, k3 \in Nat :
         Spans(data, k, a, k1) /\ Spans(data, k1, b, k2) /\ Spans(data, k2, c, k3) /\ Spans(data, k3, d, k4)
  <2>1. Spans(data, k, a \o b \o c \o d, k4)
    BY <1>9
  <2> HIDE DEF a, b, c, d
  <2> QED
    BY <1>1, <1>2, <2>1, SpansParts4
<1>11. \A v : ReadShortBytes(At(data, k, v)) = At(data, k1, r.id)
  BY <1>3, <1>10, ShortBytesSpan
<1>12. \A v : ReadInt(At(data, k1, v)) = At(data, k2, flags)
  BY <1>1, <1>10, IntSpan
<1>13. \A v : ReadInt(At(data, k2, v)) = At(data, k3, n)
  <2> HIDE DEF n
  <2> QED
    BY <1>1, <1>10, IntSpan
<1>14. \A v : ReadInt(At(data, k3, v)) = At(data, k4, 1)
  BY <1>4, <1>10, IntSpan
<1>15. Indexes(At(data, k4, 1)) = At(data, k5, <<0>>)
  <2>1. Len(data) >= 1
    <3>1. Len(data) \in Nat /\ k4 + 2 <= Len(data)
      <4>1. Len(data) \in Nat /\ k4 + Len(e) <= Len(data)
        BY <1>9 DEF Spans, Holds
      <4> QED
        BY <1>2, <4>1
    <3> QED
      BY <3>1
  <2> QED
    BY <1>9, <2>1, IndexSpan
<1>16. PICK z : ParseColumns(At(data, k5, <<0>>), n, global) = At(data, k6, z)
  <2>1. ColumnsRead(data, k5, <<0>>, Len(types), global, k6)
    <3> HIDE DEF types, global
    <3> QED
      BY <1>3, <1>9, ColumnsSpan
  <2> QED
    BY <2>1, Zenon DEF ColumnsRead
<1>17. /\ At(data, k1, r.id).v = r.id /\ At(data, k2, flags).v = flags /\ At(data, k3, n).v = n
       /\ At(data, k5, <<0>>).st = "ok" /\ At(data, k6, z).st = "ok"
  <2> HIDE DEF n, flags
  <2> QED
    BY AtIs
<1>18. ResultKind.prepared = 4
  BY DEF ResultKind
<1> HIDE DEF n, flags, types
<1>19. ASSUME NEW v PROVE ParsePrepared(At(data, k, v)) = [st |-> "ok", kind |-> 4, id |-> r.id]
  BY <1>11, <1>12, <1>13, <1>14, <1>15, <1>16, <1>17, <1>18, Zenon DEF ParsePrepared, Indexes, Global
<1> QED
  BY <1>19, Zenon DEF PreparedParsed

(* A change of the schema is parsed. *)
ChangeParsed(data, k) == \A v : ParseSchemaChange(At(data, k, v)) = [st |-> "ok", kind |-> 5]

(* ParseSchemaChange gets through every change of the schema. *)
LEMMA ChangeSpan ==
  ASSUME NEW data \in Seq(Nat), NEW k \in Nat, NEW j, NEW r, SchemaChangeReply(r),
         Spans(data, k, NamesBytes(r.names) \o ChangeArguments(r), j)
  PROVE  ChangeParsed(data, k)
<1> DEFINE names == r.names
           n == Len(names)
           ws == [i \in 1 .. n |-> WriteString(names[i])]
           a == Concat(ws)
           b == ChangeArguments(r)
<1>1. /\ names \in Seq(ShortTexts) /\ n \in 3 .. 4 /\ names[1] # Text.FUNCTION
      /\ names[2] \in {Text.TABLE, Text.TYPE} => n = 4
      /\ names[2] = Text.AGGREGATE => n = 4 /\ r.arguments
  BY DEF SchemaChangeReply
<1>2. a \in Seq(Bytes) /\ b \in Seq(Bytes) /\ Spans(data, k, a \o b, j)
  BY ChangeWritten, Zenon DEF NamesBytes
<1>3. ws = [i \in 1 .. n |-> ws[i]] /\ \A i \in 1 .. n : ws[i] = WriteString(names[i])
  BY Zenon
<1>4. PICK h \in Nat : Spans(data, k, Concat(ws), h) /\ Spans(data, h, b, j)
  <2>1. PICK h \in Nat : Spans(data, k, a, h) /\ Spans(data, h, b, j)
    <3> HIDE DEF a, b
    <3> QED
      BY <1>2, SpansParts
  <2> QED
    BY <2>1
<1> HIDE DEF ws, n, names, b
<1>5. \A i \in 1 .. n : names[i] \in ShortTexts
  BY <1>1 DEF n
<1>6. \A i \in 1 .. n : ws[i] \in Seq(Bytes)
  BY <1>3, <1>5, StringSize, Zenon
<1>7. ws \in Seq(Seq(Bytes)) /\ Len(ws) = n /\ n \in Nat
  <2>1. n \in Nat
    BY <1>1
  <2> QED
    BY <1>3, <1>6, <2>1, PartsWritten
<1>8. PICK off : Laid(data, k, ws, h, off)
  BY <1>4, <1>7, LaidOut
<1>9. ASSUME NEW i \in 1 .. n, NEW v PROVE ReadString(At(data, off[i - 1], v)) = At(data, off[i], names[i])
  <2> DEFINE s == names[i]
             c == off[i - 1]
             d == off[i]
  <2>1. s \in ShortTexts /\ c \in Nat /\ Spans(data, c, WriteString(s), d)
    BY <1>3, <1>5, <1>7, <1>8, Zenon DEF Laid
  <2> HIDE DEF s, c, d
  <2>2. ReadString(At(data, c, v)) = At(data, d, s)
    BY <2>1, StringSpan
  <2> QED
    BY <2>2, Zenon DEF s, c, d
<1>10. off[0] = k /\ off[n] = h
  BY <1>7, <1>8, Zenon DEF Laid
<1>11. /\ \A v : ReadString(At(data, off[0], v)) = At(data, off[1], names[1])
       /\ \A v : ReadString(At(data, off[1], v)) = At(data, off[2], names[2])
       /\ \A v : ReadString(At(data, off[2], v)) = At(data, off[3], names[3])
       /\ n = 4 => \A v : ReadString(At(data, off[3], v)) = At(data, off[4], names[4])
  <2>1. /\ 1 \in 1 .. n /\ 2 \in 1 .. n /\ 3 \in 1 .. n /\ (n = 4 => 4 \in 1 .. n)
        /\ 1 - 1 = 0 /\ 2 - 1 = 1 /\ 3 - 1 = 2 /\ 4 - 1 = 3
    BY <1>1
  <2> QED
    BY <1>9, <2>1, Zenon
<1> DEFINE change == At(data, off[1], names[1])
           target == At(data, off[2], names[2])
           third == At(data, off[3], names[3])
           fourth == At(data, off[4], names[4])
<1>12. /\ change.v = names[1] /\ target.st = "ok" /\ target.v = names[2] /\ third.st = "ok" /\ fourth.st = "ok"
  BY AtIs
<1>13. ResultKind.schema_change = 5
  BY DEF ResultKind
<1>14. ASSUME NEW v
       PROVE  ParseSchemaChange(At(data, k, v)) =
                LET end == IF target.v = Text.KEYSPACE THEN ReadString(target)
                           ELSE IF target.v \in {Text.TABLE, Text.TYPE} THEN ReadString(ReadString(target))
                           ELSE IF target.v = Text.AGGREGATE
                                THEN ReadStringList(ReadString(ReadString(target)))
                           ELSE target
                IN  [st |-> end.st, kind |-> 5]
  <2>1. ReadString(At(data, k, v)) = change /\ ReadString(change) = target
    BY <1>10, <1>11, Zenon
  <2> HIDE DEF change, target
  <2> QED
    BY <1>1, <1>12, <1>13, <2>1, Zenon DEF ParseSchemaChange
<1>15. CASE names[2] = Text.KEYSPACE
  <2>1. ReadString(target) = third
    BY <1>11
  <2> HIDE DEF target, third
  <2> QED
    BY <1>12, <1>14, <1>15, <2>1, Zenon DEF ChangeParsed
<1>16. CASE names[2] # Text.KEYSPACE /\ names[2] \in {Text.TABLE, Text.TYPE}
  <2>1. ReadString(ReadString(target)) = fourth
    BY <1>1, <1>11, <1>16
  <2> HIDE DEF target, fourth
  <2> QED
    BY <1>12, <1>14, <1>16, <2>1, Zenon DEF ChangeParsed
<1>17. CASE names[2] # Text.KEYSPACE /\ names[2] \notin {Text.TABLE, Text.TYPE} /\ names[2] = Text.AGGREGATE
  <2>1. ReadString(ReadString(target)) = fourth /\ n = 4
    BY <1>1, <1>11, <1>17
  <2>2. b = WriteList(<<<<1>>>>, WriteString)
    BY <1>1, <1>17, NamesShort, OneString, Zenon DEF b, ChangeArguments
  <2> DEFINE ss == <<<<1>>>>
  <2>3. ss \in Seq(ShortTexts) /\ Len(ss) < Square
    <3>1. ss \in Seq(ShortTexts) /\ Len(ss) = 1
      BY NamesShort, OneString
    <3> QED
      BY <3>1, Limits
  <2>4. Spans(data, h, WriteList(ss, WriteString), j)
    BY <1>4, <2>2
  <2> HIDE DEF ss
  <2>5. \A v : ReadStringList(At(data, h, v)) = At(data, j, ss)
    BY <2>3, <2>4, StringListSpan
  <2>6. At(data, j, ss).st = "ok"
    BY AtIs
  <2>7. off[4] = h
    BY <1>10, <2>1
  <2>8. ReadStringList(fourth) = At(data, j, ss)
    BY <2>5, <2>7, Zenon
  <2> HIDE DEF target, fourth
  <2> QED
    BY <1>12, <1>14, <1>17, <2>1, <2>6, <2>8, Zenon DEF ChangeParsed
<1>18. CASE names[2] # Text.KEYSPACE /\ names[2] \notin {Text.TABLE, Text.TYPE} /\ names[2] # Text.AGGREGATE
  <2> HIDE DEF target
  <2> QED
    BY <1>12, <1>14, <1>18, Zenon DEF ChangeParsed
<1> QED
  BY <1>15, <1>16, <1>17, <1>18, Zenon

(* A result is parsed to what the caller goes on to use. *)
ResultParsed(r) ==
  LET m == ParseResult(Reader(EncodeResult(r)))
  IN  /\ r.kind = "void" => m = [st |-> "ok", kind |-> 1]
      /\ r.kind = "rows" =>
           m = IF r.count < 0 THEN [st |-> "throw"]
               ELSE [st |-> "ok", kind |-> 2, columns |-> Len(r.types), rows |-> RowsOf(r.types, r.rows)]
      /\ r.kind = "set_keyspace" => m = [st |-> "ok", kind |-> 3]
      /\ r.kind = "prepared" => m = [st |-> "ok", kind |-> 4, id |-> r.id]
      /\ r.kind = "schema_change" => m = [st |-> "ok", kind |-> 5]

(* The kind of a result is read, and its parser goes on after it. *)
KindReads(x, rest) ==
  LET data == WriteIntBE(x, 4) \o rest
      kind == At(data, 4, x)
  IN  /\ data \in Seq(Nat) /\ Spans(data, 4, rest, Len(data))
      /\ x = 1 => ParseResult(Reader(data)) = [st |-> "ok", kind |-> 1]
      /\ x = 2 => ParseResult(Reader(data)) = ParseRows(kind)
      /\ x = 3 => ParseResult(Reader(data)) = ParseSetKeyspace(kind)
      /\ x = 4 => ParseResult(Reader(data)) = ParsePrepared(kind)
      /\ x = 5 => ParseResult(Reader(data)) = ParseSchemaChange(kind)

(* ParseResult goes on with the parser of the kind. *)
LEMMA KindSpan ==
  ASSUME NEW x \in 1 .. 5, NEW rest \in Seq(Bytes)
  PROVE  KindReads(x, rest)
<1> DEFINE w == WriteIntBE(x, 4)
           data == w \o rest
           kind == At(data, 4, x)
<1>1. w \in Seq(Bytes) /\ Len(w) = 4
  BY Written
<1>2. x \in Ints
  BY Limits DEF Ints
<1>3. data \in Seq(Bytes)
  <2> HIDE DEF w
  <2> QED
    BY <1>1, JoinedBytes
<1>4. data \in Seq(Nat) /\ Reader(data) = At(data, 0, <<>>) /\ Spans(data, 0, data, Len(data))
  <2> HIDE DEF data
  <2> QED
    BY <1>3, SpansAll
<1>5. PICK i \in Nat : Spans(data, 0, w, i) /\ Spans(data, i, rest, Len(data))
  <2> DEFINE d == data
             l == Len(data)
  <2>1. d \in Seq(Nat) /\ Spans(d, 0, w \o rest, l)
    BY <1>4
  <2> HIDE DEF w, d, l
  <2>2. PICK i \in Nat : Spans(d, 0, w, i) /\ Spans(d, i, rest, l)
    <3>1. 0 \in Nat
      OBVIOUS
    <3> QED
      BY <1>1, <2>1, <3>1, SpansParts
  <2> QED
    BY <2>2 DEF d, l
<1>6. i = 4
  <2> HIDE DEF w, data
  <2> QED
    BY <1>1, <1>5 DEF Spans
<1>7. ReadInt(Reader(data)) = kind
  <2> HIDE DEF data
  <2>1. 0 \in Nat
    OBVIOUS
  <2> QED
    BY <1>2, <1>4, <1>5, <1>6, <2>1, IntSpan
<1> HIDE DEF data
<1>8. kind.st = "ok" /\ kind.v = x
  BY AtIs
<1>9. ResultKind.rows = 2 /\ ResultKind.set_keyspace = 3 /\ ResultKind.prepared = 4 /\ ResultKind.schema_change = 5
  BY DEF ResultKind
<1> HIDE DEF kind
<1>10. ParseResult(Reader(data)) =
         CASE x = 2 -> ParseRows(kind)
           [] x = 3 -> ParseSetKeyspace(kind)
           [] x = 4 -> ParsePrepared(kind)
           [] x = 5 -> ParseSchemaChange(kind)
           [] OTHER -> [st |-> "ok", kind |-> x]
  BY <1>7, <1>8, <1>9, Zenon DEF ParseResult
<1>11. /\ x = 1 => ParseResult(Reader(data)) = [st |-> "ok", kind |-> 1]
       /\ x = 2 => ParseResult(Reader(data)) = ParseRows(kind)
       /\ x = 3 => ParseResult(Reader(data)) = ParseSetKeyspace(kind)
       /\ x = 4 => ParseResult(Reader(data)) = ParsePrepared(kind)
       /\ x = 5 => ParseResult(Reader(data)) = ParseSchemaChange(kind)
  BY <1>10
<1>12. data \in Seq(Nat) /\ Spans(data, 4, rest, Len(data))
  BY <1>4, <1>5, <1>6
<1> QED
  BY <1>11, <1>12, Zenon DEF KindReads, data, kind, w

(* ParseResult takes every kind of result out of an answer. *)
LEMMA ResultSpan ==
  ASSUME NEW r, ResultReply(r)
  PROVE  ResultParsed(r)
<1> DEFINE data == EncodeResult(r)
           m == ParseResult(Reader(data))
<1>1. r.kind = "void" => m = [st |-> "ok", kind |-> 1]
  <2>1. <<>> \in Seq(Bytes)
    OBVIOUS
  <2>2. 1 \in 1 .. 5
    OBVIOUS
  <2>3. KindReads(1, <<>>)
    BY <2>1, <2>2, KindSpan, Zenon
  <2>4. ParseResult(Reader(WriteIntBE(1, 4) \o <<>>)) = [st |-> "ok", kind |-> 1]
    BY <2>3, Zenon DEF KindReads
  <2> QED
    BY <2>4, ResultWritten, Zenon
<1>2. r.kind = "rows" =>
        m = IF r.count < 0 THEN [st |-> "throw"]
            ELSE [st |-> "ok", kind |-> 2, columns |-> Len(r.types), rows |-> RowsOf(r.types, r.rows)]
  <2> SUFFICES ASSUME r.kind = "rows"
               PROVE  m = IF r.count < 0 THEN [st |-> "throw"]
                          ELSE [st |-> "ok", kind |-> 2, columns |-> Len(r.types),
                                rows |-> RowsOf(r.types, r.rows)]
    OBVIOUS
  <2> DEFINE rest == EncodeRows(r)
             d == WriteIntBE(2, 4) \o rest
  <2>1. RowsReply(r) /\ data = d
    BY ResultWritten
  <2>2. rest \in Seq(Bytes) /\ 2 \in 1 .. 5
    BY <2>1, RowsReplyWritten
  <2>3. KindReads(2, rest)
    <3> HIDE DEF rest
    <3> QED
      BY <2>2, KindSpan, Zenon
  <2>4. /\ d \in Seq(Nat) /\ Spans(d, 4, EncodeRows(r), Len(d))
        /\ ParseResult(Reader(d)) = ParseRows(At(d, 4, 2))
    BY <2>3, Zenon DEF KindReads
  <2> HIDE DEF d
  <2>5. RowsParsed(d, 4, r)
    <3>1. 4 \in Nat
      OBVIOUS
    <3> QED
      BY <2>1, <2>4, <3>1, RowsSpan
  <2> QED
    BY <2>1, <2>4, <2>5, Zenon DEF RowsParsed
<1>3. r.kind = "set_keyspace" => m = [st |-> "ok", kind |-> 3]
  <2> SUFFICES ASSUME r.kind = "set_keyspace" PROVE m = [st |-> "ok", kind |-> 3]
    OBVIOUS
  <2> DEFINE rest == WriteString(r.name)
             d == WriteIntBE(3, 4) \o rest
  <2>1. r.name \in ShortTexts /\ data = d
    BY ResultWritten
  <2>2. rest \in Seq(Bytes) /\ 3 \in 1 .. 5
    BY <2>1, StringSize
  <2>3. KindReads(3, rest)
    <3> HIDE DEF rest
    <3> QED
      BY <2>2, KindSpan, Zenon
  <2>4. /\ d \in Seq(Nat) /\ Spans(d, 4, WriteString(r.name), Len(d))
        /\ ParseResult(Reader(d)) = ParseSetKeyspace(At(d, 4, 3))
    BY <2>3, Zenon DEF KindReads
  <2> HIDE DEF d
  <2> DEFINE l == Len(d)
  <2>5. ReadString(At(d, 4, 3)) = At(d, l, r.name)
    <3>1. 4 \in Nat
      OBVIOUS
    <3> HIDE DEF l
    <3>2. Spans(d, 4, WriteString(r.name), l)
      BY <2>4 DEF l
    <3> QED
      BY <2>1, <2>4, <3>1, <3>2, StringSpan
  <2>6. At(d, l, r.name).st = "ok" /\ ResultKind.set_keyspace = 3
    BY AtIs DEF ResultKind
  <2> QED
    BY <2>1, <2>4, <2>5, <2>6, Zenon DEF ParseSetKeyspace
<1>4. r.kind = "prepared" => m = [st |-> "ok", kind |-> 4, id |-> r.id]
  <2> SUFFICES ASSUME r.kind = "prepared" PROVE m = [st |-> "ok", kind |-> 4, id |-> r.id]
    OBVIOUS
  <2> DEFINE rest == EncodePrepared(r)
             d == WriteIntBE(4, 4) \o rest
  <2>1. PreparedReply(r) /\ data = d
    BY ResultWritten
  <2>2. rest \in Seq(Bytes) /\ 4 \in 1 .. 5
    BY <2>1, PreparedReplyWritten
  <2>3. KindReads(4, rest)
    <3> HIDE DEF rest
    <3> QED
      BY <2>2, KindSpan, Zenon
  <2>4. /\ d \in Seq(Nat) /\ Spans(d, 4, EncodePrepared(r), Len(d))
        /\ ParseResult(Reader(d)) = ParsePrepared(At(d, 4, 4))
    BY <2>3, Zenon DEF KindReads
  <2> HIDE DEF d
  <2>5. PreparedParsed(d, 4, r)
    <3>1. 4 \in Nat
      OBVIOUS
    <3> QED
      BY <2>1, <2>4, <3>1, PreparedSpan
  <2> QED
    BY <2>1, <2>4, <2>5, Zenon DEF PreparedParsed
<1>5. r.kind = "schema_change" => m = [st |-> "ok", kind |-> 5]
  <2> SUFFICES ASSUME r.kind = "schema_change" PROVE m = [st |-> "ok", kind |-> 5]
    OBVIOUS
  <2> DEFINE rest == NamesBytes(r.names) \o ChangeArguments(r)
             d == WriteIntBE(5, 4) \o rest
  <2>1. SchemaChangeReply(r) /\ data = d
    BY ResultWritten
  <2>2. rest \in Seq(Bytes) /\ 5 \in 1 .. 5
    <3> DEFINE a == NamesBytes(r.names)
               b == ChangeArguments(r)
    <3>1. a \in Seq(Bytes) /\ b \in Seq(Bytes)
      BY <2>1, ChangeWritten
    <3> HIDE DEF a, b
    <3>2. a \o b \in Seq(Bytes)
      BY <3>1, JoinedBytes
    <3> QED
      BY <3>2 DEF a, b
  <2>3. KindReads(5, rest)
    <3> HIDE DEF rest
    <3> QED
      BY <2>2, KindSpan, Zenon
  <2>4. /\ d \in Seq(Nat) /\ Spans(d, 4, NamesBytes(r.names) \o ChangeArguments(r), Len(d))
        /\ ParseResult(Reader(d)) = ParseSchemaChange(At(d, 4, 5))
    BY <2>3, Zenon DEF KindReads
  <2> HIDE DEF d
  <2>5. ChangeParsed(d, 4)
    <3>1. 4 \in Nat
      OBVIOUS
    <3> QED
      BY <2>1, <2>4, <3>1, ChangeSpan
  <2> QED
    BY <2>1, <2>4, <2>5, Zenon DEF ChangeParsed
<1> QED
  BY <1>1, <1>2, <1>3, <1>4, <1>5, Zenon DEF ResultParsed

-----------------------------------------------------------------------------
(* The options of a node.                                                  *)

(* The loop over the entries. *)
EntryLoop(r, n) == Repeat(r, n, ReadEntry)

(* The loop over the options reads them all. *)
LEMMA EntriesLoop ==
  ASSUME NEW data \in Seq(Nat), NEW S, NEW vs \in Seq(S), NEW off, NEW v,
         Len(vs) <= Len(data),
         \A i \in 1 .. Len(vs) : \A x :
           ReadEntry(At(data, off[i - 1], x)) = At(data, off[i], vs[i])
  PROVE  EntryLoop(At(data, off[0], v), Len(vs)) = At(data, off[Len(vs)], vs)
<1> DEFINE N == Len(vs)
           h == Gather(data, off, vs)
           Is(u) == u = [i \in 0 .. N |-> IF i = 0 THEN At(data, off[0], <<>>)
                                          ELSE Turn(u[i - 1], ReadEntry(u[i - 1]))]
<1>1. N \in Nat /\ N <= Len(data)
  OBVIOUS
<1>2. /\ h = [i \in 0 .. N |-> h[i]]
      /\ h[0] = At(data, off[0], <<>>) /\ h[N] = At(data, off[N], vs)
      /\ \A i \in 1 .. N : /\ h[i - 1] = At(data, off[i - 1], SubSeq(vs, 1, i - 1))
                            /\ Turn(h[i - 1], At(data, off[i], vs[i])) = h[i]
  BY Gathered
<1>3. \A i \in 1 .. N : ReadEntry(h[i - 1]) = At(data, off[i], vs[i])
  BY <1>2, Zenon
<1>4. Is(h)
  <2>1. \A i \in 0 .. N : i = 0 \/ i \in 1 .. N
    BY <1>1
  <2> HIDE DEF h, N
  <2>2. \A i \in 0 .. N : h[i] = IF i = 0 THEN At(data, off[0], <<>>)
                                 ELSE Turn(h[i - 1], ReadEntry(h[i - 1]))
    BY <1>2, <1>3, <2>1, Zenon
  <2> QED
    BY <1>2, <2>2, Zenon
<1> DEFINE u == CHOOSE u : Is(u)
<1>5. Is(u)
  BY <1>4, Zenon
<1>6. EntryLoop(At(data, off[0], v), N) = u[N]
  <2>1. /\ Return(At(data, off[0], v), <<>>) = At(data, off[0], <<>>)
        /\ At(data, off[0], v).st = "ok" /\ At(data, off[0], v).data = data
    BY DEF Return, At
  <2> QED
    BY <1>1, <2>1, Zenon DEF EntryLoop, Repeat, Turn
<1> HIDE DEF u
<1>7. u[0] = h[0] /\ \A i \in 1 .. N : u[i - 1] = h[i - 1] => u[i] = h[i]
  <2>1. 0 \in 0 .. N /\ \A i \in 1 .. N : i \in 0 .. N /\ i # 0
    BY <1>1
  <2> HIDE DEF h, N
  <2> QED
    BY <1>4, <1>5, <2>1, Zenon
<1>8. u[N] = h[N]
  <2> HIDE DEF h, N, Is
  <2> QED
    BY <1>1, <1>7, SameLoop
<1> QED
  BY <1>2, <1>6, <1>8, Zenon

(* An entry comes back. *)
EntryReads(data, k, o, j) == \A v : ReadEntry(At(data, k, v)) = At(data, j, o)

(* An entry of the options of a node comes back. *)
LEMMA EntrySpan ==
  ASSUME NEW data \in Seq(Nat), NEW k \in Nat, NEW j, NEW o \in ShortTexts \X Seq(ShortTexts), Len(o[2]) < Square,
         Spans(data, k, OptionBytes(o), j)
  PROVE  EntryReads(data, k, o, j)
<1> DEFINE key == o[1]
           list == o[2]
           a == WriteString(key)
           b == WriteList(list, WriteString)
<1>1. key \in ShortTexts /\ list \in Seq(ShortTexts) /\ o = <<key, list>>
  OBVIOUS
<1>2. a \in Seq(Bytes) /\ b \in Seq(Bytes)
  BY <1>1, StringSize, StringListWritten
<1>3. Spans(data, k, a \o b, j)
  BY DEF OptionBytes
<1>4. PICK i \in Nat : Spans(data, k, a, i) /\ Spans(data, i, b, j)
  <2> HIDE DEF a, b
  <2> QED
    BY <1>2, <1>3, SpansParts
<1>5. Len(list) < Square
  OBVIOUS
<1> HIDE DEF key, list
<1>6. \A v : ReadString(At(data, k, v)) = At(data, i, key)
  BY <1>1, <1>4, StringSpan
<1>7. ReadStringList(At(data, i, key)) = At(data, j, list)
  BY <1>1, <1>4, <1>5, StringListSpan
<1>8. /\ At(data, i, key).v = key /\ At(data, j, list).v = list /\ At(data, j, list).st = "ok"
      /\ Return(At(data, j, list), <<key, list>>) = At(data, j, <<key, list>>)
  BY AtIs
<1>9. ASSUME NEW v PROVE ReadEntry(At(data, k, v)) = At(data, j, <<key, list>>)
  BY <1>6, <1>7, <1>8, Zenon DEF ReadEntry
<1> QED
  BY <1>1, <1>9, Zenon DEF EntryReads

(* The entries ReadStringMultiMap keeps. *)
FirstOf(es) == {i \in 1 .. Len(es) : \A j \in 1 .. i - 1 : es[j][1] # es[i][1]}
Kept(es) == {es[i] : i \in FirstOf(es)}

(* ReadStringMultiMap keeps the first entry for each key. *)
LEMMA MultiMapIs ==
  ASSUME NEW r
  PROVE  ReadStringMultiMap(r) = IF Entries(r).st = "ok" THEN Return(Entries(r), Kept(Entries(r).v)) ELSE Entries(r)
BY Zenon DEF ReadStringMultiMap, Entries, Kept, FirstOf

(* The options come back as a set. *)
SupportedParsed(r) ==
  ReadStringMultiMap(Reader(OptionsBytes(r.options))).st = "ok"
    /\ ReadStringMultiMap(Reader(OptionsBytes(r.options))).v = {r.options[i] : i \in 1 .. Len(r.options)}

(* The options of a node come back. *)
LEMMA OptionsSpan ==
  ASSUME NEW r, SupportedReply(r)
  PROVE  SupportedParsed(r)
<1> DEFINE os == r.options
           n == Len(os)
           ws == [i \in 1 .. n |-> OptionBytes(os[i])]
           a == WriteIntBE(n, 2)
           b == Concat(ws)
           data == OptionsBytes(os)
           e == Len(data)
<1>1. /\ os \in Seq(ShortTexts \X Seq(ShortTexts)) /\ n < Square /\ n \in Nat
      /\ \A i \in 1 .. n : Len(os[i][2]) < Square
      /\ \A i, j \in 1 .. n : os[i][1] = os[j][1] => i = j
  BY DEF SupportedReply
<1>2. data = a \o b /\ data \in Seq(Bytes)
  BY OptionsWritten, Zenon DEF OptionsBytes
<1>3. ws = [i \in 1 .. n |-> ws[i]] /\ \A i \in 1 .. n : ws[i] = OptionBytes(os[i])
  BY Zenon
<1> HIDE DEF os, n, ws, data
<1>4. \A i \in 1 .. n : os[i] \in ShortTexts \X Seq(ShortTexts)
  BY <1>1, Elements DEF n
<1>5. \A i \in 1 .. n : ws[i] \in Seq(Bytes) /\ Len(ws[i]) > 0
  BY <1>3, <1>4, OptionWritten, Zenon
<1>6. ws \in Seq(Seq(Bytes)) /\ Len(ws) = n /\ Concat(ws) \in Seq(Bytes)
  BY <1>1, <1>3, <1>5, PartsWritten
<1>7. data \in Seq(Nat) /\ Reader(data) = At(data, 0, <<>>) /\ Spans(data, 0, data, e)
  BY <1>2, SpansAll
<1> HIDE DEF e
<1>8. a \in Seq(Bytes)
  <2>1. n \in Int
    BY <1>1
  <2> QED
    BY <2>1, Written
<1>9. PICK h \in Nat : Spans(data, 0, a, h) /\ Spans(data, h, b, e)
  <2>1. Spans(data, 0, a \o b, e)
    BY <1>2, <1>7, Zenon
  <2>2. 0 \in Nat
    OBVIOUS
  <2> HIDE DEF a, b
  <2> QED
    BY <1>6, <1>7, <1>8, <2>1, <2>2, SpansParts DEF b
<1>10. ReadShort(Reader(data)) = At(data, h, n)
  <2>1. 0 \in Nat
    OBVIOUS
  <2> QED
    BY <1>1, <1>7, <1>9, <2>1, ShortSpan
<1>11. PICK off : Laid(data, h, ws, e, off)
  BY <1>6, <1>7, <1>9, LaidOut
<1>12. n <= Len(data)
  <2>1. \A i \in 1 .. Len(ws) : Len(ws[i]) > 0
    BY <1>5, <1>6, Zenon
  <2> QED
    BY <1>6, <1>7, <1>9, <2>1, LaidOut
<1>13. ASSUME NEW i \in 1 .. n, NEW x
       PROVE  ReadEntry(At(data, off[i - 1], x)) = At(data, off[i], os[i])
  <2> DEFINE o == os[i]
             c == off[i - 1]
             d == off[i]
  <2>1. o \in ShortTexts \X Seq(ShortTexts) /\ Len(o[2]) < Square /\ c \in Nat /\ Spans(data, c, OptionBytes(o), d)
    BY <1>1, <1>3, <1>4, <1>6, <1>11, Zenon DEF Laid
  <2> HIDE DEF o, c, d
  <2>2. EntryReads(data, c, o, d)
    BY <1>7, <2>1, EntrySpan
  <2> QED
    BY <2>2, Zenon DEF EntryReads, o, c, d
<1>14. EntryLoop(At(data, off[0], n), n) = At(data, off[n], os)
  <2>1. \A i \in 1 .. Len(os) : \A x : ReadEntry(At(data, off[i - 1], x)) = At(data, off[i], os[i])
    BY <1>13 DEF n
  <2>2. Len(os) <= Len(data)
    BY <1>12 DEF n
  <2>3. EntryLoop(At(data, off[0], n), Len(os)) = At(data, off[Len(os)], os)
    BY <1>1, <1>7, <2>1, <2>2, EntriesLoop
  <2> QED
    BY <2>3, Zenon DEF n
<1>15. off[0] = h /\ off[n] = e
  BY <1>6, <1>11, Zenon DEF Laid
<1> DEFINE all == At(data, e, os)
<1>16. Entries(Reader(data)) = all
  <2>1. At(data, h, n).st = "ok" /\ At(data, h, n).v = n /\ At(data, h, n).v >= 0
    BY <1>1, AtIs
  <2>2. Entries(Reader(data)) = EntryLoop(At(data, h, n), n)
    BY <1>10, <2>1, Zenon DEF Entries, EntryLoop, ReadList
  <2> QED
    BY <1>14, <1>15, <2>2, Zenon
<1>17. all.st = "ok" /\ all.v = os
  BY AtIs
<1>18. FirstOf(os) = 1 .. n
  <2>1. ASSUME NEW i \in 1 .. n, NEW j \in 1 .. i - 1 PROVE os[j][1] # os[i][1]
    <3>1. j \in 1 .. n /\ j # i
      BY <1>1
    <3> QED
      BY <1>1, <3>1, Zenon
  <2> QED
    BY <2>1, Zenon DEF n, FirstOf
<1> DEFINE set == {os[i] : i \in 1 .. n}
<1>19. ReadStringMultiMap(Reader(data)) = Return(all, set)
  <2>1. Kept(os) = set
    BY <1>18, Zenon DEF Kept
  <2> HIDE DEF all, set
  <2> QED
    BY <1>16, <1>17, <2>1, MultiMapIs, Zenon
<1>20. Return(all, set).st = "ok" /\ Return(all, set).v = set
  <2> HIDE DEF set
  <2>1. Return(all, set) = At(data, e, set)
    BY AtIs
  <2> QED
    BY <2>1, AtIs
<1> QED
  BY <1>19, <1>20, Zenon DEF SupportedParsed, data, os, n

-----------------------------------------------------------------------------
(* What the caller is given for an answer without a warning.               *)

(* What is meant by each kind of answer. *)
LEMMA MeantIs ==
  ASSUME NEW r
  PROVE  /\ r.op = "ready" => Meant(r) = Outcome("ready", <<>>)
         /\ r.op \in {"error", "authenticate"} => Meant(r).what = "throw"
         /\ r.op = "supported" =>
              IF \E i \in 1 .. Len(r.options) : r.options[i][1] = Text.COMPRESSION
              THEN Meant(r) = Outcome("options", {r.options[i] : i \in 1 .. Len(r.options)})
              ELSE Meant(r).what = "throw"
         /\ r.op = "result" /\ r.kind = "rows" =>
              IF r.count >= 0
              THEN Meant(r) = Outcome("rows", [columns |-> Len(r.types), rows |-> RowsOf(r.types, r.rows)])
              ELSE Meant(r).what = "throw"
         /\ r.op = "result" /\ r.kind = "prepared" => Meant(r) = Outcome("id", r.id)
         /\ r.op = "result" /\ r.kind \in {"void", "set_keyspace", "schema_change"} =>
              Meant(r) = Outcome("empty", <<>>)
<1> DEFINE set == {r.options[i] : i \in 1 .. Len(r.options)}
           some == \E i \in 1 .. Len(r.options) : r.options[i][1] = Text.COMPRESSION
           rows == RowsOf(r.types, r.rows)
           value == [columns |-> Len(r.types), rows |-> rows]
<1>1. Meant(r) =
        CASE r.op = "ready" -> Outcome("ready", <<>>)
          [] r.op \in {"error", "authenticate"} -> Throw("")
          [] r.op = "supported" /\ some -> Outcome("options", set)
          [] r.op = "result" /\ r.kind = "rows" /\ r.count >= 0 -> Outcome("rows", value)
          [] r.op = "result" /\ r.kind = "prepared" -> Outcome("id", r.id)
          [] r.op = "result" /\ r.kind \in {"void", "set_keyspace", "schema_change"} -> Outcome("empty", <<>>)
          [] OTHER -> Throw("")
  BY Zenon DEF Meant, RowsOf, CellsOf
<1>2. Throw("").what = "throw"
  BY OutcomeIs
<1> HIDE DEF set, some, value
<1>3. r.op = "ready" => Meant(r) = Outcome("ready", <<>>)
  BY <1>1
<1>4. r.op \in {"error", "authenticate"} => Meant(r) = Throw("")
  BY <1>1
<1>5. r.op = "supported" => Meant(r) = IF some THEN Outcome("options", set) ELSE Throw("")
  BY <1>1
<1>6. r.op = "result" /\ r.kind = "rows" =>
        Meant(r) = IF r.count >= 0 THEN Outcome("rows", value) ELSE Throw("")
  BY <1>1
<1>7. r.op = "result" /\ r.kind = "prepared" => Meant(r) = Outcome("id", r.id)
  BY <1>1
<1>8. r.op = "result" /\ r.kind \in {"void", "set_keyspace", "schema_change"} => Meant(r) = Outcome("empty", <<>>)
  BY <1>1
<1> QED
  BY <1>2, <1>3, <1>4, <1>5, <1>6, <1>7, <1>8, Zenon DEF set, some, value, rows

(* DoParseBody for each opcode. *)
LEMMA BodyIs ==
  ASSUME NEW body
  PROVE  /\ DoParseBody(Opcode.ready, body) = [st |-> "ok"]
         /\ DoParseBody(Opcode.authenticate, body) = ParseAuthenticate(Reader(body))
         /\ DoParseBody(Opcode.supported, body) = ParseSupported(Reader(body))
         /\ DoParseBody(Opcode.result, body) = ParseResult(Reader(body))
BY DEF DoParseBody, Opcode

(* What is made of a message that was read. *)
LEMMA JudgedRead ==
  ASSUME NEW m, m.st = "ok"
  PROVE  /\ \A opcode : opcode # Opcode.error => Judged("options", opcode, m) = GetOptions(opcode, m)
         /\ Judged("startup", Opcode.ready, m) = Outcome("ready", <<>>)
         /\ Judged("startup", Opcode.authenticate, m) = Throw("unexpected")
         /\ Judged("prepare", Opcode.result, m) = GetPreparedStatementId(m)
         /\ \A op \in {"query", "execute", "batch"} : Judged(op, Opcode.result, m) = GetResultSet(m)
<1>1. Opcode.ready # Opcode.error /\ Opcode.authenticate # Opcode.error /\ Opcode.result # Opcode.error
        /\ Opcode.authenticate # Opcode.ready
  BY DEF Opcode
<1>2. ASSUME NEW opcode, opcode # Opcode.error PROVE Judged("options", opcode, m) = GetOptions(opcode, m)
  BY <1>2, JudgedCases
<1>3. Judged("startup", Opcode.ready, m) = Outcome("ready", <<>>)
  BY <1>1, JudgedCases
<1>4. Judged("startup", Opcode.authenticate, m) = Throw("unexpected")
  BY <1>1, JudgedCases
<1>5. Judged("prepare", Opcode.result, m) = GetPreparedStatementId(m)
  BY <1>1, JudgedCases
<1>6. ASSUME NEW op \in {"query", "execute", "batch"} PROVE Judged(op, Opcode.result, m) = GetResultSet(m)
  BY <1>1, JudgedCases
<1> QED
  BY <1>2, <1>3, <1>4, <1>5, <1>6

(* The outcome is the one that was meant; a code CheckError does not know
   ends in an exception or in a null pointer. *)
Same(o, meant) == o.what = meant.what /\ (meant.what # "throw" => o.v = meant.v)
Unwarned(op, r) ==
  LET o == Judged(op, Opcode[r.op], Parsed(r, FALSE))
  IN  \/ UnknownCode(r) /\ o.what \in {"throw", "null"}
      \/ Same(o, Meant(r)) /\ Meant(r).what # "over"

(* An outcome with the kind and the value that were meant. *)
LEMMA SameOutcome ==
  ASSUME NEW op, NEW r, NEW what, NEW v, Judged(op, Opcode[r.op], Parsed(r, FALSE)) = Outcome(what, v),
         Meant(r) = Outcome(what, v), what # "over"
  PROVE  Unwarned(op, r)
<1>1. Outcome(what, v).what = what /\ Outcome(what, v).v = v
  BY OutcomeIs
<1> QED
  BY <1>1, Zenon DEF Unwarned, Same

(* AUTHENTICATE is parsed. *)
LEMMA AuthenticateRead ==
  ASSUME NEW r \in Replies, r.op = "authenticate"
  PROVE  Parsed(r, FALSE).st = "ok"
<1> DEFINE s == <<1>>
           data == WriteString(s)
           e == Len(data)
<1>1. Told(r, FALSE) = data
  BY ToldIs, ReplyWritten
<1>2. data \in Seq(Bytes) /\ s \in ShortTexts
  BY NamesWritten, NamesShort
<1>3. data \in Seq(Nat) /\ Reader(data) = At(data, 0, <<>>) /\ Spans(data, 0, data, e)
  <2> HIDE DEF data
  <2> QED
    BY <1>2, SpansAll
<1> DEFINE d == data
<1>4. d \in Seq(Nat) /\ Spans(d, 0, WriteString(s), e)
  BY <1>3
<1> HIDE DEF d, e, s
<1>5. ReadString(At(d, 0, <<>>)) = At(d, e, s)
  <2>1. 0 \in Nat
    OBVIOUS
  <2> QED
    BY <1>2, <1>4, <2>1, StringSpan
<1>6. At(d, e, s).st = "ok"
  BY AtIs
<1>7. Opcode[r.op] = Opcode.authenticate
  OBVIOUS
<1> HIDE DEF data
<1>8. Parsed(r, FALSE) = [st |-> ReadString(Reader(data)).st]
  BY <1>1, <1>7, BodyIs, Zenon DEF Parsed, ParseAuthenticate
<1>9. ReadString(Reader(data)).st = "ok"
  BY <1>3, <1>5, <1>6, Zenon DEF d
<1> DEFINE st == ReadString(Reader(data)).st
<1> HIDE DEF st
<1>10. [st |-> st].st = st
  OBVIOUS
<1> QED
  BY <1>8, <1>9, <1>10, Zenon DEF st

(* An answer without a warning that arrived as a whole gives what it means. *)
LEMMA UnwarnedOutcome ==
  ASSUME NEW op \in AnyOp, NEW r \in Answers(op)
  PROVE  Unwarned(op, r)
<1> DEFINE m == Parsed(r, FALSE)
           o == Judged(op, Opcode[r.op], m)
           meant == Meant(r)
<1>1. r \in Replies
  BY DEF Answers
<1>2. Told(r, FALSE) = EncodeReply(r)
  BY <1>1, ToldIs
<1>3. CASE r.op = "error"
  <2>1. m = [st |-> "ok", code |-> r.code]
    BY <1>1, <1>3, ErrorParsed
  <2>2. m.st = "ok" /\ m.code = r.code
    <3> HIDE DEF m
    <3> QED
      BY <2>1
  <2>3. UnknownCode(r) <=> CheckError(r.code) = {}
    BY <1>3 DEF UnknownCode, CheckError
  <2>4. Opcode[r.op] = Opcode.error
    BY <1>3
  <2>5. meant.what = "throw"
    BY <1>3, MeantIs
  <2> HIDE DEF m, meant
  <2>6. /\ ~UnknownCode(r) => o.what = "throw"
        /\ UnknownCode(r) => o.what \in {"throw", "null"}
    BY <2>2, <2>3, <2>4, JudgedError
  <2> HIDE DEF o
  <2>7. \/ UnknownCode(r) /\ o.what \in {"throw", "null"}
        \/ o.what = meant.what /\ meant.what = "throw" /\ meant.what # "over"
    BY <2>5, <2>6
  <2> QED
    BY <2>7, Zenon DEF Unwarned, Same, o, m, meant
<1>4. CASE r.op = "ready"
  <2>1. op = "startup"
    BY <1>4 DEF Answers
  <2>2. m = [st |-> "ok"] /\ Opcode[r.op] = Opcode.ready
    BY <1>4, BodyIs DEF Parsed
  <2>3. meant = Outcome("ready", <<>>)
    BY <1>4, MeantIs
  <2> HIDE DEF m, meant
  <2>4. m.st = "ok"
    BY <2>2
  <2>5. o = Outcome("ready", <<>>)
    BY <2>1, <2>2, <2>4, JudgedRead, Zenon
  <2> QED
    BY <2>3, <2>5, SameOutcome DEF m, meant
<1>5. CASE r.op = "authenticate"
  <2>1. op = "startup"
    BY <1>5 DEF Answers
  <2>2. m.st = "ok" /\ Opcode[r.op] = Opcode.authenticate
    BY <1>1, <1>5, AuthenticateRead
  <2>3. meant.what = "throw"
    BY <1>5, MeantIs
  <2> HIDE DEF m, meant
  <2>4. o = Throw("unexpected")
    BY <2>1, <2>2, JudgedRead, Zenon
  <2> QED
    BY <2>3, <2>4, OutcomeIs DEF Unwarned, Same, m, meant
<1>6. CASE r.op = "supported"
  <2> DEFINE set == {r.options[i] : i \in 1 .. Len(r.options)}
             some == \E i \in 1 .. Len(r.options) : r.options[i][1] = Text.COMPRESSION
  <2>1. op = "options"
    BY <1>6 DEF Answers
  <2>2. SupportedReply(r) /\ Told(r, FALSE) = OptionsBytes(r.options)
    BY <1>1, <1>2, <1>6, ReplyWritten
  <2>3. Opcode[r.op] = Opcode.supported /\ Opcode.supported # Opcode.error
    BY <1>6 DEF Opcode
  <2>4. m = ParseSupported(Reader(OptionsBytes(r.options)))
    BY <2>2, <2>3, BodyIs, Zenon DEF Parsed
  <2>5. SupportedParsed(r)
    BY <2>2, OptionsSpan
  <2>6. m = [st |-> "ok", options |-> set]
    BY <2>4, <2>5, Zenon DEF SupportedParsed, ParseSupported
  <2>7. some <=> \E x \in set : x[1] = Text.COMPRESSION
    BY Zenon
  <2>8. meant = IF some THEN Outcome("options", set) ELSE meant
    BY <1>6, MeantIs, Zenon
  <2>9. ~some => meant.what = "throw"
    BY <1>6, MeantIs, Zenon
  <2> HIDE DEF m, meant, set, some
  <2>10. m.st = "ok" /\ m.options = set
    BY <2>6
  <2>11. o = GetOptions(Opcode.supported, m)
    BY <2>1, <2>3, <2>10, JudgedRead, Zenon
  <2>12. o = IF some THEN Outcome("options", set) ELSE Throw("out_of_range")
    BY <2>7, <2>10, <2>11, Zenon DEF GetOptions
  <2> HIDE DEF o
  <2>13. CASE some
    <3>1. o = Outcome("options", set) /\ meant = Outcome("options", set)
      BY <2>8, <2>12, <2>13
    <3> QED
      BY <3>1, SameOutcome DEF m, meant, o
  <2>14. CASE ~some
    <3>1. o = Throw("out_of_range")
      BY <2>12, <2>14
    <3> QED
      BY <2>9, <2>14, <3>1, OutcomeIs DEF Unwarned, Same, m, meant, o
  <2> QED
    BY <2>13, <2>14
<1>7. CASE r.op = "result"
  <2>1. ResultReply(r) /\ Told(r, FALSE) = EncodeResult(r)
    BY <1>1, <1>2, <1>7, ReplyWritten
  <2>2. Opcode[r.op] = Opcode.result
    BY <1>7
  <2>3. m = ParseResult(Reader(EncodeResult(r)))
    BY <2>1, <2>2, BodyIs, Zenon DEF Parsed
  <2>4. ResultParsed(r)
    BY <2>1, ResultSpan
  <2>5. /\ r.kind = "void" => m = [st |-> "ok", kind |-> 1]
        /\ r.kind = "set_keyspace" => m = [st |-> "ok", kind |-> 3]
        /\ r.kind = "schema_change" => m = [st |-> "ok", kind |-> 5]
        /\ r.kind = "prepared" => m = [st |-> "ok", kind |-> 4, id |-> r.id]
    BY <2>3, <2>4, Zenon DEF ResultParsed
  <2>6. r.kind = "rows" =>
           m = IF r.count < 0 THEN [st |-> "throw"]
               ELSE [st |-> "ok", kind |-> 2, columns |-> Len(r.types), rows |-> RowsOf(r.types, r.rows)]
    BY <2>3, <2>4, Zenon DEF ResultParsed
  <2>7. ResultKind.rows = 2 /\ ResultKind.prepared = 4
    BY DEF ResultKind
  <2> HIDE DEF m, meant
  <2>8. CASE r.kind \in {"void", "set_keyspace", "schema_change"}
    <3>1. op \in {"query", "execute", "batch"}
      BY <1>7, <2>8 DEF Answers
    <3>2. m.st = "ok" /\ m.kind # 2
      BY <2>5, <2>8
    <3>3. o = Outcome("empty", <<>>)
      BY <2>2, <2>7, <3>1, <3>2, JudgedRead, Zenon DEF GetResultSet
    <3>4. meant = Outcome("empty", <<>>)
      BY <1>7, <2>8, MeantIs DEF meant
    <3> HIDE DEF o
    <3> QED
      BY <3>3, <3>4, SameOutcome DEF m, meant, o
  <2>9. CASE r.kind = "prepared"
    <3>1. op = "prepare"
      BY <1>7, <2>9 DEF Answers, AnyOp, CallersOps
    <3>2. m.st = "ok" /\ m.kind = 4 /\ m.id = r.id
      BY <2>5, <2>9
    <3>3. o = Outcome("id", r.id)
      BY <2>2, <2>7, <3>1, <3>2, JudgedRead, Zenon DEF GetPreparedStatementId
    <3>4. meant = Outcome("id", r.id)
      BY <1>7, <2>9, MeantIs DEF meant
    <3> HIDE DEF o
    <3> QED
      BY <3>3, <3>4, SameOutcome DEF m, meant, o
  <2>10. CASE r.kind = "rows"
    <3> DEFINE n == Len(r.types)
               rows == RowsOf(r.types, r.rows)
               value == [columns |-> n, rows |-> rows]
    <3>1. op \in {"query", "execute", "batch"}
      BY <1>7, <2>10 DEF Answers
    <3>2. r.count >= 0 \/ r.count < 0
      <4>1. r.count \in {-1, Len(r.rows)} /\ Len(r.rows) \in Nat
        BY <2>1, <2>10, ResultWritten, RowsWritten DEF RowsReply
      <4> QED
        BY <4>1
    <3>3. ~(r.count >= 0 /\ r.count < 0)
      <4>1. r.count \in {-1, Len(r.rows)} /\ Len(r.rows) \in Nat
        BY <2>1, <2>10, ResultWritten, RowsWritten DEF RowsReply
      <4> QED
        BY <4>1
    <3>4. CASE r.count < 0
      <4>1. m = [st |-> "throw"]
        BY <2>6, <2>10, <3>4
      <4>2. m.st = "throw"
        BY <4>1
      <4>3. o.what = "throw"
        BY <4>2, JudgedEarly
      <4>4. meant.what = "throw"
        BY <1>7, <2>10, <3>3, <3>4, MeantIs, Zenon DEF meant
      <4> HIDE DEF o
      <4> QED
        BY <4>3, <4>4 DEF Unwarned, Same, m, meant, o
    <3>5. CASE r.count >= 0
      <4>1. m = [st |-> "ok", kind |-> 2, columns |-> n, rows |-> rows]
        BY <2>6, <2>10, <3>3, <3>5, Zenon
      <4>2. meant = Outcome("rows", value)
        BY <1>7, <2>10, <3>5, MeantIs, Zenon DEF meant
      <4> HIDE DEF n, rows
      <4>3. m.st = "ok" /\ m.kind = 2 /\ m.columns = n /\ m.rows = rows
        BY <4>1
      <4>4. o = Outcome("rows", value)
        BY <2>2, <2>7, <3>1, <4>3, JudgedRead, Zenon DEF GetResultSet
      <4> HIDE DEF o, value
      <4> QED
        BY <4>2, <4>4, SameOutcome DEF m, meant, o
    <3> QED
      BY <3>2, <3>4, <3>5
  <2> QED
    BY <2>1, <2>8, <2>9, <2>10 DEF ResultReply
<1> QED
  BY <1>1, <1>3, <1>4, <1>5, <1>6, <1>7, ReplyWritten

-----------------------------------------------------------------------------
(* What the caller is given for an answer with a warning.                  *)

(* The loop over the options, when it says there is one of them. *)
LEMMA OneEntry ==
  ASSUME NEW data \in Seq(Nat), NEW k, Len(data) >= 1
  PROVE  EntryLoop(At(data, k, 1), 1) = Turn(At(data, k, <<>>), ReadEntry(At(data, k, <<>>)))
<1> DEFINE a == At(data, k, <<>>)
           b == Turn(a, ReadEntry(a))
           P(u) == u = [i \in 0 .. 1 |-> IF i = 0 THEN a ELSE Turn(u[i - 1], ReadEntry(u[i - 1]))]
           h == [i \in 0 .. 1 |-> IF i = 0 THEN a ELSE b]
           u == CHOOSE u : P(u)
<1>1. \A i \in 0 .. 1 : i = 0 \/ (i # 0 /\ i - 1 = 0)
  OBVIOUS
<1>2. 0 \in 0 .. 1 /\ 1 \in 0 .. 1 /\ 1 # 0 /\ 1 - 1 = 0
  OBVIOUS
<1>3. h[0] = a
  BY <1>2, Zenon
<1>4. P(h)
  <2>1. \A i \in 0 .. 1 : (IF i = 0 THEN a ELSE b) = IF i = 0 THEN a ELSE Turn(h[i - 1], ReadEntry(h[i - 1]))
    <3> HIDE DEF h
    <3> QED
      BY <1>1, <1>3, Zenon
  <2> QED
    BY <2>1, Zenon
<1>5. P(u)
  <2> HIDE DEF h
  <2> QED
    BY <1>4, Zenon
<1>6. EntryLoop(At(data, k, 1), 1) = u[1]
  <2>1. /\ Return(At(data, k, 1), <<>>) = At(data, k, <<>>)
        /\ At(data, k, 1).st = "ok" /\ At(data, k, 1).data = data /\ 1 <= Len(data)
    BY AtIs
  <2> QED
    BY <2>1, Zenon DEF EntryLoop, Repeat, Turn
<1> HIDE DEF u, h, a
<1>7. u[0] = a
  BY <1>2, <1>5, Zenon
<1>8. u[1] = Turn(u[0], ReadEntry(u[0]))
  BY <1>2, <1>5, Zenon
<1> QED
  BY <1>6, <1>7, <1>8, Zenon DEF a

(* How a body with a warning begins. *)
WarnedData(data) ==
  /\ data \in Seq(Bytes) /\ data \in Seq(Nat) /\ Reader(data) = At(data, 0, <<>>)
  /\ Len(data) >= 4 /\ Warning \in ShortTexts
  /\ \E i \in Nat : Spans(data, 2, WriteString(Warning), i)
  /\ Spans(data, 0, WriteIntBE(1, 2), 2)

(* A body with a warning begins with the count of the warnings. *)
LEMMA WarnedBody ==
  ASSUME NEW r \in Replies
  PROVE  WarnedData(Told(r, TRUE))
<1> DEFINE data == Told(r, TRUE)
           a == WriteIntBE(1, 2)
           b == WriteString(Warning)
           c == EncodeReply(r)
           e == Len(data)
<1>1. Warning \in ShortTexts
  BY ExchangeAssumption
<1>2. data \in Seq(Bytes)
  BY ToldIs
<1>3. data = a \o b \o c
  <2>1. Told(r, TRUE) = WriteList(<<Warning>>, WriteString) \o c
    BY ToldIs
  <2>2. WriteList(<<Warning>>, WriteString) = a \o b
    BY <1>1, OneString
  <2> HIDE DEF a, b, c
  <2> QED
    BY <2>1, <2>2, Zenon
<1>4. a \in Seq(Bytes) /\ Len(a) = 2 /\ b \in Seq(Bytes) /\ Len(b) >= 2 /\ c \in Seq(Bytes)
  <2>1. a \in Seq(Bytes) /\ Len(a) = 2
    BY Written
  <2>2. b \in Seq(Bytes) /\ Len(b) = 2 + Len(Warning) /\ Len(Warning) \in Nat
    <3>1. Len(Warning) \in Nat
      BY <1>1 DEF ShortTexts
    <3> QED
      BY <1>1, <3>1, StringSize
  <2>3. c \in Seq(Bytes)
    BY ReplyWritten
  <2> HIDE DEF a, b, c
  <2> QED
    BY <2>1, <2>2, <2>3
<1>5. data \in Seq(Nat) /\ Reader(data) = At(data, 0, <<>>) /\ Spans(data, 0, data, e)
  <2> HIDE DEF data
  <2> QED
    BY <1>2, SpansAll
<1> HIDE DEF a, b, c, data
<1>6. Spans(data, 0, a \o b \o c, e)
  BY <1>3, <1>5, Zenon
<1>7. PICK i \in Nat, h \in Nat : Spans(data, 0, a, i) /\ Spans(data, i, b, h)
  <2>1. 0 \in Nat
    OBVIOUS
  <2> HIDE DEF e
  <2> QED
    BY <1>4, <1>5, <1>6, <2>1, SpansParts3
<1>8. i = 2
  BY <1>4, <1>7 DEF Spans
<1>9. Len(data) >= 4
  <2> DEFINE l == Len(b)
  <2>1. i + l <= Len(data)
    BY <1>7, Zenon DEF Spans, Holds
  <2>2. l \in Nat /\ l >= 2 /\ Len(data) \in Nat
    BY <1>2, <1>4
  <2> HIDE DEF l
  <2> QED
    BY <1>8, <2>1, <2>2
<1> QED
  BY <1>1, <1>2, <1>5, <1>7, <1>8, <1>9, Zenon DEF WarnedData, a, b, data

(* The count and the length of the warning, read as one number. *)
LEMMA WarnedKind ==
  ASSUME NEW data, WarnedData(data)
  PROVE  \E x \in Int : x > 5 /\ ReadInt(Reader(data)) = At(data, 4, x)
<1>1. /\ data \in Seq(Bytes) /\ data \in Seq(Nat) /\ Reader(data) = At(data, 0, <<>>) /\ Len(data) >= 4
      /\ Warning \in ShortTexts
      /\ Spans(data, 0, WriteIntBE(1, 2), 2)
  BY Zenon DEF WarnedData
<1>2. PICK e \in Nat : Spans(data, 2, WriteString(Warning), e)
  BY Zenon DEF WarnedData
<1> DEFINE n == Len(Warning)
<1>3. n \in Nat /\ n < Base * Base /\ Warning \in Seq(Bytes)
  BY <1>1, Limits DEF ShortTexts
<1>4. PICK m \in Seq(Bytes) : WriteString(Warning) = WriteIntBE(n, 2) \o m
  <2>1. PICK l \in Nat, head \in Seq(Bytes), m \in Seq(Bytes) :
           /\ l = Len(Warning) % (Base * Base) /\ l < Base * Base
           /\ head = WriteIntBE(l, 2) /\ Len(head) = 2
           /\ m = SubSeq(Warning, 1, l) /\ Len(m) = l
           /\ WriteString(Warning) = head \o m
           /\ WriteString(Warning) \in Seq(Bytes) /\ Len(WriteString(Warning)) = 2 + l
    BY <1>3, StringForm, ZenonT(60)
  <2>2. l = n
    <3>1. Base * Base \in Nat /\ Base * Base > 0
      BY Limits
    <3> DEFINE q == Base * Base
    <3> HIDE DEF q, n
    <3>2. n % q = n
      BY <1>3, <3>1, SMTT(60) DEF q
    <3> QED
      BY <2>1, <3>2, Zenon DEF q, n
  <2> QED
    BY <2>1, <2>2
<1>5. PICK a \in Bytes, b \in Bytes : 1 = a * Base + b /\ WriteIntBE(1, 2) = <<a, b>>
  <2>1. 1 \in Nat /\ 1 < Base * Base
    BY Limits
  <2> QED
    BY <2>1, TwoDigits
<1>6. PICK c \in Bytes, d \in Bytes : n = c * Base + d /\ WriteIntBE(n, 2) = <<c, d>>
  BY <1>3, TwoDigits
<1>7. a \in Nat /\ b \in Nat /\ c \in Nat /\ d \in Nat /\ Base \in Nat /\ Base >= 14
  BY <1>5, <1>6, Limits DEF Bytes
<1>8. a = 0 /\ b = 1
  <2>1. a = 0
    <3>1. SUFFICES ASSUME a >= 1 PROVE FALSE
      BY <1>7
    <3>2. a * Base >= Base
      BY <1>7, <3>1
    <3> QED
      BY <1>5, <1>7, <3>2
  <2> QED
    BY <1>5, <1>7, <2>1
<1>9. data[1] = a /\ data[2] = b /\ data[3] = c /\ data[4] = d
  <2>1. Holds(data, 0, <<a, b>>)
    BY <1>1, <1>5 DEF Spans
  <2>2. data[1] = a /\ data[2] = b
    BY <1>1, <2>1, TwoHeld
  <2>3. Holds(data, 2, <<c, d>>)
    <3> DEFINE w == WriteIntBE(n, 2)
    <3>1. w \in Seq(Bytes)
      BY <1>3, Written
    <3>2. Holds(data, 2, w \o m)
      BY <1>2, <1>4 DEF Spans
    <3> HIDE DEF w
    <3>3. Holds(data, 2, w)
      <4>1. 2 \in Nat
        OBVIOUS
      <4> QED
        BY <1>1, <1>4, <3>1, <3>2, <4>1, HoldsParts
    <3> QED
      BY <1>6, <3>3 DEF w
  <2>4. data[3] = c /\ data[4] = d
    BY <1>1, <2>3, TwoHeld
  <2> QED
    BY <2>2, <2>4
<1> DEFINE s == SubSeq(data, 1, 4)
           x == a * (Base * Base * Base) + ((b * Base + c) * Base + d)
<1>10. s = <<a, b, c, d>>
  <2>1. Len(s) = 4 /\ s[1] = data[1] /\ s[2] = data[2] /\ s[3] = data[3] /\ s[4] = data[4] /\ s \in Seq(Bytes)
    BY <1>1
  <2> HIDE DEF s
  <2> QED
    BY <1>9, <2>1
<1>11. Signed(s) = x
  <2>1. a < Base \div 2
    BY <1>7, <1>8
  <2>2. Signed(<<a, b, c, d>>) = x
    BY <2>1, SignedFour
  <2> QED
    BY <1>10, <2>2, Zenon
<1>12. x \in Int /\ x > 5
  <2> DEFINE p == c * Base
             q == (Base + c) * Base
  <2>1. (Base + c) * Base = Base * Base + c * Base
    BY <1>7
  <2>2. Base * Base >= 14 * 14 /\ c * Base >= 0 /\ c * Base \in Nat /\ Base * Base \in Nat
    BY <1>7
  <2>3. x = (Base + c) * Base + d
    BY <1>7, <1>8
  <2>4. x = Base * Base + c * Base + d
    BY <2>1, <2>3
  <2> HIDE DEF x
  <2> DEFINE u == Base * Base
             w == c * Base
  <2> HIDE DEF u, w
  <2>5. x = u + w + d /\ u >= 196 /\ w \in Nat /\ u \in Nat
    BY <2>2, <2>4 DEF u, w
  <2> QED
    BY <1>7, <2>5
<1> HIDE DEF s, x
<1>13. EnsureSize(At(data, 0, <<>>), 4) = At(data, 4, s)
  <2>1. 0 \in Nat /\ 4 \in Nat /\ 0 + 4 = 4 /\ 0 + 1 = 1
    OBVIOUS
  <2>2. EnsureSize(At(data, 0, <<>>), 4) = At(data, 0 + 4, SubSeq(data, 0 + 1, 0 + 4))
    BY <1>1, <2>1, Taken
  <2> QED
    BY <2>1, <2>2, Zenon DEF s
<1>14. /\ At(data, 4, s).st = "ok" /\ At(data, 4, s).v = s
       /\ Return(At(data, 4, s), x) = At(data, 4, x) /\ Width.Int = 4
  BY AtIs DEF Width
<1>15. ReadInt(Reader(data)) = At(data, 4, x)
  BY <1>1, <1>11, <1>13, <1>14, Zenon DEF ReadInt, ReadSigned, AsSigned
<1> QED
  BY <1>12, <1>15

(* Nothing of the answer is taken for rows, options or an id. *)
Warned(op, r) ==
  LET o == Judged(op, Opcode[r.op], Parsed(r, TRUE))
  IN  o.what \notin {"rows", "options"} /\ (o.what = "id" => o.v = <<>>)

(* The options that are read out of a body with a warning have the warning's
   name, and no other. *)
LEMMA WarnedOptions ==
  ASSUME NEW r \in Replies
  PROVE  LET m == ParseSupported(Reader(Told(r, TRUE)))
         IN  m.st \in Ends /\ (m.st = "ok" => \A o \in m.options : o[1] = Warning)
<1> DEFINE data == Told(r, TRUE)
<1>1. /\ data \in Seq(Bytes) /\ data \in Seq(Nat) /\ Reader(data) = At(data, 0, <<>>) /\ Len(data) >= 4
      /\ Warning \in ShortTexts
      /\ Spans(data, 0, WriteIntBE(1, 2), 2)
  BY WarnedBody, Zenon DEF WarnedData
<1>2. PICK i \in Nat : Spans(data, 2, WriteString(Warning), i)
  BY WarnedBody, Zenon DEF WarnedData
<1> HIDE DEF data
<1>3. ReadShort(Reader(data)) = At(data, 2, 1)
  <2>1. 0 \in Nat /\ 1 \in Nat /\ 1 < Square
    BY Limits
  <2> QED
    BY <1>1, <2>1, ShortSpan
<1>4. ReadString(At(data, 2, <<>>)) = At(data, i, Warning)
  <2>1. 2 \in Nat
    OBVIOUS
  <2> QED
    BY <1>1, <1>2, <2>1, StringSpan
<1> DEFINE list == ReadStringList(At(data, i, Warning))
           entry == ReadEntry(At(data, 2, <<>>))
           es == <<<<Warning, list.v>>>>
<1>5. Cursor(list)
  BY <1>1, CursorStringList
<1> HIDE DEF list
<1>6. entry = IF list.st = "ok" THEN Return(list, <<Warning, list.v>>) ELSE list
  <2>1. At(data, i, Warning).v = Warning
    BY AtIs
  <2> QED
    BY <1>4, <2>1, Zenon DEF ReadEntry, list
<1>7. Entries(Reader(data)) = Turn(At(data, 2, <<>>), entry)
  <2>1. At(data, 2, 1).st = "ok" /\ At(data, 2, 1).v = 1 /\ At(data, 2, 1).v >= 0
    BY AtIs
  <2>2. Entries(Reader(data)) = EntryLoop(At(data, 2, 1), 1)
    BY <1>3, <2>1, Zenon DEF Entries, EntryLoop, ReadList
  <2>3. Len(data) >= 1
    BY <1>1
  <2>4. EntryLoop(At(data, 2, 1), 1) = Turn(At(data, 2, <<>>), entry)
    BY <1>1, <2>3, OneEntry
  <2> QED
    BY <2>2, <2>4, Zenon
<1> DEFINE map == ReadStringMultiMap(Reader(data))
<1>8. ParseSupported(Reader(data)) = [st |-> map.st, options |-> map.v]
  BY Zenon DEF ParseSupported
<1>9. CASE list.st # "ok"
  <2>1. entry = list /\ Entries(Reader(data)) = list
    BY <1>6, <1>7, <1>9, Zenon DEF Turn
  <2>2. map = list
    BY <1>9, <2>1, MultiMapIs, Zenon
  <2>3. map.st \in Ends /\ map.st # "ok"
    BY <1>5, <1>9, <2>2, Zenon DEF Cursor
  <2> HIDE DEF map
  <2>4. ParseSupported(Reader(data)).st = map.st
    BY <1>8
  <2> QED
    BY <2>3, <2>4, Zenon DEF data
<1>10. CASE list.st = "ok"
  <2>1. entry = Return(list, <<Warning, list.v>>)
    BY <1>6, <1>10
  <2> DEFINE pair == <<Warning, list.v>>
             all == Return(entry, <<pair>>)
  <2>2. entry.st = "ok" /\ entry.v = pair /\ Cursor(entry)
    <3>1. Return(list, pair).st = "ok" /\ Return(list, pair).v = pair
      <4> HIDE DEF pair
      <4> QED
        BY <1>5, <1>10 DEF Cursor, Return
    <3> QED
      BY <1>5, <2>1, <3>1, CursorReturns, Zenon
  <2>3. Entries(Reader(data)) = all
    <3>1. At(data, 2, <<>>).v = <<>>
      BY AtIs
    <3> HIDE DEF pair, entry
    <3>2. Append(<<>>, pair) = <<pair>>
      OBVIOUS
    <3> QED
      BY <1>7, <2>2, <3>1, <3>2, Zenon DEF Turn
  <2> DEFINE one == <<pair>>
  <2>4. all.st = "ok" /\ all.v = one /\ Cursor(all)
    <3> HIDE DEF entry, one
    <3>1. Return(entry, one).st = "ok" /\ Return(entry, one).v = one
      BY <2>2 DEF Cursor, Return
    <3>2. Cursor(Return(entry, one))
      BY <2>2, CursorReturns
    <3> QED
      BY <3>1, <3>2 DEF one
  <2>5. Kept(one) \subseteq {pair}
    <3> HIDE DEF pair
    <3>1. \A j \in 1 .. Len(one) : one[j] = pair
      OBVIOUS
    <3> HIDE DEF one
    <3> QED
      BY <3>1, Zenon DEF Kept, FirstOf
  <2>6. \A o \in Kept(one) : o[1] = Warning
    <3>1. pair[1] = Warning
      OBVIOUS
    <3> HIDE DEF pair, one
    <3> QED
      BY <2>5, <3>1, Zenon
  <2> DEFINE kept == Kept(one)
  <2>7. map = Return(all, kept)
    <3> HIDE DEF all, one
    <3> QED
      BY <2>3, <2>4, MultiMapIs, Zenon
  <2> HIDE DEF all, kept
  <2>8. map.st = "ok" /\ map.v = kept
    <3>1. Return(all, kept).st = "ok" /\ Return(all, kept).v = kept
      BY <2>4 DEF Cursor, Return
    <3> QED
      BY <2>7, <3>1, Zenon
  <2> HIDE DEF map, one
  <2>9. ParseSupported(Reader(data)).st = "ok" /\ ParseSupported(Reader(data)).options = kept
    BY <1>8, <2>8
  <2>10. "ok" \in Ends
    BY DEF Ends
  <2> QED
    BY <2>6, <2>9, <2>10, Zenon DEF kept, data
<1> QED
  BY <1>9, <1>10

(* During STARTUP nothing is given out but that the connection is ready. *)
LEMMA JudgedStartup ==
  ASSUME NEW m, m.st \in Ends, NEW opcode, opcode # Opcode.error
  PROVE  Judged("startup", opcode, m).what \in {"throw", "over", "ready"}
<1>1. CASE m.st = "ok"
  <2>1. Judged("startup", opcode, m) = IF opcode = Opcode.ready THEN Outcome("ready", <<>>) ELSE Throw("unexpected")
    BY <1>1, JudgedCases
  <2> QED
    BY <2>1, OutcomeIs
<1>2. CASE m.st # "ok"
  BY <1>2, JudgedEarly DEF Ends
<1> QED
  BY <1>1, <1>2

(* An answer with a warning gives neither rows nor options nor an id. *)
LEMMA WarnedOutcome ==
  ASSUME NEW op \in AnyOp, NEW r \in Answers(op), r.op # "error"
  PROVE  Warned(op, r)
<1> DEFINE m == Parsed(r, TRUE)
           data == Told(r, TRUE)
           o == Judged(op, Opcode[r.op], m)
<1>1. r \in Replies
  BY DEF Answers
<1>2. CASE r.op \in {"ready", "authenticate"}
  <2>1. op = "startup"
    BY <1>2 DEF Answers
  <2>2. Opcode[r.op] # Opcode.error
    BY <1>2 DEF Opcode
  <2>3. m.st \in Ends
    <3>1. CASE r.op = "ready"
      <4>1. m = [st |-> "ok"]
        BY <3>1, BodyIs DEF Parsed
      <4> HIDE DEF m
      <4> QED
        BY <4>1 DEF Ends
    <3>2. CASE r.op = "authenticate"
      <4>1. m = [st |-> ReadString(Reader(data)).st]
        BY <3>2, BodyIs DEF Parsed, ParseAuthenticate
      <4>2. Reader(data) = At(data, 0, <<>>)
        BY <1>1, WarnedBody, Zenon DEF WarnedData
      <4> HIDE DEF m, data
      <4>3. Cursor(ReadString(Reader(data)))
        BY <4>2, CursorAt, CursorReads
      <4> DEFINE st == ReadString(Reader(data)).st
      <4>4. st \in Ends
        BY <4>3, Zenon DEF Cursor
      <4> HIDE DEF st
      <4>5. m = [st |-> st]
        BY <4>1 DEF st
      <4> QED
        BY <4>4, <4>5
    <3> QED
      BY <1>2, <3>1, <3>2
  <2> HIDE DEF m
  <2>4. o.what \in {"throw", "over", "ready"}
    BY <2>1, <2>2, <2>3, JudgedStartup, Zenon
  <2> HIDE DEF o
  <2>5. o.what \notin {"rows", "options"} /\ o.what # "id"
    BY <2>4
  <2> QED
    BY <2>5, Zenon DEF Warned, o, m
<1>3. CASE r.op = "supported"
  <2>1. op = "options"
    BY <1>3 DEF Answers
  <2>2. Opcode[r.op] = Opcode.supported /\ Opcode.supported # Opcode.error
    BY <1>3 DEF Opcode
  <2>3. m = ParseSupported(Reader(data))
    BY <2>2, BodyIs, Zenon DEF Parsed
  <2>4. m.st \in Ends /\ (m.st = "ok" => \A x \in m.options : x[1] = Warning)
    BY <1>1, <2>3, WarnedOptions, Zenon
  <2>5. Warning # Text.COMPRESSION
    BY ExchangeAssumption
  <2> HIDE DEF m
  <2>6. o.what \in {"throw", "over"}
    <3>1. CASE m.st = "ok"
      <4>1. o = GetOptions(Opcode.supported, m)
        BY <2>1, <2>2, <3>1, JudgedRead, Zenon
      <4>2. o = Throw("out_of_range")
        BY <2>4, <2>5, <3>1, <4>1, Zenon DEF GetOptions
      <4> HIDE DEF o
      <4> QED
        BY <4>2, OutcomeIs
    <3>2. CASE m.st # "ok"
      BY <2>4, <3>2, JudgedEarly DEF Ends
    <3> QED
      BY <3>1, <3>2
  <2> HIDE DEF o
  <2>7. o.what \notin {"rows", "options"} /\ o.what # "id"
    BY <2>6
  <2> QED
    BY <2>7, Zenon DEF Warned, o, m
<1>4. CASE r.op = "result"
  <2>1. op \in CallersOps
    BY <1>4 DEF Answers, CallersOps
  <2>2. Opcode[r.op] = Opcode.result
    BY <1>4
  <2>3. m = ParseResult(Reader(data))
    BY <2>2, BodyIs, Zenon DEF Parsed
  <2>4. PICK x \in Int : x > 5 /\ ReadInt(Reader(data)) = At(data, 4, x)
    BY <1>1, WarnedBody, WarnedKind
  <2>5. m = [st |-> "ok", kind |-> x]
    <3>1. At(data, 4, x).st = "ok" /\ At(data, 4, x).v = x
      <4> HIDE DEF data
      <4> QED
        BY AtIs
    <3>2. x # ResultKind.rows /\ x # ResultKind.set_keyspace /\ x # ResultKind.prepared /\ x # ResultKind.schema_change
      BY <2>4 DEF ResultKind
    <3> HIDE DEF data, m
    <3> QED
      BY <2>3, <2>4, <3>1, <3>2, Zenon DEF ParseResult
  <2> HIDE DEF m
  <2>6. m.st = "ok" /\ m.kind = x
    BY <2>5
  <2>7. m.kind # ResultKind.rows /\ m.kind # ResultKind.prepared
    BY <2>4, <2>6 DEF ResultKind
  <2>8. CASE op = "prepare"
    <3>1. o = Outcome("id", <<>>)
      BY <2>2, <2>6, <2>7, <2>8, JudgedRead, Zenon DEF GetPreparedStatementId
    <3> HIDE DEF o
    <3>2. o.what = "id" /\ o.v = <<>>
      BY <3>1, OutcomeIs, Zenon
    <3>3. o.what \notin {"rows", "options"}
      BY <3>2
    <3> QED
      BY <3>2, <3>3, Zenon DEF Warned, o, m
  <2>9. CASE op \in {"query", "execute", "batch"}
    <3>1. o = Outcome("empty", <<>>)
      BY <2>2, <2>6, <2>7, <2>9, JudgedRead, Zenon DEF GetResultSet
    <3> HIDE DEF o
    <3>2. o.what = "empty"
      BY <3>1, OutcomeIs, Zenon
    <3>3. o.what \notin {"rows", "options"} /\ o.what # "id"
      BY <3>2
    <3> QED
      BY <3>3, Zenon DEF Warned, o, m
  <2> QED
    BY <2>1, <2>8, <2>9 DEF CallersOps
<1> QED
  BY <1>1, <1>2, <1>3, <1>4, ReplyWritten

-----------------------------------------------------------------------------
(* What the caller of a request is given, wherever the connection closed.  *)

Faithful(op, r, warned, all, o) ==
  /\ ~warned /\ all =>
       (Same(o, Meant(r)) \/ (UnknownCode(r) /\ o.what \in {"throw", "null"})) /\ o.what # "over"
  /\ ~warned /\ ~all => (o.what = "throw" \/ Same(o, Meant(r))) /\ o.what # "over"
  /\ warned => o.what \notin {"rows", "options"} /\ (o.what = "id" => o.v = <<>>)

(* What a caller is given for an answer that is cut anywhere. *)
LEMMA FaithfulConcluded ==
  ASSUME NEW op \in AnyOp, NEW r \in Answers(op), NEW id \in Streams \cup {0},
         NEW warned \in BOOLEAN, NEW packed \in BOOLEAN, NEW comp \in BOOLEAN, packed => comp,
         NEW cut \in 0 .. Whole(r, id, warned, packed)
  PROVE  Faithful(op, r, warned, AllArrived(r, id, warned, packed, comp, cut),
                  Conclude(op, Reading(r, id, warned, packed, comp, cut)))
<1> DEFINE all == AllArrived(r, id, warned, packed, comp, cut)
           o == Conclude(op, Reading(r, id, warned, packed, comp, cut))
<1>1. r \in Replies
  BY DEF Answers
<1>2. Concluding(op, r, id, warned, packed, comp, cut)
  BY <1>1, Concluded
<1>3. /\ \/ o = Throw("read")
         \/ r.op = "ready" /\ o = Judged(op, Opcode.ready, [st |-> "ok"])
         \/ all
      /\ all => o = Judged(op, Opcode[r.op], Parsed(r, warned))
  BY <1>2, Zenon DEF Concluding
<1>4. r.op = "error" => o.what \in {"throw", "over", "null"}
  <2>1. r.op = "error" => ErrorSurfaces(op, r, warned, all, o)
    BY <1>1, ErrorConcluded
  <2> QED
    BY <2>1, Zenon DEF ErrorSurfaces
<1>5. ASSUME r.op = "ready", o = Judged(op, Opcode.ready, [st |-> "ok"])
      PROVE  o.what = "ready" /\ Same(o, Meant(r))
  <2>1. op = "startup"
    BY <1>5 DEF Answers
  <2> DEFINE m == [st |-> "ok"]
  <2>2. m.st = "ok"
    OBVIOUS
  <2> HIDE DEF m
  <2>3. o = Outcome("ready", <<>>)
    BY <1>5, <2>1, <2>2, JudgedRead, Zenon DEF m
  <2>4. Meant(r) = Outcome("ready", <<>>)
    BY <1>5, MeantIs
  <2> HIDE DEF o
  <2>5. Outcome("ready", <<>>).what = "ready"
    BY OutcomeIs
  <2> QED
    BY <2>3, <2>4, <2>5, Zenon DEF Same
<1>6. Throw("read").what = "throw"
  BY OutcomeIs
<1> HIDE DEF all, o
<1>7. ASSUME ~warned, all
      PROVE  (Same(o, Meant(r)) \/ (UnknownCode(r) /\ o.what \in {"throw", "null"})) /\ o.what # "over"
  <2>1. o = Judged(op, Opcode[r.op], Parsed(r, FALSE))
    BY <1>3, <1>7
  <2>2. Unwarned(op, r)
    BY UnwarnedOutcome
  <2>3. \/ UnknownCode(r) /\ o.what \in {"throw", "null"}
        \/ Same(o, Meant(r)) /\ Meant(r).what # "over"
    BY <2>1, <2>2, Zenon DEF Unwarned
  <2>4. ASSUME Same(o, Meant(r)), Meant(r).what # "over" PROVE o.what # "over"
    BY <2>4, Zenon DEF Same
  <2>5. o.what \in {"throw", "null"} => o.what # "over"
    OBVIOUS
  <2> QED
    BY <2>3, <2>4, <2>5, Zenon
<1>8. ASSUME ~all PROVE (o.what = "throw" \/ Same(o, Meant(r))) /\ o.what \in {"throw", "ready"}
  BY <1>3, <1>5, <1>6, <1>8
<1>9. ASSUME warned PROVE o.what \notin {"rows", "options"} /\ (o.what = "id" => o.v = <<>>)
  <2>1. CASE ~all
    BY <1>8, <2>1
  <2>2. CASE all /\ r.op = "error"
    BY <1>4, <2>2
  <2>3. CASE all /\ r.op # "error"
    <3>1. o = Judged(op, Opcode[r.op], Parsed(r, TRUE))
      BY <1>3, <1>9, <2>3
    <3>2. Warned(op, r)
      BY <2>3, WarnedOutcome
    <3> QED
      BY <3>1, <3>2, Zenon DEF Warned
  <2> QED
    BY <2>1, <2>2, <2>3
<1>10. o.what \in {"throw", "ready"} => o.what # "over"
  OBVIOUS
<1>11. Faithful(op, r, warned, all, o)
  BY <1>7, <1>8, <1>9, <1>10, Zenon DEF Faithful
<1> QED
  BY <1>11 DEF all, o

(* The same of the answer that was read in a state of the invariant. *)
LEMMA FaithfulRead ==
  ASSUME IInv, stage \in {"done", "read", "field"}
  PROVE  /\ Faithful(request.op, reply.r, reply.warned, AllCame, got.outcome)
         /\ AllCame => got.stream = stream
         /\ reply.warned \in BOOLEAN /\ reply.r \in Replies
<1> DEFINE r == reply.r
           warned == reply.warned
           packed == reply.packed
           o == got.outcome
<1>1. /\ request.op \in AnyOp /\ r \in Answers(request.op) /\ r \in Replies /\ stream \in Streams \cup {0}
      /\ warned \in BOOLEAN /\ packed \in BOOLEAN /\ compressor \in BOOLEAN /\ (packed => compressor)
  BY AnswerRead
<1>2. PICK cut \in 0 .. SizeOf : /\ o = Conclude(request.op, ReadingOf(cut))
                                 /\ got.stream = ReadingOf(cut).header.stream
                                 /\ AllOf(cut) <=> AllCame
  BY AnswerRead
<1>3. cut \in 0 .. Whole(r, stream, warned, packed)
  BY DEF SizeOf
<1>4. Faithful(request.op, r, warned, AllArrived(r, stream, warned, packed, compressor, cut),
               Conclude(request.op, Reading(r, stream, warned, packed, compressor, cut)))
  <2> HIDE DEF r, warned, packed
  <2> QED
    BY <1>1, <1>3, FaithfulConcluded
<1>5. Faithful(request.op, r, warned, AllOf(cut), o)
  BY <1>2, <1>4, Zenon DEF AllOf, ReadingOf
<1>6. AllOf(cut) => ReadingOf(cut).header.stream = stream
  <2>1. Concluding(request.op, r, stream, warned, packed, compressor, cut)
    <3> HIDE DEF r, warned, packed
    <3> QED
      BY <1>1, <1>3, Concluded
  <2> QED
    BY <2>1, Zenon DEF Concluding, AllOf, ReadingOf
<1>7. Faithful(request.op, r, warned, AllCame, o)
  BY <1>2, <1>5, Zenon DEF Faithful
<1> QED
  BY <1>1, <1>2, <1>6, <1>7

(* The invariant implies that what is given is what the node sent. *)
LEMMA Serving ==
  IInv => ReplyIsServers /\ ReadsStayInside
<1> SUFFICES ASSUME IInv, stage = "done"
             PROVE  /\ Intact => (GotWhatWasMeant \/ UnknownCode(reply.r)) /\ got.stream = stream
                    /\ ~Intact /\ ~reply.warned => got.outcome.what = "throw" \/ GotWhatWasMeant
                    /\ reply.warned =>
                         /\ got.outcome.what \in {"rows", "options"} => GotWhatWasMeant
                         /\ got.outcome.what = "id" => got.outcome.v = <<>> \/ GotWhatWasMeant
                    /\ ~reply.warned => got.outcome.what # "over"
  BY Zenon DEF ReplyIsServers, ReadsStayInside
<1>1. stage \in {"done", "read", "field"}
  OBVIOUS
<1>2. /\ Faithful(request.op, reply.r, reply.warned, AllCame, got.outcome)
      /\ AllCame => got.stream = stream
  BY <1>1, FaithfulRead
<1>3. GotWhatWasMeant <=> Same(got.outcome, Meant(reply.r))
  BY Zenon DEF GotWhatWasMeant, Same
<1>4. Intact <=> AllCame /\ ~reply.warned
  BY Zenon DEF Intact, AllCame
<1> QED
  BY <1>2, <1>3, <1>4, Zenon DEF Faithful

(* What a caller is given is what the node sent or an exception, wherever the
   connection is closed, and with a warning never rows, options or an id that
   the node did not send. *)
THEOREM RepliesAreServers == Spec => []ReplyIsServers
  BY InvariantHolds, Serving, PTL

(* The unguarded copies of the string and bytes parsers stay inside the body
   of every answer without a warning of a node that follows the protocol,
   closed anywhere.  With a warning they do not: see WarningChangesNothing. *)
THEOREM ReadsAlwaysInside == Spec => []ReadsStayInside
  BY InvariantHolds, Serving, PTL

-----------------------------------------------------------------------------
(* The rows as the caller takes them.                                      *)

ValueOf(cell) == IF cell.null THEN <<>> ELSE cell.v
ReadAs(name) == IF Numeric(name) THEN name ELSE "text"

(* No number is read out of no bytes. *)
LEMMA ReadNothing ==
  /\ ReadInt(Reader(<<>>)).st = "throw" /\ ReadInt(ReadInt(Reader(<<>>))).st = "throw"
<1> DEFINE data == <<>>
<1>1. Reader(data) = At(data, 0, <<>>) /\ Width.Int = 4
  BY DEF Reader, At, Width
<1>2. EnsureSize(At(data, 0, <<>>), 4).st = "throw"
  <2>1. Len(data) \in Nat /\ 0 \in Nat /\ 4 \in Nat /\ 0 + 4 > Len(data)
    OBVIOUS
  <2> HIDE DEF data
  <2> QED
    BY <2>1, TooFew
<1> HIDE DEF data
<1>3. ReadInt(Reader(data)).st = "throw"
  BY <1>1, <1>2 DEF ReadInt, ReadSigned, AsSigned
<1>4. ReadInt(ReadInt(Reader(data))) = ReadInt(Reader(data))
  <2> DEFINE r == ReadInt(Reader(data))
  <2>1. r.st # "ok"
    BY <1>3
  <2> HIDE DEF r
  <2>2. ReadInt(r) = r
    BY <2>1, StuckStays
  <2> QED
    BY <2>2 DEF r
<1> QED
  BY <1>3, <1>4 DEF data

(* A number at the start of a buffer is read, and the rest is still there. *)
LEMMA ReadHalves ==
  ASSUME NEW x \in Ints, NEW rest \in Seq(Bytes)
  PROVE  LET data == WriteIntBE(x, 4) \o rest
         IN  /\ data \in Seq(Nat) /\ ReadInt(Reader(data)) = At(data, 4, x)
             /\ Spans(data, 4, rest, Len(data))
<1> DEFINE w == WriteIntBE(x, 4)
           data == w \o rest
           e == Len(data)
<1>1. w \in Seq(Bytes) /\ Len(w) = 4
  <2>1. x \in Int
    BY Limits DEF Ints
  <2> QED
    BY <2>1, Written
<1>2. data \in Seq(Bytes)
  <2> HIDE DEF w
  <2> QED
    BY <1>1, JoinedBytes
<1>3. data \in Seq(Nat) /\ Reader(data) = At(data, 0, <<>>) /\ Spans(data, 0, data, e)
  <2> HIDE DEF data
  <2> QED
    BY <1>2, SpansAll
<1>4. Spans(data, 0, w \o rest, e)
  BY <1>3
<1> HIDE DEF data, e
<1>5. PICK i \in Nat : Spans(data, 0, w, i) /\ Spans(data, i, rest, e)
  <2>1. 0 \in Nat
    OBVIOUS
  <2> HIDE DEF w
  <2> QED
    BY <1>1, <1>3, <1>4, <2>1, SpansParts
<1>6. i = 4
  <2> HIDE DEF w
  <2> QED
    BY <1>1, <1>5 DEF Spans
<1>7. ReadInt(Reader(data)) = At(data, 4, x)
  <2>1. 0 \in Nat
    OBVIOUS
  <2> QED
    BY <1>3, <1>5, <1>6, <2>1, IntSpan
<1> QED
  BY <1>3, <1>5, <1>6, <1>7, Zenon DEF data, e, w

(* What a column is read into is the value the node sent, or, for a null
   that should be a number, an exception. *)
FieldIs(name, cell) ==
  As(ReadAs(name), CellBytes(name, cell)) =
    IF cell.null /\ ReadAs(name) # "text" THEN Throw("underread") ELSE Outcome("value", ValueOf(cell))

(* A field is the value of its cell, or an exception for a null number. *)
LEMMA FieldRead ==
  ASSUME NEW name, NEW cell, CellOf(name, cell)
  PROVE  FieldIs(name, cell)
<1> DEFINE data == CellBytes(name, cell)
           high == ReadInt(Reader(data))
           low == ReadInt(high)
           type == ReadAs(name)
<1>1. cell.null \in BOOLEAN
  BY DEF CellOf
<1>2. As(type, data) =
        CASE type = "text" -> Outcome("value", data)
          [] type = "int" -> IF high.st = "ok" THEN Outcome("value", <<high.v>>) ELSE Throw("underread")
          [] type = "bigint" -> IF low.st = "ok" THEN Outcome("value", <<high.v, low.v>>)
                                ELSE Throw("underread")
  BY Zenon DEF As
<1>3. CASE ~Numeric(name)
  <2>1. type = "text"
    BY <1>3 DEF ReadAs
  <2>2. data = ValueOf(cell)
    BY <1>1, <1>3, CellWritten DEF ValueOf
  <2> HIDE DEF data, type, high, low
  <2>3. As(type, data) = Outcome("value", data)
    BY <1>2, <2>1
  <2> QED
    BY <2>1, <2>2, <2>3, Zenon DEF FieldIs, data, type
<1>4. CASE Numeric(name) /\ cell.null
  <2>1. type = name /\ type \in {"int", "bigint"}
    BY <1>4 DEF ReadAs, Numeric
  <2>2. data = <<>>
    BY <1>4, CellWritten
  <2>3. high.st = "throw" /\ low.st = "throw"
    BY <2>2, ReadNothing
  <2> HIDE DEF data, type, high, low
  <2>4. As(type, data) = Throw("underread") /\ type # "text"
    BY <1>2, <2>1, <2>3
  <2> QED
    BY <1>4, <2>4, Zenon DEF FieldIs, data, type
<1>5. CASE name = "int" /\ ~cell.null
  <2>1. type = "int"
    BY <1>5 DEF ReadAs, Numeric
  <2> DEFINE v == cell.v
             x == v[1]
             w == WriteIntBE(x, 4)
  <2>2. v \in [1 .. 1 -> Ints]
    BY <1>5 DEF CellOf
  <2>3. x \in Ints /\ v = <<x>>
    <3> HIDE DEF v
    <3> QED
      BY <2>2
  <2>4. data = w
    <3>1. data = Halves(v)
      BY <1>5, CellWritten DEF Numeric
    <3> HIDE DEF v
    <3>2. Halves(v) = w
      BY <2>2, HalvesAre
    <3> QED
      BY <3>1, <3>2
  <2>5. w \in Seq(Bytes)
    <3>1. x \in Int
      BY <2>3, Limits DEF Ints
    <3> HIDE DEF x
    <3> QED
      BY <3>1, Written
  <2>6. w = w \o <<>>
    <3> HIDE DEF w
    <3> QED
      BY <2>5
  <2>7. high.st = "ok" /\ high.v = x
    <3>1. <<>> \in Seq(Bytes)
      OBVIOUS
    <3> HIDE DEF x
    <3>2. ReadInt(Reader(w \o <<>>)) = At(w \o <<>>, 4, x)
      BY <2>3, <3>1, ReadHalves, Zenon
    <3> HIDE DEF w
    <3>3. high = At(w, 4, x)
      BY <2>4, <2>6, <3>2, Zenon
    <3> HIDE DEF high
    <3> QED
      BY <3>3, AtIs
  <2> HIDE DEF data, type, high, low
  <2>8. As(type, data) = Outcome("value", <<high.v>>)
    BY <1>2, <2>1, <2>7
  <2>9. ValueOf(cell) = <<high.v>>
    BY <1>5, <2>3, <2>7, Zenon DEF ValueOf
  <2> QED
    BY <1>5, <2>8, <2>9, Zenon DEF FieldIs, data, type
<1>6. CASE name = "bigint" /\ ~cell.null
  <2>1. type = "bigint"
    BY <1>6 DEF ReadAs, Numeric
  <2> DEFINE v == cell.v
             x == v[1]
             y == v[2]
             w == WriteIntBE(x, 4)
             z == WriteIntBE(y, 4)
             d == w \o z
  <2>2. v \in [1 .. 2 -> Ints]
    BY <1>6 DEF CellOf
  <2>3. x \in Ints /\ y \in Ints /\ v = <<x, y>>
    <3> HIDE DEF v
    <3> QED
      BY <2>2
  <2>4. data = d
    <3>1. data = Halves(v)
      BY <1>6, CellWritten DEF Numeric
    <3> HIDE DEF v
    <3>2. Halves(v) = d
      BY <2>2, HalvesAre
    <3> QED
      BY <3>1, <3>2
  <2>5. z \in Seq(Bytes)
    <3>1. y \in Int
      BY <2>3, Limits DEF Ints
    <3> HIDE DEF y
    <3> QED
      BY <3>1, Written
  <2> HIDE DEF x, y
  <2>6. d \in Seq(Nat) /\ ReadInt(Reader(d)) = At(d, 4, x) /\ Spans(d, 4, z, Len(d))
    <3> HIDE DEF z
    <3> QED
      BY <2>3, <2>5, ReadHalves, Zenon
  <2> DEFINE e == Len(d)
  <2>7. Spans(d, 4, WriteIntBE(y, 4), e)
    BY <2>6
  <2> HIDE DEF d, e
  <2>8. ReadInt(At(d, 4, x)) = At(d, e, y)
    <3>1. 4 \in Nat
      OBVIOUS
    <3> QED
      BY <2>3, <2>6, <2>7, <3>1, IntSpan
  <2>9. high = At(d, 4, x) /\ low = At(d, e, y)
    BY <2>4, <2>6, <2>8, Zenon
  <2>10. At(d, 4, x).v = x /\ At(d, e, y).st = "ok" /\ At(d, e, y).v = y
    BY AtIs
  <2> HIDE DEF data, type, high, low
  <2>11. low.st = "ok" /\ high.v = x /\ low.v = y
    BY <2>9, <2>10, Zenon
  <2>12. As(type, data) = Outcome("value", <<high.v, low.v>>)
    BY <1>2, <2>1, <2>11
  <2>13. ValueOf(cell) = <<high.v, low.v>>
    BY <1>6, <2>3, <2>11, Zenon DEF ValueOf
  <2> QED
    BY <1>6, <2>12, <2>13, Zenon DEF FieldIs, data, type
<1> QED
  BY <1>1, <1>3, <1>4, <1>5, <1>6 DEF Numeric

(* A row: the values of its columns, or an exception for a null number. *)
NullIn(types, row) == \E j \in 1 .. Len(types) : types[j] # "text" /\ row[j].null
ValuesOf(types, row) == [j \in 1 .. Len(types) |-> ValueOf(row[j])]
RowIs(types, columns, row) ==
  ToRow(types, Len(columns), CellsOf(columns, row)) =
    IF NullIn(types, row) THEN Throw("underread") ELSE Outcome("value", ValuesOf(types, row))

(* Row::To gives the values of a row, or an exception for a null number. *)
LEMMA RowRead ==
  ASSUME NEW types, Len(types) \in Nat, NEW columns, Len(columns) \in Nat, Len(types) <= Len(columns), NEW row,
         Len(row) = Len(columns),
         \A j \in 1 .. Len(columns) : CellOf(columns[j].name, row[j]),
         \A j \in 1 .. Len(types) : types[j] = ReadAs(columns[j].name)
  PROVE  RowIs(types, columns, row)
<1> DEFINE n == Len(types)
           cells == CellsOf(columns, row)
           fields == ExtractTuple(types, cells)
           some == \E i \in 1 .. n : fields[i].what = "throw"
           vs == [i \in 1 .. n |-> fields[i].v]
<1>1. ASSUME NEW j \in 1 .. n
      PROVE  fields[j] = IF row[j].null /\ types[j] # "text" THEN Throw("underread")
                         ELSE Outcome("value", ValueOf(row[j]))
  <2>1. j \in 1 .. Len(columns) /\ j \in 1 .. Len(row)
    OBVIOUS
  <2> DEFINE name == columns[j].name
             cell == row[j]
  <2>2. CellOf(name, cell) /\ types[j] = ReadAs(name)
    BY <2>1
  <2>3. cells[j] = CellBytes(name, cell)
    BY <2>1, Zenon DEF CellsOf
  <2> HIDE DEF name, cell, cells
  <2>4. FieldIs(name, cell)
    BY <2>2, FieldRead
  <2>5. fields[j] = As(types[j], cells[j])
    BY Zenon DEF ExtractTuple
  <2> QED
    BY <2>2, <2>3, <2>4, <2>5, Zenon DEF FieldIs, cell
<1>2. ToRow(types, Len(columns), cells) = IF some THEN Throw("underread") ELSE Outcome("value", vs)
  <2>1. ~(n > Len(columns))
    OBVIOUS
  <2> HIDE DEF cells
  <2> QED
    BY <2>1, Zenon DEF ToRow
<1> HIDE DEF fields, cells
<1>3. ASSUME NEW j \in 1 .. n
      PROVE  /\ fields[j].what = "throw" <=> (types[j] # "text" /\ row[j].null)
             /\ ~(types[j] # "text" /\ row[j].null) => fields[j].v = ValueOf(row[j])
  <2> DEFINE f == fields[j]
             val == ValueOf(row[j])
             none == row[j].null /\ types[j] # "text"
  <2>1. f = IF none THEN Throw("underread") ELSE Outcome("value", val)
    BY <1>1
  <2> HIDE DEF f, val, none
  <2>2. (f.what = "throw" <=> none) /\ (~none => f.v = val)
    BY <2>1, OutcomeIs
  <2> QED
    BY <2>2, Zenon DEF f, val, none
<1>4. some <=> NullIn(types, row)
  BY <1>3, Zenon DEF NullIn
<1>5. ~some => vs = ValuesOf(types, row)
  BY <1>3, Zenon DEF ValuesOf
<1> QED
  BY <1>2, <1>4, <1>5, Zenon DEF RowIs, cells

-----------------------------------------------------------------------------
(* All the rows: AsContainer over the rows of an answer.                   *)

NullAmong(types, rows) == \E i \in 1 .. Len(rows) : NullIn(types, rows[i])
AllValues(types, rows) == [i \in 1 .. Len(rows) |-> ValuesOf(types, rows[i])]
ContainerIs(types, columns, rows) ==
  LET o == AsContainer([columns |-> Len(columns), rows |-> RowsOf(columns, rows)], types)
  IN  IF NullAmong(types, rows) THEN o.what = "throw"
      ELSE o.what = "value" /\ o.v = AllValues(types, rows)

(* AsContainer gives all the rows, or an exception for a null number. *)
LEMMA ContainerRead ==
  ASSUME NEW types, Len(types) \in Nat, NEW columns, Len(columns) \in Nat, Len(types) <= Len(columns),
         NEW rows, Len(rows) \in Nat,
         \A j \in 1 .. Len(types) : types[j] = ReadAs(columns[j].name),
         \A i \in 1 .. Len(rows) :
           /\ Len(rows[i]) = Len(columns)
           /\ \A j \in 1 .. Len(columns) : CellOf(columns[j].name, rows[i][j])
  PROVE  ContainerIs(types, columns, rows)
<1> DEFINE n == Len(rows)
           cells == RowsOf(columns, rows)
           wide == Len(columns)
           set == [columns |-> wide, rows |-> cells]
           each == [i \in 1 .. n |-> ToRow(types, wide, cells[i])]
           o == AsContainer(set, types)
           vs == [i \in 1 .. n |-> each[i].v]
           some == \E i \in 1 .. n : each[i].what = "throw"
<1>1. Len(cells) = n /\ \A i \in 1 .. n : cells[i] = CellsOf(columns, rows[i])
  BY DEF RowsOf
<1>2. set.columns = wide /\ set.rows = cells
  OBVIOUS
<1>3. ASSUME NEW i \in 1 .. n
      PROVE  each[i] = IF NullIn(types, rows[i]) THEN Throw("underread")
                       ELSE Outcome("value", ValuesOf(types, rows[i]))
  <2> DEFINE row == rows[i]
  <2>1. Len(row) = Len(columns) /\ \A j \in 1 .. Len(columns) : CellOf(columns[j].name, row[j])
    OBVIOUS
  <2> HIDE DEF row
  <2>2. RowIs(types, columns, row)
    BY <2>1, RowRead
  <2> HIDE DEF cells
  <2>3. each[i] = ToRow(types, wide, CellsOf(columns, row))
    BY <1>1, Zenon DEF row
  <2> QED
    BY <2>2, <2>3, Zenon DEF RowIs, row
<1> HIDE DEF cells, set
<1>4. Len(each) = n
  OBVIOUS
<1>5. o = IF some THEN CHOOSE p \in {each[i] : i \in 1 .. n} : p.what = "throw" ELSE Outcome("value", vs)
  <2> DEFINE all == [i \in 1 .. Len(set.rows) |-> ToRow(types, set.columns, set.rows[i])]
  <2>1. o = IF \E i \in 1 .. Len(all) : all[i].what = "throw"
            THEN CHOOSE p \in {all[i] : i \in 1 .. Len(all)} : p.what = "throw"
            ELSE Outcome("value", [i \in 1 .. Len(all) |-> all[i].v])
    BY DEF AsContainer
  <2>2. all = each
    BY <1>1, <1>2, Zenon
  <2> HIDE DEF all, each, o
  <2> QED
    BY <1>4, <2>1, <2>2, Zenon
<1> HIDE DEF each, o
<1>6. ASSUME NEW i \in 1 .. n
      PROVE  /\ each[i].what = "throw" <=> NullIn(types, rows[i])
             /\ ~NullIn(types, rows[i]) => each[i].v = ValuesOf(types, rows[i])
  <2> DEFINE f == each[i]
             val == ValuesOf(types, rows[i])
             none == NullIn(types, rows[i])
  <2>1. f = IF none THEN Throw("underread") ELSE Outcome("value", val)
    BY <1>3
  <2> HIDE DEF f, val, none
  <2>2. (f.what = "throw" <=> none) /\ (~none => f.v = val)
    BY <2>1, OutcomeIs
  <2> QED
    BY <2>2, Zenon DEF f, val, none
<1>7. some <=> NullAmong(types, rows)
  BY <1>6, Zenon DEF NullAmong
<1>8. ASSUME some PROVE o.what = "throw"
  <2> DEFINE throws == {each[i] : i \in 1 .. n}
  <2>1. \E p \in throws : p.what = "throw"
    BY <1>8
  <2> HIDE DEF throws
  <2>2. (CHOOSE p \in throws : p.what = "throw").what = "throw"
    BY <2>1
  <2>3. o = CHOOSE p \in throws : p.what = "throw"
    BY <1>5, <1>8, Zenon DEF throws
  <2> QED
    BY <2>2, <2>3, Zenon
<1>9. ASSUME ~some PROVE o.what = "value" /\ o.v = AllValues(types, rows)
  <2>1. vs = AllValues(types, rows)
    BY <1>6, <1>7, <1>9, Zenon DEF AllValues, NullAmong
  <2> HIDE DEF vs, some
  <2>2. o = Outcome("value", vs)
    BY <1>5, <1>9
  <2> QED
    BY <2>1, <2>2, OutcomeIs, Zenon
<1> QED
  BY <1>7, <1>8, <1>9, Zenon DEF ContainerIs, o, set, cells

(* Only an answer with rows is meant to give rows. *)
LEMMA RowsMeant ==
  ASSUME NEW r \in Replies, Meant(r).what = "rows"
  PROVE  /\ r.op = "result" /\ r.kind = "rows" /\ RowsReply(r)
         /\ Meant(r).v = [columns |-> Len(r.types), rows |-> RowsOf(r.types, r.rows)]
<1> DEFINE value == [columns |-> Len(r.types), rows |-> RowsOf(r.types, r.rows)]
           offers == {r.options[i] : i \in 1 .. Len(r.options)}
<1>1. /\ r.op \in {"error", "ready", "authenticate", "supported", "result"}
      /\ r.op = "result" => ResultReply(r)
  BY ReplyWritten
<1>2. /\ r.op = "ready" => Meant(r) = Outcome("ready", <<>>)
      /\ r.op \in {"error", "authenticate"} => Meant(r).what = "throw"
      /\ r.op = "supported" => Meant(r) = Outcome("options", offers) \/ Meant(r).what = "throw"
      /\ r.op = "result" /\ r.kind = "rows" => Meant(r) = Outcome("rows", value) \/ Meant(r).what = "throw"
      /\ r.op = "result" /\ r.kind = "prepared" => Meant(r) = Outcome("id", r.id)
      /\ r.op = "result" /\ r.kind \in {"void", "set_keyspace", "schema_change"} =>
           Meant(r) = Outcome("empty", <<>>)
  BY MeantIs, Zenon
<1> HIDE DEF value, offers
<1> DEFINE m == Meant(r)
<1>3. /\ m = Outcome("ready", <<>>) => m.what = "ready"
      /\ m = Outcome("options", offers) => m.what = "options"
      /\ m = Outcome("rows", value) => m.what = "rows" /\ m.v = value
      /\ m = Outcome("id", r.id) => m.what = "id"
      /\ m = Outcome("empty", <<>>) => m.what = "empty"
  <2> HIDE DEF m
  <2> QED
    BY OutcomeIs
<1> HIDE DEF m
<1>4. m.what = "rows"
  BY DEF m
<1>5. r.op = "result"
  BY <1>1, <1>2, <1>3, <1>4 DEF m
<1>6. \/ r.kind = "rows" /\ RowsReply(r)
      \/ r.kind = "prepared"
      \/ r.kind \in {"void", "set_keyspace", "schema_change"}
  BY <1>1, <1>5 DEF ResultReply
<1>7. r.kind = "rows" /\ RowsReply(r)
  BY <1>2, <1>3, <1>4, <1>5, <1>6 DEF m
<1>8. m.v = value
  BY <1>2, <1>3, <1>4, <1>5, <1>7 DEF m
<1> QED
  BY <1>5, <1>7, <1>8, Zenon DEF m, value

(* The rows a caller takes cells of are those of the node's answer. *)
LEMMA RowsGiven ==
  ASSUME IInv, stage \in {"read", "field"}, got.outcome.what = "rows"
  PROVE  /\ RowsReply(reply.r)
         /\ got.outcome.v = [columns |-> Len(reply.r.types), rows |-> RowsOf(reply.r.types, reply.r.rows)]
         /\ Len(reply.r.types) \in Nat /\ Len(reply.r.rows) \in Nat
         /\ \A i \in 1 .. Len(reply.r.rows) :
              /\ Len(reply.r.rows[i]) = Len(reply.r.types)
              /\ \A j \in 1 .. Len(reply.r.types) : CellOf(reply.r.types[j].name, reply.r.rows[i][j])
<1> DEFINE r == reply.r
           o == got.outcome
<1>1. stage \in {"done", "read", "field"}
  OBVIOUS
<1>3. /\ Faithful(request.op, r, reply.warned, AllCame, o)
      /\ reply.warned \in BOOLEAN /\ r \in Replies
  BY <1>1, FaithfulRead
<1>5. /\ o.what # "throw" /\ o.what # "null" /\ o.what \in {"rows", "options"}
      /\ "rows" # "throw"
  OBVIOUS
<1>2. o.what = "rows"
  OBVIOUS
<1> HIDE DEF o
<1>6. Same(o, Meant(r))
  <2>1. o.what \notin {"throw", "null"}
    BY <1>5
  <2> QED
    BY <1>3, <1>5, <2>1, Zenon DEF Faithful
<1>7. Meant(r).what = "rows" /\ o.v = Meant(r).v
  BY <1>2, <1>5, <1>6, Zenon DEF Same
<1>8. RowsReply(r) /\ o.v = [columns |-> Len(r.types), rows |-> RowsOf(r.types, r.rows)]
  <2> HIDE DEF r
  <2> QED
    BY <1>3, <1>7, RowsMeant, Zenon
<1>9. Len(r.types) \in Nat /\ Len(r.rows) \in Nat
  BY <1>8, RowsWritten
<1> QED
  BY <1>8, <1>9, Zenon DEF RowsReply, o

(* The invariant implies that the rows of a container come back. *)
LEMMA ContainerComesBack ==
  ASSUME IInv, stage = "read", Compatible(access.types)
  PROVE  IF NullAmong(access.types, reply.r.rows) THEN access.result.what = "throw"
         ELSE /\ access.result.what = "value"
              /\ access.result.v = AllValues(access.types, reply.r.rows)
<1> DEFINE types == access.types
           columns == reply.r.types
           rows == reply.r.rows
<1>1. stage \in {"read", "field"} /\ stage \notin {"idle", "sent"}
  OBVIOUS
<1>2. got.outcome.what = "rows" /\ types \in RowTypes /\ access.result = AsContainer(got.outcome.v, types)
  <2>1. Answered
    BY <1>1 DEF IInv
  <2> QED
    BY <2>1, Zenon DEF Answered
<1>3. /\ got.outcome.v = [columns |-> Len(columns), rows |-> RowsOf(columns, rows)]
      /\ Len(columns) \in Nat /\ Len(rows) \in Nat
      /\ \A i \in 1 .. Len(rows) :
           /\ Len(rows[i]) = Len(columns)
           /\ \A j \in 1 .. Len(columns) : CellOf(columns[j].name, rows[i][j])
  BY <1>1, <1>2, RowsGiven, Zenon
<1>4. /\ Len(types) \in Nat /\ Len(types) <= Len(columns)
      /\ \A j \in 1 .. Len(types) : types[j] = ReadAs(columns[j].name)
  <2>1. types \in Seq({"int", "bigint", "text"})
    BY <1>2, ExchangeAssumption
  <2>2. Len(types) \in Nat
    BY <2>1
  <2> QED
    BY <2>2, Zenon DEF Compatible, ReadAs
<1>5. ContainerIs(types, columns, rows)
  <2> HIDE DEF types, columns, rows
  <2> QED
    BY <1>3, <1>4, ContainerRead
<1> QED
  BY <1>2, <1>3, <1>5, Zenon DEF ContainerIs

(* The invariant implies that a single field comes back: the first cell. *)
LEMMA FieldComesBack ==
  ASSUME IInv, stage = "field", Compatible(access.types)
  PROVE  /\ Len(access.types) = 1
         /\ LET cell == reply.r.rows[1][1]
            IN  IF cell.null /\ access.types[1] # "text" THEN access.result.what = "throw"
                ELSE access.result.what = "value" /\ access.result.v = ValueOf(cell)
<1> DEFINE columns == reply.r.types
           rows == reply.r.rows
           cell == rows[1][1]
           name == columns[1].name
           table == RowsOf(columns, rows)
<1>1. stage \in {"read", "field"} /\ stage \notin {"idle", "sent"}
  OBVIOUS
<1>2. Answered
  BY <1>1 DEF IInv
<1>3. got.outcome.what = "rows" /\ ~Empty(got.outcome)
  BY <1>2, Zenon DEF Answered
<1>4. PICK type \in {"int", "bigint", "text"} :
        access.types = <<type>> /\ access.result = AsSingleField(got.outcome.v, type)
  BY <1>2, Zenon DEF Answered
<1>5. /\ got.outcome.v = [columns |-> Len(columns), rows |-> table]
      /\ Len(columns) \in Nat /\ Len(rows) \in Nat
      /\ \A i \in 1 .. Len(rows) :
           /\ Len(rows[i]) = Len(columns)
           /\ \A j \in 1 .. Len(columns) : CellOf(columns[j].name, rows[i][j])
  BY <1>1, <1>3, RowsGiven, Zenon
<1>6. got.outcome.v.rows = table
  <2> HIDE DEF table
  <2> QED
    BY <1>5
<1>7. Len(access.types) = 1 /\ access.types[1] = type
  BY <1>4
<1>8. Len(columns) >= 1 /\ type = ReadAs(name)
  <2>1. Len(columns) >= 1
    BY <1>5, <1>7 DEF Compatible
  <2>2. 1 \in 1 .. Len(access.types)
    BY <1>7
  <2>3. access.types[1] = ReadAs(columns[1].name)
    BY <2>2, Zenon DEF Compatible, ReadAs
  <2> QED
    BY <1>7, <2>1, <2>3
<1>9. Len(rows) >= 1
  <2>1. table # <<>>
    BY <1>3, <1>6, Zenon DEF Empty
  <2>2. Len(rows) = 0 => table = <<>>
    BY DEF RowsOf
  <2> HIDE DEF table
  <2> QED
    BY <1>5, <2>1, <2>2
<1>10. 1 \in 1 .. Len(rows) /\ 1 \in 1 .. Len(columns) /\ 1 \in 1 .. Len(rows[1])
  BY <1>5, <1>8, <1>9
<1>11. table[1][1] = CellBytes(name, cell)
  BY <1>10, Zenon DEF RowsOf, CellsOf
<1>12. CellOf(name, cell)
  BY <1>5, <1>10
<1> HIDE DEF name, cell, table, columns, rows
<1>13. FieldIs(name, cell)
  BY <1>12, FieldRead
<1>14. access.result = As(type, table[1][1])
  BY <1>4, <1>6, Zenon DEF AsSingleField
<1> DEFINE none == cell.null /\ type # "text"
<1>15. access.result = IF none THEN Throw("underread") ELSE Outcome("value", ValueOf(cell))
  BY <1>8, <1>11, <1>13, <1>14, Zenon DEF FieldIs
<1> HIDE DEF none
<1>16. IF none THEN access.result.what = "throw"
       ELSE access.result.what = "value" /\ access.result.v = ValueOf(cell)
  BY <1>15, OutcomeIs
<1> QED
  BY <1>7, <1>16, Zenon DEF none, cell, rows

(* The invariant implies that what is taken out of the rows comes back. *)
LEMMA RowsRead ==
  IInv => RowsComeBack
<1> DEFINE types == access.types
           columns == 1 .. Len(types)
           rows == reply.r.rows
           result == access.result
<1> SUFFICES ASSUME IInv, stage \in {"read", "field"}, Compatible(types)
             PROVE  /\ (\E i \in RowsTaken, j \in columns : IsNull(i, j) /\ types[j] # "text") =>
                         result.what = "throw"
                    /\ (\A i \in RowsTaken, j \in columns : ~IsNull(i, j)) => result.what = "value"
                    /\ result.what = "value" =>
                         /\ DOMAIN ValuesTaken = RowsTaken
                         /\ \A i \in RowsTaken :
                              /\ DOMAIN ValuesTaken[i] = columns
                              /\ \A j \in columns : ~IsNull(i, j) => ValuesTaken[i][j] = rows[i][j].v
  BY Zenon DEF RowsComeBack
<1>1. CASE stage = "read"
  <2>1. RowsTaken = 1 .. Len(rows) /\ ValuesTaken = result.v
    BY <1>1 DEF RowsTaken, ValuesTaken
  <2>2. /\ NullAmong(types, rows) => result.what = "throw"
        /\ ~NullAmong(types, rows) => result.what = "value" /\ result.v = AllValues(types, rows)
    BY <1>1, ContainerComesBack, Zenon
  <2>3. NullAmong(types, rows) <=> \E i \in RowsTaken, j \in columns : IsNull(i, j) /\ types[j] # "text"
    BY <2>1, Zenon DEF NullAmong, NullIn, IsNull
  <2>4. ASSUME result.what = "value" PROVE ValuesTaken = AllValues(types, rows)
    <3>1. "value" # "throw"
      OBVIOUS
    <3> QED
      BY <2>1, <2>2, <2>4, <3>1, Zenon
  <2>5. DOMAIN AllValues(types, rows) = 1 .. Len(rows)
    BY Zenon DEF AllValues
  <2>6. ASSUME NEW i \in 1 .. Len(rows)
        PROVE  /\ DOMAIN AllValues(types, rows)[i] = columns
               /\ \A j \in columns : ~IsNull(i, j) => AllValues(types, rows)[i][j] = rows[i][j].v
    <3>1. AllValues(types, rows)[i] = ValuesOf(types, rows[i])
      BY Zenon DEF AllValues
    <3>2. DOMAIN ValuesOf(types, rows[i]) = columns
      BY Zenon DEF ValuesOf
    <3>3. ASSUME NEW j \in columns, ~IsNull(i, j) PROVE ValuesOf(types, rows[i])[j] = rows[i][j].v
      BY <3>3, Zenon DEF ValuesOf, ValueOf, IsNull
    <3> QED
      BY <3>1, <3>2, <3>3, Zenon
  <2> QED
    BY <2>1, <2>2, <2>3, <2>4, <2>5, <2>6, Zenon
<1>2. CASE stage = "field"
  <2> DEFINE cell == rows[1][1]
             vs == << <<result.v>> >>
  <2>1. RowsTaken = 1 .. 1 /\ ValuesTaken = vs
    BY <1>2 DEF RowsTaken, ValuesTaken
  <2>2. /\ Len(types) = 1
        /\ cell.null /\ types[1] # "text" => result.what = "throw"
        /\ ~(cell.null /\ types[1] # "text") => result.what = "value" /\ result.v = ValueOf(cell)
    BY <1>2, FieldComesBack, Zenon
  <2>3. columns = 1 .. 1
    BY <2>2
  <2>4. \A i \in 1 .. 1 : i = 1
    OBVIOUS
  <2>5. 1 \in 1 .. 1
    OBVIOUS
  <2>6. DOMAIN vs = 1 .. 1 /\ DOMAIN vs[1] = 1 .. 1 /\ vs[1][1] = result.v
    OBVIOUS
  <2>7. "value" # "throw"
    OBVIOUS
  <2>8. IsNull(1, 1) <=> cell.null
    BY Zenon DEF IsNull
  <2>9. ~cell.null => ValueOf(cell) = cell.v
    BY Zenon DEF ValueOf
  <2> HIDE DEF types, columns, result, vs
  <2>10. (\E i \in RowsTaken, j \in columns : IsNull(i, j) /\ types[j] # "text") => result.what = "throw"
    BY <2>1, <2>2, <2>3, <2>4, <2>8, Zenon
  <2>11. (\A i \in RowsTaken, j \in columns : ~IsNull(i, j)) => result.what = "value"
    BY <2>1, <2>2, <2>3, <2>5, <2>8, Zenon
  <2>12. ASSUME NEW i \in RowsTaken
         PROVE  /\ DOMAIN ValuesTaken[i] = columns
                /\ \A j \in columns : ~IsNull(i, j) => ValuesTaken[i][j] = rows[i][j].v
    <3>1. i = 1
      BY <2>1, <2>4
    <3>2. DOMAIN ValuesTaken[i] = columns
      BY <2>1, <2>3, <2>6, <3>1, Zenon
    <3>3. ASSUME NEW j \in columns, ~IsNull(i, j) PROVE ValuesTaken[i][j] = rows[i][j].v
      <4>1. j = 1
        BY <2>3, <2>4
      <4>2. ~cell.null /\ result.v = cell.v
        BY <2>2, <2>8, <2>9, <3>1, <3>3, <4>1, Zenon
      <4> QED
        BY <2>1, <2>6, <3>1, <4>1, <4>2, Zenon
    <3> QED
      BY <3>2, <3>3
  <2>13. DOMAIN ValuesTaken = RowsTaken
    BY <2>1, <2>6, Zenon
  <2> QED
    BY <2>10, <2>11, <2>12, <2>13, Zenon DEF types, columns, result
<1> QED
  BY <1>1, <1>2

(* What ResultSet::AsContainer and ResultSet::AsSingleRow give the caller of a
   query, when the types asked for are those of the columns, is row by row and
   column by column what the node sent, nulls apart; a null read into a number
   is an exception. *)
THEOREM RowsAlwaysComeBack == Spec => []RowsComeBack
  BY InvariantHolds, RowsRead, PTL
=============================================================================
