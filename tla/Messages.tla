------------------------------ MODULE Messages ------------------------------
(***************************************************************************)
(* The messages of src/io/protocol and the result sets made of them, as    *)
(* pure operators: how a request becomes a frame, how a frame becomes a    *)
(* response, what the driver concludes from it and how the rows of a       *)
(* ResultSet are converted.                                                *)
(*                                                                         *)
(* A text is a byte string; of the texts the code compares with, each has  *)
(* a short one of its own.  A response is a record of how reading it went  *)
(* (st: "ok", "throw" or "over") and the fields the driver goes on to use. *)
(***************************************************************************)
EXTENDS Wire

Opcode == [error |-> 0, startup |-> 1, ready |-> 2, authenticate |-> 3,
           options |-> 5, supported |-> 6, query |-> 7, result |-> 8,
           prepare |-> 9, execute |-> 10, batch |-> 13]

ResultKind == [void |-> 1, rows |-> 2, set_keyspace |-> 3, prepared |-> 4, schema_change |-> 5]

ColumnType == [custom |-> 0, bigint |-> 2, int |-> 9, varchar |-> 13,
               list |-> 32, map |-> 33, set |-> 34, udt |-> 48, tuple |-> 49]

ErrorCode == [ServerError |-> 0, ProtocolError |-> 10, AuthenticationError |-> 256,
              Unavailable |-> 4096, Overloaded |-> 4097, IsBootstrapping |-> 4098,
              TruncateError |-> 4099, WriteTimeout |-> 4352, ReadTimeout |-> 4608,
              ReadFailure |-> 4864, FunctionFailure |-> 5120, WriteFailure |-> 5376,
              SyntaxError |-> 8192, Unauthorized |-> 8448, Invalid |-> 8704,
              ConfigError |-> 8960, AlreadyExists |-> 9216, Unprepared |-> 9472]

\* The version byte of each direction: 0x04, and 0x84 with the top bit set.
MessageDirection == [request |-> 4, response |-> 4 + Base \div 2]

Consistency == [kAny |-> 0, kOne |-> 1, kTwo |-> 2, kThree |-> 3, kQuorum |-> 4, kAll |-> 5,
                kLocalQuorum |-> 6, kEachQuorum |-> 7, kSerial |-> 8, kLocalSerial |-> 9,
                kLocalOne |-> 10]

FrameFlag == [compression |-> 1, warning |-> 8]
QueryFlag == [values |-> 1, skip_metadata |-> 2]
RowsFlag  == [global_table_spec |-> 1, has_more_pages |-> 2, no_metadata |-> 4]

\* flags & bit
Has(flags, bit) == (flags \div bit) % 2 = 1

kHeaderSize == 9

Text == [KEYSPACE |-> <<1>>, TABLE |-> <<2>>, TYPE |-> <<3>>, FUNCTION |-> <<4>>,
         AGGREGATE |-> <<5>>, CREATED |-> <<6>>, COMPRESSION |-> <<7>>,
         CQL_VERSION |-> <<8>>, lz4 |-> <<9>>, version |-> <<3, 0, 0>>]

-----------------------------------------------------------------------------
(* Requests.                                                               *)

\* The header of a message, `length` as it stands.
HeaderBytes(version, flags, stream, opcode, length) ==
  WriteIntBE(version, Width.Byte) \o WriteIntBE(flags, Width.Byte)
    \o WriteIntBE(stream, Width.Short) \o WriteIntBE(opcode, Width.Byte)
    \o WriteIntBE(length, Width.Int)

\* An argument of a query in a buffer of its own: an [int], a [bigint] given by
\* its halves, or a text, which has no length before it here.
Argument(arg) ==
  IF arg.type = "text" THEN arg.v
  ELSE Concat([i \in 1 .. Len(arg.v) |-> WriteIntBE(arg.v[i], Width.Int)])

\* The buffers of QueryParameters: one per argument, in their order.
Bind(args) == [i \in 1 .. Len(args) |-> Argument(args[i])]

\* Deviation: the number of parameters goes out as [int].
WideParams(params) ==
  WriteIntBE(Len(params), Width.Int)
    \o Concat([i \in 1 .. Len(params) |-> WriteBytes(params[i])])

\* The number of parameters and their buffers.
WriteParams(params) == WriteList(params, WriteBytes)

\* What QUERY and EXECUTE share after the text or the id: no values are
\* announced, and none written, for an empty parameter list.
QueryTail(level, params) ==
  WriteIntBE(level, Width.Short)
    \o (IF params = <<>>
        THEN WriteIntBE(QueryFlag.skip_metadata, Width.Byte)
        ELSE WriteIntBE(QueryFlag.skip_metadata + QueryFlag.values, Width.Byte)
               \o WriteParams(params))

\* A statement of a batch: kind 0 carries a text, kind 1 an id.
WriteStatement(s) ==
  WriteIntBE(s.kind, Width.Byte)
    \o (IF s.kind = 0 THEN WriteLongString(s.text) ELSE WriteShortBytes(s.text))
    \o WriteParams(Bind(s.args))

BatchBody(m) ==
  WriteIntBE(0, Width.Byte)
    \o WriteList(m.statements, WriteStatement)
    \o WriteIntBE(Consistency[m.level], Width.Short) \o WriteIntBE(0, Width.Byte)

SerializeBody(m) ==
  CASE m.op = "options" -> <<>>
    [] m.op = "startup" -> WriteStringMap(m.options)
    [] m.op = "query"   -> WriteLongString(m.text) \o QueryTail(Consistency[m.level], Bind(m.args))
    [] m.op = "execute" -> WriteShortBytes(m.text) \o QueryTail(Consistency[m.level], Bind(m.args))
    [] m.op = "prepare" -> WriteLongString(m.text)
    [] m.op = "batch"   -> BatchBody(m)

\* LZ4 itself is not modelled: a compressed text is a cell that is no byte of
\* a plain body followed by the text, and nothing else decompresses.
Lz4(text) == <<Base>> \o text
IsLz4(data) == data # <<>> /\ data[1] = Base

\* Lz4Compressor::Compress: the size of the body, then the compressed body.
Compress(body) == WriteIntBE(Len(body), Width.Int) \o Lz4(body)

\* Deviation: the length counts the header as well.
CountTheHeader(buffer, length) ==
  SubSeq(buffer, 1, 5) \o WriteIntBE(length + kHeaderSize, Width.Int)
    \o SubSeq(buffer, kHeaderSize + 1, Len(buffer))

\* FrameHeader::UpdateLength overwrites bytes 5 to 8.
UpdateLength(buffer, length) ==
  SubSeq(buffer, 1, 5) \o WriteIntBE(length, Width.Int)
    \o SubSeq(buffer, kHeaderSize + 1, Len(buffer))

\* RequestMessage::Serialize.
Serialize(m, stream, compressor) ==
  LET header == HeaderBytes(MessageDirection.request,
                            IF compressor THEN FrameFlag.compression ELSE 0,
                            stream, Opcode[m.op], 0)
      body   == SerializeBody(m)
      buffer == header \o (IF compressor THEN Compress(body) ELSE body)
      length == Len(buffer) - kHeaderSize
  IN  IF length > 0 THEN UpdateLength(buffer, length) ELSE buffer

-----------------------------------------------------------------------------
(* Responses.  Each parser takes the reader that stands at its first byte. *)

\* The option at a reader, given by offset what its own parts are parsed to.
\* A field of a user-defined type is its name, then its type.
OptionAt(r, parts) ==
  LET type == ReadShort(r)
      Is(t) == type.st = "ok" /\ type.v = ColumnType[t]
      Part(c) == IF c.st = "ok" THEN parts[c.off] ELSE c
      Field(c) == Part(ReadString(c))
  IN  CASE Is("custom") -> ReadString(type)
        [] Is("list") \/ Is("set") -> Part(type)
        [] Is("map") -> Part(Part(type))
        [] Is("udt") -> ReadList(ReadShort(ReadString(ReadString(type))), Field)
        [] Is("tuple") -> ReadList(ReadShort(type), Part)
        [] OTHER -> type

\* The type of a column.  Only the place where it ends is of use later on: the
\* driver keeps the option and never looks at it.  Options are nested, and each
\* takes two bytes or throws, so no more than the size of the buffer of them
\* are ever open at a time.
ParseColumnOption(r) ==
  LET size == Len(r.data)
      parse[depth \in 0 .. size] ==
        [k \in 0 .. size |-> IF depth = 0 THEN Fail(r, "throw")
                             ELSE OptionAt([r EXCEPT !.off = k, !.v = <<>>], parse[depth - 1])]
  IN  IF r.st = "ok" THEN parse[size][r.off] ELSE r

\* ResultColumn::Parse: keyspace and table only without a global table spec.
ParseColumn(r, global) ==
  ParseColumnOption(ReadString(IF global THEN r ELSE ReadString(ReadString(r))))

ParseColumns(r, count, global) ==
  LET Parse(c) == ParseColumn(c, global)
  IN  Repeat(IF global THEN ReadString(ReadString(r)) ELSE r, count, Parse)

\* ResultMessage::ParseRows: the paging state and the columns are there or not
\* after the flags, then the cells.  A negative count is no capacity for reserve.
PagingState(r, flags) ==
  IF r.st = "ok" /\ Has(flags, RowsFlag.has_more_pages) THEN ReadBytes(r) ELSE r
Metadata(r, flags, columns) ==
  IF r.st # "ok" \/ Has(flags, RowsFlag.no_metadata) THEN r
  ELSE IF columns < 0 THEN Fail(r, "throw")
  ELSE ParseColumns(r, columns, Has(flags, RowsFlag.global_table_spec))
Content(count, columns) ==
  LET ParseRow(c) == Repeat(c, columns, ReadBytes)
  IN  IF count.st # "ok" THEN count
      ELSE IF count.v < 0 THEN Fail(count, "throw")
      ELSE Repeat(count, count.v, ParseRow)
RowKind(rows, columns) ==
  IF rows.st # "ok" THEN [st |-> rows.st]
  ELSE [st |-> "ok", kind |-> ResultKind.rows, columns |-> columns, rows |-> rows.v]
AfterFlags(columns, flags) ==
  RowKind(Content(ReadInt(Metadata(PagingState(columns, flags), flags, columns.v)), columns.v),
          columns.v)
AfterStart(flags) == AfterFlags(ReadInt(flags), flags.v)
ParseRows(r) == AfterStart(ReadInt(r))

\* PreparedKind::Parse.
ParsePrepared(r) ==
  LET id      == ReadShortBytes(r)
      flags   == ReadInt(id)
      columns == ReadInt(flags)
      indexes == ReadList(ReadInt(columns), ReadShort)
      all     == IF indexes.st = "ok"
                 THEN ParseColumns(indexes, columns.v, Has(flags.v, RowsFlag.global_table_spec))
                 ELSE indexes
  IN  IF all.st # "ok" THEN [st |-> all.st]
      ELSE [st |-> "ok", kind |-> ResultKind.prepared, id |-> id.v]

\* events::SchemaChange::Parse.  Nothing of a change is used but its kind; a
\* change of a FUNCTION names it as the target, so its names stay unread.
ParseSchemaChange(r) ==
  LET change == ReadString(r)
      target == ReadString(change)
      end == IF target.st # "ok" THEN target
             ELSE IF target.v = Text.KEYSPACE THEN ReadString(target)
             ELSE IF target.v \in {Text.TABLE, Text.TYPE} THEN ReadString(ReadString(target))
             ELSE IF target.v = Text.AGGREGATE \/ change.v = Text.FUNCTION
                  THEN ReadStringList(ReadString(ReadString(target)))
             ELSE target
  IN  [st |-> end.st, kind |-> ResultKind.schema_change]

ParseSetKeyspace(r) == [st |-> ReadString(r).st, kind |-> ResultKind.set_keyspace]

\* ResultMessage::DoParseBody: a kind of no case leaves the payload empty.
ParseResult(r) ==
  LET kind == ReadInt(r)
  IN  IF kind.st # "ok" THEN [st |-> kind.st]
      ELSE CASE kind.v = ResultKind.rows -> ParseRows(kind)
             [] kind.v = ResultKind.set_keyspace -> ParseSetKeyspace(kind)
             [] kind.v = ResultKind.prepared -> ParsePrepared(kind)
             [] kind.v = ResultKind.schema_change -> ParseSchemaChange(kind)
             [] OTHER -> [st |-> "ok", kind |-> kind.v]

ParseError(r) ==
  LET code == ReadInt(r)
      text == ReadString(code)
  IN  [st |-> text.st, code |-> IF text.st = "ok" THEN code.v ELSE 0]

ParseSupported(r) ==
  LET options == ReadStringMultiMap(r)
  IN  [st |-> options.st, options |-> options.v]

ParseAuthenticate(r) == [st |-> ReadString(r).st]

DoParseBody(opcode, body) ==
  LET r == Reader(body)
  IN  CASE opcode = Opcode.error -> ParseError(r)
        [] opcode = Opcode.ready -> [st |-> "ok"]
        [] opcode = Opcode.authenticate -> ParseAuthenticate(r)
        [] opcode = Opcode.supported -> ParseSupported(r)
        [] opcode = Opcode.result -> ParseResult(r)

\* Lz4Compressor::Decompress: the size announced must be the size produced.
Decompress(data) ==
  LET size == ReadInt(Reader(data))
      rest == SubSeq(data, size.off + 1, Len(data))
      good == size.st = "ok" /\ IsLz4(rest) /\ size.v = Len(rest) - 1
  IN  IF good THEN Return(size, Tail(rest)) ELSE Fail(size, "throw")

\* ResponseMessage::ParseBody: whether to decompress depends on the connection
\* alone, not on the flags of the frame.
ParseBody(opcode, flags, body, compressor) ==
  LET plain == IF compressor THEN Decompress(body) ELSE Return(Reader(body), body)
  IN  IF plain.st = "ok" THEN DoParseBody(opcode, plain.v) ELSE [st |-> plain.st]

ParseHeader(data) ==
  LET version == ReadByte(Reader(data))
      flags   == ReadByte(version)
      stream  == ReadSigned(flags, Width.Short)
      opcode  == ReadByte(stream)
      length  == ReadInt(opcode)
  IN  [version |-> version.v, flags |-> flags.v, stream |-> stream.v,
       opcode |-> opcode.v, length |-> length.v]

\* The opcodes GetResponseMessageFromHeader has a message for.
ResponseOpcodes == {Opcode.supported, Opcode.ready, Opcode.authenticate, Opcode.error, Opcode.result}

\* RecvAll into a zeroed buffer of n bytes: what the peer sent before it
\* closed the connection, then zeros.
RecvAll(bytes, n) == [i \in 1 .. n |-> IF i <= Len(bytes) THEN bytes[i] ELSE 0]

\* Deviation: a body that ended early is parsed as far as it came.
BodyArrived(rest, length) == length = 0 \/ Len(rest) > 0

\* The test on the number of bytes received for the body.
WholeBody(rest, length) == Len(rest) >= length

\* ConnectionImpl::ReadFrame on the bytes that arrive before the connection is
\* closed.  Only a header of which nothing arrived is refused as such.
ReadFrame(bytes, compressor) ==
  LET header == ParseHeader(RecvAll(bytes, kHeaderSize))
      rest   == SubSeq(bytes, kHeaderSize + 1, Len(bytes))
      body   == RecvAll(rest, header.length)
      good   == /\ bytes # <<>>
                /\ header.version = MessageDirection.response
                /\ header.opcode \in ResponseOpcodes
                /\ header.length >= 0
                /\ WholeBody(rest, header.length)
  IN  IF good
      THEN [header |-> header, body |-> ParseBody(header.opcode, header.flags, body, compressor)]
      ELSE [header |-> header, body |-> [st |-> "throw"]]

-----------------------------------------------------------------------------
(* What the caller of the connection is given.  `what` is the kind of the  *)
(* outcome, `v` its value; `class` names the exception of a "throw"; "null" *)
(* is a null pointer that is dereferenced, "over" is as for a reader.      *)

Outcome(what, v) == [what |-> what, v |-> v, class |-> ""]
Throw(class)     == [what |-> "throw", v |-> <<>>, class |-> class]

\* Deviation: one case of the switch is missing.
ThrownByMost(code) == {e \in DOMAIN ErrorCode : ErrorCode[e] = code} \ {"Unprepared"}

\* The class CheckError throws for a code; none for a code it does not know.
CheckError(code) == {e \in DOMAIN ErrorCode : ErrorCode[e] = code}

\* ResultMessage::GetResultSet and GetPreparedStatementId.
GetResultSet(m) ==
  IF m.kind = ResultKind.rows
  THEN Outcome("rows", [columns |-> m.columns, rows |-> m.rows])
  ELSE Outcome("empty", <<>>)

GetPreparedStatementId(m) ==
  Outcome("id", IF m.kind = ResultKind.prepared THEN m.id ELSE <<>>)

\* CqlHandshake takes the options out of the answer without looking at its
\* type, and options.at throws without COMPRESSION among them.
GetOptions(opcode, m) ==
  IF opcode # Opcode.supported THEN Outcome("null", <<>>)
  ELSE IF \E o \in m.options : o[1] = Text.COMPRESSION THEN Outcome("options", m.options)
  ELSE Throw("out_of_range")

\* What follows ReadFrame in CqlHandshake, Execute, ExecutePrepared, Prepare
\* and BatchExecute for a request `op`.
Conclude(op, frame) ==
  LET opcode == frame.header.opcode
      m      == frame.body
      class  == IF m.st = "ok" /\ opcode = Opcode.error THEN CheckError(m.code) ELSE {}
  IN  CASE m.st = "throw" -> Throw("read")
        [] m.st = "over" -> Outcome("over", <<>>)
        [] m.st = "ok" /\ class # {} -> Throw(CHOOSE e \in class : TRUE)
        [] m.st = "ok" /\ class = {} ->
             CASE op = "options" -> GetOptions(opcode, m)
               [] op = "startup" -> IF opcode = Opcode.ready THEN Outcome("ready", <<>>)
                                    ELSE Throw("unexpected")
               [] op \notin {"options", "startup"} /\ opcode # Opcode.result -> Throw("unexpected")
               [] op = "prepare" /\ opcode = Opcode.result -> GetPreparedStatementId(m)
               [] op \in {"query", "execute", "batch"} /\ opcode = Opcode.result -> GetResultSet(m)

-----------------------------------------------------------------------------
(* ResultSet and Row.  A C++ type a column is read into is named by its    *)
(* CQL type.  The value of an [int] is <<v>>, that of a [bigint] the pair  *)
(* of its halves, that of a text its bytes.                                *)

\* BufferReader<Bytes>{cell}.Read<T>(): an integer needs the bytes of its own
\* width and ignores what follows them, a std::string takes all there are.
As(type, cell) ==
  LET high == ReadInt(Reader(cell))
      low  == ReadInt(high)
  IN  CASE type = "text" -> Outcome("value", cell)
        [] type = "int" -> IF high.st = "ok" THEN Outcome("value", <<high.v>>) ELSE Throw("underread")
        [] type = "bigint" -> IF low.st = "ok" THEN Outcome("value", <<high.v, low.v>>)
                              ELSE Throw("underread")

\* Deviation: the fields are filled from the last column backwards.
ReversedFields(types, cells) == [i \in 1 .. Len(types) |-> As(types[i], cells[Len(types) + 1 - i])]

\* RowDataExtractorBase::ExtractTuple: column by column, in order.
ExtractTuple(types, cells) == [i \in 1 .. Len(types) |-> As(types[i], cells[i])]

\* Row::To(RowTag): more fields than columns are refused, fewer are not.
ToRow(types, columns, cells) ==
  LET fields == ExtractTuple(types, cells)
  IN  IF Len(types) > columns THEN Throw("row size")
      ELSE IF \E i \in 1 .. Len(types) : fields[i].what = "throw" THEN Throw("underread")
      ELSE Outcome("value", [i \in 1 .. Len(types) |-> fields[i].v])

\* ResultSet::AsContainer: every row in order, or the first exception.
AsContainer(set, types) ==
  LET each == [i \in 1 .. Len(set.rows) |-> ToRow(types, set.columns, set.rows[i])]
  IN  IF \E i \in 1 .. Len(each) : each[i].what = "throw"
      THEN CHOOSE o \in {each[i] : i \in 1 .. Len(each)} : o.what = "throw"
      ELSE Outcome("value", [i \in 1 .. Len(each) |-> each[i].v])

\* ResultSet::AsSingleRow(FieldTag): the first column of the first row.
AsSingleField(set, type) == As(type, set.rows[1][1])

\* ResultSet::Empty of a ResultSet without a ResultWrapper, or of one.
Empty(outcome) == outcome.what = "empty" \/ outcome.v.rows = <<>>
=============================================================================
