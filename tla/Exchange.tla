------------------------------ MODULE Exchange ------------------------------
(***************************************************************************)
(* One connection seen from the wire, one request after the other: the     *)
(* driver writes a frame, a node reads it and answers, the connection may  *)
(* be closed after any byte of the answer, and the driver reads what came, *)
(* concludes and hands out the rows.  A connection is opened by OPTIONS    *)
(* and STARTUP, which decide whether later bodies are compressed.  How     *)
(* requests of several callers share a connection is the subject of        *)
(* module Connection; here one is under way at a time.                     *)
(***************************************************************************)
EXTENDS Messages, FiniteSets

CONSTANTS
  UseCompression,  \* the setting of the session
  Streams,         \* stream ids of requests after the handshake
  Requests,        \* what callers ask once the connection is open
  Types, Depth,    \* the types of columns, and how deep each is nested
  Replies,         \* what nodes answer, to all kinds of requests
  RowTypes,        \* the tuples of C++ types callers read rows into
  Warning          \* the text of a warning a node may attach to an answer

ASSUME ExchangeAssumption ==
  /\ UseCompression \in BOOLEAN
  /\ \A s \in Streams : s \in 0 .. (Base \div 2) * Base - 1
  /\ RowTypes \subseteq Seq({"int", "bigint", "text"})
  /\ Warning \in ShortTexts /\ Warning # <<>> /\ Warning # Text.COMPRESSION

\* What a caller passes: buffers below the limits of a message, and numbers of
\* the width of their type.
Args == [type : {"text"}, v : Texts] \cup [type : {"int"}, v : [1 .. 1 -> Ints]]
          \cup [type : {"bigint"}, v : [1 .. 2 -> Ints]]
Level == DOMAIN Consistency
Statements == [kind : {0, 1}, text : Texts, args : Seq(Args)]
Asks == [op : {"query", "execute"}, text : Texts, level : Level, args : Seq(Args)]
          \cup [op : {"prepare"}, text : Texts]
          \cup [op : {"batch"}, level : Level, statements : Seq(Statements)]

\* A request and its compressed form have a length that the header can hold.
ASSUME RequestsAssumption ==
  \A m \in Requests : m \in Asks /\ Len(SerializeBody(m)) + 5 < IntLimit

VARIABLES
  phase,       \* "new", "greeted" (the options are known) or "open"
  offered,     \* the node offers lz4
  compressor,  \* _compressor_ptr is set
  stage,       \* "idle", "sent", "answered", "done", or rows read: "read", "field"
  request,     \* what was asked
  stream,      \* the stream id it was asked under
  wire,        \* the bytes under way: of the request, then of the answer
  reply,       \* what the node answered, and how
  got,         \* what the driver made of it
  access       \* the rows as the caller took them

vars == <<phase, offered, compressor, stage, request, stream, wire, reply, got, access>>

None == [none |-> TRUE]

Init ==
  /\ phase = "new" /\ offered = FALSE /\ compressor = FALSE
  /\ stage = "idle"
  /\ request = None /\ stream = 0 /\ wire = <<>>
  /\ reply = None /\ got = None /\ access = None

-----------------------------------------------------------------------------
(* The node: external to the driver, after the protocol specification.     *)

\* A type has a name and the types it is made of.
EncodeType[t \in Types] ==
  LET Part(p) == EncodeType[p]
      Field(p) == WriteString(<<1>>) \o EncodeType[p]
  IN  WriteIntBE(ColumnType[t.name], Width.Short)
        \o CASE t.name = "custom" -> WriteString(<<1, 2>>)
             [] t.name \in {"list", "set", "map"} ->
                  Concat([i \in 1 .. Len(t.parts) |-> Part(t.parts[i])])
             [] t.name = "udt" -> WriteString(<<1>>) \o WriteString(<<2>>) \o WriteList(t.parts, Field)
             [] t.name = "tuple" -> WriteList(t.parts, Part)
             [] OTHER -> <<>>

EncodeColumns(types, global) ==
  LET spec == WriteString(<<1>>) \o WriteString(<<2>>)
      Column(t) == (IF global THEN <<>> ELSE spec) \o WriteString(<<3>>) \o EncodeType[t]
  IN  (IF global THEN spec ELSE <<>>) \o Concat([i \in 1 .. Len(types) |-> Column(types[i])])

\* A cell holds the value of its column, or null.
Numeric(type) == type \in {"int", "bigint"}
CellBytes(type, cell) ==
  CASE cell.null -> <<>>
    [] ~cell.null /\ Numeric(type) ->
         Concat([i \in 1 .. Len(cell.v) |-> WriteIntBE(cell.v[i], Width.Int)])
    [] ~cell.null /\ ~Numeric(type) -> cell.v
EncodeCell(type, cell) ==
  IF cell.null THEN WriteIntBE(-1, Width.Int) ELSE WriteBytes(CellBytes(type, cell))

EncodeRows(r) ==
  LET EncodeRow(row) == Concat([i \in 1 .. Len(row) |-> EncodeCell(r.types[i].name, row[i])])
  IN  WriteIntBE(r.flags, Width.Int) \o WriteIntBE(Len(r.types), Width.Int)
        \o (IF Has(r.flags, RowsFlag.has_more_pages) THEN WriteBytes(<<1, 2, 3>>) ELSE <<>>)
        \o (IF Has(r.flags, RowsFlag.no_metadata) THEN <<>>
            ELSE EncodeColumns(r.types, Has(r.flags, RowsFlag.global_table_spec)))
        \o WriteIntBE(r.count, Width.Int)
        \o Concat([i \in 1 .. Len(r.rows) |-> EncodeRow(r.rows[i])])

EncodePrepared(r) ==
  WriteShortBytes(r.id)
    \o WriteIntBE(r.flags, Width.Int) \o WriteIntBE(Len(r.types), Width.Int)
    \o WriteIntBE(1, Width.Int) \o WriteIntBE(0, Width.Short)
    \o EncodeColumns(r.types, Has(r.flags, RowsFlag.global_table_spec))
    \o WriteIntBE(RowsFlag.no_metadata, Width.Int) \o WriteIntBE(0, Width.Int)

EncodeResult(r) ==
  WriteIntBE(ResultKind[r.kind], Width.Int)
    \o CASE r.kind = "void" -> <<>>
         [] r.kind = "rows" -> EncodeRows(r)
         [] r.kind = "prepared" -> EncodePrepared(r)
         [] r.kind = "set_keyspace" -> WriteString(r.name)
         [] r.kind = "schema_change" ->
              Concat([i \in 1 .. Len(r.names) |-> WriteString(r.names[i])])
                \o (IF r.arguments THEN WriteIntBE(1, Width.Short) \o WriteString(<<1>>) ELSE <<>>)

EncodeReply(r) ==
  LET Option(o) == WriteString(o[1]) \o WriteList(o[2], WriteString)
  IN  CASE r.op = "error" -> WriteIntBE(r.code, Width.Int) \o WriteString(<<1, 2>>)
        [] r.op = "ready" -> <<>>
        [] r.op = "authenticate" -> WriteString(<<1>>)
        [] r.op = "supported" -> WriteList(r.options, Option)
        [] r.op = "result" -> EncodeResult(r)

\* A node follows the protocol: a type is made of as many parts as its kind has
\* and is nowhere inside itself, the cells of a row are of the types of the
\* columns, no option is offered twice, a change of the schema has the names of
\* its target.  Of the counts only that of the rows may be off, and negative.
Arity(t) ==
  CASE t.name \in {"list", "set"} -> Len(t.parts) = 1
    [] t.name = "map" -> Len(t.parts) = 2
    [] t.name \in {"udt", "tuple"} -> Len(t.parts) < Square
    [] OTHER -> t.parts = <<>>

ASSUME TypesAssumption ==
  /\ Depth \in [Types -> Nat]
  /\ \A t \in Types :
       /\ t.name \in DOMAIN ColumnType /\ t.parts \in Seq(Types) /\ Arity(t)
       /\ \A i \in 1 .. Len(t.parts) : Depth[t.parts[i]] < Depth[t]

CellOf(type, cell) ==
  /\ cell.null \in BOOLEAN
  /\ cell.null \/ cell.v \in CASE type = "int" -> [1 .. 1 -> Ints]
                             [] type = "bigint" -> [1 .. 2 -> Ints]
                             [] OTHER -> Texts

RowsReply(r) ==
  /\ r.flags \in 0 .. 7
  /\ r.types \in Seq(Types) /\ Len(r.types) \in 1 .. IntLimit - 1
  /\ Len(r.rows) \in 0 .. IntLimit - 1
  /\ \A i \in 1 .. Len(r.rows) :
       /\ Len(r.rows[i]) = Len(r.types)
       /\ \A j \in 1 .. Len(r.types) : CellOf(r.types[j].name, r.rows[i][j])
  /\ r.count \in {-1, Len(r.rows)}

PreparedReply(r) ==
  /\ r.id \in ShortTexts /\ r.flags \in 0 .. 1
  /\ r.types \in Seq(Types) /\ Len(r.types) < IntLimit

SchemaChangeReply(r) ==
  /\ r.names \in Seq(ShortTexts) /\ Len(r.names) \in 3 .. 4
  /\ r.names[1] # Text.FUNCTION
  /\ r.names[2] \in {Text.TABLE, Text.TYPE} => Len(r.names) = 4
  /\ r.names[2] = Text.AGGREGATE => Len(r.names) = 4 /\ r.arguments

SupportedReply(r) ==
  /\ r.options \in Seq(ShortTexts \X Seq(ShortTexts)) /\ Len(r.options) < Square
  /\ \A i \in 1 .. Len(r.options) : Len(r.options[i][2]) < Square
  /\ \A i, j \in 1 .. Len(r.options) : r.options[i][1] = r.options[j][1] => i = j

ResultReply(r) ==
  \/ r.kind = "void"
  \/ r.kind = "rows" /\ RowsReply(r)
  \/ r.kind = "prepared" /\ PreparedReply(r)
  \/ r.kind = "set_keyspace" /\ r.name \in ShortTexts
  \/ r.kind = "schema_change" /\ SchemaChangeReply(r)

\* An answer, with a warning and compressed, has a length the header can hold.
ASSUME RepliesAssumption ==
  \A r \in Replies :
    /\ \/ r.op = "error" /\ r.code \in 0 .. IntLimit - 1
       \/ r.op \in {"ready", "authenticate"}
       \/ r.op = "supported" /\ SupportedReply(r)
       \/ r.op = "result" /\ ResultReply(r)
    /\ Len(EncodeReply(r)) + Len(WriteList(<<Warning>>, WriteString)) + 5 < IntLimit

\* The frame of an answer.  A warning goes before the body proper.
NodeFrame(r, id, warned, packed) ==
  LET text  == (IF warned THEN WriteList(<<Warning>>, WriteString) ELSE <<>>) \o EncodeReply(r)
      body  == IF packed THEN Compress(text) ELSE text
      flags == (IF warned THEN FrameFlag.warning ELSE 0)
                 + (IF packed THEN FrameFlag.compression ELSE 0)
  IN  HeaderBytes(MessageDirection.response, flags, id, Opcode[r.op], Len(body)) \o body

\* What a node reads in a request; one it cannot read it refuses.
Understood(r, m) == IF r.st = "ok" THEN m ELSE [op |-> "refused"]

NodeParams(r) == ReadList(ReadShort(r), ReadBytes)
NodeStatement(r) ==
  LET kind   == ReadByte(r)
      text   == IF kind.st = "ok" /\ kind.v = 0 THEN ReadBytes(kind) ELSE ReadShortBytes(kind)
      params == NodeParams(text)
  IN  IF params.st = "ok"
      THEN Return(params, [kind |-> kind.v, text |-> text.v, params |-> params.v]) ELSE params

NodeQuery(op, text) ==
  LET level  == ReadShort(text)
      flags  == ReadByte(level)
      params == IF flags.st = "ok" /\ Has(flags.v, QueryFlag.values)
                THEN NodeParams(flags) ELSE Return(flags, <<>>)
  IN  Understood(params, [op |-> op, text |-> text.v, level |-> level.v, params |-> params.v])

NodeBatch(r) ==
  LET statements == ReadList(ReadShort(ReadByte(r)), NodeStatement)
      level      == ReadShort(statements)
      flags      == ReadByte(level)
  IN  Understood(flags, [op |-> "batch", statements |-> statements.v, level |-> level.v])

NodePair(r) ==
  LET key == ReadString(r) value == ReadString(key) IN Return(value, <<key.v, value.v>>)

NodeReads(bytes) ==
  LET header == ParseHeader(bytes)
      rest   == SubSeq(bytes, kHeaderSize + 1, Len(bytes))
      body   == IF Has(header.flags, FrameFlag.compression) THEN Decompress(rest).v ELSE rest
      r      == Reader(body)
      op     == CHOOSE o \in DOMAIN Opcode : Opcode[o] = header.opcode
  IN  CASE op = "options" -> [op |-> op]
        [] op = "startup" -> [op |-> op, options |-> ReadList(ReadShort(r), NodePair).v]
        [] op = "query"   -> NodeQuery(op, ReadBytes(r))
        [] op = "execute" -> NodeQuery(op, ReadShortBytes(r))
        [] op = "prepare" -> [op |-> op, text |-> ReadBytes(r).v]
        [] op = "batch"   -> NodeBatch(r)

\* The answers the protocol has for a request.
Answers(op) ==
  {r \in Replies :
     \/ r.op = "error"
     \/ op = "options" /\ r.op = "supported"
     \/ op = "startup" /\ r.op \in {"ready", "authenticate"}
     \/ op = "prepare" /\ r.op = "result" /\ r.kind = "prepared"
     \/ op \in {"query", "execute"} /\ r.op = "result" /\ r.kind # "prepared"
     \/ op = "batch" /\ r.op = "result" /\ r.kind \in {"void", "rows"}}

-----------------------------------------------------------------------------
(* The driver.                                                             *)

\* The requests CqlHandshake and, later, callers can make.  A map of two
\* options is written in the order in which it happens to be iterated.
Version == <<Text.CQL_VERSION, Text.version>>
Lz4Option == <<Text.COMPRESSION, Text.lz4>>
Askable ==
  CASE phase = "new" -> {[op |-> "options"]}
    [] phase = "greeted" /\ ~(UseCompression /\ offered) ->
         {[op |-> "startup", options |-> <<Version>>]}
    [] phase = "greeted" /\ UseCompression /\ offered ->
         {[op |-> "startup", options |-> o] : o \in {<<Version, Lz4Option>>, <<Lz4Option, Version>>}}
    [] phase = "open" -> Requests

\* SendMessage: during the handshake on stream 0 and never compressed.
Send(m, id) ==
  /\ stage = "idle"
  /\ m \in Askable
  /\ id \in IF phase = "open" THEN Streams ELSE {0}
  /\ stage' = "sent" /\ request' = m /\ stream' = id
  /\ wire' = Serialize(m, id, compressor)
  /\ UNCHANGED <<phase, offered, compressor, reply, got, access>>

\* The node answers and the connection is closed after `cut` bytes, or stays.
\* What a node answers to the handshake is not compressed; afterwards it may
\* be, once that is agreed.  Of the request, only the kind is still needed.
Answer(r, warned, packed) ==
  /\ stage = "sent"
  /\ r \in Answers(request.op)
  /\ packed => compressor
  /\ LET frame == NodeFrame(r, stream, warned, packed)
     IN  \E cut \in 0 .. Len(frame) :
         /\ wire' = SubSeq(frame, 1, cut)
         /\ reply' = [r |-> r, warned |-> warned, packed |-> packed, whole |-> cut = Len(frame)]
  /\ stage' = "answered"
  /\ request' = IF phase = "open" THEN [op |-> request.op] ELSE request
  /\ UNCHANGED <<phase, offered, compressor, stream, got, access>>

\* ReadFrame and what the caller is given for it.
Receive ==
  /\ stage = "answered"
  /\ LET frame == ReadFrame(wire, compressor)
     IN  got' = [outcome |-> Conclude(request.op, frame), stream |-> frame.header.stream,
                 st |-> frame.body.st]
  /\ stage' = "done" /\ wire' = <<>>
  /\ UNCHANGED <<phase, offered, compressor, request, stream, reply, access>>

\* A caller that found the ResultSet not Empty takes its rows, or one field.
ReadRows(types) ==
  /\ stage = "done"
  /\ got.outcome.what = "rows" /\ ~Empty(got.outcome)
  /\ stage' = "read"
  /\ access' = [types |-> types, result |-> AsContainer(got.outcome.v, types)]
  /\ UNCHANGED <<phase, offered, compressor, request, stream, wire, reply, got>>

ReadField(type) ==
  /\ stage = "done"
  /\ got.outcome.what = "rows" /\ ~Empty(got.outcome)
  /\ stage' = "field"
  /\ access' = [types |-> <<type>>, result |-> AsSingleField(got.outcome.v, type)]
  /\ UNCHANGED <<phase, offered, compressor, request, stream, wire, reply, got>>

OffersLz4(options) ==
  \E o \in options : /\ o[1] = Text.COMPRESSION
                     /\ \E i \in 1 .. Len(o[2]) : o[2][i] = Text.lz4

\* Deviation: the compressor outlives the connection it was agreed on.
CompressorStays(next) == compressor \/ (phase = "greeted" /\ Len(request.options) = 2)

\* _compressor_ptr: made when a STARTUP with lz4 is answered without an error,
\* and gone with the connection.
CompressorOf(next) ==
  /\ next = "open"
  /\ phase = "open" => compressor
  /\ phase = "greeted" => Len(request.options) = 2

\* The next request: on this connection, further in the handshake, or, when
\* the receiver loop or the handshake ended in an exception, on a new one.
Finish ==
  /\ stage \in {"done", "read", "field"}
  /\ LET what == got.outcome.what
         next == CASE ~reply.whole \/ got.st # "ok" -> "new"
                   [] reply.whole /\ phase = "open" /\ got.st = "ok" -> "open"
                   [] reply.whole /\ phase = "new" /\ what = "options" -> "greeted"
                   [] reply.whole /\ phase = "greeted" /\ what = "ready" -> "open"
                   [] OTHER -> "new"
     IN  /\ phase' = next
         /\ offered' = (next = "greeted" /\ OffersLz4(got.outcome.v))
         /\ compressor' = CompressorOf(next)
  /\ stage' = "idle" /\ request' = None /\ stream' = 0
  /\ reply' = None /\ got' = None /\ access' = None
  /\ UNCHANGED wire

Next ==
  \/ \E m \in Askable, id \in Streams \cup {0} : Send(m, id)
  \/ \E r \in Replies, warned, packed \in BOOLEAN : Answer(r, warned, packed)
  \/ Receive
  \/ \E types \in RowTypes : ReadRows(types)
  \/ \E type \in {"int", "bigint", "text"} : ReadField(type)
  \/ Finish

Spec == Init /\ [][Next]_vars

-----------------------------------------------------------------------------
(* Properties.                                                             *)

Agreed == reply.packed = compressor
Intact == reply.whole /\ Agreed /\ ~reply.warned

\* The variables take values of their kinds, and the compressor is there only
\* on an open connection to a node that offered it (connection_impl.cpp:221).
TypeOK ==
  /\ phase \in {"new", "greeted", "open"} /\ offered \in BOOLEAN /\ compressor \in BOOLEAN
  /\ stage \in {"idle", "sent", "answered", "done", "read", "field"}
  /\ stream \in Streams \cup {0}
  /\ \A i \in 1 .. Len(wire) : wire[i] \in 0 .. Base
  /\ stage = "idle" <=> request = None
  /\ stage \in {"answered", "done", "read", "field"} <=> reply # None
  /\ compressor => phase = "open" /\ UseCompression

\* The length RequestMessage::Serialize leaves in the header is the number of
\* bytes that follow it, compressed or not, even when a count or a length of
\* the body was narrowed to a [short]: whatever the body says, the next
\* request starts where the node expects it.
FrameDelimited ==
  stage = "sent" =>
    LET header == ParseHeader(SubSeq(wire, 1, kHeaderSize))
    IN  /\ header.length = Len(wire) - kHeaderSize
        /\ header.stream = stream

\* Counts and lengths within [short].
Fits(m) ==
  LET Small(s) == Len(s) < Square
  IN  /\ m.op \in {"query", "execute"} => Small(m.args)
      /\ m.op = "execute" => Small(m.text)
      /\ m.op = "batch" => /\ Small(m.statements)
                           /\ \A i \in 1 .. Len(m.statements) :
                                Small(m.statements[i].args) /\ Small(m.statements[i].text)

\* The request as a node should read it: the level by its number, and each
\* argument as the value of a column of its type.
Asked(m) ==
  LET Params(args) == [i \in 1 .. Len(args) |->
                         CellBytes(args[i].type, [null |-> FALSE, v |-> args[i].v])]
      Statement(s) == [kind |-> s.kind, text |-> s.text, params |-> Params(s.args)]
  IN  CASE m.op \in {"query", "execute"} ->
             [op |-> m.op, text |-> m.text, level |-> Consistency[m.level], params |-> Params(m.args)]
        [] m.op = "batch" ->
             [op |-> m.op, level |-> Consistency[m.level],
              statements |-> [i \in 1 .. Len(m.statements) |-> Statement(m.statements[i])]]
        [] OTHER -> m

\* A node that reads the frame of a request as the protocol says finds in it
\* what the caller asked, argument by argument, for every kind of request (the
\* SerializeBody of request_message.hpp, the parameters of a query and the
\* formatters below them), as long as the counts and ids fit the [short] they
\* are narrowed to.
RequestUnderstood ==
  stage = "sent" /\ Fits(request) => NodeReads(wire) = Asked(request)

\* What the caller of a request is to be given for an answer.
Meant(r) ==
  LET Cells(row) == [j \in 1 .. Len(row) |-> CellBytes(r.types[j].name, row[j])]
  IN  CASE r.op = "ready" -> Outcome("ready", <<>>)
        [] r.op \in {"error", "authenticate"} -> Throw("")
        [] r.op = "supported" /\ (\E i \in 1 .. Len(r.options) : r.options[i][1] = Text.COMPRESSION) ->
             Outcome("options", {r.options[i] : i \in 1 .. Len(r.options)})
        [] r.op = "result" /\ r.kind = "rows" /\ r.count >= 0 ->
             Outcome("rows", [columns |-> Len(r.types),
                              rows |-> [i \in 1 .. Len(r.rows) |-> Cells(r.rows[i])]])
        [] r.op = "result" /\ r.kind = "prepared" -> Outcome("id", r.id)
        [] r.op = "result" /\ r.kind \in {"void", "set_keyspace", "schema_change"} -> Outcome("empty", <<>>)
        [] OTHER -> Throw("")

GotWhatWasMeant ==
  LET meant == Meant(reply.r)
  IN  /\ got.outcome.what = meant.what
      /\ meant.what # "throw" => got.outcome.v = meant.v

UnknownCode(r) == r.op = "error" /\ \A e \in DOMAIN ErrorCode : ErrorCode[e] # r.code

\* The rows, the id or the options a caller is given are the ones the node
\* sent, under the stream id of the request.  When the connection is closed
\* after any byte of the answer, a part of the header included (ReadFrame
\* takes a header of which one byte arrived), or when the node did not
\* compress what it might have, the caller is given the whole answer or an
\* exception, and never a part of it.  An answer with a warning, whose extra
\* field DoParseBody takes for the start of the body, is never turned into
\* rows, options or an id that the node did not send.  That such an answer may
\* be lost is not asked for here: see WarningChangesNothing.
ReplyIsServers ==
  stage = "done" =>
    /\ Intact => (GotWhatWasMeant \/ UnknownCode(reply.r)) /\ got.stream = stream
    /\ ~Intact /\ ~reply.warned => got.outcome.what = "throw" \/ GotWhatWasMeant
    /\ reply.warned => /\ got.outcome.what \in {"rows", "options"} => GotWhatWasMeant
                       /\ got.outcome.what = "id" => got.outcome.v = <<>> \/ GotWhatWasMeant

\* Session::Execute documents "@return A ResultSet containing the query results"
\* (session.hpp:162) and "@throws cassandra::exceptions::FrameError or subclasses
\* for Cassandra protocol errors" (line 167), and so a warning should not change
\* what a caller gets of an answer that arrived whole.  DoParseBody skips no
\* warning: it is read as the kind of a result, and rows become an empty
\* ResultSet and an id an empty id; or as the code and message of an ERROR, and
\* the message is copied from beyond the body.
WarningChangesNothing ==
  stage = "done" /\ phase = "open" /\ reply.whole /\ Agreed =>
    GotWhatWasMeant \/ UnknownCode(reply.r)

\* The memcpy of the string and bytes parsers, which nothing guards, stays
\* inside the body of every answer WITHOUT a warning, of a node that follows
\* the protocol, wherever the connection is closed.  A warning shifts the
\* fields, and the copy does leave the body: see WarningChangesNothing.
ReadsStayInside ==
  stage = "done" /\ ~reply.warned => got.outcome.what # "over"

\* An ERROR never turns into a result, an id or a finished handshake, however
\* it is delivered, and a code of CheckError's switch throws the class of that
\* code.  A code it does not know is refused later as an unexpected response,
\* except by CqlHandshake, which dereferences the failed cast.
ErrorsSurface ==
  stage = "done" /\ reply.r.op = "error" =>
    LET o == got.outcome
        known == ~UnknownCode(reply.r)
    IN  /\ o.what \notin {"rows", "empty", "id", "ready", "options"}
        /\ Intact /\ known => /\ o.what = "throw" /\ o.class \in DOMAIN ErrorCode
                               /\ ErrorCode[o.class] = reply.r.code
        /\ Intact /\ ~known => o.what = IF request.op = "options" THEN "null" ELSE "throw"

\* The types a caller may read the columns into.
Compatible(types) ==
  /\ Len(types) <= Len(reply.r.types)
  /\ \A j \in 1 .. Len(types) :
       types[j] = IF Numeric(reply.r.types[j].name) THEN reply.r.types[j].name ELSE "text"

\* The cells a caller took: all rows, or of the first row the first field.
RowsTaken == IF stage = "field" THEN 1 .. 1 ELSE 1 .. Len(reply.r.rows)
ValuesTaken == IF stage = "field" THEN << <<access.result.v>> >> ELSE access.result.v
IsNull(i, j) == reply.r.rows[i][j].null

\* ResultSet::AsContainer into tuples of the columns' types gives, row by row
\* and column by column, the values the node sent, and ResultSet::AsSingleRow
\* into a field gives the first of them.  A null that is read into a number is
\* an exception and never a number: the parser keeps no trace of null but the
\* empty byte string, and EnsureSize refuses to read a number out of it.  The
\* property is silent on a null that is read into a text: the code gives the
\* empty text, where docs/tutorial/result_set.md:419 says that the read crashes.
RowsComeBack ==
  stage \in {"read", "field"} /\ Compatible(access.types) =>
    LET columns == 1 .. Len(access.types)
    IN  /\ (\E i \in RowsTaken, j \in columns : IsNull(i, j) /\ access.types[j] # "text") =>
             access.result.what = "throw"
        /\ (\A i \in RowsTaken, j \in columns : ~IsNull(i, j)) => access.result.what = "value"
        /\ access.result.what = "value" =>
             /\ DOMAIN ValuesTaken = RowsTaken
             /\ \A i \in RowsTaken :
                  /\ DOMAIN ValuesTaken[i] = columns
                  /\ \A j \in columns :
                       ~IsNull(i, j) => ValuesTaken[i][j] = reply.r.rows[i][j].v
=============================================================================
