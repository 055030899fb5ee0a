----------------------------- MODULE MCExchange -----------------------------
(***************************************************************************)
(* Values for TLC: requests with none, one and two parameters and the ones *)
(* that pass the limits of [short] (Base^2 = 196 in the model), and        *)
(* answers of every opcode and result kind, the column types nested.       *)
(***************************************************************************)
EXTENDS Exchange

Many(n, x) == [i \in 1 .. n |-> x]
Limit == Square

MCRequests ==
  LET Query(op, text, args) == [op |-> op, text |-> text, level |-> "kQuorum", args |-> args]
      Statement(kind, args) == [kind |-> kind, text |-> <<7, 1>>, args |-> args]
      Arg(type, v) == [type |-> type, v |-> v]
      NoText == Arg("text", <<>>)
  IN  {Query(op, <<5, 0, 13>>, args) :
         op \in {"query", "execute"},
         args \in {<<>>, <<NoText>>, <<Arg("int", <<-2>>), Arg("text", <<13, 2>>)>>,
                   <<Arg("bigint", <<-1, 7>>)>>, Many(Limit, NoText)}}
      \cup {Query("execute", Many(Limit + 1, 6), <<NoText>>)}
      \cup {[op |-> "prepare", text |-> text] : text \in {<<>>, <<5>>, Many(Limit, 2)}}
      \cup {[op |-> "batch", level |-> "kLocalOne", statements |-> s] :
              s \in {<<>>, <<Statement(0, <<>>), Statement(1, <<Arg("int", <<3>>), NoText>>)>>,
                     Many(Limit, Statement(1, <<>>))}}

Of(name, parts) == [name |-> name, parts |-> parts]
I4     == Of("int", <<>>)
I8     == Of("bigint", <<>>)
Str    == Of("varchar", <<>>)
Custom == Of("custom", <<>>)
SetOf  == Of("set", <<Custom>>)
Udt    == Of("udt", <<Str, SetOf>>)
Tuple  == Of("tuple", <<I4, Udt>>)
ListOf == Of("list", <<Tuple>>)
Nested == Of("map", <<I4, ListOf>>)
MCTypes == {I4, I8, Str, Custom, SetOf, Udt, Tuple, ListOf, Nested}
MCDepth ==
  [t \in MCTypes |-> CASE t = SetOf -> 1 [] t = Udt -> 2 [] t = Tuple -> 3
                        [] t = ListOf -> 4 [] t = Nested -> 5 [] OTHER -> 0]

MCReplies ==
  LET Cell(v) == [null |-> FALSE, v |-> v]
      NullCell == [null |-> TRUE, v |-> <<>>]
      Rows(flags, types, rows) ==
        [op |-> "result", kind |-> "rows", flags |-> flags, types |-> types,
         rows |-> rows, count |-> Len(rows)]
      Prepared(flags, types) ==
        [op |-> "result", kind |-> "prepared", id |-> <<4, 2>>, flags |-> flags, types |-> types]
      Change(names, arguments) ==
        [op |-> "result", kind |-> "schema_change", names |-> names, arguments |-> arguments]
  IN  {[op |-> "error", code |-> c] : c \in {ErrorCode[e] : e \in DOMAIN ErrorCode} \cup {5632}}
      \cup {[op |-> "ready"], [op |-> "authenticate"]}
      \cup {[op |-> "supported", options |-> o] :
              o \in {<< <<Text.COMPRESSION, <<Text.lz4>> >>, <<Text.CQL_VERSION, <<Text.version>> >> >>,
                     << <<Text.COMPRESSION, <<>> >> >>,
                     << <<Text.CQL_VERSION, <<>> >> >>}}
      \cup {[op |-> "result", kind |-> "void"], [op |-> "result", kind |-> "set_keyspace", name |-> <<1>>]}
      \cup {Rows(flags, <<I4, Str>>,
                 <<<<Cell(<<-3>>), Cell(<<6, 1>>)>>, <<Cell(<<4000>>), NullCell>>>>) : flags \in 0 .. 7}
      \cup {Rows(4, <<I4, Str>>, <<>>),
            Rows(4, <<I8>>, <<<<Cell(<<0, 42>>)>>>>),
            Rows(0, <<I8, Nested>>, <<<<Cell(<<-1, -7>>), Cell(<<1>>)>>>>),
            Rows(1, <<I4>>, <<<<Cell(<<1>>)>>, <<NullCell>>>>),
            [Rows(4, <<I4>>, <<<<Cell(<<1>>)>>>>) EXCEPT !.count = -1]}
      \cup {Prepared(1, <<>>), Prepared(1, <<I4, Nested>>), Prepared(0, <<Str>>)}
      \cup {Change(<<Text.CREATED, Text.KEYSPACE, <<1>>>>, FALSE),
            Change(<<Text.CREATED, Text.TABLE, <<1>>, <<2>>>>, FALSE),
            Change(<<Text.CREATED, Text.FUNCTION, <<1>>, <<2>>>>, TRUE),
            Change(<<Text.CREATED, Text.AGGREGATE, <<1>>, <<2>>>>, TRUE)}

MCRowTypes ==
  {<<"int">>, <<"bigint">>, <<"int", "text">>, <<"bigint", "text">>, <<"text", "text">>,
   <<"int", "text", "text">>}

MCWarning == <<6, 1, 7>>
MCStreams == {17}
=============================================================================
