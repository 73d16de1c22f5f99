--------------------------- MODULE MCAlgorithms ---------------------------
\* The inputs of each kind, chosen around the boundaries of the code.
EXTENDS Algorithms, TLC

Line(name, value, size) == [name |-> name, value |-> value, size |-> size]

B(k) == Binders!Scalar(k)

\* Some values of each type, the boundaries among them.
RECURSIVE Values(_)
Values(s) ==
    LET Product(members) ==
            CASE Len(members) = 0 -> {<<>>}
              [] Len(members) = 1 -> {<<x>> : x \in Values(members[1])}
              [] Len(members) = 2 -> {<<x, y>> : x \in Values(members[1]), y \in Values(members[2])}
    IN  CASE s.kind = "int" -> {-4, 0, 3}
          [] s.kind = "uint" -> {0, 3, 4, 7}
          [] s.kind = "enum" -> {-1, 2}
          [] s.kind = "string" -> {<<>>, <<97>>, <<97, 0, 98>>, <<233>>}
          [] s.kind = "buffer" -> {<<>>, <<0>>, <<255, 7>>}
          [] s.kind = "empty" -> {<<>>}
          [] s.kind = "list" -> {<<>>} \cup {<<x>> : x \in Values(s.of)}
                                  \cup {<<x, y>> : x \in Values(s.of), y \in Values(s.of)}
          [] s.kind \in {"sequence", "map"} -> Product(s.members)
          [] s.kind = "variant" -> UNION {{<<i - 1, x>> : x \in Values(s.members[i])} : i \in DOMAIN s.members}

Schemas ==
    LET Id == Binders!Tuple(<<B("empty"), B("uint")>>)
        Row == Binders!Entity(<<"id", "name">>, <<B("int"), B("string")>>)
        Pair == Binders!Tuple(<<B("uint"), B("string")>>)
    IN  {Binders!Variant(<<s>>) : s \in {B(k) : k \in {"int", "uint", "enum", "string", "buffer", "empty"}}}
        \cup {Binders!Variant(<<B("string"), Row>>), Binders!Variant(<<Binders!Tuple(<<B("empty"), B("empty")>>), Id>>),
              Binders!Variant(<<B("empty"), Binders!ListOf(Pair)>>),
              Binders!Variant(<<Binders!Tuple(<<Binders!ListOf(B("buffer")), Row>>)>>),
              Binders!Variant(<<Binders!Entity(<<"food", "rows">>,
                                  <<Binders!Variant(<<B("int"), B("empty")>>), Binders!ListOf(Id)>>)>>)}

\* Keys of a path: a number, a name, or one or the other; and the keys that come in.
IdKey == Messages!Typed(B("uint"), 2)
NameKey == Messages!Typed(B("string"), <<97>>)
Nothing == Messages!Typed([kind |-> "empty", name |-> "key"], <<>>)
Either == Binders!Variant(<<B("uint"), B("string")>>)
Requests ==
    {r \in [action : {"create", "read", "update", "delete"},
            parent : {<<>>, <<Nothing>>, <<IdKey>>},
            key : {IdKey, NameKey, Nothing},
            key_type : {B("uint"), B("string"), Messages!TypeOf(Nothing), Either},
            uid : {Messages!no_impl, NameKey},
            payload : {Messages!Typed(B("int"), 3), Messages!Typed(B("string"), <<98>>)},
            private : {Messages!no_impl, Messages!Typed(B("string"), <<99>>)}] :
        Messages!IsKeyFor(r.key_type, r.key)}

Outlines ==
    {[depth |-> 0, actions |-> <<>>, store |-> "null_store", listens |-> FALSE]}
    \cup [depth : 1..3, store : {"null_store"}, listens : {FALSE},
          actions : {<<>>, <<"create">>, <<"create", "read", "update", "delete">>}]
    \cup [depth : 1..3, store : {"map_store"}, listens : {TRUE}, actions : {<<>>, <<"update">>}]

\* A name, a value that is a string or nothing, and a tree of maps under "b".
Str(letters) == <<"string", letters>>
Variant(v) == <<"variant", v>>
Map(f) == <<"map", f>>
a == Str(<<"a">>)
b == Str(<<"b">>)
Forest ==
    LET Leaves == {Map(a :> Variant(a) @@ b :> b), Map(<<>>)}
        Trees == {Map(a :> leaf @@ b :> Variant(Map(a :> b @@ b :> leaf))) : leaf \in Leaves}
    IN  {<<"record", <<"k", 1>> :> name @@ <<"k", 2>> :> maybe @@ <<"k", 3>> :> tree>> :
            name \in {a, b}, maybe \in {Variant(Variant(a)), Variant(<<"nothing", 0>>)}, tree \in Trees}

Value(v) == [key |-> "value", value |-> v]
GetStep(keys) == [step |-> "get", keys |-> keys]
Whole(i) == GetStep(<<Value(<<"k", i>>)>>)
WhenStep(T) == [step |-> "when", type |-> T]
KeyAt(steps) == [key |-> "at", steps |-> steps]
Match(cases) == [key |-> "match", steps |-> <<Whole(2)>>, cases |-> cases]
FirstSteps ==
    {Whole(i) : i \in 1..3}
    \cup {GetStep(<<Value(<<"k", 3>>), key>>) : key \in
            {KeyAt(<<Whole(1)>>),
             [key |-> "both", keys |-> <<Value(b), [key |-> "both", keys |-> <<KeyAt(<<Whole(1)>>), Value(a)>>]>>],
             KeyAt(<<Whole(2), WhenStep("string")>>),
             [key |-> "apply", fn |-> "z", of |-> KeyAt(<<Whole(2), WhenStep("string")>>)],
             [key |-> "match_if", steps |-> <<Whole(1)>>, equals |-> a, then |-> Value(b), else |-> KeyAt(<<Whole(1)>>)],
             Match(<<<<"string", [key |-> "keys"]>>, <<"void", Value(b)>>>>),
             Match(<<<<"void", Value(b)>>, <<"string", Value(a)>>>>),
             Match(<<<<"nothing", Value(b)>>, <<"void", [key |-> "keys"]>>>>)}}
Steps ==
    [store : Forest, step : {"get"}, keys : {s.keys : s \in FirstSteps}]
    \cup {GetStep(<<Value(b)>>), WhenStep("map"), WhenStep("string"),
          GetStep(<<KeyAt(<<GetStep(<<Value(a)>>), WhenStep("string")>>)>>)}

Foos == [foo_value : {1, 2}]
Bars == [bar_value : {1, 2}, bar_foo : Foos]
Rows == [type : {Sql!Foo}, value : Foos] \cup [type : {Sql!Bar}, value : Bars]
        \cup [type : {Sql!Baz}, value : [baz_value : {1}, baz_foo : Foos, baz_bar : Bars]]
        \cup [type : {Sql!Two}, value : [two_value : {1}, left : Bars, right : Bars]]
        \cup [type : {Sql!Boo}, value : [foo_list : UNION {[1..n -> Foos] : n \in 0..2}]]

MCAlphabet ==
    [bytes |-> {0, 3, 130, 255},
     chars |-> {-128, -1, 65},
     base64 |-> {0, 17, 63, 64, 65},
     chunks |-> {0, 1, 55, 56, 64},
     cookies |-> {"n", "=", ";", " ", "v"},
     headers |-> {Line("Sec-WebSocket-Key", <<"k">>, 0), Line("sec-websocket-key", <<" ", " ", "l">>, 256),
                  Line("Cookies", <<"c">>, 0), Line("cookies", <<>>, 0), Line("Cookie", <<"d">>, 0),
                  Line("Host", <<"h">>, 257), Line("", <<>>, 0)},
     moves |-> 0..9,
     requests |-> Requests,
     definitions |-> Outlines,
     paths |-> Steps,
     rows |-> Rows,
     routes |-> {"/", "f", "z", "0", "1"},
     messages |-> UNION {[schema : {s}, value : Values(s)] : s \in Schemas}]
MCMaxLength == [bytes |-> 5, chars |-> 5, base64 |-> 6, chunks |-> 2, cookies |-> 7, headers |-> 4, moves |-> 5, routes |-> 7, messages |-> 1,
                requests |-> 1, definitions |-> 4, paths |-> 7, rows |-> 2]

MCChar == {"/", "f", "z"} \cup {Digits[k] : k \in 1..10}
MCNames == {<<>>, <<"f">>, <<"1">>, <<"z">>}
MCMembers == [n \in MCNames |-> CASE n = <<>> -> <<>>
                                  [] n = <<"f">> -> <<"integral">>
                                  [] n = <<"1">> -> <<"string">>
                                  [] n = <<"z">> -> <<"integral", "string">>]

MCRoutes ==
    LET Numbers == 1..15
        Strings == {<<"1">>, <<"f">>, <<"0", "0">>}
    IN  [name : {<<>>}, params : {<<>>}] \cup [name : {<<"f">>}, params : [1..1 -> Numbers]]
        \cup [name : {<<"1">>}, params : [1..1 -> Strings]]
        \cup {[name |-> <<"z">>, params |-> <<n, t>>] : n \in Numbers, t \in Strings}
===========================================================================
