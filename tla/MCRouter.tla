------------------------------- MODULE MCRouter -------------------------------
(***************************************************************************)
(* Declarations and requests for Router: routes that are the same, that    *)
(* overlap or that differ in the name of a capture, handlers of each shape *)
(* and URLs with every query string of a few encoded pairs.                *)
(***************************************************************************)
EXTENDS Router

Base == <<"/", "api", "/">>
Routes == {<<"items">>, <<"items", "/", "{id}">>, <<"items", "/", "new">>, <<"/", "items", "/", "{no}", "/">>,
           <<"items", "/", "{id}", "/", "{no}">>, <<"k">>}

Handler(name, parsed, params, defaults) ==
    [name |-> name, parsed |-> parsed, params |-> params, defaults |-> defaults]
Whole == Handler("whole", TRUE, <<>>, 0)
Strings == Handler("strings", FALSE, <<"string", "string">>, 2)
Optionals == Handler("optionals", FALSE, <<"optional", "optional">>, 2)
Mixed == Handler("mixed", FALSE, <<"optional", "string">>, 1)
Bare == Handler("bare", FALSE, <<>>, 0)

Declaration(r, m, h) == [route |-> r, method |-> m, handler |-> h]
Id == <<"items", "/", "{id}">>
MCDeclarations ==
    {Declaration(r, "GET", Whole) : r \in Routes}
    \cup {Declaration(r, "GET", Strings) : r \in {Id, <<"items", "/", "{id}", "/", "{no}">>}}
    \cup {Declaration(r, "GET", Optionals) : r \in {Id, <<"items">>}}
    \cup {Declaration(<<"items", "/", "{id}", "/", "{no}">>, "GET", Mixed)}
    \cup {Declaration(r, "OPTIONS", Whole) : r \in {Id, <<"items">>}}
    \cup {Declaration(r, "PUT", Bare) : r \in {<<"items">>, <<"items", "/", "new">>}}

\* Query strings: encoded pairs, each key and value with its escapes.
Texts == {[raw |-> <<>>, text |-> <<>>], [raw |-> <<"k">>, text |-> <<107>>],
          [raw |-> <<"+">>, text |-> <<32>>], [raw |-> <<"%", "2", "B">>, text |-> <<43>>],
          [raw |-> <<"v", "%", "2", "5", "4", "1">>, text |-> <<118, 37, 52, 49>>]}
Values == Texts \cup {[raw |-> <<"=", "v", "=">>, text |-> <<61, 118, 61>>]}
Bad == {<<"%">>, <<"k", "%", "4">>, <<"%", "4", "g">>}
Pairs == {[raw |-> k.raw \o (IF v.raw = <<>> /\ k.raw = <<"k">> THEN <<>> ELSE <<"=">>) \o v.raw,
           pair |-> <<k.text, v.text>>] : k \in Texts \ {[raw |-> <<>>, text |-> <<>>]}, v \in Values}
Paths == {<<"/", "api", "/", "items">>, <<"/", "api", "/", "/", "items", "/", "new", "/">>,
          <<"/", "api", "/", "items", "/", "v", "/", "k">>, <<"/", "items">>, <<"/", "api">>, <<"/">>}

Request(path, query, method, queries) ==
    [url |-> path \o query, method |-> method, queries |-> queries]
QueryPath == <<"/", "api", "/", "items">>
MCRequests ==
    {Request(p, <<>>, m, <<>>) : p \in Paths, m \in {"GET", "PUT", "OPTIONS"}}
    \cup {Request(QueryPath, <<"?">> \o p.raw \o <<"&", "&", "v", "=", "v">>, "GET", <<p.pair, <<<<118>>, <<118>>>>>>)
            : p \in Pairs}
    \cup {Request(QueryPath, <<"?", "k", "=", "v", "&">> \o b, "GET", <<"bad">>)
            : b \in Bad \cup {<<"=">>} \cup {<<"k", "=">> \o x : x \in Bad}}

\* A few requests are enough for the names of captures.
NameRequests == {Request(<<"/", "api", "/", "items", "/", "new">>, <<>>, "GET", <<>>)}
=============================================================================
