----------------------------- MODULE MCHttpParser -----------------------------
(***************************************************************************)
(* What the peers of HttpParser send: every message put together from a    *)
(* few request lines, fields and framings, alone or followed by a second   *)
(* one on the same connection, with what it is meant to say; and messages  *)
(* with one thing wrong.                                                   *)
(***************************************************************************)
EXTENDS HttpParser

CRLF == <<"cr", "lf">>
RequestLine(version) == <<"G", "sp", "/", "sp", version>>
Field(name, value) == <<name, ":", "sp">> \o value
Number(n) == <<<<"0", "1", "2", "3">>[n + 1]>>

\* A message: its version, its Connection options, its framing and its line end.
Framings ==
    {[kind |-> "none", parts |-> <<>>],
     [kind |-> "length", parts |-> <<<<"x", "y">>>>],
     [kind |-> "chunked", parts |-> <<<<"x", "lf">>, <<"0">>>>]}
Messages ==
    [version : {"HTTP/1.0", "HTTP/1.1"}, options : {<<>>, <<"close">>, <<"keep-alive">>},
     framing : Framings, eol : {CRLF, <<"lf">>}, blank : {0, 1}]

BodyOf(m) == FlattenSeq(m.framing.parts)
FieldsOf(m) ==
    (IF m.options = <<>> THEN <<>> ELSE <<<<"C", m.options>>>>)
    \o CASE m.framing.kind = "none" -> <<>>
         [] m.framing.kind = "length" -> <<<<"l", Number(Len(BodyOf(m)))>>>>
         [] m.framing.kind = "chunked" -> <<<<"T", <<"Chunked">>>>>>
Chunk(part, eol) == Number(Len(part)) \o eol \o part \o eol
Encode(m) ==
    (IF m.blank = 1 THEN m.eol ELSE <<>>)
    \o RequestLine(m.version) \o m.eol
    \o FlattenSeq([i \in DOMAIN FieldsOf(m) |-> Field(FieldsOf(m)[i][1], FieldsOf(m)[i][2]) \o m.eol])
    \o m.eol
    \o IF m.framing.kind # "chunked" THEN BodyOf(m)
       ELSE FlattenSeq([i \in DOMAIN m.framing.parts |-> Chunk(m.framing.parts[i], m.eol)])
            \o <<"0">> \o m.eol \o m.eol
Canonical(name) == IF name = "l" THEN "L" ELSE name
Meaning(m) ==
    [method |-> <<"G">>, url |-> <<"/">>,
     fields |-> [k \in {<<Canonical(f[1])>> : f \in Range(FieldsOf(m))} |->
                   (CHOOSE f \in Range(FieldsOf(m)) : <<Canonical(f[1])>> = k)[2]],
     keep_alive |-> IF m.version = "HTTP/1.1" THEN m.options # <<"close">> ELSE m.options = <<"keep-alive">>,
     body |-> BodyOf(m)]

Sent(bytes, requests, refused) ==
    [bytes |-> bytes, meant |-> [requests |-> requests, refused |-> refused, repeated |-> <<>>]]

\* One message, and a second one behind each that keeps the connection open.
Single == {Sent(Encode(m), <<Meaning(m)>>, FALSE) : m \in Messages}
Plain(f) == [version |-> "HTTP/1.1", options |-> <<>>, framing |-> f, eol |-> CRLF, blank |-> 0]
Seconds == {[Plain(f) EXCEPT !.options = o, !.version = v] :
              f \in Framings, o \in {<<>>, <<"keep-alive">>}, v \in {"HTTP/1.0", "HTTP/1.1"}}
Firsts == {m \in Messages : Meaning(m).keep_alive /\ m.blank = 0 /\ m.eol = CRLF}
Pairs == {Sent(Encode(m) \o Encode(n), <<Meaning(m), Meaning(n)>>, FALSE) : m \in Firsts, n \in Seconds}

\* One thing wrong.  The heads:
GoodHead(fields) ==
    RequestLine("HTTP/1.1") \o CRLF
    \o FlattenSeq([i \in DOMAIN fields |-> fields[i] \o CRLF]) \o CRLF
BadLines == {<<"G", "sp", "/">>, <<"sp", "/", "sp", "HTTP/1.1">>, <<"G", "sp", "sp", "HTTP/1.1">>,
             <<"/", "sp", "/", "sp", "HTTP/1.1">>, <<"G", "sp", "nul", "sp", "HTTP/1.1">>, <<"G">>,
             <<"G", "sp", "/", "sp", "HTTP">>, <<"G", "sp", "/", "sp", "HTTP/2.0">>}
BadFields == {<<<<"sp", "X", ":", "v">>>>, <<<<"X">>>>, <<<<":", "v">>>>, <<<<"/", ":", "v">>>>,
              <<<<"X", ":", "nul">>>>, <<Field("L", <<"1", "3", "3">>)>>, <<Field("L", <<>>)>>,
              <<Field("L", <<"x">>)>>, <<Field("L", <<"1">>), Field("l", <<"2">>)>>,
              <<Field("T", <<"gzip">>)>>, <<Field("T", <<"gzip", ",", "chunked">>)>>,
              <<Field("T", <<"chunked">>), Field("T", <<"chunked">>)>>,
              <<Field("T", <<"chunked">>), Field("L", <<"1">>)>>,
              <<Field("X", <<"v">>), Field("X", <<"v">>), Field("X", <<"v">>), Field("X", <<"v">>)>>,
              <<Field("X", [i \in 1 .. 20 |-> "v"])>>}
BadHeads ==
    {Sent(l \o CRLF \o CRLF, <<>>, TRUE) : l \in BadLines}
    \cup {Sent(GoodHead(f), <<>>, TRUE) : f \in BadFields}
    \cup {Sent(FlattenSeq([i \in 1 .. 14 |-> CRLF]), <<>>, TRUE)}

\* The bodies:
ChunkedHead == GoodHead(<<Field("T", <<"chunked">>)>>)
BadChunks == {<<"x", "cr", "lf">>, <<"cr", "lf">>, <<"1", "0", "cr", "lf", "x", "cr", "lf">>,
              <<"1", "x", "cr", "lf">>, <<"1", ";", "nul", "cr", "lf">>, <<"1", "cr", "lf", "x", "y">>,
              <<"1", "cr", "lf", "x", "cr", "y">>, <<"0", "cr", "lf", "nul", "cr", "lf">>,
              <<"0", "lf", "t", "lf", "t", "lf", "t", "lf">>,
              [i \in 1 .. 8 |-> "1"]}
BadBodies == {Sent(ChunkedHead \o c, <<>>, TRUE) : c \in BadChunks}

\* What the parser puts together or leaves out.
PlainMeaning(fields, body) ==
    [Meaning(Plain([kind |-> "none", parts |-> <<>>])) EXCEPT !.fields = fields, !.body = body]
RepeatedField ==
    [Sent(GoodHead(<<Field("X", <<"v">>), Field("X", <<"w">>)>>),
          <<PlainMeaning(<<"X">> :> <<"w">>, <<>>)>>, FALSE) EXCEPT !.meant.repeated = <<"X">> :> <<"w">>]
Unusual ==
    {RepeatedField,
     Sent(GoodHead(<<Field("C", <<"keep-alive", "sp", ",", "sp", "close">>)>>),
          <<[PlainMeaning(<<"C">> :> <<"keep-alive", "sp", ",", "sp", "close">>, <<>>)
               EXCEPT !.keep_alive = FALSE]>>, FALSE),
     Sent(GoodHead(<<Field("L", <<"1">>), Field("l", <<"1">>)>>) \o <<"x">>,
          <<PlainMeaning(<<"L">> :> <<"1">>, <<"x">>)>>, FALSE),
     Sent(ChunkedHead \o <<"1", "sp", ";", "e", "cr", "lf", "x", "cr", "lf", "0", "cr", "lf", "t", "cr", "lf", "cr", "lf">>,
          <<PlainMeaning(<<"T">> :> <<"chunked">>, <<"x">>)>>, FALSE),
     Sent(ChunkedHead \o <<"f", "cr", "lf">> \o [i \in 1 .. 4 |-> "x"], <<>>, FALSE),
     Sent(GoodHead(<<Field("E", <<"100-continue">>), Field("L", <<"2">>)>>) \o <<"x", "y">>,
          <<PlainMeaning((<<"E">> :> <<"100-continue">>) @@ (<<"L">> :> <<"2">>), <<"x", "y">>)>>, FALSE)}

MCStreams == Single \cup Pairs \cup BadHeads \cup BadBodies \cup Unusual

\* A chunk-size line over its limit, and a field that is repeated.
DisputedStreams ==
    {RepeatedField,
     Sent(ChunkedHead \o <<"1", ";", "e", "e", "e", "e", "e", "cr", "lf", "x", "cr", "lf", "0", "cr", "lf", "cr", "lf">>,
          <<>>, TRUE)}

MCHandlers == {[callback |-> TRUE, max |-> 14], [callback |-> TRUE, max |-> 1], [callback |-> FALSE, max |-> 0]}
=============================================================================
