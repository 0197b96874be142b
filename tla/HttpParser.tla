------------------------------ MODULE HttpParser ------------------------------
(***************************************************************************)
(* http_request_parser, fed by read_headers() and read() with the bytes of *)
(* one connection in pieces of any size.  The parser and the request it    *)
(* fills in are one record; a call of the parser is an operator from that  *)
(* record and the bytes at hand to the record afterwards, in which "used"  *)
(* is what the call returns and "status" what it throws, 0 for nothing.    *)
(*                                                                         *)
(* A byte is a short string.  "cr", "lf" and "sp" are themselves, "nul" is *)
(* a control character, and a word such as "L" (Content-Length), "chunked" *)
(* or "HTTP/1.1" counts as one byte.  size_t has HexDigits hex digits.     *)
(***************************************************************************)
EXTENDS Integers, Sequences, SequencesExt, TLC

CONSTANTS
    Streams,         \* what a peer may send: [bytes, meant], meant the requests it is made of,
                     \* whether it is refused, and the fields it repeats with their last values
    Handlers,        \* the body callbacks: [callback, max], as append_body_callback gets them
    max_head_size, max_headers_count, max_chunk_line_size,
    HexDigits        \* 16 in a 64 bit build

SizeMod == 16 ^ HexDigits
chunked_data == SizeMod - 1

ASSUME HttpParserAssumption ==
    /\ {max_head_size, max_headers_count, max_chunk_line_size} \subseteq Nat
    /\ HexDigits \in Nat \ {0}
    /\ \A h \in Handlers : h.callback \in BOOLEAN /\ h.max \in 0 .. SizeMod - 1

VARIABLES
    stream,      \* what the peer sends
    handler,     \* what the session registers before it reads the body
    arrived,     \* how much of the stream read_some has returned
    pc,          \* "parse" what is pending, "read" from the socket, "parsed", or the end
    phase,       \* "head" in read_headers(), "body" in read()
    m_pending,
    s,           \* the parser and the request
    got          \* the requests that were read completely

vars == <<stream, handler, arrived, pc, phase, m_pending, s, got>>

-----------------------------------------------------------------------------
(* Characters, lines and words *)

Digits == [d \in {"0", "1", "2", "3"} |->
             CASE d = "0" -> 0 [] d = "1" -> 1 [] d = "2" -> 2 [] d = "3" -> 3]
HexChars == DOMAIN Digits \cup {"f"}
hex_value(c) == IF c = "f" THEN 15 ELSE Digits[c]

\* The bytes that no table accepts, and those that only a value may hold.
NoValueChar == {"nul", "cr"}
NoTargetChar == NoValueChar \cup {"sp"}
NoTokenChar == NoTargetChar \cup {":", ",", ";", "/"}
AllChars(text, bad) == \A i \in DOMAIN text : text[i] \notin bad

\* trim_ows
Trim(text) ==
    LET inner == {i \in DOMAIN text : text[i] # "sp"}
    IN  IF inner = {} THEN <<>>
        ELSE SubSeq(text, Min(inner), Max(inner))

Find(text, c, from) == {i \in from .. Len(text) : text[i] = c}

RECURSIVE for_each_token(_)
for_each_token(value) ==
    LET comma == Find(value, ",", 1)
        token(t) == IF Trim(t) = <<>> THEN <<>> ELSE <<Trim(t)>>
    IN  IF comma = {} THEN token(value)
        ELSE token(SubSeq(value, 1, Min(comma) - 1))
             \o for_each_token(SubSeq(value, Min(comma) + 1, Len(value)))

\* canonical_name and iequals: "l" and "Chunked" are other spellings.
canonical_name(name) == IF name = <<"l">> THEN <<"L">> ELSE name
lower(word) == IF word = <<"Chunked">> THEN <<"chunked">> ELSE word

\* The line that starts after pos bytes, without its LF or CRLF, and where
\* the next one starts.
next_line(data, pos) ==
    LET lf == Find(data, "lf", pos + 1)
        e == Min(lf)
        end == IF e - 1 > pos /\ data[e - 1] = "cr" THEN e - 2 ELSE e - 1
    IN  IF lf = {} THEN [found |-> FALSE, text |-> <<>>, next |-> pos]
        ELSE [found |-> TRUE, text |-> SubSeq(data, pos + 1, end), next |-> e]

\* std::from_chars: a whole decimal number that size_t can hold.
RECURSIVE Decimal(_)
Decimal(text) == IF text = <<>> THEN 0 ELSE 10 * Decimal(Front(text)) + Digits[Last(text)]
IsNumber(text) ==
    /\ text # <<>> /\ \A i \in DOMAIN text : text[i] \in DOMAIN Digits
    /\ Decimal(text) < chunked_data

Fail(t, status) == [t EXCEPT !.status = status]
Failed(t) == t.status # 0

-----------------------------------------------------------------------------
(* The head *)

\* The parser of a new connection, with a fresh request.
Fresh ==
    [head |-> "request_line", body |-> "none", chunk |-> "Size",
     head_seen |-> 0, headers |-> 0, remaining |-> 0, received |-> 0,
     content_length |-> 0, http11 |-> FALSE, has_content_length |-> FALSE,
     chunked |-> FALSE, close |-> FALSE, wants_keep_alive |-> FALSE,
     state |-> "uninitialized", method |-> <<>>, url |-> <<>>, fields |-> <<>>,
     keep_alive |-> FALSE, callback |-> FALSE, max |-> 0, delivered |-> <<>>,
     used |-> 0, status |-> 0]

\* Mutant: the options of the previous request stay.
begin_request_keeps(t) ==
    [t EXCEPT !.head = "request_line", !.body = "none", !.chunk = "Size", !.head_seen = 0,
              !.headers = 0, !.remaining = 0, !.received = 0, !.content_length = 0,
              !.state = "processing_url"]

begin_request(t) ==
    [t EXCEPT !.head = "request_line", !.body = "none", !.chunk = "Size", !.head_seen = 0,
              !.headers = 0, !.remaining = 0, !.received = 0, !.content_length = 0,
              !.http11 = FALSE, !.has_content_length = FALSE, !.chunked = FALSE,
              !.close = FALSE, !.wants_keep_alive = FALSE, !.state = "processing_url"]

parse_request_line(t, text) ==
    LET sp1 == Find(text, "sp", 1)
        sp2 == Find(text, "sp", Min(sp1) + 1)
        method == SubSeq(text, 1, Min(sp1) - 1)
        target == SubSeq(text, Min(sp1) + 1, Min(sp2) - 1)
        version == SubSeq(text, Min(sp2) + 1, Len(text))
    IN  IF sp1 = {} \/ Min(sp1) = 1 THEN Fail(t, 400)
        ELSE IF sp2 = {} \/ Min(sp2) = Min(sp1) + 1 THEN Fail(t, 400)
        ELSE IF ~AllChars(method, NoTokenChar) \/ ~AllChars(target, NoTargetChar) THEN Fail(t, 400)
        ELSE IF version \notin {<<"HTTP/1.0">>, <<"HTTP/1.1">>, <<"HTTP/2.0">>} THEN Fail(t, 400)
        ELSE IF version = <<"HTTP/2.0">> THEN Fail(t, 505)
        ELSE [t EXCEPT !.http11 = version # <<"HTTP/1.0">>, !.method = method, !.url = target]

\* The values of a field that is repeated are combined.
Emplace(t, key, value) ==
    [t EXCEPT !.fields = IF key \in DOMAIN @ THEN [@ EXCEPT ![key] = @ \o <<",", "sp">> \o value]
                         ELSE (key :> value) @@ @]

ContentLength(t, value) ==
    IF ~IsNumber(value) THEN Fail(t, 400)
    ELSE IF t.has_content_length
    THEN IF Decimal(value) # t.content_length THEN Fail(t, 400) ELSE t
    ELSE Emplace([t EXCEPT !.has_content_length = TRUE, !.content_length = Decimal(value)],
                 <<"L">>, value)

TransferEncoding(t, value) ==
    LET codings == for_each_token(value)
    IN  IF codings = <<>> \/ lower(Last(codings)) # <<"chunked">> THEN Fail(t, 400)
        ELSE IF (IF t.chunked THEN 1 ELSE 0) + Len(codings) # 1 THEN Fail(t, 501)
        ELSE Emplace([t EXCEPT !.chunked = TRUE], <<"T">>, value)

Connection(t, value) ==
    LET options == Range(for_each_token(value))
    IN  Emplace([t EXCEPT !.close = @ \/ <<"close">> \in options,
                          !.wants_keep_alive = @ \/ <<"keep-alive">> \in options], <<"C">>, value)

parse_header_field(t0, text) ==
    LET t == [t0 EXCEPT !.headers = @ + 1]
        colon == Find(text, ":", 1)
        name == SubSeq(text, 1, Min(colon) - 1)
        value == Trim(SubSeq(text, Min(colon) + 1, Len(text)))
        key == canonical_name(name)
    IN  IF t.headers > max_headers_count THEN Fail(t, 431)
        ELSE IF text[1] = "sp" \/ colon = {} \/ Min(colon) = 1 THEN Fail(t, 400)
        ELSE IF ~AllChars(name, NoTokenChar) \/ ~AllChars(value, NoValueChar) THEN Fail(t, 400)
        ELSE CASE key = <<"L">> -> ContentLength(t, value)
               [] key = <<"T">> -> TransferEncoding(t, value)
               [] key = <<"C">> -> Connection(t, value)
               [] OTHER -> Emplace(t, key, value)

finalize_head(t) ==
    IF t.has_content_length /\ t.chunked THEN Fail(t, 400)
    ELSE LET body == CASE t.chunked -> "chunked"
                       [] ~t.chunked /\ t.content_length > 0 -> "content_length"
                       [] OTHER -> "none"
         IN  [t EXCEPT !.keep_alive = ~t.close /\ (t.http11 \/ t.wants_keep_alive),
                       !.received = 0, !.chunk = "Size", !.body = body,
                       !.remaining = IF t.chunked THEN 0 ELSE t.content_length,
                       !.state = IF body = "none" THEN "completed" ELSE "headers_completed"]

\* pos bytes were consumed by this call.
HeadUsed(t, pos) == [t EXCEPT !.used = pos, !.head_seen = @ + pos]

\* Line by line, as far as whole lines have arrived.
RECURSIVE HeadLines(_, _, _)
HeadLines(t, data, pos) ==
    LET line == next_line(data, pos)
        tooLarge == t.head_seen + line.next > max_head_size
    IN  IF ~line.found
        THEN IF t.head_seen + Len(data) > max_head_size THEN Fail(t, 431) ELSE HeadUsed(t, pos)
        ELSE IF t.head = "request_line"
        THEN IF line.text = <<>> THEN HeadLines(t, data, line.next)
             ELSE LET r == parse_request_line(t, line.text)
                  IN  IF Failed(r) THEN r
                      ELSE IF tooLarge THEN Fail(r, 431)
                      ELSE HeadLines([r EXCEPT !.head = "headers", !.state = "processing_header"],
                                     data, line.next)
        ELSE IF tooLarge THEN Fail(t, 431)
        ELSE IF line.text = <<>>
        THEN LET r == finalize_head(t)
             IN  IF Failed(r) THEN r ELSE HeadUsed([r EXCEPT !.head = "done"], line.next)
        ELSE LET r == parse_header_field(t, line.text)
             IN  IF Failed(r) THEN r ELSE HeadLines(r, data, line.next)

parse_head(t, data) ==
    LET begun == IF t.state = "uninitialized" THEN begin_request(t) ELSE t
    IN  IF begun.head = "done" THEN [begun EXCEPT !.used = 0] ELSE HeadLines(begun, data, 0)

-----------------------------------------------------------------------------
(* The body *)

\* Mutant: the limit is looked at before the bytes are counted.
deliver_late(t, bytes) ==
    IF t.max # 0 /\ t.received > t.max THEN Fail(t, 413)
    ELSE IF ~t.callback THEN Fail(t, 400)
    ELSE [t EXCEPT !.received = @ + Len(bytes), !.delivered = @ \o bytes]

\* deliver and request::append_body
deliver(t, bytes) ==
    LET r == [t EXCEPT !.received = (@ + Len(bytes)) % SizeMod]
    IN  IF r.max # 0 /\ r.received > r.max THEN Fail(r, 413)
        ELSE IF ~r.callback THEN Fail(r, 400)
        ELSE [r EXCEPT !.delivered = @ \o bytes]

\* How much of n bytes belongs to the body, or to the chunk.
BodySize(t, n) == Min({t.remaining, n})

\* The number the first digits of a chunk-size line stand for.
ChunkSize(text, digits) ==
    [ok |-> digits \in 1 .. HexDigits,
     size |-> FoldLeft(LAMBDA n, c : (16 * n + hex_value(c)) % SizeMod, 0, SubSeq(text, 1, digits))]

\* case chunk::Size, for a whole line
SizeLine(t, text) ==
    LET other == {i \in DOMAIN text : text[i] \notin HexChars}
        digits == IF other = {} THEN Len(text) ELSE Min(other) - 1
        number == ChunkSize(text, digits)
        ext == Trim(SubSeq(text, digits + 1, Len(text)))
    IN  IF ~number.ok THEN Fail(t, 400)
        ELSE IF ext # <<>> /\ (Head(ext) # ";" \/ ~AllChars(ext, NoValueChar)) THEN Fail(t, 400)
        ELSE [t EXCEPT !.remaining = number.size,
                       !.chunk = IF number.size # 0 THEN "Data" ELSE "trailers"]

\* case chunk::trailers, for a whole line that is not empty
TrailerLine(t, text) ==
    IF t.headers + 1 > max_headers_count THEN Fail(t, 431)
    ELSE IF ~AllChars(text, NoValueChar) THEN Fail(t, 400)
    ELSE [t EXCEPT !.headers = @ + 1]

\* case chunk::Data
ChunkData(t, bytes) ==
    LET r == deliver(t, bytes)
    IN  IF Failed(r) THEN r
        ELSE [r EXCEPT !.remaining = @ - Len(bytes),
                       !.chunk = IF t.remaining = Len(bytes) THEN "data_end" ELSE "Data"]

\* Mutant: a CR at the end of the data is taken for a broken chunk.
data_end_impatient(data, pos) ==
    CASE data[pos + 1] = "lf" -> pos + 1
      [] data[pos + 1] = "cr" /\ pos + 1 < Len(data) /\ data[pos + 2] = "lf" -> pos + 2
      [] OTHER -> -1

\* case chunk::data_end: where the next chunk starts, pos itself when that has
\* not arrived, -1 when no line ends here.
data_end(data, pos) ==
    CASE data[pos + 1] = "lf" -> pos + 1
      [] data[pos + 1] = "cr" /\ pos + 1 = Len(data) -> pos
      [] data[pos + 1] = "cr" /\ pos + 1 < Len(data) /\ data[pos + 2] = "lf" -> pos + 2
      [] OTHER -> -1

Used(t, pos) == [t EXCEPT !.used = pos]

\* Mutant: a line may be as long as a whole head.
LineLimitHead(t) == max_head_size

\* How much of a line that has no end yet may be pending.
LineLimit(t) == IF t.chunk = "Size" THEN max_chunk_line_size ELSE max_head_size

\* parse_chunked from pos on
RECURSIVE parse_chunked(_, _, _)
parse_chunked(t, data, pos) ==
    LET line == next_line(data, pos)
        step(r, next) == IF Failed(r) THEN r ELSE parse_chunked(r, data, next)
    IN  CASE pos >= Len(data) -> Used(t, pos)
          [] pos < Len(data) /\ t.chunk = "Data" ->
                LET size == BodySize(t, Len(data) - pos)
                IN  step(ChunkData(t, SubSeq(data, pos + 1, pos + size)), pos + size)
          [] pos < Len(data) /\ t.chunk = "data_end" ->
                LET end == data_end(data, pos)
                IN  IF end = -1 THEN Fail(t, 400)
                    ELSE IF end = pos THEN Used(t, pos)
                    ELSE parse_chunked([t EXCEPT !.chunk = "Size"], data, end)
          [] OTHER ->
                IF ~line.found
                THEN IF Len(data) - pos <= LineLimit(t) THEN Used(t, pos)
                     ELSE Fail(t, IF t.chunk = "Size" THEN 400 ELSE 431)
                ELSE IF t.chunk = "Size" THEN step(SizeLine(t, line.text), line.next)
                ELSE IF line.text = <<>> THEN Used([t EXCEPT !.state = "completed"], line.next)
                ELSE step(TrailerLine(t, line.text), line.next)

parse_body(t0, data) ==
    LET t == [t0 EXCEPT !.state = "processing_body"]
        size == BodySize(t, Len(data))
        r == IF size = 0 THEN t ELSE deliver(t, SubSeq(data, 1, size))
        left == t.remaining - size
    IN  IF t0.state = "completed" \/ t0.body = "none" THEN Used(t0, 0)
        ELSE IF t.body = "chunked" THEN parse_chunked(t, data, 0)
        ELSE IF t.max # 0 /\ t.remaining > (t.max - t.received) % SizeMod THEN Fail(t, 413)
        ELSE IF Failed(r) THEN r
        ELSE Used([r EXCEPT !.remaining = left, !.state = IF left = 0 THEN "completed" ELSE @], size)

-----------------------------------------------------------------------------
(* The session that feeds the parser *)

Init ==
    /\ stream \in Streams /\ handler \in Handlers
    /\ arrived = 0 /\ pc = "parse" /\ phase = "head"
    /\ m_pending = <<>> /\ s = Fresh /\ got = <<>>

Parse(t, data) == IF phase = "head" THEN parse_head(t, data) ELSE parse_body(t, data)
Parsed(t) == t.state = "completed" \/ (phase = "head" /\ t.state = "headers_completed")

\* What a call of the parser on these bytes leaves behind.
Leave(t, data, next) ==
    /\ s' = t
    /\ m_pending' = IF Failed(t) THEN data ELSE SubSeq(data, t.used + 1, Len(data))
    /\ pc' = IF Failed(t) THEN "failed" ELSE IF Parsed(t) THEN "parsed" ELSE next
Feed(data, next) == Leave(Parse(s, data), data, next)

\* The top of either loop: what is pending is parsed (again).
ParsePending ==
    /\ pc = "parse"
    /\ IF m_pending = <<>> THEN pc' = "read" /\ UNCHANGED <<s, m_pending>>
       ELSE Feed(m_pending, "read")
    /\ UNCHANGED <<stream, handler, arrived, phase, got>>

\* read_some returns the next n bytes.
ReadSome(n) ==
    LET data == SubSeq(stream.bytes, arrived + 1, arrived + n)
    IN  /\ pc = "read"
        /\ arrived' = arrived + n
        /\ IF m_pending = <<>> THEN Feed(data, "parse")
           ELSE pc' = "parse" /\ m_pending' = m_pending \o data /\ UNCHANGED s
        /\ UNCHANGED <<stream, handler, phase, got>>

\* request::content_length
content_length(t) ==
    IF <<"L">> \in DOMAIN t.fields THEN Decimal(t.fields[<<"L">>]) ELSE chunked_data

\* What operator >> makes of an Expect: 0 for nothing, else what it answers.
Expectation(t) ==
    IF <<"E">> \notin DOMAIN t.fields \/ t.fields[<<"E">>] # <<"100-continue">> THEN 0
    ELSE IF content_length(t) # chunked_data /\ t.max < content_length(t) THEN 417 ELSE 100

\* The session registers its callback and does "stream >> req".
Register(t) == [t EXCEPT !.callback = handler.callback, !.max = handler.max]
Handle ==
    LET t == Register(s)
    IN  /\ pc = "parsed" /\ phase = "head"
        /\ IF Expectation(t) = 417 THEN pc' = "failed" /\ s' = Fail(t, 417) /\ UNCHANGED phase
           ELSE /\ s' = t /\ phase' = "body"
                /\ pc' = IF t.state = "completed" THEN "parsed" ELSE "parse"
        /\ UNCHANGED <<stream, handler, arrived, m_pending, got>>

\* What the session knows of a request it has read.
Summary(t) == [method |-> t.method, url |-> t.url, fields |-> t.fields,
               keep_alive |-> t.keep_alive, body |-> t.delivered]

\* A new dracon::request, for the same parser.
NewRequest(t) ==
    [t EXCEPT !.state = "uninitialized", !.method = <<>>, !.url = <<>>, !.fields = <<>>,
              !.keep_alive = FALSE, !.callback = FALSE, !.max = 0, !.delivered = <<>>]

\* The session is over: io_loop() reads the next request or closes.
Finish ==
    /\ pc = "parsed" /\ phase = "body"
    /\ got' = Append(got, Summary(s))
    /\ IF s.keep_alive THEN pc' = "parse" /\ phase' = "head" /\ s' = NewRequest(s)
       ELSE pc' = "closed" /\ UNCHANGED <<phase, s>>
    /\ UNCHANGED <<stream, handler, arrived, m_pending>>

Next ==
    \/ ParsePending \/ Handle \/ Finish
    \/ \E n \in 1 .. Len(stream.bytes) - arrived : ReadSome(n)

Spec == Init /\ [][Next]_vars

-----------------------------------------------------------------------------
(* Properties *)

\* The loops of read_headers() and read() and what the parser remembers.
TypeOK ==
    /\ arrived \in 0 .. Len(stream.bytes)
    /\ pc \in {"parse", "read", "parsed", "failed", "closed"} /\ phase \in {"head", "body"}
    /\ IsSuffix(m_pending, SubSeq(stream.bytes, 1, arrived))
    /\ s.head \in {"request_line", "headers", "done"}
    /\ s.body \in {"none", "content_length", "chunked"}
    /\ s.chunk \in {"Size", "Data", "data_end", "trailers"}
    /\ {s.remaining, s.received, s.content_length} \subseteq 0 .. SizeMod - 1

\* Nothing more will happen to what has arrived.
Ended == pc \in {"failed", "closed"} \/ (pc = "read" /\ arrived = Len(stream.bytes))
TakesAll == handler.callback /\ handler.max \in {0, SizeMod - 2}

\* The requests, but for the values of the fields that the peer repeats.
ButRepeated(requests) ==
    [i \in DOMAIN requests |->
        [requests[i] EXCEPT !.fields =
            [k \in DOMAIN @ |-> IF k \in DOMAIN stream.meant.repeated THEN <<>> ELSE @[k]]]]

\* read_headers(), read() and the parser give the session the requests the
\* peer encoded, each with its own fields, keep alive and body, in order and
\* whole; a malformed message is refused, never skipped or misread; and what
\* was consumed for one request is not missing from the next.  The value of a
\* field that a request repeats is left open (LastIsKept).
DecodesWhatWasSent ==
    /\ IsPrefix(ButRepeated(got), ButRepeated(stream.meant.requests))
    /\ Ended /\ TakesAll => /\ ButRepeated(got) = ButRepeated(stream.meant.requests)
                            /\ (pc = "failed") = stream.meant.refused

\* What the comment on dracon::fields says of a field that a request repeats,
\* and parse_header_field, which combines the values, does not do: the last
\* value is kept.
LastIsKept ==
    \A i \in DOMAIN got : \A k \in DOMAIN got[i].fields \cap DOMAIN stream.meant.repeated :
        got[i].fields[k] = stream.meant.repeated[k]

\* What one call with all the bytes makes of them.
RECURSIVE Whole(_, _, _)
WholeBody(b, rest, before) ==
    LET all == Append(before, Summary(b))
    IN  CASE Failed(b) -> [got |-> before, status |-> b.status]
          [] ~Failed(b) /\ b.state # "completed" -> [got |-> before, status |-> 0]
          [] ~Failed(b) /\ b.state = "completed" /\ ~b.keep_alive -> [got |-> all, status |-> 0]
          [] OTHER -> Whole(NewRequest(b), SubSeq(rest, b.used + 1, Len(rest)), all)
WholeHead(h, rest, before) ==
    CASE Failed(h) -> [got |-> before, status |-> h.status]
      [] ~Failed(h) /\ h.state \notin {"headers_completed", "completed"} -> [got |-> before, status |-> 0]
      [] ~Failed(h) /\ h.state \in {"headers_completed", "completed"} /\ Expectation(h) = 417 ->
            [got |-> before, status |-> 417]
      [] OTHER -> WholeBody(IF rest = <<>> THEN Used(h, 0) ELSE parse_body(h, rest), rest, before)
Whole(t, data, before) ==
    LET h == parse_head(t, data)
    IN  WholeHead(Register(h), SubSeq(data, h.used + 1, Len(data)), before)

\* No line is longer than a chunk-size line may be.
LinesFit ==
    \A i \in 1 .. Len(stream.bytes) - max_chunk_line_size :
        \E j \in i .. i + max_chunk_line_size : stream.bytes[j] = "lf"

Agrees(whole) ==
    /\ got = whole.got
    /\ s.status = whole.status \/ {s.status, whole.status} = {400, 431}

\* However the bytes are cut into reads, and however often what is pending is
\* parsed again, the session sees what one read of everything would have
\* shown it, and a refusal has the same status (400 and 431 may change places
\* when a head is both malformed and too large).
CutDoesNotMatter ==
    Ended /\ LinesFit => Agrees(Whole(Fresh, stream.bytes, <<>>))

\* The same for every message: split_feeding_matches_whole_feeding.
CutNeverMatters == Ended => got = Whole(Fresh, stream.bytes, <<>>).got

\* What the parser leaves pending when it asks for more is bounded by the
\* limits, over all the calls for one message: a peer cannot make m_pending,
\* or the number of fields, grow by sending an endless head, chunk-size line
\* or trailer.
PendingBounded ==
    pc = "read" =>
        /\ s.headers <= max_headers_count
        /\ CASE phase = "head" -> s.head_seen + Len(m_pending) <= max_head_size
             [] phase = "body" /\ s.body = "content_length" -> m_pending = <<>>
             [] OTHER -> Len(m_pending) <= CASE s.chunk = "Size" -> max_chunk_line_size
                                             [] s.chunk = "Data" -> 0
                                             [] s.chunk = "data_end" -> 1
                                             [] s.chunk = "trailers" -> max_head_size

\* deliver() never hands the callback more than append_body_callback() allows,
\* and a body that was asked for with a 100 is not then refused for its
\* announced length: the subtraction max - m_received cannot wrap.
BodyWithinLimit ==
    phase = "body" =>
        /\ s.max # 0 => Len(s.delivered) <= s.max
        /\ s.status = 413 /\ Expectation(s) = 100 => s.body = "chunked"
        /\ ~Failed(s) /\ s.body = "content_length" /\ s.max # 0 => s.received <= s.max

=============================================================================
