--------------------------- MODULE MCResponseStream ---------------------------
(* Instances of ResponseStream for TLC. *)
EXTENDS ResponseStream

D(k) == <<"data", k>>
Bytes(a, b) == [k \in 1 .. (b - a + 1) |-> D(a + k - 1)]

Plain == [tls |-> FALSE, keep |-> 1, res |-> response(200, <<>>), chunked |-> FALSE, buffered |-> FALSE,
          ops |-> <<>>]
Long(n) == set_content_length(response(200, <<>>), n)

\* A response with a body of its own, and fields that are not for a handler to set.
Whole == [Plain EXCEPT !.res = [set_body(response(299, <<>>), Bytes(1, 2)) EXCEPT
                                  !.fields = <<<<"content-length", 1>>, <<"x-own", 1>>>>]]
NoContent == [Plain EXCEPT !.res = set_keep_alive(response(204, Bytes(1, 2)), 0)]
\* The length is announced, and the body written in pieces, empty ones too.
Pieces == [Plain EXCEPT !.res = Long(4),
             !.ops = <<<<"write", <<>>>>, <<"writev", <<<<>>, Bytes(1, 2), <<>>, <<>>, Bytes(3, 4), <<>>>>>>>>]
\* More empty buffers in front than writev takes.
Empties == [Pieces EXCEPT !.res = Long(1), !.ops = <<<<"writev", <<<<>>, <<>>, <<>>, Bytes(1, 1)>>>>>>]
\* Chunks, directly and through an ostream_buffer.
Chunks == [Plain EXCEPT !.res = Long(chunked_data), !.chunked = TRUE,
             !.ops = <<<<"write", Bytes(1, 3)>>, <<"write", <<>>>>, <<"writev", <<<<>>, <<>>>>>>,
                       <<"writev", <<Bytes(4, 4), <<>>, Bytes(5, 5)>>>>>>]
Buffered == [Chunks EXCEPT !.buffered = TRUE,
               !.ops = <<<<"put", D(1)>>, <<"puts", Bytes(2, 3)>>, <<"put", D(4)>>, <<"put", D(5)>>,
                         <<"puts", Bytes(6, 8)>>, <<"put", D(9)>>, <<"pubsync">>, <<"put", D(10)>>>>]
\* The size of a chunk has two digits.
Large == [Chunks EXCEPT !.ops = <<<<"write", Bytes(1, 17)>>>>]
Throws == [Chunks EXCEPT !.ops = <<<<"write", Bytes(1, 2)>>, <<"throw">>>>]
ThrowsFirst == [Pieces EXCEPT !.ops = <<<<"throw">>>>]

Tls(s) == [s EXCEPT !.tls = TRUE]
MCScripts ==
    LET all == {Whole, NoContent, Pieces, Empties, Chunks, Buffered, Large, Throws, ThrowsFirst}
    IN  all \cup {Tls(s) : s \in all}
TlsScripts == {Tls(Pieces)}
MCErrorBody == [k \in 1 .. 2 |-> <<"reason", k>>]
=============================================================================
