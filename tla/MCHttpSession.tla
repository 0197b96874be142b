--------------------------- MODULE MCHttpSession ---------------------------
(* Instances of HttpSession for TLC. *)
EXTENDS HttpSession

\* A request without a body, to a handler that answers what read() throws.
Get == [bad_head |-> FALSE, body |-> <<>>, chunked |-> FALSE, keep_alive |-> TRUE, expect |-> FALSE,
        claimed |-> TRUE, orderly |-> TRUE, catches |-> {"malformed", "timed_out", "io_error"}]
\* Its body looks like the end of a head.
Post == [Get EXCEPT !.body = <<"text", "lf", "lf">>]
Put == [Get EXCEPT !.body = <<"text">>, !.expect = TRUE]
Close == [Get EXCEPT !.keep_alive = FALSE]
Unclaimed == [Get EXCEPT !.claimed = FALSE]
BadHead == [Get EXCEPT !.bad_head = TRUE]
BadBody == [Get EXCEPT !.body = <<"text", "bad">>, !.chunked = TRUE]

\* The same requests to handlers that read, answer and catch as they like.
AnyHandler(s) ==
    [i \in DOMAIN s |-> [s[i] EXCEPT !.orderly = FALSE, !.catches = @ \cup {"refused", "status"}]]

Pairs == {<<Post, Get>>, <<Put, Post>>, <<Get, BadHead>>, <<BadBody, Get>>, <<Get, Unclaimed>>,
          <<Close, Get>>, <<BadHead, Get>>}

MCScripts == Pairs \cup {AnyHandler(s) : s \in Pairs}
LiveScripts == {AnyHandler(<<Put, Get>>)}
\* What leaves an error unanswered, puts one response into another, or closes
\* a connection that was to be kept.
CatchesRefusal == [Put EXCEPT !.catches = @ \cup {"refused"}]
AnswerScripts == {<<Get, BadHead>>, <<Get, Get>>, <<CatchesRefusal, Get>>, AnyHandler(<<Post, Get>>)}
============================================================================
