---------------------------- MODULE ResponseStream ----------------------------
(***************************************************************************)
(* The way of one response to its client: a handler sends the head and     *)
(* writes the body, through an ostream_buffer and a chunked_stream if it   *)
(* likes, basic_http_session::write() loops over what a socket or a TLS    *)
(* connection takes, and io_loop ends it all.                              *)
(*                                                                         *)
(* The units that are sent are tuples, their first component the kind: a   *)
(* line of the head, a byte of the body or of the framing.                 *)
(***************************************************************************)
EXTENDS Integers, Sequences, SequencesExt

CONSTANTS
    Scripts,        \* what handlers do: [tls, keep, res, chunked, buffered, ops]
    ErrorBody,      \* of the response that io_loop sends for an exception
    Capacity,       \* of an ostream_buffer
    SendBuffer,     \* socket_write_size()
    Record,         \* of TLS: what one SSL_write sends at most
    IovMax,
    Room            \* what the socket takes until the client reads

ASSUME ResponseStreamAssumption ==
    /\ {Capacity, SendBuffer, Record, IovMax, Room} \subseteq Nat \ {0}
    /\ \A s \in Scripts : {s.tls, s.chunked, s.buffered} \subseteq BOOLEAN

VARIABLES
    script,
    pc, where,   \* what the session does, and for which part of the script
    i,           \* the next operation of the handler
    m_buffer, bad,       \* of the ostream_buffer, and of the std::ostream above
    calls,       \* the calls of write() that are left of the operation
    pending,     \* of the call in progress: m_write_buffers, or what is left of the buffer
    m_keep_alive, m_session_timeout, m_can_write_errror,
    thrown,      \* an exception left the scope of the body
    given,       \* m_yield.get()
    ssl,         \* the record of TLS that could not be sent yet
    shared,      \* the write buffer that all sessions of the loop share
    room, nospace, event,   \* the socket, and what epoll has to report
    dead,        \* the peer is gone
    wire,        \* what the client receives
    failed, overlaid     \* history: a write failed; an error was written over a record

layers == <<m_buffer, bad>>
conn == <<m_keep_alive, m_session_timeout>>
socket == <<room, nospace, event, dead>>
vars == <<script, pc, where, i, layers, calls, pending, conn, m_can_write_errror, thrown, given,
          ssl, shared, socket, wire, failed, overlaid>>

Prefix(s, k) == SubSeq(s, 1, k)
Rest(s, k) == SubSeq(s, k + 1, Len(s))
Take(s, n) == Prefix(s, Min({Len(s), n}))

-----------------------------------------------------------------------------
(* response *)

chunked_data == -1
status_codes ==
    {100, 101, 431} \cup (200 .. 206) \cup (300 .. 307) \cup (400 .. 417) \cup (500 .. 505)
status_code_string(status) == IF status \in status_codes THEN status ELSE 500

response(status, body) ==
    [status |-> status, body |-> body, length |-> Len(body), fields |-> <<>>, keep_alive |-> -1]
set_content_length(r, n) == [r EXCEPT !.length = n, !.body = <<>>]
set_body(r, body) == [r EXCEPT !.body = body, !.length = Len(body)]
set_keep_alive(r, seconds) == [r EXCEPT !.keep_alive = seconds]

\* The fields that to_string computes; what a handler sets under these names,
\* in whatever case, is dropped.
Computed == {"content-length", "transfer-encoding", "keep-alive", "connection"}

to_string(r, override) ==
    LET status == IF r.status # 0 THEN r.status ELSE 500
        informational == status \in 100 .. 199
        body_less == informational \/ status = 204
        alive == IF override = -1 THEN r.keep_alive ELSE override
        own == SelectSeq(r.fields, LAMBDA f : f[1] \notin Computed)
        length == IF r.length = chunked_data THEN <<"transfer-encoding", "chunked">>
                  ELSE <<"content-length", r.length>>
    IN  <<<<"status", status_code_string(status)>>>> \o own
        \o (IF body_less THEN <<>> ELSE <<length>>)
        \o (IF informational THEN <<>>
            ELSE <<<<"connection", IF alive > 0 THEN "keep-alive" ELSE "close">>>>)
        \o <<<<"end of head">>>> \o (IF body_less THEN <<>> ELSE r.body)

-----------------------------------------------------------------------------
(* The layers: an operation of the handler becomes calls of write() *)

One(data) == [parts |-> <<data>>, vectored |-> FALSE]
Many(parts) == [parts |-> parts, vectored |-> TRUE]

CR == <<"cr">>
LF == <<"lf">>
HexDigits[n \in Nat] == (IF n < 16 THEN <<>> ELSE HexDigits[n \div 16]) \o <<<<"hex", n % 16>>>>
chunk_header(n) == HexDigits[n] \o <<CR, LF>>
end_of_chunked_stream == chunk_header(0) \o <<CR, LF>>

\* Mutant: an empty write is framed like any other.
FramedEmpty(call) ==
    LET size == Len(FlattenSeq(call.parts))
    IN  IF script.chunked THEN <<Many(<<chunk_header(size)>> \o call.parts \o <<<<CR, LF>>>>)>>
        ELSE <<call>>

\* chunked_stream::write
Framed(call) ==
    LET size == Len(FlattenSeq(call.parts))
    IN  IF ~script.chunked THEN <<call>>
        ELSE IF size = 0 THEN <<>>
        ELSE <<Many(<<chunk_header(size)>> \o call.parts \o <<<<CR, LF>>>>)>>

\* ostream_buffer::sync
sync == [calls |-> IF m_buffer = <<>> THEN <<>> ELSE <<One(m_buffer)>>, buffer |-> <<>>]

\* overflow
overflow(c) ==
    IF Len(m_buffer) >= Capacity THEN [calls |-> <<One(m_buffer)>>, buffer |-> <<c>>]
    ELSE [calls |-> <<>>, buffer |-> Append(m_buffer, c)]

\* Mutant: the large piece overtakes what is in the buffer.
xsputn_overtakes(s) ==
    LET free == Capacity - Len(m_buffer)
    IN  IF Len(s) > Capacity
        THEN [calls |-> <<IF m_buffer = <<>> THEN One(s) ELSE Many(<<s, m_buffer>>)>>, buffer |-> <<>>]
        ELSE IF Len(s) <= free THEN [calls |-> <<>>, buffer |-> m_buffer \o s]
        ELSE [calls |-> <<One(m_buffer \o Prefix(s, free))>>, buffer |-> Rest(s, free)]

\* xsputn: a large piece goes out with what is in the buffer, another one
\* fills the buffer, and what does not fit starts the next.
xsputn(s) ==
    LET free == Capacity - Len(m_buffer)
    IN  IF Len(s) > Capacity
        THEN [calls |-> <<IF m_buffer = <<>> THEN One(s) ELSE Many(<<m_buffer, s>>)>>, buffer |-> <<>>]
        ELSE IF Len(s) <= free THEN [calls |-> <<>>, buffer |-> m_buffer \o s]
        ELSE [calls |-> <<One(m_buffer \o Prefix(s, free))>>, buffer |-> Rest(s, free)]

\* A std::ostream that has seen an exception writes nothing any more; the
\* handler calls pubsync() itself.
Effect(op) ==
    CASE op[1] = "write" -> [calls |-> <<One(op[2])>>, buffer |-> m_buffer]
      [] op[1] = "writev" -> [calls |-> <<Many(op[2])>>, buffer |-> m_buffer]
      [] op[1] = "pubsync" -> sync
      [] bad -> [calls |-> <<>>, buffer |-> m_buffer]
      [] op[1] = "put" -> overflow(op[2])
      [] op[1] = "puts" -> xsputn(op[2])
FromOstream(op) == op[1] \in {"put", "puts"}

Begin(cs, w) == pc' = "call" /\ where' = w /\ calls' = cs

-----------------------------------------------------------------------------
(* The handler and io_loop *)

Init ==
    /\ script \in Scripts
    /\ pc = "head" /\ where = "head" /\ i = 1
    /\ m_buffer = <<>> /\ bad = FALSE /\ calls = <<>> /\ pending = <<>>
    /\ m_keep_alive = script.keep /\ m_session_timeout = 1 /\ m_can_write_errror = TRUE
    /\ thrown = FALSE /\ given = "ok"
    /\ ssl = <<>> /\ shared = <<>>
    /\ room \in 0 .. Room /\ nospace = FALSE /\ event \in BOOLEAN /\ dead = FALSE
    /\ wire = <<>> /\ failed = FALSE /\ overlaid = FALSE

\* operator<<: ten seconds, and one for every 512 KB; write() of the session.
SendHead ==
    /\ pc = "head"
    /\ m_keep_alive' = IF script.res.keep_alive # -1 THEN script.res.keep_alive ELSE m_keep_alive
    /\ m_session_timeout' = IF script.res.length = chunked_data THEN m_session_timeout
                            ELSE Max({m_session_timeout, 10 + script.res.length \div (512 * 1024)})
    /\ Begin(<<One(to_string(script.res, m_keep_alive'))>>, "head")
    /\ UNCHANGED <<script, i, layers, pending, m_can_write_errror, thrown, given, ssl, shared, socket,
                   wire, failed, overlaid>>

\* The next operation, an exception of the handler's own, or the end of it.
Operate ==
    /\ pc = "ops"
    /\ i' = i + 1
    /\ IF i > Len(script.ops) \/ (i <= Len(script.ops) /\ script.ops[i][1] = "throw")
       THEN /\ thrown' = (i <= Len(script.ops))
            /\ pc' = "flush" /\ UNCHANGED <<where, calls, m_buffer>>
       ELSE LET e == Effect(script.ops[i])
            IN  /\ m_buffer' = e.buffer
                /\ Begin(FlattenSeq([k \in DOMAIN e.calls |-> Framed(e.calls[k])]), "ops")
                /\ UNCHANGED thrown
    /\ UNCHANGED <<script, bad, pending, conn, m_can_write_errror, given, ssl, shared, socket, wire,
                   failed, overlaid>>

\* ~ostream_buffer, and after it ~chunked_stream.
DestroyBuffer ==
    /\ pc = "flush"
    /\ m_buffer' = <<>>
    /\ Begin(FlattenSeq([k \in DOMAIN sync.calls |-> Framed(sync.calls[k])]), "flush")
    /\ UNCHANGED <<script, i, bad, pending, conn, m_can_write_errror, thrown, given, ssl, shared, socket,
                   wire, failed, overlaid>>

DestroyChunked ==
    /\ pc = "close"
    /\ Begin(IF script.chunked THEN <<One(end_of_chunked_stream)>> ELSE <<>>, "close")
    /\ UNCHANGED <<script, i, layers, pending, conn, m_can_write_errror, thrown, given, ssl, shared, socket,
                   wire, failed, overlaid>>

ErrorResponse == to_string(response(500, ErrorBody), -1)

\* The session served, and the connection is kept or not; or the exception is
\* answered, if nothing was written yet.
Leave ==
    /\ pc = "leave"
    /\ \/ /\ ~thrown
          /\ pc' = IF given = "ok" /\ m_keep_alive # 0 THEN "next" ELSE "closed"
          /\ UNCHANGED <<where, calls, overlaid>>
       \/ /\ thrown /\ ~m_can_write_errror /\ pc' = "closed" /\ UNCHANGED <<where, calls, overlaid>>
       \/ /\ thrown /\ m_can_write_errror
          /\ Begin(<<One(ErrorResponse)>>, "error")
          /\ overlaid' = (ssl # <<>>)
    /\ UNCHANGED <<script, i, layers, pending, conn, m_can_write_errror, thrown, given, ssl, shared, socket,
                   wire, failed>>

-----------------------------------------------------------------------------
(* basic_http_session::write *)

\* A call of write(): an empty one returns at once.  After the last one the
\* part of the script is done.
Call ==
    /\ pc = "call"
    /\ IF calls = <<>>
       THEN /\ pc' = CASE where \in {"head", "ops"} -> "ops" [] where = "flush" -> "close"
                       [] where = "close" -> "leave" [] where = "error" -> "closed"
            /\ UNCHANGED <<calls, pending>>
       ELSE LET c == calls[1]
            IN  IF FlattenSeq(c.parts) = <<>>
                THEN calls' = Tail(calls) /\ UNCHANGED <<pc, pending>>
                ELSE pending' = c.parts /\ pc' = "write" /\ UNCHANGED calls
    /\ UNCHANGED <<script, where, i, layers, conn, m_can_write_errror, thrown, given, ssl, shared, socket,
                   wire, failed, overlaid>>

\* write() throws.  A std::ostream catches that, and so do the destructors;
\* nothing is left in the ostream_buffer, which was emptied before the write.
Throw ==
    /\ calls' = <<>> /\ pending' = <<>> /\ failed' = TRUE /\ m_buffer' = <<>>
    /\ LET op == script.ops[i - 1]
       IN  IF where = "ops" /\ FromOstream(op)
           THEN bad' = TRUE /\ pc' = "ops" /\ UNCHANGED thrown
           ELSE /\ pc' = CASE where = "head" -> "leave" [] where = "ops" -> "flush"
                           [] where = "flush" -> "close" [] where = "close" -> "leave"
                           [] where = "error" -> "closed"
                /\ thrown' = (thrown \/ where \in {"head", "ops"})
                /\ UNCHANGED bad

\* Mutant: only buffers that are shorter than what went out are dropped.
DroppedShorter(k) == {n \in 0 .. Len(pending) : n = 0 \/ Len(FlattenSeq(Prefix(pending, n))) < k}

\* How many of the pending buffers went out completely with k bytes.
Dropped(k) == {n \in 0 .. Len(pending) : Len(FlattenSeq(Prefix(pending, n))) <= k}

\* What is still pending after k bytes: those are dropped, and the next one
\* shortened.
Shorten(k) ==
    LET n == Max(Dropped(k))
        part == k - Len(FlattenSeq(Prefix(pending, n)))
    IN  IF n = Len(pending) THEN <<>> ELSE <<Rest(pending[n + 1], part)>> \o Rest(pending, n + 1)

\* k > 0 bytes are out: the next round, or the return of write().
Advance(k) ==
    /\ pending' = Shorten(k)
    /\ IF Shorten(k) = <<>> THEN pc' = "call" /\ calls' = Tail(calls) ELSE UNCHANGED <<pc, calls>>

\* write_some() returned 0: the session yields.
Wait == pc' = "yield" /\ UNCHANGED <<pending, calls>>

\* write(2) of one buffer, or writev(2) of as many as it takes.
Offered == IF calls[1].vectored THEN FlattenSeq(Take(pending, IovMax)) ELSE pending[1]

\* Mutant: the flag is forgotten.
StartedNot == UNCHANGED m_can_write_errror

Started == m_can_write_errror' = FALSE

\* socket_session::write_some
WriteSocket ==
    /\ pc = "write" /\ ~script.tls /\ ~dead
    /\ \/ /\ Offered = <<>>
          /\ Started /\ Wait /\ UNCHANGED <<wire, room, nospace>>
       \/ /\ Offered # <<>> /\ room = 0
          /\ nospace' = TRUE /\ Wait /\ UNCHANGED <<wire, room, m_can_write_errror>>
       \/ \E k \in 1 .. Min({Len(Offered), room}) :
            /\ wire' = wire \o Prefix(Offered, k) /\ room' = room - k
            /\ Started /\ Advance(k) /\ UNCHANGED nospace
    /\ UNCHANGED <<script, where, i, layers, conn, thrown, given, ssl, shared, event, dead, failed,
                   overlaid>>

\* Mutant: a retry takes the buffer as it was left.
PresentedBefore ==
    IF ssl # <<>> THEN shared
    ELSE IF ~calls[1].vectored \/ Len(pending) = 1 \/ Len(pending[1]) >= SendBuffer THEN pending[1]
    ELSE Take(FlattenSeq(pending), SendBuffer)

\* What ssl_socket_session hands to SSL_write: the first buffer if it is alone
\* or large, or all of them copied to the shared buffer.
Presented ==
    IF ~calls[1].vectored \/ Len(pending) = 1 \/ Len(pending[1]) >= SendBuffer THEN pending[1]
    ELSE Take(FlattenSeq(pending), SendBuffer)
Copied == calls[1].vectored /\ Len(pending) > 1 /\ Len(pending[1]) < SendBuffer

\* SSL_write, of OpenSSL, in the modes the server sets: a record that did not
\* go out is sent by the next call, whatever it is called with, if that is not
\* shorter.
SSL_write(data) ==
    LET record == IF ssl = <<>> THEN Take(data, Record) ELSE ssl
    IN  \/ /\ room = 0
           /\ ssl' = record /\ nospace' = TRUE /\ Wait /\ UNCHANGED <<wire, room, m_can_write_errror>>
        \/ /\ room > 0
           /\ wire' = wire \o record /\ ssl' = <<>> /\ room' = Max({0, room - Len(record)})
           /\ Started /\ Advance(Len(record)) /\ UNCHANGED nospace

WriteTls ==
    /\ pc = "write" /\ script.tls /\ ~dead /\ Len(Presented) >= Len(ssl)
    /\ shared' = IF Copied THEN Presented ELSE shared
    /\ SSL_write(Presented)
    /\ UNCHANGED <<script, where, i, layers, conn, thrown, given, event, dead, failed, overlaid>>

\* The connection is dead, or SSL_write is called with less than before.
WriteFails ==
    /\ pc = "write" /\ (dead \/ (script.tls /\ Len(Presented) < Len(ssl)))
    /\ Throw
    /\ UNCHANGED <<script, where, i, conn, m_can_write_errror, given, ssl, shared, socket, wire, overlaid>>

\* The loop resumes the session for an event, or with an error, which is the
\* same from then on.
Resume ==
    /\ pc = "yield" /\ given = "ok" /\ event
    /\ event' = FALSE /\ pc' = "write"
    /\ UNCHANGED <<script, where, i, layers, calls, pending, conn, m_can_write_errror, thrown, given, ssl,
                   shared, room, nospace, dead, wire, failed, overlaid>>
ResumeWithError ==
    /\ pc = "yield" /\ given' = "error"
    /\ Throw
    /\ UNCHANGED <<script, where, i, conn, m_can_write_errror, ssl, shared, socket, wire, overlaid>>

-----------------------------------------------------------------------------
(* The others: the client, and a session that uses the shared buffer *)

ClientReads ==
    /\ room < Room /\ room' = Room
    /\ event' = (event \/ nospace) /\ nospace' = FALSE
    /\ UNCHANGED <<script, pc, where, i, layers, calls, pending, conn, m_can_write_errror, thrown, given,
                   ssl, shared, dead, wire, failed, overlaid>>
ClientDies ==
    /\ pc \in {"write", "yield"} /\ dead' = TRUE /\ event' = TRUE
    /\ UNCHANGED <<script, pc, where, i, layers, calls, pending, conn, m_can_write_errror, thrown, given,
                   ssl, shared, room, nospace, wire, failed, overlaid>>
FellowWrites ==
    /\ pc = "yield" /\ script.tls /\ shared' = <<<<"fellow">>>>
    /\ UNCHANGED <<script, pc, where, i, layers, calls, pending, conn, m_can_write_errror, thrown, given,
                   ssl, socket, wire, failed, overlaid>>

SessionStep ==
    \/ SendHead \/ Operate \/ DestroyBuffer \/ DestroyChunked \/ Leave
    \/ Call \/ WriteSocket \/ WriteTls \/ WriteFails \/ Resume
Next == SessionStep \/ ResumeWithError \/ ClientReads \/ ClientDies \/ FellowWrites

Spec == Init /\ [][Next]_vars

\* The loop handles its events, quit_io_loop() resumes the session until it
\* ends, and the client reads.
QuitIoLoop == given = "error" /\ ResumeWithError
FairSpec == Spec /\ WF_vars(SessionStep \/ QuitIoLoop) /\ WF_vars(ClientReads)

-----------------------------------------------------------------------------
(* What a client makes of it: RFC 9112 *)

IsHex(u) == u[1] = "hex"
Incomplete(body) == [complete |-> FALSE, body |-> body, rest |-> <<>>]

\* The chunks of s, up to and with the last one.
Dechunk(s) ==
    LET digits(p) == {q \in p .. Len(s) : \A r \in p .. q : IsHex(s[r])}
        value[p \in 1 .. Len(s), q \in 0 .. Len(s)] == IF q < p THEN 0 ELSE value[p, q - 1] * 16 + s[q][2]
        line(p) == p < Len(s) /\ s[p] = CR /\ s[p + 1] = LF
        chunk[p \in 1 .. Len(s) + 1] ==
            IF digits(p) = {} THEN Incomplete(<<>>)
            ELSE LET q == Max(digits(p))
                     size == value[p, q]
                     end == q + 3 + size
                 IN  IF ~line(q + 1) \/ ~line(end) THEN Incomplete(<<>>)
                     ELSE IF size = 0 THEN [complete |-> TRUE, body |-> <<>>, rest |-> Rest(s, end + 1)]
                     ELSE LET more == chunk[end + 2]
                          IN  [more EXCEPT !.body = SubSeq(s, q + 3, end - 1) \o @]
    IN  chunk[1]

Received ==
    LET ends == {p \in DOMAIN wire : wire[p] = <<"end of head">>}
        end == Min(ends)
        field(name) == {p \in 1 .. end : wire[p][1] = name}
        body == Rest(wire, end)
        length == wire[Min(field("content-length"))][2]
    IN  IF ends = {} THEN Incomplete(<<>>)
        ELSE IF field("transfer-encoding") # {} THEN Dechunk(body)
        ELSE IF field("content-length") = {} THEN [complete |-> TRUE, body |-> <<>>, rest |-> body]
        ELSE [complete |-> Len(body) >= length, body |-> Take(body, length), rest |-> Rest(body, length)]

\* What the handler writes in all.
Data(op) == CASE op[1] = "writev" -> FlattenSeq(op[2]) [] op[1] = "put" -> <<op[2]>>
              [] op[1] \in {"write", "puts"} -> op[2] [] OTHER -> <<>>
Produced ==
    (IF script.res.status = 204 THEN <<>> ELSE script.res.body)
    \o FlattenSeq([k \in DOMAIN script.ops |-> Data(script.ops[k])])

-----------------------------------------------------------------------------
(* Properties *)

\* What write() was called for and what is done of it.
TypeOK ==
    /\ pc \in {"head", "ops", "flush", "close", "leave", "call", "write", "yield", "next", "closed"}
    /\ pc \in {"write", "yield"} <=> pending # <<>>
    /\ Len(m_buffer) <= Capacity
    /\ room \in 0 .. Room /\ m_keep_alive \in Nat

\* A connection that is kept is at the end of a response: its client has the
\* whole body, framed as announced, and nothing after it that it would take
\* for the next response.
FramingAgrees ==
    pc = "next" /\ ~dead => Received = [complete |-> TRUE, body |-> Produced, rest |-> <<>>]

\* A client that is told the response is complete has the bytes the handler
\* wrote, in that order; all of them if nothing was thrown.  What the
\* destructors write after a failure in the middle of a chunk does not pass
\* for the end of the body.
NeverGarbled ==
    Received.complete /\ ~overlaid =>
        \/ wire = ErrorResponse
        \/ /\ IsPrefix(Received.body, Produced)
           /\ Received.body # Produced => thrown \/ failed

\* "The server can only replace a response it has not started sending": the
\* error response goes out alone or not at all.
NotReplacedOnceStarted ==
    where = "error" /\ ~overlaid => IsPrefix(wire, ErrorResponse)

\* SSL_write is called again with what it was called with before, though the
\* buffer it was copied to has been used by another session.
RetriedAsBefore ==
    pc \in {"write", "yield"} /\ ~failed => IsPrefix(ssl, Presented)

\* A response gets out to a client that reads: no write waits for an event
\* that does not come.  That is so unless a vectored write to a socket starts
\* with as many empty buffers as writev() takes, which writes nothing.
ResponseEnds ==
    LET stuffed(op) == op[1] = "writev" /\ Len(op[2]) > IovMax /\ FlattenSeq(Prefix(op[2], IovMax)) = <<>>
        stuck == ~script.tls /\ ~script.chunked /\ \E k \in DOMAIN script.ops : stuffed(script.ops[k])
    IN  stuck \/ <>(pc \in {"next", "closed"})

\* "The server can only replace a response it has not started sending", over
\* TLS as well.
ReplacesOnlyWhole == where = "error" => IsPrefix(wire, ErrorResponse)
=============================================================================
