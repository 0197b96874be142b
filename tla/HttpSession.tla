----------------------------- MODULE HttpSession -----------------------------
(***************************************************************************)
(* basic_http_session: what the coroutine of one connection does between   *)
(* the bytes it receives and the responses it writes.  io_loop reads the   *)
(* head of a request, gives it to the handler of a plugin, which may read  *)
(* the body, answers, and goes on with the next request, or ends with an   *)
(* error response.                                                         *)
(*                                                                         *)
(* A step is one system call, one call of the parser, or one call of the   *)
(* handler; in between the peer may send.  A byte is a record: the request *)
(* it belongs to, its position in it, and its class.  The classes are a    *)
(* text byte, a line feed, and a byte that makes the parser throw; a body  *)
(* is made of the same classes, so that it can look like a head.  The      *)
(* limits and the grammar of the parser are not part of this module.       *)
(***************************************************************************)
EXTENDS Integers, Sequences, FiniteSetsExt

CONSTANTS
    Scripts,     \* the sequences of requests that a peer may send, and their handlers
    BufferSize,  \* the size of shared_read_buffer
    MaxYields    \* how often a handler calls yield() for one request

\* A request, as far as the session tells requests apart, and its handler: the
\* exceptions that it catches, and whether it reads before it answers.
Requests == [bad_head : BOOLEAN, body : Seq({"text", "lf", "bad"}), chunked : BOOLEAN,
             keep_alive : BOOLEAN, expect : BOOLEAN, claimed : BOOLEAN, orderly : BOOLEAN,
             catches : SUBSET {"malformed", "timed_out", "io_error", "refused", "status"}]

ASSUME HttpSessionAssumption ==
    /\ BufferSize \in Nat \ {0} /\ MaxYields \in Nat
    /\ Scripts \subseteq Seq(Requests)

VARIABLES
    script,      \* the requests of this peer
    arrived,     \* how many of their bytes have reached the socket
    taken,       \* how many of these read(2) has returned
    edge,        \* epoll has an event to report
    room,        \* the socket accepts bytes
    hung,        \* the peer has hung up
    pc, back,    \* where the coroutine is, and where it goes on after a yield or a write
    given,       \* m_yield.get(): what it was last resumed with
    m_pending, m_keep_alive, m_can_write_errror,
    m_head, m_remaining,    \* of m_parser
    req,         \* the bytes of the current request that were parsed
    wrote,       \* how far the handler is with its answer
    hasRead,     \* whether it has read the request, and with what outcome
    accepts,     \* it has registered a body callback with a sufficient limit
    yields,      \* its calls of yield() so far
    error,       \* the exception that is propagating
    piece,       \* what is being written
    served,      \* the requests that are done
    out          \* what the socket has accepted

socketVars == <<script, arrived, taken, edge, room, hung>>
parserVars == <<m_pending, m_head, m_remaining, req>>
handlerVars == <<wrote, hasRead, accepts, yields>>
vars == <<socketVars, pc, back, given, m_keep_alive, m_can_write_errror, parserVars,
          handlerVars, error, piece, served, out>>

-----------------------------------------------------------------------------
(* Requests as bytes *)

Bytes == [n : Nat, i : Nat, c : {"text", "lf", "bad"}]

HeadOf(s, n) ==
    <<[n |-> n, i |-> 1, c |-> IF s[n].bad_head THEN "bad" ELSE "text"],
      [n |-> n, i |-> 2, c |-> "lf"], [n |-> n, i |-> 3, c |-> "lf"]>>
BodyOf(s, n) == [j \in DOMAIN s[n].body |-> [n |-> n, i |-> 3 + j, c |-> s[n].body[j]]]
RequestOf(s, n) == HeadOf(s, n) \o BodyOf(s, n)

\* The first k of the sequences of r, one after the other.
Joined(r, k) == LET joined[i \in 0 .. k] == IF i = 0 THEN <<>> ELSE joined[i - 1] \o r[i] IN joined[k]

\* The bytes of the first k requests, and of all of them.
Upto(k) == Joined([n \in 1 .. k |-> RequestOf(script, n)], k)
Wire == Upto(Len(script))

current == served + 1

-----------------------------------------------------------------------------
(* The parser *)

IsBad(b) == b.c = "bad"
NoRequest == [head |-> <<>>, body |-> <<>>, state |-> "uninitialized"]

\* parse_head: whole lines are consumed; empty lines before the request line
\* are skipped, the one after the header fields ends the head.
ParseHead(data, start) ==
    LET lines == {e \in DOMAIN data : data[e].c = "lf"}
        begun(e) == start = "headers" \/ \E k \in 1 .. e : data[k].c # "lf"
        ends == {e \in lines : (e = 1 \/ e - 1 \in lines) /\ begun(e)}
        used == IF ends # {} THEN Min(ends) ELSE Max(lines \cup {0})
    IN  IF start = "done" THEN [used |-> 0, head |-> start, fails |-> FALSE]
        ELSE [used |-> used,
              head |-> IF ends # {} THEN "done" ELSE IF begun(used) THEN "headers" ELSE start,
              fails |-> \E k \in 1 .. used : IsBad(data[k])]

\* parse_body: at most what is left of the body is consumed.  It throws if
\* the session refuses the body, or if the framing is broken.
ParseBody(data) ==
    LET size == Min({m_remaining, Len(data)})
    IN  [used |-> size, fails |-> ~accepts \/ \E k \in 1 .. size : IsBad(data[k])]

\* finalize_head: whether a body follows.  What the head announces is the
\* body of the request that it is the head of.
Announced(head) == Len(script[head[Len(head)].n].body)

-----------------------------------------------------------------------------
(* Exceptions, yields and writes *)

Goto(x) == pc' = x

\* Mutant: what read_headers throws is not answered.
ThrowFromSilent(where, e) ==
    /\ error' = e
    /\ pc' = CASE where \in {"handler", "body"} -> "unwind"
               [] where \in {"headers", "break"} -> "shutdown"
               [] where = "shutdown" -> "gone"

\* An exception leaves the handler, the try block of io_loop, or, in a catch
\* of io_loop, the whole coroutine.
ThrowFrom(where, e) ==
    /\ error' = e
    /\ pc' = CASE where \in {"handler", "body"} -> "unwind"
               [] where \in {"headers", "break"} -> "catch"
               [] where = "shutdown" -> "gone"

\* Mutant: read() throws without the guard.
GiveUpNothing == m_keep_alive' = m_keep_alive /\ hasRead' = "failed"

\* The keep_alive_guard of read().
GiveUp == m_keep_alive' = FALSE /\ hasRead' = "failed"

YieldAt(x) == pc' = "yield" /\ back' = x

\* write(p): the pieces of the answer are written one by one.
Write(p, then) == pc' = "write" /\ back' = then /\ piece' = p

NoPiece == [n |-> 0, kind |-> "none", keep |-> FALSE, cause |-> "none"]
Answer(k, keep) == [n |-> current, kind |-> k, keep |-> keep, cause |-> "none"]

\* write_some: the socket takes the piece, or is full, ...
WriteSome ==
    /\ pc = "write"
    /\ \/ /\ room
          /\ out' = Append(out, piece)
          /\ m_can_write_errror' = FALSE
          /\ room' \in BOOLEAN
          /\ Goto(back)
          /\ wrote' = CASE piece.kind = "head" -> "head"
                        [] piece.kind = "body" -> "all"
                        [] OTHER -> wrote
       \/ /\ ~room
          /\ Goto("yield_write")
          /\ UNCHANGED <<out, m_can_write_errror, room, wrote>>
    /\ UNCHANGED <<script, arrived, taken, edge, hung, back, given, m_keep_alive, parserVars,
                   hasRead, accepts, yields, error, piece, served>>

\* ... or fails, and no later write succeeds.
WriteFails ==
    /\ pc = "write"
    /\ hung
    /\ room' = FALSE
    /\ ThrowFrom(back, "io_error")
    /\ UNCHANGED <<script, arrived, taken, edge, hung, back, given, m_keep_alive, m_can_write_errror, parserVars,
                   handlerVars, piece, served, out>>

\* What quit_io_loop is called with: the same error until the coroutine ends.
Errors == IF given # "ok" THEN {given} ELSE {"timed_out"} \cup {e \in {"io_error"} : hung}

\* The first event, or error, starts the coroutine; read_headers does not
\* look at it.
Start ==
    /\ pc = "start"
    /\ \/ edge /\ edge' = FALSE /\ UNCHANGED given
       \/ given' \in Errors /\ UNCHANGED edge
    /\ Goto("headers")
    /\ UNCHANGED <<script, arrived, taken, room, hung, back, m_keep_alive, m_can_write_errror,
                   parserVars, handlerVars, error, piece, served, out>>

\* The loop resumes the coroutine for an event.  A wake-up does the same.
Resume ==
    /\ pc \in {"yield", "yield_write"}
    /\ given = "ok" /\ edge
    /\ edge' = FALSE
    /\ Goto(IF pc = "yield" THEN back ELSE "write")
    /\ UNCHANGED <<script, arrived, taken, room, hung, back, given, m_keep_alive, m_can_write_errror,
                   parserVars, handlerVars, error, piece, served, out>>

WakeUp ==
    /\ pc = "yield" /\ back = "handler"
    /\ given = "ok"
    /\ Goto("handler")
    /\ UNCHANGED <<socketVars, back, given, m_keep_alive, m_can_write_errror, parserVars,
                   handlerVars, error, piece, served, out>>

\* It is resumed with an error when the peer has hung up and when its
\* deadline has passed, and then with the same one until it ends.  read()
\* gives up the keep alive; a handler may ignore what yield() returns.
ResumeWithError ==
    /\ pc \in {"yield", "yield_write"}
    /\ given' \in Errors
    /\ \/ ThrowFrom(back, given')
       \/ pc = "yield" /\ back = "handler" /\ Goto("handler") /\ UNCHANGED error
    /\ IF pc = "yield" /\ back = "body" THEN GiveUp ELSE UNCHANGED <<m_keep_alive, hasRead>>
    /\ UNCHANGED <<socketVars, back, m_can_write_errror, parserVars, wrote, accepts, yields, piece, served, out>>

-----------------------------------------------------------------------------
(* read_headers *)

\* Mutant: m_pending.assign(data) for what is to be kept.
KeptAlone(data) == data

\* m_pending.append(data)
Kept(data) == m_pending \o data

\* The request is given to io_loop, or the coroutine goes on to x.
HeadParsed(p, data, x) ==
    LET head == req.head \o SubSeq(data, 1, p.used)
        body == Announced(head)
    IN  /\ m_head' = p.head
        /\ m_remaining' = IF p.head = "done" THEN body ELSE 0
        /\ req' = [req EXCEPT !.head = head,
                              !.state = IF p.head # "done" THEN "processing_head"
                                        ELSE IF body = 0 THEN "completed" ELSE "headers_completed"]
        /\ Goto(IF p.head = "done" THEN "route" ELSE x)

\* Mutant: an incomplete head waits for the next event, whatever the socket
\* holds already.
HeadPendingWaits ==
    /\ pc = "headers"
    /\ LET start == IF req.state = "uninitialized" THEN "request_line" ELSE m_head
           p == ParseHead(m_pending, start)
       IN  IF m_pending = <<>>
           THEN Goto("read_head") /\ UNCHANGED <<parserVars, error, back>>
           ELSE /\ ~p.fails
                /\ HeadParsed(p, m_pending, "yield")
                /\ back' = IF p.head = "done" THEN back ELSE "headers"
                /\ m_pending' = SubSeq(m_pending, p.used + 1, Len(m_pending))
                /\ UNCHANGED error
    /\ UNCHANGED <<socketVars, given, m_keep_alive, m_can_write_errror, handlerVars, piece, served, out>>

\* A fresh request resets the parser, and what is pending is parsed first.
HeadPending ==
    /\ pc = "headers"
    /\ LET start == IF req.state = "uninitialized" THEN "request_line" ELSE m_head
           p == ParseHead(m_pending, start)
       IN  IF m_pending = <<>>
           THEN Goto("read_head") /\ UNCHANGED <<parserVars, error>>
           ELSE IF p.fails
           THEN ThrowFrom("headers", "malformed") /\ UNCHANGED parserVars
           ELSE /\ HeadParsed(p, m_pending, "read_head")
                /\ m_pending' = SubSeq(m_pending, p.used + 1, Len(m_pending))
                /\ UNCHANGED error
    /\ UNCHANGED <<socketVars, back, given, m_keep_alive, m_can_write_errror, handlerVars, piece, served, out>>

\* read_some returns what has arrived, as much as fits in the buffer.
Received == SubSeq(Wire, taken + 1, Min({arrived, taken + BufferSize}))

\* The socket is empty, or the bytes are parsed if nothing is pending and
\* appended to what is pending.
ReadHead ==
    /\ pc = "read_head"
    /\ IF taken = arrived
       THEN YieldAt("headers") /\ UNCHANGED <<taken, m_can_write_errror, parserVars, error>>
       ELSE LET start == IF req.state = "uninitialized" THEN "request_line" ELSE m_head
                p == ParseHead(Received, start)
            IN  /\ taken' = taken + Len(Received)
                /\ m_can_write_errror' = TRUE
                /\ IF m_pending # <<>>
                   THEN /\ m_pending' = Kept(Received)
                        /\ Goto("headers")
                        /\ UNCHANGED <<m_head, m_remaining, req, error>>
                   ELSE IF p.fails
                   THEN ThrowFrom("headers", "malformed") /\ UNCHANGED parserVars
                   ELSE /\ HeadParsed(p, Received, "headers")
                        /\ m_pending' = SubSeq(Received, p.used + 1, Len(Received))
                        /\ UNCHANGED error
                /\ UNCHANGED back
    /\ UNCHANGED <<script, arrived, edge, room, hung, given, m_keep_alive, handlerVars, piece, served, out>>

\* A dead socket: read_some reports an error.
ReadFails ==
    /\ pc \in {"read_head", "read_body"}
    /\ hung
    /\ ThrowFrom(IF pc = "read_head" THEN "headers" ELSE "body", "io_error")
    /\ IF pc = "read_body" THEN GiveUp ELSE UNCHANGED <<m_keep_alive, hasRead>>
    /\ UNCHANGED <<socketVars, back, given, m_can_write_errror, parserVars, wrote, accepts, yields, piece,
                   served, out>>

-----------------------------------------------------------------------------
(* read *)

\* The body is complete and read() returns to the handler, or x.
BodyParsed(p, data, x) ==
    /\ m_remaining' = m_remaining - p.used
    /\ req' = [req EXCEPT !.body = @ \o SubSeq(data, 1, p.used),
                          !.state = IF m_remaining' = 0 THEN "completed" ELSE "processing_body"]
    /\ Goto(IF m_remaining' = 0 THEN "handler" ELSE x)
    /\ hasRead' = IF m_remaining' = 0 THEN "done" ELSE hasRead

BodyPending ==
    /\ pc = "body"
    /\ m_can_write_errror' = TRUE
    /\ LET p == ParseBody(m_pending)
       IN  IF m_pending = <<>>
           THEN Goto("read_body") /\ UNCHANGED <<parserVars, hasRead, m_keep_alive, error>>
           ELSE IF p.fails
           THEN ThrowFrom("body", "malformed") /\ GiveUp /\ UNCHANGED parserVars
           ELSE /\ BodyParsed(p, m_pending, "read_body")
                /\ m_pending' = SubSeq(m_pending, p.used + 1, Len(m_pending))
                /\ UNCHANGED <<m_head, m_keep_alive, error>>
    /\ UNCHANGED <<socketVars, back, given, wrote, accepts, yields, piece, served, out>>

ReadBody ==
    /\ pc = "read_body"
    /\ IF taken = arrived
       THEN YieldAt("body") /\ UNCHANGED <<taken, parserVars, hasRead, m_keep_alive, error>>
       ELSE LET p == ParseBody(Received)
            IN  /\ taken' = taken + Len(Received)
                /\ IF m_pending # <<>>
                   THEN /\ m_pending' = Kept(Received)
                        /\ Goto("body")
                        /\ UNCHANGED <<m_head, m_remaining, req, hasRead, m_keep_alive, error>>
                   ELSE IF p.fails
                   THEN ThrowFrom("body", "malformed") /\ GiveUp /\ UNCHANGED parserVars
                   ELSE /\ BodyParsed(p, Received, "body")
                        /\ m_pending' = SubSeq(Received, p.used + 1, Len(Received))
                        /\ UNCHANGED <<m_head, m_keep_alive, error>>
                /\ UNCHANGED back
    /\ UNCHANGED <<script, arrived, edge, room, hung, given, m_can_write_errror, wrote, accepts, yields,
                   piece, served, out>>

-----------------------------------------------------------------------------
(* The handler: any code that reads the request at most once, answers once,
   and yields or throws anywhere.  An orderly one reads the request before it
   answers, and prolongs no keep alive. *)

\* A request that announces a length over the limit of the body callback.
Refused(r, accepted) == r.body # <<>> /\ ~r.chunked /\ ~accepted

\* operator>>: Expect: 100-continue is answered, or refused with 417; read()
\* of a request that is complete returns at once.
HandlerReads ==
    /\ pc = "handler"
    /\ hasRead = "no"
    /\ script[current].orderly => wrote = "no"
    /\ accepts' \in BOOLEAN
    /\ \/ /\ script[current].expect /\ Refused(script[current], accepts')
          /\ ThrowFrom("handler", "refused")
          /\ UNCHANGED <<back, piece, hasRead>>
       \/ /\ script[current].expect /\ ~Refused(script[current], accepts')
          /\ Write(Answer("continue", FALSE), IF req.state = "completed" THEN "handler" ELSE "body")
          /\ hasRead' = IF req.state = "completed" THEN "done" ELSE "no"
          /\ UNCHANGED error
       \/ /\ ~script[current].expect
          /\ Goto(IF req.state = "completed" THEN "handler" ELSE "body")
          /\ hasRead' = IF req.state = "completed" THEN "done" ELSE "no"
          /\ UNCHANGED <<back, piece, error>>
    /\ UNCHANGED <<socketVars, given, m_keep_alive, m_can_write_errror, parserVars, wrote, yields,
                   served, out>>

\* stream << response{...}, which may override the keep alive, and then the
\* body of the response.
HandlerWrites ==
    /\ pc = "handler"
    /\ \/ /\ wrote = "no"
          /\ script[current].orderly => hasRead # "no"
          /\ m_keep_alive' \in BOOLEAN
          /\ script[current].orderly => (m_keep_alive' => m_keep_alive)
          /\ Write(Answer("head", m_keep_alive'), "handler")
       \/ /\ wrote = "head"
          /\ Write(Answer("body", FALSE), "handler")
          /\ UNCHANGED m_keep_alive
    /\ UNCHANGED <<socketVars, given, m_can_write_errror, parserVars, handlerVars,
                   error, served, out>>

HandlerYields ==
    /\ pc = "handler"
    /\ yields < MaxYields
    /\ yields' = yields + 1
    /\ YieldAt("handler")
    /\ UNCHANGED <<socketVars, given, m_keep_alive, m_can_write_errror, parserVars, wrote, hasRead, accepts,
                   error, piece, served, out>>

HandlerThrows ==
    /\ pc = "handler"
    /\ ThrowFrom("handler", "status")
    /\ UNCHANGED <<socketVars, back, given, m_keep_alive, m_can_write_errror, parserVars,
                   handlerVars, piece, served, out>>

\* A handler may catch an exception, and answer itself if it has not begun
\* to, or return, as the one of /server_status does: once, since what it
\* writes then is outside of its try block.
HandlerCatches ==
    /\ pc = "unwind"
    /\ error \in script[current].catches /\ hasRead # "caught"
    /\ error' = "none"
    /\ Goto(IF wrote = "no" THEN "handler" ELSE "after")
    /\ hasRead' = "caught"
    /\ UNCHANGED <<socketVars, back, given, m_keep_alive, m_can_write_errror, parserVars,
                   wrote, accepts, yields, piece, served, out>>

HandlerUnwinds ==
    /\ pc = "unwind"
    /\ Goto("catch")
    /\ UNCHANGED <<socketVars, back, given, m_keep_alive, m_can_write_errror, parserVars,
                   handlerVars, error, piece, served, out>>

HandlerReturns ==
    /\ pc = "handler"
    /\ wrote = "all"
    /\ script[current].orderly => hasRead # "no"
    /\ Goto("after")
    /\ UNCHANGED <<socketVars, back, given, m_keep_alive, m_can_write_errror, parserVars,
                   handlerVars, error, piece, served, out>>

-----------------------------------------------------------------------------
(* io_loop *)

\* set_keep_alive and create_session: no plugin claims the url, or its
\* handler is called.
Route ==
    /\ pc = "route"
    /\ m_keep_alive' = script[current].keep_alive
    /\ IF script[current].claimed
       THEN Goto("handler") /\ UNCHANGED <<back, piece>>
       ELSE Write([n |-> current, kind |-> "error", keep |-> FALSE, cause |-> "unclaimed"], "break")
    /\ wrote' = "no" /\ hasRead' = "no" /\ accepts' = FALSE /\ yields' = 0
    /\ UNCHANGED <<socketVars, given, m_can_write_errror, parserVars, error, served, out>>

\* Mutant: the state of the request is not looked at.
ReusableUnread == m_keep_alive

\* Nothing of the request is left on the connection.
Reusable == m_keep_alive /\ req.state = "completed"

\* After the handler: an unread request ends the connection, otherwise the
\* next request is read from it.
After ==
    /\ pc = "after"
    /\ m_keep_alive' = Reusable
    /\ Goto(IF given = "ok" /\ Reusable THEN "headers" ELSE "shutdown")
    /\ served' = served + 1
    /\ req' = NoRequest
    /\ UNCHANGED <<socketVars, back, given, m_can_write_errror, m_pending, m_head, m_remaining,
                   handlerVars, error, piece, out>>

\* Mutant: an error response whatever was written before.
CatchAlways ==
    /\ pc = "catch"
    /\ Write([n |-> current, kind |-> "error", keep |-> FALSE, cause |-> error], "shutdown")
    /\ UNCHANGED <<socketVars, given, m_keep_alive, m_can_write_errror, parserVars, handlerVars,
                   error, served, out>>

\* The catch clauses.
Catch ==
    /\ pc = "catch"
    /\ IF m_can_write_errror
       THEN Write([n |-> current, kind |-> "error", keep |-> FALSE, cause |-> error], "shutdown")
       ELSE Goto("shutdown") /\ UNCHANGED <<back, piece>>
    /\ UNCHANGED <<socketVars, given, m_keep_alive, m_can_write_errror, parserVars, handlerVars,
                   error, served, out>>

\* shutdown(): the end of the connection, also after the break.
Shutdown ==
    /\ pc \in {"break", "shutdown"}
    /\ Goto("closed")
    /\ UNCHANGED <<socketVars, back, given, m_keep_alive, m_can_write_errror, parserVars, handlerVars,
                   error, piece, served, out>>

-----------------------------------------------------------------------------
(* The peer *)

Alive == pc \notin {"closed", "gone"}

\* Bytes arrive, and epoll reports the edge.
PeerSends ==
    /\ Alive /\ ~hung
    /\ \E k \in 1 .. Len(Wire) - arrived : arrived' = arrived + k
    /\ edge' = TRUE
    /\ UNCHANGED <<script, taken, room, hung, pc, back, given, m_keep_alive, m_can_write_errror,
                   parserVars, handlerVars, error, piece, served, out>>

\* The socket accepts bytes again.
PeerReads ==
    /\ Alive /\ ~hung /\ ~room
    /\ room' = TRUE
    /\ edge' = TRUE
    /\ UNCHANGED <<script, arrived, taken, hung, pc, back, given, m_keep_alive, m_can_write_errror,
                   parserVars, handlerVars, error, piece, served, out>>

PeerHangsUp ==
    /\ Alive /\ ~hung
    /\ hung' = TRUE
    /\ UNCHANGED <<script, arrived, taken, edge, room, pc, back, given, m_keep_alive, m_can_write_errror,
                   parserVars, handlerVars, error, piece, served, out>>

-----------------------------------------------------------------------------

Init ==
    /\ script \in Scripts
    /\ arrived = 0 /\ taken = 0
    /\ edge = TRUE /\ room = TRUE /\ hung = FALSE
    /\ pc = "start" /\ back = "headers" /\ given = "ok"
    /\ m_pending = <<>> /\ m_keep_alive = FALSE /\ m_can_write_errror = FALSE
    /\ m_head = "request_line" /\ m_remaining = 0 /\ req = NoRequest
    /\ wrote = "no" /\ hasRead = "no" /\ accepts = FALSE /\ yields = 0
    /\ error = "none" /\ piece = NoPiece
    /\ served = 0 /\ out = <<>>

Coroutine ==
    \/ HeadPending \/ ReadHead \/ ReadFails \/ BodyPending \/ ReadBody
    \/ WriteSome \/ WriteFails
    \/ Route \/ After \/ Catch \/ Shutdown

Handler ==
    \/ HandlerReads \/ HandlerWrites \/ HandlerYields \/ HandlerThrows
    \/ HandlerCatches \/ HandlerUnwinds \/ HandlerReturns

Loop == Start \/ Resume \/ WakeUp \/ ResumeWithError

Peer == PeerSends \/ PeerReads \/ PeerHangsUp

Ended == ~Alive /\ UNCHANGED vars

Next == Coroutine \/ Handler \/ Loop \/ Peer \/ Ended

Spec == Init /\ [][Next]_vars

\* The loop's thread runs the coroutine and resumes it for events, handlers
\* finish, a worker wakes up the handler that waits for it, and the peer
\* reads what it is sent.  It need not send anything, and no deadline passes.
FairSpec ==
    /\ Spec
    /\ WF_vars(Coroutine) /\ WF_vars(Handler) /\ WF_vars(Start) /\ WF_vars(Resume) /\ WF_vars(WakeUp)
    /\ WF_vars(ResumeWithError /\ (hung \/ given # "ok")) /\ WF_vars(PeerReads)

-----------------------------------------------------------------------------
(* Properties *)

TypeOK ==
    /\ arrived \in 0 .. Len(Wire) /\ taken \in 0 .. arrived
    /\ {edge, room, hung, m_keep_alive, m_can_write_errror, accepts} \subseteq BOOLEAN
    /\ pc \in {"start", "headers", "read_head", "route", "handler", "body", "read_body", "write", "yield",
               "yield_write", "unwind", "after", "catch", "break", "shutdown", "closed", "gone"}
    /\ m_remaining \in Nat /\ yields \in 0 .. MaxYields
    /\ served \in 0 .. Len(script)

\* What the parser has consumed and what is pending are together the bytes
\* that were read, in order: none is lost, duplicated or parsed twice, in
\* whatever pieces they arrive and however often the session yields, for as
\* long as the connection may be reused (m_pending in read_headers and read).
NoByteLost ==
    /\ hasRead \notin {"failed", "caught"}
    /\ pc \in {"headers", "read_head", "route", "handler", "body", "read_body", "yield", "after"}
    =>
        Upto(served) \o req.head \o req.body \o m_pending = SubSeq(Wire, 1, taken)

\* What a handler is given is the request that the peer sent in its place:
\* neither the unread body of an earlier request nor a part of another one
\* is ever taken for a request (the check of req.state() after the handler).
RequestIntact ==
    pc \in {"route", "handler", "body", "read_body", "after"} =>
        /\ req.head = HeadOf(script, current)
        /\ \E k \in 0 .. Len(script[current].body) : req.body = SubSeq(BodyOf(script, current), 1, k)
        /\ req.state = "completed" => req.body = BodyOf(script, current)

Begins(p) == p.kind \in {"head", "error"}

\* A response begins only after the one before it is complete, and answers a
\* later request: an exception adds no second response, and none in the
\* middle of another (m_can_write_errror), whatever the handler does.
OneAnswerEach ==
    \A i, j \in DOMAIN out : i < j /\ Begins(out[i]) /\ Begins(out[j]) =>
        /\ out[i].n < out[j].n
        /\ out[i].kind = "head" =>
               \E k \in i + 1 .. j - 1 : out[k].kind = "body" /\ out[k].n = out[i].n

\* Every handler reads the request first, and lets the exceptions go that say
\* that it did not.
Disciplined == \A i \in DOMAIN script :
    script[i].orderly /\ script[i].catches \cap {"refused", "status"} = {}

\* The same, of handlers that read the request before they answer, as
\* operator>> asks them to.
OneAnswerIfReadFirst == Disciplined => OneAnswerEach

\* A connection that the server closes although nobody failed was announced
\* to close: the last response did not advertise a keep alive that the server
\* then drops.
KeepAliveHonest ==
    pc = "closed" /\ error = "none" /\ given = "ok" /\ ~hung =>
        \E i \in DOMAIN out :
            ~out[i].keep /\ Begins(out[i]) /\ \A j \in i + 1 .. Len(out) : ~Begins(out[j])

\* The same, of handlers that read the request before they answer
\* (keep_alive_guard in read) and do not answer after the 417 of operator>>,
\* which is thrown outside the guard.
KeepAliveHonestIfReadFirst == Disciplined => KeepAliveHonest

\* An exception of a handler that has written nothing, or of the parser, is
\* answered with an error response (the catch clauses of io_loop).
ErrorIsAnswered ==
    pc = "closed" /\ error \in {"status", "refused", "malformed"} /\ given = "ok" /\ ~hung =>
        \E i \in DOMAIN out : Begins(out[i]) /\ out[i].n = current

\* The same, where a read has raised m_can_write_errror since the last write:
\* for the first request of a connection, and for a body that read() refuses.
\* (An Expect without a body is answered with 100 and not followed by a read.)
FreshErrorIsAnswered ==
    hasRead = "failed" \/ (served = 0 /\ (script[1].expect => script[1].body # <<>>)) => ErrorIsAnswered

-----------------------------------------------------------------------------
(* The inductive invariant *)

\* Where the coroutine is, or goes on after the yield or the write.
Suspended == {"yield", "write", "yield_write"}
Writing == pc \in {"write", "yield_write"}
Place == IF pc \in Suspended THEN back ELSE pc

ReadsHead == Place \in {"start", "headers", "read_head"}
HasRequest == Place \in {"route", "handler", "body", "read_body", "unwind", "after"}

Parsed == [head : Seq(Bytes), body : Seq(Bytes),
           state : {"uninitialized", "processing_head", "headers_completed", "processing_body", "completed"}]
Causes == {"none", "unclaimed", "malformed", "timed_out", "io_error", "refused", "status"}
Pieces == [n : Nat, kind : {"continue", "head", "body", "error"}, keep : BOOLEAN, cause : Causes]

TypeInv ==
    /\ script \in Scripts
    /\ arrived \in 0 .. Len(Wire) /\ taken \in 0 .. arrived
    /\ edge \in BOOLEAN /\ room \in BOOLEAN /\ hung \in BOOLEAN
    /\ m_keep_alive \in BOOLEAN /\ m_can_write_errror \in BOOLEAN /\ accepts \in BOOLEAN
    /\ pc \in {"start", "headers", "read_head", "route", "handler", "body", "read_body", "write", "yield",
               "yield_write", "unwind", "after", "catch", "break", "shutdown", "closed", "gone"}
    /\ pc = "yield" => back \in {"headers", "handler", "body"}
    /\ Writing => back \in {"handler", "body", "break", "shutdown"}
    /\ given \in {"ok", "timed_out", "io_error"}
    /\ m_head \in {"request_line", "headers", "done"} /\ m_remaining \in Nat
    /\ m_pending \in Seq(Bytes)
    /\ req \in Parsed
    /\ wrote \in {"no", "head", "all"} /\ hasRead \in {"no", "done", "failed", "caught"}
    /\ yields \in 0 .. MaxYields
    /\ error \in {"none", "malformed", "timed_out", "io_error", "refused", "status"}
    /\ served \in 0 .. Len(script)
    /\ out \in Seq(Pieces)

\* The parser has consumed a part of what was read, and the rest is pending.
Consumed == Len(Upto(served)) + Len(req.head) + Len(req.body)
InStep == Consumed <= taken /\ m_pending = SubSeq(Wire, Consumed + 1, taken)

\* Before the head is complete, nothing or the request line of the current
\* request is consumed.
HeadInv ==
    ReadsHead =>
        /\ InStep /\ req.body = <<>>
        /\ \/ /\ req.head = <<>>
              /\ req.state = "uninitialized" \/ (req.state = "processing_head" /\ m_head = "request_line")
           \/ /\ current <= Len(script) /\ ~script[current].bad_head
              /\ req.head = SubSeq(HeadOf(script, current), 1, 2)
              /\ req.state = "processing_head" /\ m_head = "headers"

\* Afterwards the whole head and a part of the body; read() that threw has
\* perhaps lost bytes, but then the request stays incomplete.
RequestInv ==
    HasRequest =>
        /\ current <= Len(script)
        /\ req.head = HeadOf(script, current)
        /\ m_remaining <= Len(script[current].body)
        /\ req.body = SubSeq(BodyOf(script, current), 1, Len(script[current].body) - m_remaining)
        /\ req.state = "completed" <=> m_remaining = 0
        /\ req.state # "uninitialized" /\ req.state # "processing_head"
        /\ InStep \/ (pc # "route" /\ m_remaining > 0 /\ hasRead \in {"failed", "caught"})
        /\ Place \in {"body", "read_body"} => m_remaining > 0 /\ hasRead = "no"
        /\ pc = "route" => req.body = <<>>
        /\ pc # "route" /\ hasRead = "no" /\ m_remaining = 0 => script[current].body = <<>>
        /\ pc # "route" /\ hasRead = "done" => m_remaining = 0

\* What is written, and when an exception is propagating.
ControlInv ==
    /\ Writing =>
           /\ piece \in Pieces
           /\ piece.n = current
           /\ back = "body" => piece.kind = "continue"
           /\ back = "handler" =>
                  \/ /\ piece.kind = "continue" /\ hasRead = "done"
                     /\ script[current].expect /\ script[current].body = <<>>
                  \/ piece.kind = "head" /\ wrote = "no" /\ piece.keep = m_keep_alive
                  \/ piece.kind = "body" /\ wrote = "head"
           /\ back \in {"break", "shutdown"} => piece.kind = "error" /\ ~piece.keep
    /\ Place \in {"unwind", "catch", "gone"} \/ (Writing /\ back = "shutdown") => error # "none"
    /\ ReadsHead \/ Place \in {"route", "handler", "body", "read_body", "after", "break"} => error = "none"
    /\ hasRead = "failed" => Place \in {"unwind", "catch", "shutdown", "closed", "gone"}
    /\ pc = "after" => wrote # "no"
    /\ pc = "read_body" => m_can_write_errror

Answered == \E i \in DOMAIN out : Begins(out[i]) /\ out[i].n = current

\* Until it is answered, the error of the first request, or of read(), can
\* still be answered.
OwedInv ==
    /\ HasRequest /\ pc # "route" /\ wrote # "no" => Answered
    /\ given = "ok" /\ ~hung /\ ~Answered =>
           /\ hasRead = "failed" =>
                  \/ pc \in {"unwind", "catch"} /\ m_can_write_errror
                  \/ Writing /\ back = "shutdown"
           /\ served = 0 /\ (script[1].expect => script[1].body # <<>>) =>
                  \/ ReadsHead /\ (taken > 0 => m_can_write_errror)
                  \/ HasRequest /\ (m_can_write_errror \/ Place = "body")
                  \/ pc = "catch" /\ m_can_write_errror
                  \/ Writing /\ back \in {"break", "shutdown"}

IsLast(i) == Begins(out[i]) /\ \A j \in i + 1 .. Len(out) : ~Begins(out[j])
IsComplete(i) == out[i].kind = "head" => \E k \in i + 1 .. Len(out) : out[k].kind = "body" /\ out[k].n = out[i].n

\* No write succeeds any more.
Frozen == hung /\ ~room

\* The next response may begin; the current one has begun; the last one says
\* that the connection closes.
MayBegin ==
    /\ \A i \in DOMAIN out : Begins(out[i]) => out[i].n <= served
    /\ Frozen \/ \A i \in DOMAIN out : IsLast(i) => IsComplete(i)
HasBegun == \E i \in DOMAIN out :
    /\ IsLast(i) /\ out[i].n = current /\ out[i].kind = "head" /\ out[i].keep = m_keep_alive
    /\ wrote = "all" => IsComplete(i)
LastCloses == \E i \in DOMAIN out : IsLast(i) /\ ~out[i].keep

AnswersInv ==
    Disciplined =>
        /\ OneAnswerEach
        /\ ReadsHead \/ pc = "route" => MayBegin
        /\ HasRequest /\ pc # "route" =>
               /\ wrote = "no" => MayBegin
               /\ wrote # "no" => HasBegun /\ ~m_can_write_errror /\ hasRead \in {"done", "caught"}
               /\ Place \in {"body", "read_body"} => wrote = "no"
               /\ Writing /\ piece.kind = "head" => hasRead # "no"
               /\ pc = "unwind" /\ error \notin {"refused", "status"} =>
                      hasRead = "failed" \/ given # "ok" \/ Frozen
               /\ pc = "after" /\ wrote = "head" => given # "ok" \/ Frozen
               /\ hasRead \in {"failed", "caught"} => ~m_keep_alive \/ m_remaining = 0 \/ given # "ok" \/ Frozen
        /\ pc = "catch" /\ m_can_write_errror => MayBegin
        /\ Writing /\ back \in {"break", "shutdown"} => MayBegin
        /\ pc = "break" \/ (pc \in {"shutdown", "closed"} /\ error = "none" /\ given = "ok" /\ ~hung) =>
               LastCloses

Inv == TypeInv /\ HeadInv /\ RequestInv /\ ControlInv /\ OwedInv /\ AnswersInv

\* A request that has arrived is served, or the connection ends: the edges
\* of epoll that are consumed while the session waits for something else,
\* or while it has unparsed bytes, are not missed.
RequestIsServed ==
    \A n \in 1 .. 2 : (n <= Len(script) /\ arrived >= Len(Upto(n))) ~> (served >= n \/ ~Alive)

=============================================================================
