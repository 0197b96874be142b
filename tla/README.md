# Verification of dracon

TLA+ models of dracon, a C++ HTTP server in which every connection is a
coroutine on one of several epoll threads.  TLC checks the models on small
instances; TLAPS proves the main safety properties for every number of sessions,
loops, threads and tasks, and for any requests, routes, files and plugins.

## 1. The system and its parts

| part | source | modules |
|---|---|---|
| accepting thread, server life cycle | `src/server/server.cpp` | `Server` |
| event loop: epoll, wake-ups, deferred deletion | `src/server/sessions_event_loop.*` | `EventLoop` |
| session object, its coroutine, its wake-up handles | `src/server/server_session.*` | `ServerSession` |
| deadlines of the sessions of a loop | `sessions_event_loop.cpp`, `server_session.h`, `streams.cpp` | `Deadlines` |
| pool of threads for blocking work | `include/dracon/thread_worker.h` | `ThreadWorker`, abstract: `TaskQueue` |
| HTTP session: keep alive, pipelining, error responses | `src/server/streams.cpp`, `include/dracon/http.h` | `HttpSession` |
| responses, vectored writes, TLS writes, chunked and buffered streams | `src/server/streams.cpp`, `include/dracon/stream.h`, `include/dracon/http.h` | `ResponseStream` |
| request parser | `src/server/http_parser.h` | `HttpParser` |
| REST router | `include/dracon/restful.h`, `include/dracon/utils.h` | `Router` |
| LRU cache | `include/dracon/utils.h` | `LruCache` |
| static content plugin: file cache and its timer | `src/plugins/static_content`, `include/dracon/utils.h` | `FileCache` |
| loading, sorting and asking of plugins | `src/server/server_plugin.cpp`, `src/server/server.cpp` | `Plugins` |
| plugin of the project template | `template/src/main.cpp` | `RestPlugin`, abstract: `DeviceList` |
| start-up, logging, certbot plugin, test plugin | | not modelled, see section 6 |

How they interact: the accepting thread creates a session for each connection
and registers it with the least loaded loop.  The loop's thread resumes the
session's coroutine on epoll events, on wake-ups, and with an error when its
deadline has passed or the peer hangs up.  A handler may pass its `wakeupper` to
a task of a `thread_worker`; that thread later puts the session's address in the
loop's `m_wakeup_sessions` and writes to its eventfd.  A session that is over
puts itself in `m_delete_later_objects`, and the loop deletes it at the end of
the iteration.  Four kinds of threads therefore share the sets of a loop.

Within a session, `read_headers` feeds the parser, `create_session` asks the
plugins in their order, a plugin asks its router, and the handler that comes out
of it reads the body through the parser and writes its answer through the
stream layers.  Handlers of different loops run in parallel and share the state
of their plugin: the file cache, or the devices of the template.

## 2. The models

### ServerSession, EventLoop, Server

`Server` EXTENDS `EventLoop` EXTENDS `ServerSession`; together they are one
specification of all threads.

A member of `Sessions` is an *address*.  An address is reused after a delete,
because `wakeupper` and `m_wakeup_sessions` hold raw pointers that outlive the
object.  State and code correspond as follows.

| variable | code |
|---|---|
| `alive` | objects that exist, `server::m_active_sessions` |
| `coroutine` | `m_io_yield`: not started, suspended, over |
| `epoll` | the socket in the epoll set and the edge that is still to be reported |
| `m_sessions`, `m_delete_later`, `m_active_sessions`, `m_wakeup_sessions`, `m_quit` | members of the same names, per loop |
| `event_fd` | the counter of `m_event_fd` is not 0 |
| `pc`, `events`, `todo`, `wokeup` | position and locals of `loop()` |
| `wakeuppers`, `signalling` | handles held by worker threads; those between insert and `eventfd_write` |
| `accept`, `addr`, `best_loop`, `candidate`, `session`, `stopping` | position and locals of `server::exec` |

One action is one critical section, one system call, or one call of a handler,
so every point at which another thread can come between two shared accesses is
an interleaving point.  The exceptions:

* `delete_later` (erase, `EPOLL_CTL_DEL`, count, insert) and the destructor of a
  session are one step.  A loop's thread does both; the only other thread that
  looks at these sets in between is the accepting thread, which inserts another
  session and reads the counter of a loop to balance.
* All ready descriptors are reported by one `epoll_wait`.  The array holds
  10,000 events; what does not fit is reported by the next call.
* The eventfd is level-triggered in the model.  It is always drained before
  the next `epoll_wait`, so the edge trigger of the code sees the same signals.
* With workload balancing the events of a batch are sorted by `order()`.  The
  model takes them in any order, which contains the sorted one.
* A worker holds at most one handle per session at a time.
* Which deadlines are due is nondeterministic here and exact in `Deadlines`.  A
  session that is being registered is not due: its first timeout is seconds.
* Unloading the plugins may hang, because a plugin's own threads may (the pool of
  `ThreadWorker_destructor` in section 4); `exec` then stops there (`accept = "hung"`).

Failures that are modelled: a constructor that throws, `EPOLL_CTL_ADD` that
fails, an exception that leaves a handler, a hang-up at any moment, an
interrupted `epoll_wait`.  A failing allocation inside `insert` is not,
nor is an exception that leaves the accept loop and with it `exec`.

Three constants switch environment behaviour on:

* `StaleReuse`: the allocator reuses an address while a wake-up for it is
  outstanding;
* `ScanRace`: the `delete` after a failed `EPOLL_CTL_ADD` meets a timeout scan
  whose snapshot holds the session;
* `LateTasks`: a worker task still runs when the loops are destroyed.

All three are possible in the program.  With them off the server is correct in
the sense of the properties below; each of them on gives a counterexample
(section 4).

### Deadlines

`m_earliest_deadline` is a lower bound of the deadlines of a loop's sessions,
lowered by any thread and cleared and rebuilt by the loop.  Time is relative: a
deadline counts the ticks that are left, so the state space is finite without a
bound on the run.  `Never` is `time_point::max()`, the `-1` of `epoll_wait`, and
a session without deadline.  The compare-and-exchange loop of `notify_deadline`
is an atomic minimum.  The 50 ms of slack in the sleep are one tick.  `Tick`
assumes that registering a session takes less than its first timeout, and
configured timeouts are positive.

A session in `Secured` has a TLS handshake between its first event and the HTTP
session.  The constructor of `ssl_socket_session` runs it and sets a deadline of its
own, which is published at once, but `next_timeout()` asks the stream only after
the constructor has returned: until then it returns the older deadline of
`server_session`.  `deadline` is what `next_timeout()` returns, `unseen` the deadline
of a stream that is still being constructed.  A coroutine that ends may publish
any deadline on its way, as `shutdown()` of a TLS session does.

### ThreadWorker and TaskQueue

`TaskQueue` is what the pool promises: tasks start in the order of insertion,
each at most once, each on a thread of its own; once the destructor has been
called a waiting task need not be run.  `ThreadWorker` is the code: `m_lock`, the
condition variable as a set of waiters, with spurious wake-ups, and the
destructor's store, notification and join as separate steps.  `queued` and
`started` are history variables.  The evaluation of the predicate (`Test`) and
the atomic release-and-block (`Block`) are separate, as in
`std::condition_variable::wait`.

### HttpSession

One connection: `io_loop`, `read_headers`, `read`, `write` and `yield` of
`basic_http_session` over a plain socket, and the handler of a plugin.  The
coroutine's position is `pc`; `back` is where it goes on after a yield or a write;
`m_pending`, `m_keep_alive`, `m_can_write_errror`, `m_head` and `m_remaining` are
the members of the same names, and `given` is `m_yield.get()`.

The bytes are the interesting data.  A byte is a record with the request it
belongs to, its position there, and a class: text, line feed, or one that makes
the parser throw.  The code only looks at the class, the properties look at the
rest.  `Wire` is what the peer will send, `arrived` and `taken` count what has
reached the socket and what `read(2)` has returned.  A body may look like a head.
The parser is reduced to lines and a number of body bytes; its grammar, limits
and chunks are not in this module.  A chunked body counts with its framing.

The handler is any code that reads the request at most once, answers once in two
pieces, yields at most `MaxYields` times, throws anywhere, and catches the
exceptions in `catches` once, as the handler of `/server_status` does.  An `orderly`
one reads before it answers and does not prolong the keep alive.  A response is a
few pieces, each accepted by the socket at once; `out` is what was accepted.
`edge` is an event that epoll has not reported yet.  The socket may be full, the
peer may hang up, and the deadline may pass, at any moment.

Left out: the deadlines themselves (`Deadlines`), partial and vectored writes
and TLS (`ResponseStream`).

### HttpParser

The parser with the loops of `read_headers` and `read` that feed it.  The parser
and the request it fills in are one record `s`; `parse_head`, `parse_body` and
what they call are operators from that record and the bytes at hand to the
record afterwards, with the bytes consumed and the status thrown.  `Feed` and
`ReadSome` take any number of the bytes that are left, so a run contains every
way to cut a stream.

A byte is a short string: a separator, a line end, a control character, or a word
that the code compares as a whole (`chunked`, a field name).  The lines keep
their limits, but with small values: 24 bytes of head, 3 fields, 6 bytes of a
chunk-size line.  `size_t` has one hex digit, so that its overflow is met by sizes
of two.  `Streams` pairs each byte sequence with what its sender meant, built by
an encoder that is independent of the parser.

### Router

`create_route`, `add_method_handler` and `create_handler` with `split`,
`unescape_url` and the binding of captures to the parameters of a handler.  A
behaviour declares up to three handlers in any order and then gets a request.
`log` keeps the declarations: the properties are stated over `log` and the URL,
never over the table.  `Split` says which pieces the loop of `split` leaves, by the
places at which it cuts and at which a piece starts; it has no recursion to reason
about.

### LruCache and FileCache

`LruCache` has the list and the hash of `lru_cache` as two components of a record,
because the code updates them one after the other.  `FileCache` composes it with
sessions of several loops, the expiry timer, `destory_plugin`, and someone who
replaces and removes files.  Each call to the file system is an action, so a file
can change between `file_size`, `last_write_time` and the mapping.  A file has
numbered versions and a modification time is the number of its version.  A loop's
thread that waits for the mutex keeps all its sessions waiting.  The address of a
`file_map` may be reused.  `recent` is a history variable: which file was served
after which other.  Assumed: a file is replaced as a
whole, by a new one, and each version has a time of its own.

### ResponseStream

From a handler to its client: `to_string` of the response, `ostream_buffer`,
`chunked_stream`, their destructors, the two loops of `basic_http_session::write`,
`writev` and `SSL_write`, and the error response of `io_loop`.  A unit on the wire is
a line of the head, a byte of the body, or a byte of framing.  `Received` is what a
client makes of the wire by RFC 9112; it shares nothing with the code that
produced it.  `SSL_write` is external: it takes up to a record, and a record that
could not be sent must be offered again.  `FellowWrites` is another session of the
loop that uses the shared write buffer.

### Plugins, RestPlugin and DeviceList

`Plugins` is `server_plugin`, the part of `exec` that loads and sorts, and
`create_session`.  A library is described by the place at which its loading fails
and by what it serves; `calls` is the history of each library.  Files come in any
order and `std::sort` may swap equals.

`RestPlugin` extends it with the template's handlers.  Taking `s_mutex`, reading one
device, comparing the index, changing the vector and unlocking are separate steps.
`DeviceList` is what the handlers promise: every request takes effect at one
instant, or not at all.  The refinement maps `list` to `s_devices`, and the request
and the answer of a session to those of the sessions that the plugin serves.  An
id is a number, or -1 for what `device_index` refuses; a body is usable names, a
usable name, too big, or unusable.

## 3. What TLC checks

| run | instance | distinct states | properties |
|---|---|---|---|
| `server_sessions` | 1 loop, 2 addresses, 2 peers | 585,627 (symmetry) | `NoDanglingPointer`, `OwnedExactlyOnce`, `ConnectionsExact` |
| `server_loops` | 2 loops, 1 address, fair | 116,843 | `LoadIsExact`, `NothingLeftAfterLoops`, `FinishedIsDeleted`, `WakeupIsServed`, `ShutdownReachesPlugins` |
| `deadlines` | a plain and a TLS session, timeouts up to 2 ticks, 1 signal, fair | 505,301 | `DeadlineCovered`, `OverdueIsClosed` |
| `thread_worker` | 3 threads, 3 tasks, fair | 55,529 | `ImplementsTaskQueue`, `TaskIsStarted` |
| `http_session` | seven pairs of requests, 4-byte buffer, 1 yield, orderly and other handlers | 2,580,586 | `NoByteLost`, `RequestIntact`, `OneAnswerIfReadFirst`, `KeepAliveHonestIfReadFirst`, `FreshErrorIsAnswered` |
| `http_liveness` | one pair, 2-byte buffer, any handler, fair | 215,522 | `RequestIsServed` |
| `http_parser` | single messages, pairs, and messages with one thing wrong, 3 handlers, every cut | 371,598 | `DecodesWhatWasSent`, `CutDoesNotMatter`, `PendingBounded`, `BodyWithinLimit` |
| `router` | up to 3 of 15 declarations, then one request | 150,705 | `AnsweredAsDeclared`, `AllowIsRight`, `HandedWhatWasSent` |
| `file_cache` | 2 or 3 sessions on 1 or 2 loops, 2 files, room for 1 or 2, fair | 63,828 | `NotStale`, `AnnouncedIsSent`, `InOrderOfUse`, `SessionEnds`, `DestroyReturns`, `UnusedIsDropped` |
| `response_stream` | 9 handlers over a socket and over TLS, fair | 33,981 | `FramingAgrees`, `NeverGarbled`, `NotReplacedOnceStarted`, `RetriedAsBefore`, `ResponseEnds` |
| `rest_plugin` | 4 directories, 3 sessions on 2 loops, 14 workloads, fair | 37,039 | `LifeCycle`, `ServedInOrder`, `ImplementsDeviceList`, `Answered` |
| `thread_worker_destructor` | 2 threads, fair | | `DestructorReturns`, violated: section 4 |

The configurations `*_inv.cfg` check, on the same instances, the type invariants, the
inductive invariants of the proofs, and the safety properties that section 5 or the
liveness properties above subsume: `TypeOK`, `SafetyInv`, `FinishedIsReported`,
`WakeupNotLost` and `QuitNotLost` (`MCServer`), `SleepNotTooLong` and `Inv`
(`Deadlines`), `SomeoneIsAwake` and `Inv` (`ThreadWorker`), `Inv`, which contains
`TypeOK` and `TableWellFormed`, and `BadQueryIsRefused` (`MCRouter`), `Inv` and
`LockNotHeldAcrossYield` (`MCFileCache`, `MCRestPlugin`), `ListInv`, `CallsInv` and
`ServiceInv` (`MCRestPlugin`), the six conjuncts of `Inv` (`MCHttpSession`), and `TypeOK`
(`MCHttpSession`, `MCHttpParser`, `MCFileCache`).  All of them pass, and so does `TypeOK`
of `ResponseStream` when it is added to its configuration.

`server_sessions` and `server_loops` have `StaleReuse`, `ScanRace` and `LateTasks`
off: they show that the server is correct but for those three, not that it is
correct with them.

What the properties mean:

* `NoDanglingPointer`, `OwnedExactlyOnce`: no thread dereferences a deleted
  session, and each session is deleted exactly once, by one owner.
* `FinishedIsReported`, `FinishedIsDeleted`: a handler that returns leaves its
  session registered, and only the hang-up caused by `shutdown(2)` brings the
  delete.  The hang-up is never lost, so the session is deleted.
* `ConnectionsExact`, `LoadIsExact`: the two counters that decide whether and
  where a connection is accepted are exact, whatever fails.
* `WakeupNotLost`, `WakeupIsServed`: coalesced eventfd signals lose no wake-up.
* `QuitNotLost`, `ShutdownReachesPlugins`, `NothingLeftAfterLoops`: after a signal
  every loop ends and `exec` gets to the plugins, and the loop over
  `m_active_sessions` on the way, which would erase from the set it walks, has
  nothing to walk.  That unloading the plugins returns is not claimed.
* `DeadlineCovered`, `SleepNotTooLong`, `OverdueIsClosed`: although the store that
  clears the cache can discard a published deadline, the last deadline that a
  running session has set is not forgotten, and a session whose `next_timeout()` has
  passed is closed or sets another deadline.  The reason is not local to the cache: the first event of a new
  session runs `set_session_timeout` on the loop's own thread, and that event is
  certain because a fresh socket is writable.  A signal makes `epoll_wait` sleep
  its whole timeout again, so `SleepNotTooLong` is about undisturbed sleeps only.
  During a TLS handshake the last deadline is that of the stream; `next_timeout()`
  is earlier, by the time from the construction of the session to its first event,
  and is not covered (section 4): such a session is closed that much late.
* `SomeoneIsAwake`, `TaskIsStarted`, `ImplementsTaskQueue`: no notification of
  `insert_task` is lost, and the pool implements its abstract specification.
* `NoByteLost`, `RequestIntact`: however the bytes of pipelined requests are cut
  and whatever a handler does, each byte is parsed once and in its request, and an
  unread body is never taken for a request.
* `OneAnswerIfReadFirst`, `KeepAliveHonestIfReadFirst`: if handlers read before they
  answer and write nothing after a refused `Expect` (`Disciplined`), each request
  has at most one response, responses do not overlap, and the server does not close
  a connection it has just promised to keep.
* `FreshErrorIsAnswered`: an error in the first request of a connection, or in a body
  that `read()` refuses, gets its response.  Errors in later requests may not
  (section 4).
* `RequestIsServed`: no request that has arrived waits for an edge of epoll that
  was consumed before.
* `DecodesWhatWasSent`, `CutDoesNotMatter`: the requests a session sees are those
  the sender encoded, and no cut of the bytes changes that.  Three exceptions are
  part of the statement: 400 and 431 may change places when a head is both
  malformed and too large, the value of a field that is sent more than once is left
  open, and streams with a chunk-size line over its limit are left out (section 4).
* `PendingBounded`, `BodyWithinLimit`: what is kept for the next read is bounded, and
  so is what a callback gets; `max - m_received` does not wrap.
* `AnsweredAsDeclared`, `TableWellFormed`, `AllowIsRight`: the first declared route
  that matches answers with its last declared handler, for every order of
  declarations in which no place of a route has two capture names (section 4); each method of an `Allow` would have been served.
* `HandedWhatWasSent`, `BadQueryIsRefused`: captures and queries arrive decoded once,
  in order, and only what cannot be decoded is refused.
* `NotStale`, `AnnouncedIsSent`: a session serves nothing older than the time it
  asked for (an empty answer: only if the file was empty at some time up to then),
  and sends as many bytes as it announced, of one version, although files, cache
  and timer change while it waits.
* `InOrderOfUse`, `UnusedIsDropped`, `DestroyReturns`: eviction takes what was used
  longest ago, the timer gives unused mappings back, and the plugin can be
  unloaded although the destructor of `simple_timer` notifies without the mutex: a
  lost notification costs one period.
* `LockNotHeldAcrossYield`, `SessionEnds`, `Answered`: no session yields with a mutex
  of its plugin held, so loops do not block each other.
* `FramingAgrees`, `NeverGarbled`, `NotReplacedOnceStarted`: a client that is told a
  response is complete has the bytes the handler wrote, also after a failure in
  the middle of a chunk; a kept connection is at the end of a response; an error
  response never follows a part of another (over TLS: section 4).
* `RetriedAsBefore`, `ResponseEnds`: a retried `SSL_write` gets the bytes of the first
  call from a buffer that others have used since, and no write waits for an event
  that does not come (one exception: empty buffers, section 4).
* `LifeCycle`, `ServedInOrder`: a library whose loading fails at any place is cleaned
  up once and closed, and requests go by `plugin_order` alone.  A plugin whose router
  throws a 405 ends the search, and nothing is claimed of that request.
* `ImplementsDeviceList`: a listing is of one moment, an index that was checked is
  valid when it is used, and a refused request changes nothing.

**Bounds.**  One loop with two addresses has every interaction inside a loop: two
sessions in one batch of events, one deleting itself while the other runs, an
address reused while the other is alive, a registration during a scan.  Two
loops with one address has those between loops: balancing, the order of
shutdown.  Two loops with two addresses exceed 25 million states and are left to
the proofs.  Two ticks separate deadlines that are due, next and later.  Three
threads allow one to sleep, one to run and one to be between predicate and sleep.
Two requests are enough for one to be pipelined behind another; heads of three
bytes and buffers of two or four give reads that end inside a head, at its end,
inside a body, and in the next request.  The limits of the parser are as small as
the messages, so that each one is met exactly and exceeded by one.  Three
declarations are enough for two routes that overlap and a repeated one.  A cache
with room for one of two files evicts on every miss; a third session and room for
two give an order of use.  With two files the entry to evict is never a choice
among three: which one goes is left to the proof (`EvictsLeastRecentlyUsed`).  A send buffer of 4 units, records of 3, an `IOV_MAX` of 3
and room for 3 in the socket stop a write inside a buffer, at its end, and inside
a chunk header, and the ostream buffer of 2 is met by output that is shorter, equal
and longer.  Two sessions on one loop and one on another give readers and writers
that wait for each other across and within a thread.

**Fairness.**  Weak fairness, on steps of threads that the operating system
schedules: a loop's thread, a worker inside `wakeup_session`, the accepting
thread once it has accepted a connection or left the accept loop, the threads of
the pool.  Peers, arriving connections,
signals, expiring deadlines in `Server` and spurious wake-ups promise nothing.
In `HttpSession` the coroutine, the handler, the loop that resumes them for an
event, a wake-up or an error, and a peer that reads what it is sent are fair; a
peer need not send, and no deadline need pass.  `ResponseStream` has the same for
the session and a client that reads, and `quit_io_loop` for a session that is
ending.  Strong fairness appears three times: the steps of a session in `FileCache` and
`RestPlugin` wait for a mutex that is free again and again, and a thread that waits
for it is assumed to get it; and time in `Deadlines` passes although new sessions,
which `Tick` lets register first, keep coming.  `RestPlugin` also assumes that a session that yields
without end is resumed with an error, by its deadline (`Deadlines`).
Handlers are assumed to yield or return, and to end when they are resumed with an
error, as `docs/` asks of them.

**Deadlock** is checked in all runs of `Server`, `Deadlines` and `HttpSession` (whose
ended sessions stutter).  A pool whose destructor has been called may stop, so
`ThreadWorker` runs do not check it.  The runs of the parser, the router, the file
cache, the response and the template end when their input is used up, so they do
not check it either; their liveness properties are about not stopping before.

## 4. Disagreements with the documentation

Each of these configurations ends with a counterexample.  `ThreadWorker_destructor` is
the run `thread_worker_destructor`; the others are kept beside the runs and are
called in the same way (`tlc -config MCServer_stale.cfg MCServer`); with `-continue`
where several properties are violated.

| configuration | violated | what happens |
|---|---|---|
| `ThreadWorker_destructor` | `DestructorReturns` | The destructor stores `m_quit` and notifies without `m_lock`.  A thread between predicate and sleep misses both, and `join()` never returns. |
| `MCServer_stale` | `NoDanglingPointer` | `loop()` decides by address whether the session of a queued wake-up still exists.  A reused address passes the test, and the new session may still be in the hands of the accepting thread. |
| `MCServer_scanrace` | `NoDanglingPointer` | A session is in `m_sessions` before `EPOLL_CTL_ADD`.  When the add fails, the accepting thread deletes it while the loop's scan may hold its address. |
| `MCServer_late` | `HandleOutlivesNoLoop` | `exec` destroys the loops before the plugins, so a task of a plugin's pool can use a `wakeupper` whose loop is gone. |
| `Deadlines_handshake` | `NextTimeoutCovered` | While `ssl_socket_session` is being constructed `next_timeout()` still returns the deadline of `server_session`, and the only deadline that the loop's thread publishes is the later one of the handshake.  If the first was discarded by the clearing store, the session is closed late. |
| `MCHttpSession_answers` | `ErrorIsAnswered` | `m_can_write_errror` is false after a response and only a read from the socket raises it.  A pipelined request that is already in `m_pending` and malformed, or whose handler throws, is closed without a response. |
| | `OneAnswerEach` | `read()` raises `m_can_write_errror` although the handler has begun to answer, so a failing body puts an error response into another one. |
| | `KeepAliveHonest` | `operator>>` throws 417 outside the guard of `read()`, so a handler that catches it, as that of `/server_status` does, advertises a keep alive that the server then drops; so does one that answers first and does not read the body. |
| `MCHttpParser_disputed` | `CutNeverMatters` | The limit of a chunk-size line is tested only while its end has not arrived, so whether a long line is refused depends on how the stream is cut. |
| | `LastIsKept` | A comment in `http.h` says that the last of repeated fields is kept; the parser combines them. |
| `MCRouter_names` | `CaptureNamesDoNotMatter` | Two routes that differ only in the name of a capture are kept as two, although the comment on `operator ==` makes them one: a handler that is declared again under another name does not replace the first. |
| `MCResponseStream_replaced` | `ReplacesOnlyWhole` | Over TLS a record of the response may be on its way when the session fails, and the error response follows it. |

These were met while modelling and have no configuration:

* A timeout after the first byte of a request is answered with a 500, although
  `docs/errors.md` says that there is nothing left to answer; the test in
  `tests/server_tests/security.cpp` that excludes it stops reading before the timeout.
* A malformed escape in a query gives a 500; `docs/routing.md` says 400.
* `docs/routing.md` says that captures which mix optionals and strings all behave as
  strings.  A handler whose first parameters are optionals and whose others have
  defaults is called with the optionals alone; `HandedWhatWasSent` counts the
  arguments of handlers of one kind only.
* The query `?=v` gives the key `v`, against the comment in `restful.h`.
* `Allow` lists the methods of the first route that matches the path only, and
  the exception of a router's 405 keeps later plugins from being asked.
* A status that `to_string` does not know is sent as a 500; a 1xx one, 103 say, then
  lacks `Content-Length` and `Connection`.
* `IOV_MAX` or more empty buffers in front of others make `write` wait for an edge
  that need not come; `ResponseEnds` excludes them.
* A `max_size` of 0 means no limit in the parser and a limit of 0 in `operator>>`.
* The size of a file is read before its time.  A file that is replaced in between
  may be cached with the size of the old version, empty if that was empty, until
  it changes again or the timer drops it.  `NotStale` states what remains.
* The comment in `thread_worker.h` says that a handler cannot leave its loop while
  the task runs; the loop of its example is left by the exception of a timeout.
* `destory_plugin` is also called when the loading of a plugin fails.

## 5. What TLAPS proves

| module | theorem | for all |
|---|---|---|
| `ServerProofs` | `TypeCorrect` (`TypeOK`), `NoWakeupLost` (`WakeupNotLost`), `NoQuitLost` (`QuitNotLost`) | sessions, loops, peers, and all three switches |
| | `SafetyInvariant`, `MemorySafe` (`NoDanglingPointer`), `NoLeakNoDoubleDelete` (`OwnedExactlyOnce`), `FinishedStaysReported` (`FinishedIsReported`), `ConnectionsCounted` (`ConnectionsExact`), `LoadCounted` (`LoadIsExact`), `NothingIsLeft` (`NothingLeftAfterLoops`) | sessions, loops, peers, `LateTasks`; from `~StaleReuse` and `~ScanRace` |
| `DeadlinesProofs` | `InvHolds`, `NoDeadlineLost` (`DeadlineCovered`), `LoopWakesInTime` (`SleepNotTooLong`) | sessions with and without TLS, longest timeout, number of signals |
| `ThreadWorkerProofs` | `PoolInvariant`, `NotificationNotLost` (`SomeoneIsAwake`), `PoolImplementsTaskQueue` (`ImplementsTaskQueue`) | threads (a finite set that is not empty), tasks |
| `HttpSessionProofs`, `HttpSessionSafetyProofs` | `SessionKeepsInv`, `SessionTypes` (`TypeOK`), `ParsesEveryByteOnce` (`NoByteLost`), `GivesRequestsIntact` (`RequestIntact`), `AnswersOnce` (`OneAnswerIfReadFirst`), `ClosesAsAnnouncedIfReadFirst` (`KeepAliveHonestIfReadFirst`), `AnswersFreshErrors` (`FreshErrorIsAnswered`) | sequences of requests, their bodies, handlers, buffer sizes, numbers of yields |
| `RouterProofs` | `TableIsWhatWasDeclared` (`Inv`), `AnsweredByTheDeclared` (`AnsweredAsDeclared`), `AllowTellsTheMethods` (`AllowIsRight`) | declarations, numbers of them, base URLs, requests |
| `FileCacheProofs` | `PutKeepsCache`, `ValueKeepsCache`, `EraseKeepsCache`, `ResizeKeepsCache` | keys, values, capacities |
| | `PluginKeepsInv`, `CacheLockNotHeldAcrossYield`, `ServesNothingStale` (`NotStale`), `SendsWhatItAnnounced` (`AnnouncedIsSent`), `EvictsLeastRecentlyUsed` (`InOrderOfUse`) | files, sessions, loops, sizes, versions, workloads |
| `RestPluginProofs` | `HandlersKeepInv`, `NoYieldUnderLock` (`LockNotHeldAcrossYield`), `TemplateImplementsDeviceList` (`ImplementsDeviceList`) | sessions, loops, names, requests, libraries |
| | `ExecKeepsPlugins`, `LibrariesAreCleanedUp` (`LifeCycle`), `LowestOrderServes` (`ServedInOrder`) | the same |

*The server, memory.*  Neither `NoDanglingPointer` nor `OwnedExactlyOnce` is inductive.
`SafetyInv` adds why they hold: between its constructor and `EPOLL_CTL_ADD` a
session is private to the accepting thread (`SetUpIsPrivate`, where
`~StaleReuse` is used: no outstanding wake-up names it); the sets of a loop
partition its live sessions (`SetsPartitionAlive`); what epoll and the locals of
`loop()` refer to is registered, so a handler can only invalidate its own entry,
and the scan's snapshot loses nothing to the accepting thread
(`BorrowedIsRegistered`, where `~ScanRace` is used); and a loop is destroyed only
after its thread and its sessions (`LoopsGoInOrder`).  There is one lemma for each
group of actions, and lemmas for `Unregister`, `DeleteLater`, `Destroy` and
`Resume` that those share.

*The server, signals and counters.*  Four more invariants, each with a lemma per
group of actions.  `SignalInv`: while there is something to wake up for, or
`m_quit` is set, the eventfd is raised, somebody is about to raise it, or the loop
has yet to look; it needs no assumption on the switches.  `ReportInv`: the hang-up of
a coroutine that is over is pending in epoll or in the batch at hand.  `CountInv`: for
each peer, the counter is the number of its live sessions and of the connection
that is being set up.  `LoadInv`: for each loop, the counter is the number of its
sessions in epoll, but for one that the accepting thread has added and not yet
counted.  The last two rest on the lemmas on cardinality of
`FiniteSetTheorems`.  `NothingIsLeft` follows from `CountInv` and from `SafetyInv`
once the loops are gone.

*Deadlines.*  `Inv` adds to the two properties where events and snapshots can be:
a session that has not run has its first event in `edge` or `batch`, and a scan's
snapshot holds registered sessions only; and what `next_timeout()` returns during a
handshake is no later than the deadline of the handshake, so that a scan, which only
sees the former, still covers the latter.

*The pool.*  `Inv` says that a thread holds `m_lock` exactly while it is in
`next_task` and that what it saw in the predicate is still so, that the queue is
the part of `queued` not yet handed out, and that a running task was handed out
to one thread.  The refinement maps `running` to the tasks in the threads'
locals; `Take` is `Start`, `Run` is `Finish`, `QuitStore` is `Quit`, and all other
steps of the threads stutter.

*The HTTP session.*  `Inv` has six conjuncts.  `HeadInv` and `RequestInv` say how much of
the wire the parser has consumed, before and after the head is complete, and that
`m_pending` is what was read and not consumed; one exception is a body whose `read()`
threw, which may lose bytes but leaves the request incomplete, so that nothing is
parsed after it.  `NoByteLost` and `RequestIntact` follow.  `ControlInv` says what is
being written and where an exception is under way, `OwedInv` that an error which
must be answered still can be (the flag `m_can_write_errror` is up, or the answer is
being written), and `AnswersInv` how the responses follow one another: the next one
begins only when the last is complete or no write can succeed any more, and a
handler that has begun cannot raise the flag again.  The last one needs `Disciplined`
handlers, as the properties do.  That bytes are where the wire has them rests on
`Wire` being the concatenation of the requests, a recursive function: the few facts
about it are shown through the least number that violates them, with the
well-foundedness of the natural numbers for sets, which needs no operator as a
parameter.

*The router.*  `AnsweredAsDeclared` compares an answer with the whole history of
declarations, and the table keeps less than that.  `Inv` says that the table is enough:
each declaration has its route and each route its declarations, a method has the
handler declared last, the routes are in the order of their first declarations, and
an answer depends on table and request only.  It is inductive because
`operator ==` is an equivalence, so that `create_route` finds the one route it has to.
The responsible declaration is then the last one with the method at the least
route that matches and has it, which is where `create_handler` stops.  For
`AllowIsRight`, the path of a URL is its own path and has no query to refuse.
Assumed is only that URLs and routes are sequences of characters.  The theorem has the
condition of the property: no place of a route is declared under two names.

*The cache.*  `WellFormed` says that the list has no key twice, that the hash has
exactly its keys, and that the capacity is kept.  Each operation preserves it and
adds nothing but the item it was given.  The steps of `FileCache` that change the
cache use these theorems.  Its `Inv` ties what a session holds to the
versions of its file: what it mapped is a version not older than the time it read,
or is empty because a version up to then was; a holder of the mutex is where the code
holds it.  `InOrderOfUse` is inductive beside `Inv`: erasing keeps the order of the
rest, and what is put in front is what `recent` puts before all others.

*The template.*  `Inv` says who holds `s_mutex` and how (one writer or some readers,
each with the thread of its loop), and that what a handler has read under it, a
device, an index in range, is still so.  In the refinement the step that changes
the vector, or the one that takes the last look at it, is the step of `DeviceList`;
all others stutter.

*The plugins.*  `ListInv` says that `m_plugins` holds exactly what could be loaded, each
with its order, sorted before the first request; `CallsInv` what each library has been
told, as a function of where it is; `ServiceInv` who serves a session.  That the first
plugin that does not decline has the lowest order follows from the sorting alone, of
which the proofs use only that it permutes and orders.

*Only model-checked:* all liveness properties (the prover does not handle
fairness); all of `HttpParser`, whose operators are recursive, and of `ResponseStream`,
whose operators fold sequences: what they compute for every input takes an induction
over data that the prover cannot do; `HandedWhatWasSent` and `BadQueryIsRefused`, for
the same reason: they are about `unescape_url`, which is a fold.

## 6. Not modelled

* Start-up: command line, configuration, privileges, TLS context and the
  listening sockets.  One thread runs it once, before any other exists.
* Logging, the program entry, the wording of messages: no state that another
  part reads.
* The certbot plugin: a Python program of its own, which shares no state with a
  running server.  The test plugin: handlers for the test suite.
* What `SSL_accept`, `SSL_read` and `SSL_shutdown` exchange (the time they take is in
  `Deadlines`): each is one call that is repeated after
  a yield, over the state of OpenSSL, which is external.
* The exchange loop of `spin_lock` (its critical sections are the atomic steps of
  `EventLoop`), `address_text` and `buffer`, and `update_session`, which nothing calls.
* The platform's clock.  `Deadlines` assumes that it does not go back.
* A handler that goes on for ever when it is resumed with an error, and a task
  that uses the frame of a handler which is gone: `docs/concurrency.md` asks authors
  of plugins to exclude both, and no code of the server does.
* A failing allocation, and an exception that leaves `exec`.
