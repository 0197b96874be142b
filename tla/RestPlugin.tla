----------------------------- MODULE RestPlugin -----------------------------
(***************************************************************************)
(* The plugin of the project template, among the others of a server: a     *)
(* vector of device names behind a shared_mutex, and the handlers that     *)
(* read and change it.  The sessions of a loop share its thread: a handler *)
(* keeps it until it yields, which it may only do where it reads the       *)
(* request and where it writes the answer.                                 *)
(***************************************************************************)
EXTENDS Plugins

CONSTANTS
    Sessions, Loops, LoopOf,   \* the sessions, and the loop that each one runs on
    Rest,                      \* the file of this plugin
    Names, Requests, Workloads,    \* the requests, and the ways to give sessions one each
    Nobody, NoRequest, NoAnswer, Dropped

\* init_plugin: devices, and devices/{device}.
Routes == [devices |-> {"GET", "POST"}, device |-> {"GET", "PATCH", "DELETE"}]

ASSUME RestAssumption ==
    /\ LoopOf \in [Sessions -> Loops] /\ Nobody \notin Sessions
    /\ NoRequest \notin Requests /\ Workloads \subseteq [Sessions -> Requests \cup {NoRequest}]
    /\ \A q \in Requests :
         /\ q.id \in Int /\ q.id >= -1
         /\ q.body[1] = "names" => q.body[2] \in Seq(Names)
         /\ q.body[1] = "name" => q.body[2] \in Names
    /\ Rest \notin {StatusPlugin, Nobody} /\ Nobody # StatusPlugin
    /\ \A d \in Libraries : Nobody \notin DOMAIN d
    /\ \A d \in Libraries : Rest \in DOMAIN d => d[Rest].serves = Routes

VARIABLES
    s_devices,
    readers, writer,   \* who holds s_mutex
    on,                \* the session that each loop runs
    pc,
    todo, request,     \* the request that a peer sends, and the one that was received
    by,                \* who was asked to serve it
    res,               \* the local of get_devices
    answer             \* what the session writes

sessionVars == <<todo, on, pc, request, by, res, answer>>
vars == <<pluginVars, s_devices, readers, writer, sessionVars>>

D == INSTANCE DeviceList WITH
    list <- s_devices,
    asked <- [s \in Sessions |-> IF by[s] = Rest THEN request[s] ELSE NoRequest],
    replied <- [s \in Sessions |-> IF by[s] = Rest THEN answer[s] ELSE NoAnswer]

ASSUME AnswerAssumption == NoAnswer \notin {D!Status(405), D!Status(503)}

method(s) == request[s].method
index(s) == request[s].id
body(s) == request[s].body

Init ==
    /\ PluginsInit
    /\ s_devices = <<>> /\ readers = {} /\ writer = Nobody
    /\ on = [l \in Loops |-> Nobody]
    /\ pc = [s \in Sessions |-> "idle"]
    /\ todo \in Workloads /\ request = [s \in Sessions |-> NoRequest]
    /\ by = [s \in Sessions |-> Nobody]
    /\ res = [s \in Sessions |-> <<>>]
    /\ answer = [s \in Sessions |-> NoAnswer]

Runs(s) == on[LoopOf[s]] = s
Goto(s, label) == pc' = [pc EXCEPT ![s] = label]
Yield(s) == on' = [on EXCEPT ![LoopOf[s]] = Nobody]
Respond(s, a) == answer' = [answer EXCEPT ![s] = a]
mutex == <<readers, writer>>

-----------------------------------------------------------------------------
(* io_loop: the request is given to a plugin *)

\* read_headers returns, and create_session finds a plugin, a status that one
\* threw, or nobody: 503.
Arrive(s) ==
    /\ phase = "serve" /\ pc[s] = "idle" /\ on[LoopOf[s]] = Nobody
    /\ todo[s] # NoRequest
    /\ on' = [on EXCEPT ![LoopOf[s]] = s]
    /\ request' = [request EXCEPT ![s] = todo[s]]
    /\ LET q == todo[s]
           plugins == create_session(q.url, q.method)
       IN  \/ /\ plugins = {}
              /\ Respond(s, D!Status(503)) /\ Goto(s, "write") /\ UNCHANGED by
           \/ \E f \in plugins :
                 /\ IF Asked(f, q.url, q.method) = "throws"
                    THEN Respond(s, D!Status(405)) /\ Goto(s, "write") /\ UNCHANGED by
                    ELSE /\ by' = [by EXCEPT ![s] = f]
                         /\ IF f = Rest THEN Goto(s, "begin") /\ UNCHANGED answer
                            ELSE Respond(s, D!Status(200)) /\ Goto(s, "write")
    /\ UNCHANGED <<pluginVars, todo, s_devices, mutex, res>>

\* The loop resumes a session that has yielded.
Resume(s) ==
    /\ pc[s] \in {"read", "write"} /\ on[LoopOf[s]] = Nobody
    /\ on' = [on EXCEPT ![LoopOf[s]] = s]
    /\ UNCHANGED <<pluginVars, todo, s_devices, mutex, pc, request, by, res, answer>>

\* The connection fails while the session has yielded.
HangUp(s) ==
    /\ pc[s] \in {"read", "write"} /\ on[LoopOf[s]] = Nobody
    /\ Goto(s, "over")
    /\ answer' = [answer EXCEPT ![s] = IF @ = NoAnswer THEN Dropped ELSE @]
    /\ UNCHANGED <<pluginVars, todo, s_devices, mutex, on, request, by, res>>

-----------------------------------------------------------------------------
(* The handlers *)

\* patch_device looks at the id before it reads the body.
Begin(s) ==
    /\ Runs(s) /\ pc[s] = "begin"
    /\ IF method(s) = "PATCH" /\ index(s) = -1
       THEN Respond(s, D!Status(400)) /\ Goto(s, "write")
       ELSE Goto(s, "read") /\ UNCHANGED answer
    /\ UNCHANGED <<pluginVars, todo, s_devices, mutex, on, request, by, res>>

\* stream >> req, with a callback and a limit for POST and PATCH.  It yields
\* while the body is incomplete.
Read(s) ==
    /\ Runs(s) /\ pc[s] = "read"
    /\ \/ body(s) # D!NoBody /\ Yield(s) /\ UNCHANGED <<pc, answer>>
       \/ /\ IF method(s) \in {"POST", "PATCH"}
             THEN IF body(s)[1] = "huge" THEN Respond(s, D!Status(413)) /\ Goto(s, "write")
                  ELSE Goto(s, "check") /\ UNCHANGED answer
             ELSE IF body(s) # D!NoBody THEN Respond(s, D!Status(400)) /\ Goto(s, "write")
                  ELSE Goto(s, "check") /\ UNCHANGED answer
          /\ UNCHANGED on
    /\ UNCHANGED <<pluginVars, todo, s_devices, mutex, request, by, res>>

\* device_index and parse_body throw before the lock is taken, and so does
\* whatever else is wrong with the body.
Valid(s) ==
    CASE method(s) = "POST" -> body(s)[1] = "names"
      [] method(s) = "PATCH" -> body(s)[1] = "name"
      [] OTHER -> request[s].url = "device" => index(s) # -1

Check(s) ==
    /\ Runs(s) /\ pc[s] = "check"
    /\ IF Valid(s) THEN Goto(s, "lock") /\ UNCHANGED answer
       ELSE Respond(s, D!Status(400)) /\ Goto(s, "write")
    /\ UNCHANGED <<pluginVars, todo, s_devices, mutex, on, request, by, res>>

\* Mutant: shared_lock in every handler.
LockShared(s) ==
    /\ Runs(s) /\ pc[s] = "lock"
    /\ writer = Nobody /\ readers' = readers \cup {s} /\ UNCHANGED writer
    /\ Goto(s, "work")
    /\ UNCHANGED <<pluginVars, todo, s_devices, on, request, by, res, answer>>

\* shared_lock in get_devices, unique_lock in the others.  A thread that has
\* to wait keeps its loop waiting.
Lock(s) ==
    /\ Runs(s) /\ pc[s] = "lock"
    /\ writer = Nobody
    /\ IF method(s) = "GET" THEN readers' = readers \cup {s} /\ UNCHANGED writer
       ELSE readers = {} /\ writer' = s /\ UNCHANGED readers
    /\ Goto(s, "work")
    /\ UNCHANGED <<pluginVars, todo, s_devices, on, request, by, res, answer>>

\* The loop over s_devices of get_devices, one device at a time, or the one
\* device that was asked for.
Get(s) ==
    /\ Runs(s) /\ pc[s] = "work" /\ method(s) = "GET"
    /\ LET n == Len(res[s])
       IN  IF request[s].url = "devices"
           THEN IF n < Len(s_devices)
                THEN /\ res' = [res EXCEPT ![s] = Append(@, <<n, s_devices[n + 1]>>)]
                     /\ UNCHANGED <<pc, answer>>
                ELSE /\ Respond(s, [status |-> 200, devices |-> res[s]])
                     /\ Goto(s, "unlock") /\ UNCHANGED res
           ELSE /\ Respond(s, IF index(s) >= Len(s_devices) THEN D!Status(404)
                              ELSE [status |-> 200, devices |-> <<<<index(s), s_devices[index(s) + 1]>>>>])
                /\ Goto(s, "unlock") /\ UNCHANGED res
    /\ UNCHANGED <<pluginVars, todo, s_devices, mutex, on, request, by>>

OutOfRange(s) == request[s].url = "device" /\ index(s) >= Len(s_devices)

\* patch_device and delete_device look at the size, under the lock ...
Find(s) ==
    /\ Runs(s) /\ pc[s] = "work" /\ method(s) # "GET"
    /\ IF OutOfRange(s) THEN Respond(s, D!Status(404)) /\ Goto(s, "unlock")
       ELSE Goto(s, "change") /\ UNCHANGED answer
    /\ UNCHANGED <<pluginVars, todo, s_devices, mutex, on, request, by, res>>

\* ... and then change the vector; post_devices replaces it.
Change(s) ==
    /\ Runs(s) /\ pc[s] = "change"
    /\ s_devices' = CASE method(s) = "POST" -> body(s)[2]
                      [] method(s) = "PATCH" -> [s_devices EXCEPT ![index(s) + 1] = body(s)[2]]
                      [] method(s) = "DELETE" -> D!Without(s_devices, index(s))
    /\ Respond(s, D!Status(200)) /\ Goto(s, "unlock")
    /\ UNCHANGED <<pluginVars, todo, mutex, on, request, by, res>>

\* Mutant: the lock is never released.
UnlockNot(s) ==
    /\ Runs(s) /\ pc[s] = "unlock"
    /\ Goto(s, "write")
    /\ UNCHANGED <<pluginVars, todo, s_devices, mutex, on, request, by, res, answer>>

\* The end of the scope of the lock.
Unlock(s) ==
    /\ Runs(s) /\ pc[s] = "unlock"
    /\ readers' = readers \ {s}
    /\ writer' = IF writer = s THEN Nobody ELSE writer
    /\ Goto(s, "write")
    /\ UNCHANGED <<pluginVars, todo, s_devices, on, request, by, res, answer>>

\* The answer is written, also the one to an exception, by io_loop; the socket
\* may be full.  One request for each session.
Write(s) ==
    /\ Runs(s) /\ pc[s] = "write"
    /\ Yield(s)
    /\ pc' \in {pc, [pc EXCEPT ![s] = "over"]}
    /\ UNCHANGED <<pluginVars, todo, s_devices, mutex, request, by, res, answer>>

-----------------------------------------------------------------------------
\* exec clears the plugins when the loops and their sessions are gone.
Unload == (\A s \in Sessions : pc[s] \in {"idle", "over"}) /\ ClearPlugins
Exec == \/ (\E f \in unread : LoadPlugin(f)) \/ SortPlugins \/ Unload

Handler(s) == Begin(s) \/ Read(s) \/ Check(s) \/ Lock(s) \/ Get(s) \/ Find(s) \/ Change(s) \/ Unlock(s)
Session(s) == Resume(s) \/ Handler(s) \/ Write(s)

Next ==
    \/ Exec /\ UNCHANGED <<s_devices, mutex, sessionVars>>
    \/ \E s \in Sessions : Arrive(s) \/ Session(s) \/ HangUp(s)

Spec == Init /\ [][Next]_vars

\* Loops run their sessions: a thread that waits for a mutex that becomes free
\* again and again gets it.  A session that is resumed for ever without an end
\* in sight is resumed with an error, by its deadline.
FairSpec == Spec /\ \A s \in Sessions : SF_vars(Session(s)) /\ SF_vars(HangUp(s))

-----------------------------------------------------------------------------
\* The handlers of the template do to the devices, and answer, what requests
\* that are executed one at a time would: a listing is of one moment, an
\* index that was found valid is still valid when it is used, and a request
\* that is refused changes nothing.
ImplementsDeviceList == D!Spec

\* What ImplementsDeviceList rests on.  The types, ...
TypeInv ==
    /\ lib \in Libraries /\ unread \subseteq DOMAIN lib /\ s_devices \in Seq(Names)
    /\ readers \subseteq Sessions /\ writer \in Sessions \cup {Nobody}
    /\ on \in [Loops -> Sessions \cup {Nobody}]
    /\ pc \in [Sessions -> {"idle", "begin", "read", "check", "lock", "work", "change", "unlock", "write", "over"}]
    /\ todo \in [Sessions -> Requests \cup {NoRequest}]
    /\ request \in [Sessions -> Requests \cup {NoRequest}]
    /\ DOMAIN by = Sessions /\ DOMAIN res = Sessions /\ DOMAIN answer = Sessions
    /\ m_plugins \in Seq([file : DOMAIN lib \cup {StatusPlugin}, order : Int])

\* ... what is known about a request at each place of its handler, ...
RequestInv(s) ==
    /\ pc[s] = "idle" => by[s] = Nobody
    /\ pc[s] \in {"begin", "read", "check", "lock", "work", "change"} => by[s] = Rest
    /\ pc[s] \in {"idle", "begin", "read", "check", "lock", "work", "change"} => answer[s] = NoAnswer
    /\ by[s] = Rest =>
         /\ request[s] \in Requests /\ request[s].url \in DOMAIN Routes
         /\ method(s) \in Routes[request[s].url]
    /\ pc[s] \in {"read", "check"} => ~(method(s) = "PATCH" /\ index(s) = -1)
    /\ pc[s] = "check" => ~D!TooBig(request[s]) /\ (method(s) \in {"GET", "DELETE"} => body(s) = D!NoBody)
    /\ pc[s] \in {"lock", "work", "change"} => D!Refusal(request[s]) = {}
    /\ pc[s] = "change" => method(s) # "GET" /\ ~(request[s].url = "device" /\ index(s) >= Len(s_devices))

\* ... who holds s_mutex, and that the thread of the loop is then theirs, ...
MutexInv(s) ==
    /\ pc[s] \in {"begin", "check", "lock", "work", "change", "unlock"} => Runs(s)
    /\ s \in readers => pc[s] \in {"work", "unlock"}
    /\ writer = s => pc[s] \in {"work", "change", "unlock"} /\ readers = {}
    /\ pc[s] = "work" /\ method(s) = "GET" => s \in readers
    /\ pc[s] \in {"work", "change"} /\ method(s) # "GET" => writer = s

\* ... and that a listing is so far the beginning of the list.
ListingInv(s) ==
    /\ pc[s] \in {"idle", "begin", "read", "check", "lock"} => res[s] = <<>>
    /\ pc[s] = "work" /\ method(s) = "GET" =>
         \E n \in 0 .. Len(s_devices) : res[s] = [i \in 1 .. n |-> <<i - 1, s_devices[i]>>]

\* The invariant that the handlers of the template keep, of which the lock and
\* ImplementsDeviceList are consequences: under the lock a request is one that
\* is not refused, its index is in range and its listing matches s_devices.
Inv == TypeInv /\ \A s \in Sessions : RequestInv(s) /\ MutexInv(s) /\ ListingInv(s)

\* No handler yields with s_mutex held (the comments of the handlers, and
\* plugin.h): a session of the same loop that waits for it would wait for ever.
LockNotHeldAcrossYield == \A s \in readers \cup ({writer} \ {Nobody}) : Runs(s)

\* Those who could have served a request, and that it came to the right one.
Want(q) == {f \in DOMAIN lib : Loads(lib[f]) /\ Asked(f, q.url, q.method) # "declines"}
ServedRight(s) ==
    /\ by[s] \notin {Nobody, StatusPlugin} => by[s] \in Want(request[s])
    /\ by[s] # Nobody => \A f \in Want(request[s]) : OrderOf(by[s]) <= OrderOf(f)
    /\ by[s] = Nobody /\ answer[s].status = 503 => Want(request[s]) = {}

\* A request is served by a plugin of the lowest order among the ones that
\* could be loaded and want it, whatever else was in the directory and in
\* whatever order that was read; 503 means that there is none (exec, and
\* server::create_session).
ServedInOrder == \A s \in Sessions : request[s] # NoRequest => ServedRight(s)

\* What ServedInOrder needs: a session has its request as soon as it has left
\* the start, and somebody to serve it or an answer.
ServiceInv ==
    \A s \in Sessions :
        /\ pc[s] = "idle" <=> request[s] = NoRequest
        /\ pc[s] # "idle" /\ by[s] = Nobody => answer[s] # NoAnswer
        /\ pc[s] # "idle" => ServedRight(s)

\* A request that arrived is answered, or its connection ends: the handlers
\* and the mutex do not block each other for ever.
Answered == \A s \in Sessions : (pc[s] # "idle") ~> (pc[s] = "over")

=============================================================================
