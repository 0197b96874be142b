-------------------------- MODULE RestPluginProofs --------------------------
(***************************************************************************)
(* The invariant of the plugin of the project template, for any number of  *)
(* sessions and loops, any requests and any other plugins, and that it     *)
(* implements DeviceList: every step from a state of Inv is a step of      *)
(* DeviceList, or none.  Then the plugins themselves: each library is      *)
(* cleaned up as it has to be, and requests go by plugin_order.            *)
(***************************************************************************)
EXTENDS RestPlugin, FiniteSetTheorems, TLAPS

Same(t) == pc'[t] = pc[t] /\ request'[t] = request[t] /\ by'[t] = by[t] /\ answer'[t] = answer[t] /\ res'[t] = res[t]

LEMMA Element == ASSUME NEW S, NEW q \in Seq(S), NEW i \in DOMAIN q PROVE q[i] \in S
  OBVIOUS

LEMMA IsFunction == ASSUME NEW S, NEW q \in Seq(S) PROVE q = [i \in 1 .. Len(q) |-> q[i]]
  OBVIOUS

LEMMA Longer == ASSUME NEW S, NEW q \in Seq(S), NEW e \in S PROVE Append(q, e) \in Seq(S)
  OBVIOUS

LEMMA Permuted ==
    ASSUME NEW S, NEW q \in Seq(S), NEW p \in [DOMAIN q -> DOMAIN q]
    PROVE  [i \in DOMAIN q |-> q[p[i]]] \in Seq(S)
  <1>1. DOMAIN q = 1 .. Len(q) /\ Len(q) \in Nat
    OBVIOUS
  <1>2. \A i \in DOMAIN q : q[p[i]] \in S
    BY Element
  <1> QED BY <1>1, <1>2

\* create_session returns a plugin that is loaded and did not decline.
LEMMA CreateSession ==
    ASSUME TypeInv, NEW u, NEW m, NEW f \in create_session(u, m)
    PROVE  f \in DOMAIN lib \cup {StatusPlugin} /\ Asked(f, u, m) # "declines"
  <1>1. PICK i \in DOMAIN m_plugins : f = m_plugins[i].file /\ Asked(m_plugins[i].file, u, m) # "declines"
    BY DEF create_session
  <1>2. m_plugins[i] \in [file : DOMAIN lib \cup {StatusPlugin}, order : Int]
    <2>1. m_plugins \in Seq([file : DOMAIN lib \cup {StatusPlugin}, order : Int])
      BY DEF TypeInv
    <2> QED BY <1>1, <2>1, Element, Zenon
  <1> QED BY <1>1, <1>2

\* What the router lets through to this plugin is one of its routes.
LEMMA Routed ==
    ASSUME TypeInv, NEW u, NEW m, Rest \in create_session(u, m), Asked(Rest, u, m) # "throws"
    PROVE  u \in DOMAIN Routes /\ m \in Routes[u]
  <1>1. Rest \in DOMAIN lib /\ Asked(Rest, u, m) # "declines"
    BY CreateSession, RestAssumption
  <1>2. lib[Rest].serves = Routes
    BY <1>1, RestAssumption DEF TypeInv
  <1> QED BY <1>1, <1>2, RestAssumption, Zenon DEF Asked

\* A session that a step does not concern keeps what is known of its request.
LEMMA Frame ==
    ASSUME NEW t \in Sessions, Same(t), s_devices' = s_devices
    PROVE  (RequestInv(t) => RequestInv(t)') /\ (ListingInv(t) => ListingInv(t)')
  <1>1. RequestInv(t) => RequestInv(t)'
    BY SMTT(30) DEF Same, RequestInv, method, index, body, D!Refusal, D!TooBig, D!BadId, D!Unusable, D!NoBody
  <1>2. ListingInv(t) => ListingInv(t)'
    BY Zenon DEF Same, ListingInv, method
  <1> QED BY <1>1, <1>2, Zenon

LEMMA InitInv == ASSUME Init PROVE Inv
  <1>1. TypeInv
    BY RestAssumption DEF Init, PluginsInit, TypeInv
  <1>2. ASSUME NEW s \in Sessions PROVE RequestInv(s) /\ MutexInv(s) /\ ListingInv(s)
    BY RestAssumption DEF Init, RequestInv, MutexInv, ListingInv
  <1> QED BY <1>1, <1>2 DEF Inv

-----------------------------------------------------------------------------
(* The plugins *)

LEMMA ExecInv ==
    ASSUME Inv, Exec, UNCHANGED <<s_devices, mutex, sessionVars>> PROVE Inv'
  <1>0. TypeInv
    BY DEF Inv
  <1>1. lib' = lib
    BY Zenon DEF Exec, LoadPlugin, SortPlugins, Unload, ClearPlugins
  <1> DEFINE Loaded == [file : DOMAIN lib \cup {StatusPlugin}, order : Int]
  <1>2. m_plugins \in Seq(Loaded)
    BY <1>0 DEF TypeInv
  <1>3. m_plugins' \in Seq(Loaded)
    <2>1. ASSUME NEW f \in unread, LoadPlugin(f), f \in DOMAIN lib PROVE m_plugins' \in Seq(Loaded)
      <3>1. lib[f].order \in Int
        BY <1>0, <2>1, PluginsAssumption, Zenon DEF TypeInv
      <3>2. [file |-> f, order |-> lib[f].order] \in Loaded
        BY <2>1, <3>1
      <3> HIDE DEF Loaded
      <3> QED BY <1>2, <2>1, <3>2, Longer, Zenon DEF LoadPlugin
    <2>2. ASSUME SortPlugins PROVE m_plugins' \in Seq(Loaded)
      <3>1. PICK all \in {m_plugins, Append(m_plugins, [file |-> StatusPlugin, order |-> HalfMax])} :
               \E p \in [DOMAIN all -> DOMAIN all] : m_plugins' = [i \in DOMAIN all |-> all[p[i]]]
        BY <2>2, Zenon DEF SortPlugins
      <3>2. PICK p \in [DOMAIN all -> DOMAIN all] : m_plugins' = [i \in DOMAIN all |-> all[p[i]]]
        BY <3>1
      <3>3. all \in Seq(Loaded)
        <4>1. [file |-> StatusPlugin, order |-> HalfMax] \in Loaded
          BY PluginsAssumption
        <4> HIDE DEF Loaded
        <4> QED BY <1>2, <3>1, <4>1, Longer, ZenonT(60)
      <3> HIDE DEF Loaded
      <3> QED BY <3>2, <3>3, Permuted, Zenon
    <2>3. ASSUME Unload PROVE m_plugins' \in Seq(Loaded)
      BY <2>3 DEF Unload, ClearPlugins
    <2>4. unread \subseteq DOMAIN lib
      BY <1>0 DEF TypeInv
    <2> HIDE DEF Loaded
    <2> QED BY <2>1, <2>2, <2>3, <2>4, Zenon DEF Exec
  <1>4. TypeInv'
    <2>1. unread' \subseteq unread
      BY Zenon DEF Exec, LoadPlugin, SortPlugins, Unload, ClearPlugins
    <2>2. unread' \subseteq DOMAIN lib'
      BY <1>0, <1>1, <2>1 DEF TypeInv
    <2>3. m_plugins' \in Seq([file : DOMAIN lib' \cup {StatusPlugin}, order : Int])
      BY <1>1, <1>3, Zenon
    <2> QED BY <1>0, <1>1, <2>2, <2>3, Zenon DEF TypeInv, mutex, sessionVars
  <1>5. ASSUME NEW t \in Sessions PROVE RequestInv(t)' /\ MutexInv(t)' /\ ListingInv(t)'
    <2>1. Same(t) /\ s_devices' = s_devices
      BY DEF sessionVars, Same
    <2>2. MutexInv(t)'
      BY DEF Inv, MutexInv, Runs, method, mutex, sessionVars
    <2> QED BY <2>1, <2>2, Frame DEF Inv
  <1> QED BY <1>4, <1>5 DEF Inv
-----------------------------------------------------------------------------
(* The sessions: the types *)

LEMMA WithoutIsShorter ==
    ASSUME NEW S, NEW q \in Seq(S), NEW n \in 0 .. Len(q) - 1
    PROVE  D!Without(q, n) \in Seq(S)
  <1>1. SubSeq(q, 1, n) \in Seq(S) /\ SubSeq(q, n + 2, Len(q)) \in Seq(S)
    <2>1. Len(q) \in Nat /\ n \in Int /\ 1 \in Int /\ n + 2 \in Int
      OBVIOUS
    <2> QED BY <2>1
  <1> QED BY <1>1 DEF D!Without

\* At "change" the index and the body are what the change needs.
LEMMA ReadyToChange ==
    ASSUME Inv, NEW s \in Sessions, pc[s] = "change"
    PROVE  /\ method(s) \in {"POST", "PATCH", "DELETE"}
           /\ method(s) = "POST" => body(s)[2] \in Seq(Names)
           /\ method(s) = "PATCH" => body(s)[2] \in Names
           /\ method(s) \in {"PATCH", "DELETE"} =>
                request[s].url = "device" /\ index(s) \in 0 .. Len(s_devices) - 1
           /\ method(s) = "POST" => request[s].url = "devices"
  <1>1. RequestInv(s) /\ by[s] = Rest
    BY Zenon DEF Inv, RequestInv
  <1>2. /\ request[s] \in Requests /\ request[s].url \in {"devices", "device"}
        /\ request[s].url = "devices" => method(s) \in {"GET", "POST"}
        /\ request[s].url = "device" => method(s) \in {"GET", "PATCH", "DELETE"}
        /\ method(s) # "GET"
    BY SMTT(40), Z3T(40), <1>1 DEF RequestInv, Routes
  <1>3. D!Refusal(request[s]) = {}
    BY <1>1, Zenon DEF RequestInv
  <1>4. /\ method(s) = "POST" => body(s)[1] = "names"
        /\ method(s) = "PATCH" => body(s)[1] = "name"
        /\ request[s].url = "device" => index(s) # -1
    BY <1>3, ZenonT(40) DEF D!Refusal, D!TooBig, D!BadId, D!Unusable, method, body, index
  <1>5. /\ index(s) \in Int /\ index(s) >= -1
        /\ body(s)[1] = "names" => body(s)[2] \in Seq(Names)
        /\ body(s)[1] = "name" => body(s)[2] \in Names
    BY <1>2, RestAssumption, Zenon DEF body, index
  <1>6. Len(s_devices) \in Nat
    BY SMTT(40), Z3T(40) DEF Inv, TypeInv
  <1>7. request[s].url = "device" => index(s) < Len(s_devices)
    BY SMTT(40), Z3T(40), <1>1, <1>5, <1>6 DEF RequestInv
  <1> QED BY SMTT(40), Z3T(40), <1>2, <1>4, <1>5, <1>6, <1>7

LEMMA ChangeType == ASSUME Inv, NEW s \in Sessions, Change(s) PROVE s_devices' \in Seq(Names)
  <1>0. pc[s] = "change" /\ s_devices \in Seq(Names)
    BY DEF Change, Inv, TypeInv
  <1>1. CASE method(s) = "POST"
    BY <1>0, <1>1, ReadyToChange, Zenon DEF Change
  <1>2. CASE method(s) = "PATCH"
    <2>1. /\ body(s)[2] \in Names /\ index(s) \in 0 .. Len(s_devices) - 1
          /\ s_devices' = [s_devices EXCEPT ![index(s) + 1] = body(s)[2]]
      BY <1>0, <1>2, ReadyToChange, Zenon DEF Change
    <2> QED BY SMTT(40), Z3T(40), <1>0, <2>1
  <1>3. CASE method(s) = "DELETE"
    <2>1. index(s) \in 0 .. Len(s_devices) - 1 /\ s_devices' = D!Without(s_devices, index(s))
      BY <1>0, <1>3, ReadyToChange DEF Change
    <2> QED BY <1>0, <2>1, WithoutIsShorter, Zenon
  <1> QED BY <1>0, <1>1, <1>2, <1>3, ReadyToChange, Zenon

LEMMA SessionType ==
    ASSUME Inv, NEW s \in Sessions, Arrive(s) \/ Session(s) \/ HangUp(s) PROVE TypeInv'
  <1>0. TypeInv /\ LoopOf[s] \in Loops /\ Nobody \notin Sessions
    BY RestAssumption DEF Inv
  <1>1. UNCHANGED <<lib, unread, m_plugins, todo>>
    BY Zenon DEF Arrive, Session, HangUp, Resume, Handler, Write, Begin, Read, Check, Lock, Get, Find, Change, Unlock, pluginVars
  <1>2. s_devices' \in Seq(Names)
    <2>1. CASE Change(s)
      BY <2>1, ChangeType, Zenon
    <2>2. CASE s_devices' = s_devices
      BY <1>0, <2>2, Zenon DEF TypeInv
    <2> QED BY <2>1, <2>2, Zenon
         DEF Arrive, Session, HangUp, Resume, Handler, Write, Begin, Read, Check, Lock, Get, Find, Unlock
  <1>3. readers' \subseteq Sessions /\ writer' \in Sessions \cup {Nobody}
    BY <1>0, Zenon DEF TypeInv, Arrive, Session, HangUp, Resume, Handler, Write, Begin, Read, Check, Lock, Get, Find, Change, Unlock, mutex
  <1>4. on' \in [Loops -> Sessions \cup {Nobody}]
    BY <1>0, Zenon DEF TypeInv, Arrive, Session, HangUp, Resume, Handler, Write, Begin, Read, Check, Lock, Get, Find, Change, Unlock, Yield
  <1>5. pc' \in [Sessions -> {"idle", "begin", "read", "check", "lock", "work", "change", "unlock", "write", "over"}]
    BY SMTT(40), Z3T(40), <1>0 DEF TypeInv, Arrive, Session, HangUp, Resume, Handler, Write, Begin, Read, Check, Lock, Get, Find, Change, Unlock, Goto
  <1>6. request' \in [Sessions -> Requests \cup {NoRequest}]
    BY <1>0, SMTT(30) DEF TypeInv, Arrive, Session, HangUp, Resume, Handler, Write, Begin, Read, Check, Lock, Get, Find, Change, Unlock
  <1>7. DOMAIN by' = Sessions /\ DOMAIN res' = Sessions /\ DOMAIN answer' = Sessions
    BY <1>0 DEF TypeInv, Arrive, Session, HangUp, Resume, Handler, Write, Begin, Read, Check, Lock, Get, Find, Change, Unlock, Respond
  <1> QED BY Zenon, <1>0, <1>1, <1>2, <1>3, <1>4, <1>5, <1>6, <1>7 DEF TypeInv

-----------------------------------------------------------------------------
(* The sessions: what a step leaves to the others *)

LEMMA Untouched ==
    ASSUME Inv, NEW s \in Sessions, Arrive(s) \/ Session(s) \/ HangUp(s), NEW t \in Sessions \ {s}
    PROVE  /\ Same(t)
           /\ Runs(t) => Runs(t)'
           /\ t \in readers' <=> t \in readers
           /\ writer' = t <=> writer = t
           /\ writer = t => readers' = readers
  <1>0. TypeInv /\ LoopOf[s] \in Loops /\ LoopOf[t] \in Loops /\ Nobody \notin Sessions
    BY RestAssumption, Zenon DEF Inv
  <1>1. pc'[t] = pc[t]
    BY SMTT(40), Z3T(40), <1>0 DEF TypeInv, Arrive, Session, HangUp, Resume, Handler, Write, Begin, Read, Check, Lock, Get, Find, Change, Unlock, Goto
  <1>2. request'[t] = request[t]
    BY <1>0, Zenon DEF TypeInv, Arrive, Session, HangUp, Resume, Handler, Write, Begin, Read, Check, Lock, Get, Find, Change, Unlock
  <1>3. by'[t] = by[t]
    BY <1>0, ZenonT(40) DEF TypeInv, Arrive, Session, HangUp, Resume, Handler, Write, Begin, Read, Check, Lock, Get, Find, Change, Unlock
  <1>4. answer'[t] = answer[t]
    BY SMTT(40), Z3T(40), <1>0 DEF TypeInv, Arrive, Session, HangUp, Resume, Handler, Write, Begin, Read, Check, Lock, Get, Find, Change, Unlock, Respond
  <1>5. res'[t] = res[t]
    BY <1>0 DEF TypeInv, Arrive, Session, HangUp, Resume, Handler, Write, Begin, Read, Check, Lock, Get, Find, Change, Unlock
  <1>6. Runs(t) => Runs(t)'
    <2>1. CASE Arrive(s) \/ Resume(s)
      BY <1>0, <2>1, Zenon DEF TypeInv, Runs, Arrive, Resume
    <2>2. CASE (Read(s) \/ Write(s)) /\ Yield(s)
      BY <1>0, <2>2, Zenon DEF TypeInv, Runs, Read, Write, Yield
    <2>3. CASE on' = on
      BY <2>3 DEF Runs
    <2> QED BY <2>1, <2>2, <2>3, Zenon
          DEF Session, HangUp, Handler, Write, Begin, Read, Check, Lock, Get, Find, Change, Unlock
  <1>7. /\ t \in readers' <=> t \in readers
        /\ writer' = t <=> writer = t
        /\ writer = t => readers' = readers
    <2>1. CASE Unlock(s)
      <3>1. writer = t => s \notin readers
        BY DEF Inv, MutexInv
      <3> QED BY SMTT(40), Z3T(40), <1>0, <2>1, <3>1 DEF Unlock
    <2>2. CASE Lock(s)
      BY <1>0, <2>2 DEF Lock
    <2>3. CASE UNCHANGED mutex
      BY <2>3, Zenon DEF mutex
    <2> QED BY <2>1, <2>2, <2>3, Zenon
          DEF Arrive, Session, HangUp, Resume, Handler, Write, Begin, Read, Check, Get, Find, Change
  <1> QED BY <1>1, <1>2, <1>3, <1>4, <1>5, <1>6, <1>7 DEF Same

LEMMA OthersKeep ==
    ASSUME Inv, NEW s \in Sessions, Arrive(s) \/ Session(s) \/ HangUp(s), NEW t \in Sessions \ {s}
    PROVE  RequestInv(t)' /\ MutexInv(t)' /\ ListingInv(t)'
  <1>0. Same(t) /\ RequestInv(t) /\ MutexInv(t) /\ ListingInv(t)
    BY Untouched, Zenon DEF Inv
  <1>1. MutexInv(t)'
    BY <1>0, Untouched DEF MutexInv, Same, method
  <1>2. CASE s_devices' = s_devices
    BY <1>0, <1>1, <1>2, Frame, Zenon
  <1>3. CASE Change(s)
    <2>1. writer = s /\ readers = {}
      <3>1. pc[s] = "change" /\ method(s) # "GET"
        BY <1>3, Zenon DEF Change, Inv, RequestInv
      <3> QED BY <3>1 DEF Inv, MutexInv
    <2>2. pc[t] # "change" /\ ~(pc[t] = "work" /\ method(t) = "GET")
      BY <1>0, <2>1, Zenon DEF RequestInv, MutexInv
    <2>3. RequestInv(t)'
      <3>1. pc'[t] # "change"
        BY <1>0, <2>2, Zenon DEF Same
      <3> QED BY <1>0, <3>1, SMTT(60) DEF Same, RequestInv, method, index, body, D!Refusal, D!TooBig, D!BadId, D!Unusable, D!NoBody
    <2>4. ListingInv(t)'
      BY <1>0, <2>2 DEF Same, ListingInv, method
    <2> QED BY <1>1, <2>3, <2>4, Zenon
  <1> QED BY <1>2, <1>3, Zenon
        DEF Arrive, Session, HangUp, Resume, Handler, Write, Begin, Read, Check, Lock, Get, Find, Unlock

-----------------------------------------------------------------------------
(* The sessions: the one that takes the step *)

LEMMA ArriveKeeps ==
    ASSUME Inv, NEW s \in Sessions, Arrive(s) PROVE RequestInv(s)' /\ MutexInv(s)' /\ ListingInv(s)'
  <1>0. TypeInv /\ RequestInv(s) /\ MutexInv(s) /\ ListingInv(s) /\ LoopOf[s] \in Loops /\ Nobody \notin Sessions
    BY RestAssumption, SMTT(30) DEF Inv
  <1>1. /\ pc[s] = "idle" /\ by[s] = Nobody /\ answer[s] = NoAnswer /\ todo[s] \in Requests /\ res[s] = <<>>
        /\ request'[s] = todo[s] /\ on'[LoopOf[s]] = s /\ UNCHANGED <<s_devices, readers, writer, res>>
        /\ s \notin readers /\ writer # s
    BY <1>0, Zenon DEF Arrive, TypeInv, RequestInv, MutexInv, ListingInv, mutex
  <1>2. \/ pc'[s] = "write" /\ by'[s] # Rest
        \/ /\ pc'[s] = "begin" /\ by'[s] = Rest /\ answer'[s] = NoAnswer
           /\ todo[s].url \in DOMAIN Routes /\ todo[s].method \in Routes[todo[s].url]
    <2> DEFINE q == todo[s]
               plugins == create_session(q.url, q.method)
    <2>1. CASE plugins = {} /\ Goto(s, "write") /\ UNCHANGED by
      BY <1>0, <1>1, <2>1, RestAssumption, Zenon DEF TypeInv, Goto
    <2>2. ASSUME NEW f \in plugins, Goto(s, "write"), UNCHANGED by
          PROVE  pc'[s] = "write" /\ by'[s] # Rest
      BY <1>0, <1>1, <2>2, RestAssumption, Zenon DEF TypeInv, Goto
    <2>3. ASSUME NEW f \in plugins, f # Rest, by' = [by EXCEPT ![s] = f], Goto(s, "write")
          PROVE  pc'[s] = "write" /\ by'[s] # Rest
      BY <1>0, <2>3, Zenon DEF TypeInv, Goto
    <2>4. ASSUME NEW f \in plugins, f = Rest, Asked(f, q.url, q.method) # "throws",
                 by' = [by EXCEPT ![s] = f], Goto(s, "begin"), UNCHANGED answer
          PROVE  /\ pc'[s] = "begin" /\ by'[s] = Rest /\ answer'[s] = NoAnswer
                 /\ q.url \in DOMAIN Routes /\ q.method \in Routes[q.url]
      <3>1. q.url \in DOMAIN Routes /\ q.method \in Routes[q.url]
        BY <1>0, <2>4, Routed
      <3> QED BY <1>0, <1>1, <2>4, <3>1, Zenon DEF TypeInv, Goto
    <2> HIDE DEF plugins
    <2>5. \/ plugins = {} /\ Goto(s, "write") /\ UNCHANGED by
          \/ \E f \in plugins : IF Asked(f, q.url, q.method) = "throws"
                THEN Goto(s, "write") /\ UNCHANGED by
                ELSE by' = [by EXCEPT ![s] = f] /\ IF f = Rest THEN Goto(s, "begin") /\ UNCHANGED answer
                                                   ELSE Goto(s, "write")
      BY Zenon DEF Arrive, plugins
    <2> HIDE DEF q
    <2> QED BY <2>1, <2>2, <2>3, <2>4, <2>5, Zenon DEF q
  <1>3. RequestInv(s)'
    BY <1>1, <1>2, RestAssumption, Zenon DEF RequestInv, method
  <1>4. MutexInv(s)' /\ ListingInv(s)'
    BY <1>1, <1>2, Zenon DEF MutexInv, ListingInv, Runs
  <1> QED BY <1>3, <1>4, Zenon

LEMMA WaitKeeps ==
    ASSUME Inv, NEW s \in Sessions, Resume(s) \/ HangUp(s) \/ Write(s)
    PROVE  RequestInv(s)' /\ MutexInv(s)' /\ ListingInv(s)'
  <1>0. TypeInv /\ RequestInv(s) /\ MutexInv(s) /\ ListingInv(s) /\ LoopOf[s] \in Loops /\ Nobody \notin Sessions
    BY RestAssumption, Zenon DEF Inv
  <1>1. /\ pc[s] \in {"read", "write"} /\ pc'[s] \in {pc[s], "over"}
        /\ UNCHANGED <<s_devices, readers, writer, request, by, res>>
        /\ pc'[s] = "read" => answer'[s] = answer[s]
    BY <1>0, SMTT(30) DEF Resume, HangUp, Write, Goto, TypeInv, mutex
  <1>2. RequestInv(s)'
    BY SMTT(40), Z3T(40), <1>0, <1>1 DEF RequestInv, method, index
  <1>3. MutexInv(s)' /\ ListingInv(s)'
    BY <1>0, <1>1, Zenon DEF MutexInv, ListingInv
  <1> QED BY <1>2, <1>3, Zenon

LEMMA BeforeLockKeeps ==
    ASSUME Inv, NEW s \in Sessions, Begin(s) \/ Read(s) \/ Check(s) \/ Lock(s)
    PROVE  RequestInv(s)' /\ MutexInv(s)' /\ ListingInv(s)'
  <1>0. TypeInv /\ RequestInv(s) /\ MutexInv(s) /\ ListingInv(s) /\ LoopOf[s] \in Loops /\ Nobody \notin Sessions
    BY RestAssumption, SMTT(30) DEF Inv
  <1>1. /\ by[s] = Rest /\ request[s] \in Requests /\ UNCHANGED <<request, by, res, s_devices>>
        /\ request[s].url \in {"devices", "device"}
        /\ request[s].url = "devices" => method(s) \in {"GET", "POST"}
        /\ request[s].url = "device" => method(s) \in {"GET", "PATCH", "DELETE"}
        /\ request[s].url \in DOMAIN Routes /\ method(s) \in Routes[request[s].url]
    BY <1>0 DEF Begin, Read, Check, Lock, RequestInv, Routes
  <1>2. CASE Begin(s)
    <2>1. /\ pc'[s] \in {"read", "write"} /\ UNCHANGED <<on, readers, writer>> /\ s \notin readers /\ writer # s
          /\ pc'[s] = "read" => answer'[s] = NoAnswer /\ ~(method(s) = "PATCH" /\ index(s) = -1)
          /\ res[s] = <<>>
      BY <1>0, <1>2 DEF Begin, Goto, TypeInv, RequestInv, MutexInv, ListingInv, mutex
    <2>2. RequestInv(s)'
      BY <1>1, <2>1, RestAssumption, Zenon DEF RequestInv, method, index
    <2>3. MutexInv(s)' /\ ListingInv(s)'
      BY <1>1, <2>1, Zenon DEF MutexInv, ListingInv
    <2> QED BY <2>2, <2>3, Zenon
  <1>3. CASE Read(s)
    <2>1. /\ pc'[s] \in {"read", "check", "write"} /\ UNCHANGED <<readers, writer>> /\ s \notin readers /\ writer # s
          /\ pc'[s] \in {"read", "check"} => answer'[s] = NoAnswer
          /\ pc'[s] = "check" =>
               /\ on' = on /\ Runs(s)
               /\ ~(method(s) \in {"POST", "PATCH"} /\ body(s)[1] = "huge")
               /\ method(s) \notin {"POST", "PATCH"} => body(s) = D!NoBody
          /\ res[s] = <<>> /\ ~(method(s) = "PATCH" /\ index(s) = -1)
      BY <1>0, <1>3, ZenonT(30) DEF Read, Goto, TypeInv, RequestInv, MutexInv, ListingInv, mutex
    <2>2. RequestInv(s)'
      BY <1>1, <2>1, RestAssumption, Zenon DEF RequestInv, method, index, body, D!TooBig, D!NoBody
    <2>3. MutexInv(s)' /\ ListingInv(s)'
      BY <1>1, <2>1, Zenon DEF MutexInv, ListingInv, Runs
    <2> QED BY <2>2, <2>3, Zenon
  <1>4. CASE Check(s)
    <2>1. /\ pc'[s] \in {"lock", "write"} /\ UNCHANGED <<on, readers, writer>> /\ s \notin readers /\ writer # s
          /\ pc'[s] = "lock" => answer'[s] = NoAnswer /\ Valid(s)
          /\ res[s] = <<>> /\ Runs(s)
          /\ ~(method(s) = "PATCH" /\ index(s) = -1) /\ ~D!TooBig(request[s])
          /\ method(s) \in {"GET", "DELETE"} => body(s) = D!NoBody
      BY <1>0, <1>4, ZenonT(30) DEF Check, Goto, TypeInv, RequestInv, MutexInv, ListingInv, mutex
    <2>2. pc'[s] = "lock" => D!Refusal(request[s]) = {}
      BY <1>1, <2>1 DEF Valid, D!Refusal, D!BadId, D!Unusable, method, index, body
    <2>3. RequestInv(s)'
      BY <1>1, <2>1, <2>2, RestAssumption, ZenonT(30) DEF RequestInv, method
    <2>4. MutexInv(s)' /\ ListingInv(s)'
      BY <1>1, <2>1, ZenonT(30) DEF MutexInv, ListingInv, Runs
    <2> QED BY <2>3, <2>4
  <1>5. CASE Lock(s)
    <2>1. /\ pc'[s] = "work" /\ UNCHANGED <<on, answer>> /\ Runs(s) /\ res[s] = <<>>
          /\ answer[s] = NoAnswer /\ D!Refusal(request[s]) = {}
          /\ method(s) = "GET" => s \in readers' /\ writer' = Nobody
          /\ method(s) # "GET" => readers' = {} /\ writer' = s
      BY <1>0, <1>5, Zenon DEF Lock, Goto, TypeInv, RequestInv, ListingInv
    <2>2. RequestInv(s)'
      BY <1>1, <2>1, RestAssumption, Zenon DEF RequestInv, method
    <2>3. MutexInv(s)'
      BY <1>0, <1>1, <2>1, Zenon DEF MutexInv, Runs, method
    <2>4. ListingInv(s)'
      <3>1. res'[s] = [i \in 1 .. 0 |-> <<i - 1, s_devices'[i]>>] /\ 0 \in 0 .. Len(s_devices')
        <4>1. s_devices' \in Seq(Names) /\ res'[s] = <<>>
          BY <1>0, <1>1, <2>1, Zenon DEF TypeInv
        <4> QED BY <4>1
      <3> QED BY <2>1, <3>1, Zenon DEF ListingInv
    <2> QED BY <2>2, <2>3, <2>4, Zenon
  <1> QED BY <1>2, <1>3, <1>4, <1>5, Zenon

\* The copy of s_devices that get_devices makes, and one entry more.
Prefix(d, n) == [i \in 1 .. n |-> <<i - 1, d[i]>>]

LEMMA ListingGrows ==
    ASSUME NEW S, NEW d \in Seq(S), NEW n \in 0 .. Len(d)
    PROVE  /\ Len(Prefix(d, n)) = n
           /\ Append(Prefix(d, n), <<n, d[n + 1]>>) = Prefix(d, n + 1)
  <1> DEFINE r == Prefix(d, n)
             next == <<n, d[n + 1]>>
             f == Prefix(d, n + 1)
             T == {f[i] : i \in 1 .. n + 1}
  <1>0. n \in Nat /\ Len(d) \in Nat
    OBVIOUS
  <1>1. r \in Seq(T) /\ Len(r) = n
    <2>1. \A i \in 1 .. n : i \in 1 .. n + 1 /\ <<i - 1, d[i]>> = f[i]
      BY SMTT(40), Z3T(40), <1>0 DEF Prefix
    <2>2. r \in [1 .. n -> T]
      BY <2>1 DEF Prefix
    <2> HIDE DEF T, f, r
    <2> QED BY SMTT(40), Z3T(40), <1>0, <2>2
  <1>2. f[n + 1] = next
    BY SMTT(40), Z3T(40), <1>0 DEF Prefix
  <1>3. /\ Append(r, next) \in Seq(T) /\ Len(Append(r, next)) = n + 1
        /\ \A i \in 1 .. n : Append(r, next)[i] = r[i]
        /\ Append(r, next)[n + 1] = next
    <2>1. next \in T
      <3>1. n + 1 \in 1 .. n + 1
        BY SMTT(40), Z3T(40), <1>0
      <3> HIDE DEF f, next
      <3> QED BY <1>2, <3>1, Zenon
    <2> HIDE DEF T, r, next, f
    <2> QED BY SMTT(40), Z3T(40), <1>0, <1>1, <2>1
  <1>4. \A i \in 1 .. n + 1 : Append(r, next)[i] = f[i]
    <2>1. ASSUME NEW i \in 1 .. n PROVE Append(r, next)[i] = f[i]
      <3>1. r[i] = <<i - 1, d[i]>> /\ i \in 1 .. n + 1
        BY <1>0 DEF Prefix
      <3>2. f[i] = <<i - 1, d[i]>>
        BY <3>1 DEF Prefix
      <3> HIDE DEF next, f, r
      <3> QED BY <1>3, <3>1, <3>2, Zenon
    <2>2. \A i \in 1 .. n + 1 : i \in 1 .. n \/ i = n + 1
      BY <1>0
    <2> HIDE DEF next, f, r
    <2> QED BY <1>2, <1>3, <2>1, <2>2, Zenon
  <1>5. Append(r, next) = f
    <2>1. Append(r, next) = [i \in 1 .. n + 1 |-> Append(r, next)[i]]
      <3>1. Append(r, next) = [i \in 1 .. Len(Append(r, next)) |-> Append(r, next)[i]]
        BY <1>3, IsFunction, Zenon
      <3> HIDE DEF T, r, next, f
      <3> QED BY <1>3, <3>1
    <2>2. f = [i \in 1 .. n + 1 |-> f[i]]
      BY Zenon DEF Prefix
    <2> HIDE DEF next, f, r
    <2> QED BY <1>4, <2>1, <2>2, Zenon
  <1> QED BY <1>1, <1>5, Zenon

LEMMA UnderLockKeeps ==
    ASSUME Inv, NEW s \in Sessions, Get(s) \/ Find(s) \/ Change(s) \/ Unlock(s)
    PROVE  RequestInv(s)' /\ MutexInv(s)' /\ ListingInv(s)'
  <1>0. TypeInv /\ RequestInv(s) /\ MutexInv(s) /\ ListingInv(s) /\ LoopOf[s] \in Loops /\ Nobody \notin Sessions
    BY RestAssumption, SMTT(30) DEF Inv
  <1>1. UNCHANGED <<request, by, on>> /\ pc[s] \in {"work", "change", "unlock"} /\ Runs(s)
    BY DEF Get, Find, Change, Unlock
  <1>2. ASSUME Get(s), pc'[s] = "work" PROVE RequestInv(s)' /\ MutexInv(s)' /\ ListingInv(s)'
    <2>1. /\ pc[s] = "work" /\ method(s) = "GET" /\ UNCHANGED <<s_devices, answer, readers, writer>>
          /\ Len(res[s]) < Len(s_devices)
          /\ res'[s] = Append(res[s], <<Len(res[s]), s_devices[Len(res[s]) + 1]>>)
      BY <1>0, <1>2, Zenon DEF Get, Goto, TypeInv, mutex
    <2>2. PICK n \in 0 .. Len(s_devices) : res[s] = Prefix(s_devices, n)
      BY <1>0, <2>1, Zenon DEF ListingInv, Prefix
    <2>3. s_devices \in Seq(Names)
      BY <1>0 DEF TypeInv
    <2>4. Len(res[s]) = n /\ res'[s] = Prefix(s_devices, n + 1)
      <3>1. /\ Len(res[s]) = n
            /\ Append(res[s], <<n, s_devices[n + 1]>>) = Prefix(s_devices, n + 1)
        BY <2>2, <2>3, ListingGrows, Zenon
      <3> QED BY <2>1, <3>1, Zenon
    <2>5. n + 1 \in 0 .. Len(s_devices)
      BY SMTT(40), Z3T(40), <2>1, <2>3, <2>4
    <2>6. ListingInv(s)'
      BY <1>2, <2>1, <2>4, <2>5, Zenon DEF ListingInv, Prefix
    <2>7. RequestInv(s)'
      BY <1>0, <1>1, <1>2, <2>1, SMTT(60), Z3T(60) DEF RequestInv, method, index, body
    <2>8. MutexInv(s)'
      BY <1>0, <1>1, <1>2, <2>1, Zenon DEF MutexInv, method, Runs
    <2> QED BY <2>6, <2>7, <2>8, Zenon
  <1>3. ASSUME pc'[s] = "unlock", UNCHANGED mutex, pc[s] \in {"work", "change"}
        PROVE  RequestInv(s)' /\ MutexInv(s)' /\ ListingInv(s)'
    <2>1. RequestInv(s)'
      BY <1>0, <1>1, <1>3, Zenon DEF RequestInv, method
    <2>2. MutexInv(s)' /\ ListingInv(s)'
      BY <1>0, <1>1, <1>3, Zenon DEF MutexInv, ListingInv, mutex, Runs
    <2> QED BY <2>1, <2>2
  <1>4. ASSUME Find(s), pc'[s] = "change" PROVE RequestInv(s)' /\ MutexInv(s)' /\ ListingInv(s)'
    <2>1. pc[s] = "work" /\ method(s) # "GET" /\ ~OutOfRange(s) /\ UNCHANGED <<answer, s_devices, readers, writer>>
      BY <1>0, <1>4, Zenon DEF Find, Goto, TypeInv, mutex
    <2>2. RequestInv(s)'
      BY <1>0, <1>1, <1>4, <2>1, Zenon DEF RequestInv, OutOfRange, method, index
    <2>3. MutexInv(s)' /\ ListingInv(s)'
      BY <1>0, <1>1, <1>4, <2>1, Zenon DEF MutexInv, ListingInv, method, Runs
    <2> QED BY <2>2, <2>3, Zenon
  <1>5. ASSUME Unlock(s) PROVE RequestInv(s)' /\ MutexInv(s)' /\ ListingInv(s)'
    <2>1. pc'[s] = "write" /\ s \notin readers' /\ writer' # s
      BY <1>0, <1>5, Zenon DEF Unlock, Goto, TypeInv
    <2>2. RequestInv(s)'
      BY <1>0, <1>1, <2>1, Zenon DEF RequestInv, method
    <2>3. MutexInv(s)' /\ ListingInv(s)'
      BY <2>1 DEF MutexInv, ListingInv
    <2> QED BY <2>2, <2>3, Zenon
  <1>6. Get(s) => pc[s] = "work" /\ pc'[s] \in {"work", "unlock"} /\ UNCHANGED mutex
    BY <1>0, Zenon DEF Get, Goto, TypeInv
  <1>7. Find(s) => pc[s] = "work" /\ pc'[s] \in {"change", "unlock"} /\ UNCHANGED mutex
    BY <1>0, Zenon DEF Find, Goto, TypeInv
  <1>8. Change(s) => pc[s] = "change" /\ pc'[s] = "unlock" /\ UNCHANGED mutex
    BY <1>0, Zenon DEF Change, Goto, TypeInv
  <1> QED BY <1>2, <1>3, <1>4, <1>5, <1>6, <1>7, <1>8, Zenon

-----------------------------------------------------------------------------
LEMMA NextInv == ASSUME Inv, [Next]_vars PROVE Inv'
  <1>1. CASE Exec /\ UNCHANGED <<s_devices, mutex, sessionVars>>
    BY <1>1, ExecInv
  <1>2. ASSUME NEW s \in Sessions, Arrive(s) \/ Session(s) \/ HangUp(s) PROVE Inv'
    <2>1. TypeInv'
      BY <1>2, SessionType, Zenon
    <2>2. RequestInv(s)' /\ MutexInv(s)' /\ ListingInv(s)'
      BY <1>2, ArriveKeeps, WaitKeeps, BeforeLockKeeps, UnderLockKeeps, Zenon DEF Session, Handler
    <2>3. ASSUME NEW t \in Sessions \ {s} PROVE RequestInv(t)' /\ MutexInv(t)' /\ ListingInv(t)'
      BY <1>2, OthersKeep
    <2> QED BY <2>1, <2>2, <2>3, Zenon DEF Inv
  <1>3. CASE UNCHANGED vars
    <2>1. TypeInv'
      BY <1>3, Zenon DEF Inv, TypeInv, vars, pluginVars, sessionVars
    <2>2. ASSUME NEW t \in Sessions PROVE RequestInv(t)' /\ MutexInv(t)' /\ ListingInv(t)'
      <3>1. Same(t) /\ s_devices' = s_devices
        BY <1>3, Zenon DEF vars, sessionVars, Same
      <3>2. MutexInv(t)'
        BY <1>3 DEF Inv, MutexInv, Runs, method, vars, sessionVars
      <3> QED BY <3>1, <3>2, Frame, Zenon DEF Inv
    <2> QED BY <2>1, <2>2, Zenon DEF Inv
  <1> QED BY <1>1, <1>2, <1>3, Zenon DEF Next

\* The handlers of the template keep the invariant, for every plugin directory
\* and every set of requests.
THEOREM HandlersKeepInv == Spec => []Inv
  <1>1. Init => Inv
    BY InitInv
  <1>2. Inv /\ [Next]_vars => Inv'
    BY NextInv
  <1> QED BY <1>1, <1>2, PTL DEF Spec

\* Whoever holds s_mutex has the thread of their loop: no handler of the
\* template yields with it held.
THEOREM NoYieldUnderLock == Spec => []LockNotHeldAcrossYield
  <1>1. Inv => LockNotHeldAcrossYield
    BY RestAssumption, Zenon DEF Inv, TypeInv, MutexInv, LockNotHeldAcrossYield
  <1> QED BY <1>1, HandlersKeepInv, PTL

-----------------------------------------------------------------------------
(* The refinement *)

Asked_ == [s \in Sessions |-> IF by[s] = Rest THEN request[s] ELSE NoRequest]
Replied_ == [s \in Sessions |-> IF by[s] = Rest THEN answer[s] ELSE NoAnswer]

\* A step that no session of this plugin notices.
LEMMA Unnoticed ==
    ASSUME UNCHANGED s_devices,
           \A t \in Sessions : /\ by'[t] = Rest <=> by[t] = Rest
                               /\ by[t] = Rest => request'[t] = request[t] /\ answer'[t] = answer[t]
    PROVE  UNCHANGED D!vars
  <1>1. Asked_' = Asked_ /\ Replied_' = Replied_
    BY DEF Asked_, Replied_
  <1> QED BY <1>1, Zenon DEF D!vars, Asked_, Replied_

\* The answer is decided for a request that this plugin serves.
LEMMA Decided ==
    ASSUME TypeInv, NEW s \in Sessions, by[s] = Rest, request[s] \in Requests, answer[s] = NoAnswer,
           UNCHANGED <<by, request>>, NEW a, Respond(s, a)
    PROVE  /\ D!Open(s)
           /\ Asked_[s] = request[s]
           /\ Replied_' = [Replied_ EXCEPT ![s] = a]
           /\ Asked_' = Asked_
  BY RestAssumption, Zenon DEF TypeInv, D!Open, Asked_, Replied_, Respond

LEMMA Refused ==
    ASSUME TypeInv, NEW s \in Sessions, by[s] = Rest, request[s] \in Requests, answer[s] = NoAnswer,
           UNCHANGED <<by, request, s_devices>>,
           NEW c, D!Refusal(request[s]) = {c}, Respond(s, D!Status(c))
    PROVE  D!Refuse(s)
  <1>1. /\ D!Open(s) /\ Asked_[s] = request[s]
        /\ Replied_' = [Replied_ EXCEPT ![s] = D!Status(c)] /\ Asked_' = Asked_
    BY Decided, Zenon
  <1>2. \E status \in D!Refusal(Asked_[s]) : Replied_' = [Replied_ EXCEPT ![s] = D!Status(status)]
    BY <1>1, Zenon
  <1> QED BY <1>1, <1>2, Zenon DEF D!Refuse, Asked_, Replied_

LEMMA Served ==
    ASSUME TypeInv, NEW s \in Sessions, by[s] = Rest, request[s] \in Requests, answer[s] = NoAnswer,
           UNCHANGED <<by, request>>, D!Refusal(request[s]) = {},
           Respond(s, D!Reply(request[s], s_devices)), s_devices' = D!Effect(request[s], s_devices)
    PROVE  D!Serve(s)
  <1>1. /\ D!Open(s) /\ Asked_[s] = request[s]
        /\ Replied_' = [Replied_ EXCEPT ![s] = D!Reply(request[s], s_devices)] /\ Asked_' = Asked_
    BY Decided, Zenon
  <1>2. D!Refusal(Asked_[s]) = {} /\ Replied_' = [Replied_ EXCEPT ![s] = D!Reply(Asked_[s], s_devices)]
        /\ s_devices' = D!Effect(Asked_[s], s_devices)
    BY <1>1
  <1> QED BY <1>1, <1>2, Zenon DEF D!Serve, Asked_, Replied_

LEMMA ArriveRefines ==
    ASSUME Inv, Inv', NEW s \in Sessions, Arrive(s) PROVE D!Next \/ UNCHANGED D!vars
  <1>0. TypeInv /\ pc[s] = "idle" /\ by[s] = Nobody /\ answer[s] = NoAnswer /\ Rest # Nobody
        /\ s_devices' = s_devices /\ todo[s] \in Requests /\ NoRequest \notin Requests
    BY RestAssumption, ZenonT(40) DEF Inv, TypeInv, RequestInv, Arrive
  <1>1. \A t \in Sessions \ {s} : Same(t)
    BY Untouched
  <1>2. CASE by'[s] # Rest
    BY <1>0, <1>1, <1>2, Unnoticed, Zenon DEF Same
  <1>3. CASE by'[s] = Rest
    <2>1. answer'[s] = NoAnswer /\ request'[s] = todo[s]
      <3>1. UNCHANGED answer \/ by' = by \/ \E f : f # Rest /\ by' = [by EXCEPT ![s] = f]
        BY Zenon DEF Arrive
      <3>2. request'[s] = todo[s]
        BY <1>0, Zenon DEF Arrive, TypeInv
      <3>3. by' # by /\ \A f : f # Rest => by' # [by EXCEPT ![s] = f]
        BY <1>0, <1>3, Zenon DEF TypeInv
      <3>4. UNCHANGED answer
        BY <3>1, <3>3, Zenon
      <3> QED BY <1>0, <3>2, <3>4, Zenon
    <2>2. Asked_' = [Asked_ EXCEPT ![s] = todo[s]] /\ Replied_' = Replied_ /\ Asked_[s] = NoRequest
      BY <1>0, <1>1, <1>3, <2>1, Zenon DEF Asked_, Replied_, Same
    <2>3. PICK q \in Requests : q = todo[s]
      BY <1>0, Zenon
    <2>4. D!Ask(s, q)
      BY <1>0, <2>2, <2>3, Zenon DEF D!Ask, Asked_, Replied_
    <2> QED BY <2>4, Zenon DEF D!Next
  <1> QED BY <1>2, <1>3, Zenon

LEMMA HandlerRefines ==
    ASSUME Inv, NEW s \in Sessions, Handler(s) PROVE D!Next \/ UNCHANGED D!vars
  <1>0. TypeInv /\ RequestInv(s) /\ MutexInv(s) /\ ListingInv(s) /\ s_devices \in Seq(Names) /\ Len(s_devices) \in Nat
    <2>1. TypeInv /\ RequestInv(s) /\ MutexInv(s) /\ ListingInv(s) /\ s_devices \in Seq(Names)
      BY Zenon DEF Inv, TypeInv
    <2> QED BY SMTT(40), Z3T(40), <2>1
  <1>1. \A t \in Sessions \ {s} : Same(t)
    BY Untouched, Zenon DEF Session
  <1>2. UNCHANGED <<by, request>> /\ (Change(s) \/ UNCHANGED s_devices)
    BY Zenon DEF Handler, Begin, Read, Check, Lock, Get, Find, Change, Unlock
  <1>3. CASE UNCHANGED <<answer, s_devices>>
    BY <1>2, <1>3, Unnoticed, Zenon
  <1>4. pc[s] # "unlock" =>
          /\ by[s] = Rest /\ request[s] \in Requests /\ answer[s] = NoAnswer
          /\ request[s].url \in {"devices", "device"}
          /\ request[s].url = "devices" => method(s) \in {"GET", "POST"}
          /\ request[s].url = "device" => method(s) \in {"GET", "PATCH", "DELETE"}
          /\ index(s) \in Int /\ index(s) >= -1
    <2>1. pc[s] # "unlock" => pc[s] \in {"begin", "read", "check", "lock", "work", "change"}
      BY Zenon DEF Handler, Begin, Read, Check, Lock, Get, Find, Change, Unlock
    <2>2. pc[s] # "unlock" =>
            /\ by[s] = Rest /\ request[s] \in Requests /\ answer[s] = NoAnswer
            /\ request[s].url \in {"devices", "device"}
            /\ request[s].url = "devices" => method(s) \in {"GET", "POST"}
            /\ request[s].url = "device" => method(s) \in {"GET", "PATCH", "DELETE"}
      BY SMTT(40), Z3T(40), <1>0, <2>1 DEF RequestInv, Routes
    <2> QED BY <2>2, RestAssumption, Zenon DEF index
  <1>5. ASSUME NEW c, pc[s] # "unlock", ~Change(s), D!Refusal(request[s]) = {c}, Respond(s, D!Status(c)) PROVE D!Next
    <2>1. D!Refuse(s)
      BY <1>0, <1>2, <1>4, <1>5, Refused, Zenon
    <2> QED BY <2>1, Zenon DEF D!Next
  <1>6. ASSUME pc[s] \in {"work", "change"}, Respond(s, D!Reply(request[s], s_devices)),
               s_devices' = D!Effect(request[s], s_devices)
        PROVE  D!Next
    <2>1. D!Refusal(request[s]) = {}
      BY <1>0, <1>6, Zenon DEF RequestInv
    <2>2. D!Serve(s)
      BY <1>0, <1>2, <1>4, <1>6, <2>1, Served, Zenon
    <2> QED BY <2>2, Zenon DEF D!Next
  <1>7. CASE Begin(s) /\ answer' # answer
    <2>1. pc[s] = "begin" /\ method(s) = "PATCH" /\ index(s) = -1 /\ Respond(s, D!Status(400))
      BY <1>7, Zenon DEF Begin
    <2>2. D!Refusal(request[s]) = {400}
      BY <1>4, <2>1, Zenon DEF D!Refusal, D!BadId, method, index
    <2>3. ~Change(s)
      BY <2>1, Zenon DEF Change
    <2> QED BY <1>5, <2>1, <2>2, <2>3, Zenon
  <1>8. CASE Read(s) /\ answer' # answer
    <2>1. /\ pc[s] = "read"
          /\ \/ method(s) \in {"POST", "PATCH"} /\ body(s)[1] = "huge" /\ Respond(s, D!Status(413))
             \/ method(s) \notin {"POST", "PATCH"} /\ body(s) # D!NoBody /\ Respond(s, D!Status(400))
      BY <1>8, Zenon DEF Read
    <2>2. ~(method(s) = "PATCH" /\ index(s) = -1)
      BY <1>0, <2>1, Zenon DEF RequestInv
    <2>3. method(s) \in {"POST", "PATCH"} /\ body(s)[1] = "huge" => D!Refusal(request[s]) = {413}
      BY <1>4, <2>1, <2>2, Zenon DEF D!Refusal, D!TooBig, D!BadId, method, index, body
    <2>4. method(s) \notin {"POST", "PATCH"} /\ body(s) # D!NoBody => D!Refusal(request[s]) = {400}
      BY <1>4, <2>1, Zenon DEF D!Refusal, D!TooBig, D!Unusable, method, body
    <2>5. ~Change(s)
      BY <2>1, Zenon DEF Change
    <2> QED BY <1>5, <2>1, <2>3, <2>4, <2>5, ZenonT(40)
  <1>9. CASE Check(s) /\ answer' # answer
    <2>1. pc[s] = "check" /\ ~Valid(s) /\ Respond(s, D!Status(400))
      BY <1>9, Zenon DEF Check
    <2>2. ~D!TooBig(request[s])
      BY <1>0, <2>1, Zenon DEF RequestInv
    <2>3. D!BadId(request[s]) \/ D!Unusable(request[s])
      BY <1>4, <2>1, Zenon DEF Valid, D!BadId, D!Unusable, method, index, body
    <2>4. D!Refusal(request[s]) = {400}
      BY <2>2, <2>3, Zenon DEF D!Refusal
    <2>5. ~Change(s)
      BY <2>1, Zenon DEF Change
    <2> QED BY <1>5, <2>1, <2>4, <2>5, Zenon
  <1>10. CASE Get(s) /\ answer' # answer
    <2>1. pc[s] = "work" /\ method(s) = "GET" /\ s_devices' = s_devices
      BY <1>10 DEF Get
    <2>2. D!Effect(request[s], s_devices) = s_devices
      BY <2>1, Zenon DEF D!Effect, method
    <2>3. CASE request[s].url = "devices"
      <3>1. ~(Len(res[s]) < Len(s_devices)) /\ Respond(s, [status |-> 200, devices |-> res[s]])
        BY <1>10, <2>3, Zenon DEF Get
      <3>2. PICK n \in 0 .. Len(s_devices) : res[s] = Prefix(s_devices, n)
        BY <1>0, <2>1, Zenon DEF ListingInv, Prefix
      <3>3. Len(res[s]) = n
        BY <1>0, <3>2, ListingGrows, Zenon
      <3>4. n = Len(s_devices)
        BY SMTT(40), Z3T(40), <1>0, <3>1, <3>3
      <3>5. D!Listing(s_devices) = Prefix(s_devices, Len(s_devices))
        BY <1>0 DEF D!Listing, D!Entry, Prefix
      <3>6. res[s] = D!Listing(s_devices)
        BY <3>2, <3>4, <3>5, Zenon
      <3>7. D!Reply(request[s], s_devices) = [status |-> 200, devices |-> D!Listing(s_devices)]
        BY <2>1, <2>3, ZenonT(40) DEF D!Reply, method
      <3> QED BY <1>6, <2>1, <2>2, <3>1, <3>6, <3>7, Zenon
    <2>4. CASE request[s].url = "device"
      <3>1. Respond(s, IF index(s) >= Len(s_devices) THEN D!Status(404)
                       ELSE [status |-> 200, devices |-> <<<<index(s), s_devices[index(s) + 1]>>>>])
        BY <1>10, <2>4, Zenon DEF Get
      <3>2. index(s) >= Len(s_devices) => D!Reply(request[s], s_devices) = D!Status(404)
        BY SMTT(40), Z3T(40), <1>0, <1>4, <2>1, <2>4 DEF D!Reply, D!Found, index
      <3>3. ~(index(s) >= Len(s_devices)) =>
               D!Reply(request[s], s_devices) = [status |-> 200, devices |-> <<<<index(s), s_devices[index(s) + 1]>>>>]
        BY SMTT(40), Z3T(40), <1>0, <1>4, <2>1, <2>4 DEF D!Reply, D!Found, D!Entry, index, method
      <3> QED BY <1>6, <2>1, <2>2, <3>1, <3>2, <3>3, Zenon
    <2> QED BY <1>4, <2>1, <2>3, <2>4, Zenon
  <1>11. CASE Find(s) /\ answer' # answer
    <2>1. /\ pc[s] = "work" /\ method(s) # "GET" /\ s_devices' = s_devices
          /\ request[s].url = "device" /\ index(s) >= Len(s_devices) /\ Respond(s, D!Status(404))
      BY <1>11, Zenon DEF Find, OutOfRange
    <2>2. method(s) \in {"PATCH", "DELETE"} /\ ~D!Found(s_devices, request[s])
      BY SMTT(40), Z3T(40), <1>0, <1>4, <2>1 DEF D!Found, index
    <2>3. D!Reply(request[s], s_devices) = D!Status(404) /\ D!Effect(request[s], s_devices) = s_devices
      BY <2>1, <2>2, Zenon DEF D!Reply, D!Effect, method
    <2> QED BY <1>6, <2>1, <2>3, Zenon
  <1>12. CASE Change(s)
    <2>1. pc[s] = "change" /\ Respond(s, D!Status(200))
      BY <1>12, Zenon DEF Change
    <2>2. /\ method(s) \in {"POST", "PATCH", "DELETE"}
          /\ method(s) = "POST" => request[s].url = "devices"
          /\ method(s) \in {"PATCH", "DELETE"} =>
               request[s].url = "device" /\ index(s) \in 0 .. Len(s_devices) - 1
      BY <2>1, ReadyToChange, Zenon
    <2>3. method(s) \in {"PATCH", "DELETE"} => D!Found(s_devices, request[s])
      BY SMTT(40), Z3T(40), <1>0, <2>2 DEF D!Found, index
    <2>4. D!Reply(request[s], s_devices) = D!Status(200)
      BY <2>2, <2>3, Zenon DEF D!Reply, method
    <2>5. s_devices' = D!Effect(request[s], s_devices)
      <3>1. CASE method(s) = "POST"
        BY <1>12, <3>1, Zenon DEF Change, D!Effect, method, body
      <3>2. CASE method(s) = "PATCH"
        BY <1>12, <2>3, <3>2, Zenon DEF Change, D!Effect, method, body, index
      <3>3. CASE method(s) = "DELETE"
        BY <1>12, <2>3, <3>3, Zenon DEF Change, D!Effect, method, index
      <3> QED BY <2>2, <3>1, <3>2, <3>3, Zenon
    <2> QED BY <1>6, <2>1, <2>4, <2>5, Zenon
  <1>13. CASE Lock(s) \/ Unlock(s)
    BY <1>2, <1>13, Unnoticed, Zenon DEF Lock, Unlock
  <1> QED BY <1>2, <1>3, <1>7, <1>8, <1>9, <1>10, <1>11, <1>12, <1>13, Zenon DEF Handler

\* The handlers of the template, with their lock and the yields of their
\* sessions, do what DeviceList says, one request at a time.
THEOREM TemplateImplementsDeviceList == Spec => ImplementsDeviceList
  <1>1. Init => D!Init
    BY RestAssumption, Zenon DEF Init, D!Init
  <1>2. Inv /\ Inv' /\ [Next]_vars => [D!Next]_(D!vars)
    <2> SUFFICES ASSUME Inv, Inv', [Next]_vars PROVE D!Next \/ UNCHANGED D!vars
      OBVIOUS
    <2>1. CASE (Exec /\ UNCHANGED <<s_devices, mutex, sessionVars>>) \/ UNCHANGED vars
      BY <2>1, Unnoticed, Zenon DEF sessionVars, vars
    <2>2. ASSUME NEW s \in Sessions, Arrive(s) PROVE D!Next \/ UNCHANGED D!vars
      BY <2>2, ArriveRefines, Zenon
    <2>3. ASSUME NEW s \in Sessions, Handler(s) PROVE D!Next \/ UNCHANGED D!vars
      BY <2>3, HandlerRefines, Zenon
    <2>4. ASSUME NEW s \in Sessions, Resume(s) \/ Write(s) PROVE D!Next \/ UNCHANGED D!vars
      BY <2>4, Unnoticed, Zenon DEF Resume, Write
    <2>5. ASSUME NEW s \in Sessions, HangUp(s) PROVE D!Next \/ UNCHANGED D!vars
      <3>0. TypeInv /\ UNCHANGED <<by, request, s_devices>>
        BY <2>5, Zenon DEF HangUp, Inv
      <3>1. CASE by[s] = Rest /\ answer[s] = NoAnswer
        <4>1. Respond(s, Dropped) /\ request[s] \in Requests
          BY <2>5, <3>1, Zenon DEF HangUp, Respond, Inv, RequestInv
        <4>2. /\ D!Open(s) /\ Replied_' = [Replied_ EXCEPT ![s] = Dropped] /\ Asked_' = Asked_
          BY <3>0, <3>1, <4>1, Decided, Zenon
        <4>3. D!Abandon(s)
          BY <3>0, <4>2, Zenon DEF D!Abandon, Asked_, Replied_
        <4> QED BY <4>3, Zenon DEF D!Next
      <3>2. CASE ~(by[s] = Rest /\ answer[s] = NoAnswer)
        <4>1. \A t \in Sessions : by[t] = Rest => answer'[t] = answer[t]
          BY <2>5, <3>0, <3>2, Zenon DEF HangUp, TypeInv
        <4> QED BY <3>0, <4>1, Unnoticed, Zenon
      <3> QED BY <3>1, <3>2, Zenon
    <2> QED BY <2>1, <2>2, <2>3, <2>4, <2>5, Zenon DEF Next, Session
  <1> QED BY <1>1, <1>2, HandlersKeepInv, PTL DEF Spec, ImplementsDeviceList, D!Spec

-----------------------------------------------------------------------------
(* The life of the plugins, and who serves *)

LEMMA OneMore ==
    ASSUME NEW S, NEW q \in Seq(S), NEW e
    PROVE  /\ DOMAIN Append(q, e) = DOMAIN q \cup {Len(q) + 1} /\ Append(q, e)[Len(q) + 1] = e
           /\ \A i \in DOMAIN q : Append(q, e)[i] = q[i]
  OBVIOUS

LEMMA LoadKeeps ==
    ASSUME TypeInv, ListInv, CallsInv, NEW f \in unread, LoadPlugin(f)
    PROVE  ListInv' /\ CallsInv'
  <1> DEFINE l == lib[f]
             e == [file |-> f, order |-> l.order]
  <1>1. /\ phase = "load" /\ unread' = unread \ {f} /\ UNCHANGED <<lib, phase>> /\ f \in DOMAIN lib
        /\ m_plugins' = IF Loads(l) THEN Append(m_plugins, e) ELSE m_plugins
        /\ calls' = [calls EXCEPT ![f] = IF Loads(l) \/ ~l.opens THEN Opened(l) ELSE Opened(l) \o deleter(l)]
    BY Zenon DEF LoadPlugin, TypeInv
  <1>2. f # StatusPlugin /\ lib \in Libraries
    BY <1>1, PluginsAssumption, Zenon DEF TypeInv
  <1>3. /\ DOMAIN Append(m_plugins, e) = DOMAIN m_plugins \cup {Len(m_plugins) + 1}
        /\ Append(m_plugins, e)[Len(m_plugins) + 1] = e
        /\ \A i \in DOMAIN m_plugins : Append(m_plugins, e)[i] = m_plugins[i]
    <2> HIDE DEF e
    <2> QED BY SMTT(40), Z3T(40), OneMore DEF TypeInv
  <1>4. e.file = f /\ e.order = OrderOf(f)
    BY <1>2 DEF OrderOf
  <1> HIDE DEF e
  <1>5. \A g : InPlugins(g)' <=> InPlugins(g) \/ (Loads(l) /\ g = f)
    BY <1>1, <1>3, <1>4, Zenon DEF InPlugins
  <1>6. ListInv'
    <2>1. \A g \in DOMAIN lib' : InPlugins(g)' <=> g \notin unread' /\ Loads(lib'[g]) /\ phase' # "done"
      BY <1>1, <1>5, Zenon DEF ListInv
    <2>2. ASSUME NEW i \in DOMAIN m_plugins' PROVE (m_plugins[i].order = OrderOf(m_plugins[i].file))'
      <3>1. \A g : OrderOf(g)' = OrderOf(g)
        BY <1>1 DEF OrderOf
      <3>2. (i \in DOMAIN m_plugins /\ m_plugins'[i] = m_plugins[i]) \/ m_plugins'[i] = e
        BY <1>1, <1>3, Zenon
      <3>3. m_plugins'[i].order = OrderOf(m_plugins'[i].file)
        BY <1>4, <3>2, Zenon DEF ListInv
      <3> QED BY <1>1, <3>3, Zenon DEF OrderOf
    <2> QED BY <1>1, <2>1, <2>2, Zenon DEF ListInv
  <1>7. CallsInv'
    <2>1. ~InPlugins(f)
      BY <1>1 DEF ListInv
    <2>2. ASSUME NEW g \in DOMAIN lib \ {f}
          PROVE  calls'[g] = calls[g] /\ (InPlugins(g)' <=> InPlugins(g)) /\ (g \in unread' <=> g \in unread)
      BY SMTT(40), Z3T(40), <1>1, <1>5, <2>2 DEF CallsInv
    <2>3. calls'[f] = IF Loads(l) \/ ~l.opens THEN Opened(l) ELSE Opened(l) \o deleter(l)
      BY <1>1 DEF CallsInv
    <2>4. calls'[f] = IF ~l.opens THEN <<>> ELSE IF InPlugins(f)' THEN Opened(l) ELSE Opened(l) \o deleter(l)
      BY <1>5, <2>1, <2>3, Zenon DEF Opened, Loads
    <2>5. DOMAIN calls' = DOMAIN lib /\ f \notin unread'
      BY <1>1, Zenon DEF CallsInv
    <2> QED BY <1>1, <2>2, <2>4, <2>5, Zenon DEF CallsInv
  <1> QED BY <1>6, <1>7, Zenon

LEMMA SortKeeps ==
    ASSUME TypeInv, ListInv, CallsInv, SortPlugins
    PROVE  ListInv' /\ CallsInv'
  <1> DEFINE e == [file |-> StatusPlugin, order |-> HalfMax]
  <1>1. /\ phase = "load" /\ unread = {} /\ phase' = "serve" /\ UNCHANGED <<lib, unread, calls>>
    BY DEF SortPlugins
  <1>2. PICK all \in {m_plugins, Append(m_plugins, e)} :
           \E p \in [DOMAIN all -> DOMAIN all] :
                /\ {p[i] : i \in DOMAIN all} = DOMAIN all
                /\ Sorted(all, p)
                /\ m_plugins' = [i \in DOMAIN all |-> all[p[i]]]
    BY Zenon DEF SortPlugins
  <1>3. PICK p \in [DOMAIN all -> DOMAIN all] :
                /\ {p[i] : i \in DOMAIN all} = DOMAIN all
                /\ Sorted(all, p)
                /\ m_plugins' = [i \in DOMAIN all |-> all[p[i]]]
    BY <1>2, Zenon
  <1>4. e.file = StatusPlugin /\ e.order = OrderOf(StatusPlugin)
    BY SMTT(40), Z3T(40) DEF OrderOf
  <1> HIDE DEF e
  <1>5. /\ DOMAIN Append(m_plugins, e) = DOMAIN m_plugins \cup {Len(m_plugins) + 1}
        /\ Append(m_plugins, e)[Len(m_plugins) + 1] = e
        /\ \A i \in DOMAIN m_plugins : Append(m_plugins, e)[i] = m_plugins[i]
    BY OneMore DEF TypeInv
  <1>6. /\ \A i \in DOMAIN m_plugins : i \in DOMAIN all /\ all[i] = m_plugins[i]
        /\ \A i \in DOMAIN all : (i \in DOMAIN m_plugins /\ all[i] = m_plugins[i]) \/ all[i] = e
        /\ DOMAIN all \subseteq Int
    <2>1. CASE all = m_plugins
      BY SMTT(40), Z3T(40), <2>1 DEF TypeInv
    <2>2. CASE all = Append(m_plugins, e)
      <3>1. DOMAIN m_plugins \subseteq Int /\ Len(m_plugins) \in Int
        BY SMTT(40), Z3T(40) DEF TypeInv
      <3> QED BY SMTT(40), Z3T(40), <1>5, <2>2, <3>1
    <2> QED BY <1>2, <2>1, <2>2, Zenon
  <1>7. DOMAIN m_plugins' = DOMAIN all /\ \A i \in DOMAIN all : p[i] \in DOMAIN all /\ m_plugins'[i] = all[p[i]]
    BY <1>3, Zenon
  <1>8. \A k \in DOMAIN all : \E i \in DOMAIN all : p[i] = k
    BY <1>3, Zenon
  <1>9. ASSUME NEW g \in DOMAIN lib PROVE InPlugins(g)' <=> InPlugins(g)
    <2>1. g # e.file
      BY <1>4, PluginsAssumption DEF TypeInv
    <2>2. InPlugins(g) <=> \E k \in DOMAIN all : all[k].file = g
      BY <1>6, <2>1, Zenon DEF InPlugins
    <2>3. InPlugins(g)' <=> \E k \in DOMAIN all : all[k].file = g
      <3>1. ASSUME NEW i \in DOMAIN m_plugins', m_plugins'[i].file = g PROVE \E k \in DOMAIN all : all[k].file = g
        BY <1>7, <3>1, Zenon
      <3>2. ASSUME NEW k \in DOMAIN all, all[k].file = g PROVE \E i \in DOMAIN m_plugins' : m_plugins'[i].file = g
        BY SMTT(40), Z3T(40), <1>7, <1>8, <3>2
      <3> QED BY <3>1, <3>2, Zenon DEF InPlugins
    <2> QED BY <2>2, <2>3, Zenon
  <1>10. ListInv'
    <2>1. ASSUME NEW i \in DOMAIN m_plugins' PROVE (m_plugins[i].order = OrderOf(m_plugins[i].file))'
      <3>1. \A k \in DOMAIN all : all[k].order = OrderOf(all[k].file)
        BY <1>4, <1>6, Zenon DEF ListInv
      <3>2. p[i] \in DOMAIN all /\ m_plugins'[i] = all[p[i]]
        BY ONLY <1>7, i \in DOMAIN m_plugins', Zenon
      <3>3. m_plugins'[i].order = OrderOf(m_plugins'[i].file)
        BY ONLY <3>1, <3>2, Zenon
      <3> QED BY <1>1, <3>3, Zenon DEF OrderOf
    <2>2. ASSUME NEW i \in DOMAIN m_plugins', NEW j \in DOMAIN m_plugins', i < j
          PROVE  m_plugins'[i].order <= m_plugins'[j].order
      BY <1>3, <1>7, <2>2, Zenon DEF Sorted
    <2>3. \A g \in DOMAIN lib' : InPlugins(g)' <=> g \notin unread' /\ Loads(lib'[g]) /\ phase' # "done"
      BY <1>1, <1>9, Zenon DEF ListInv
    <2> QED BY <1>1, <2>1, <2>2, <2>3, Zenon DEF ListInv
  <1>11. CallsInv'
    BY <1>1, <1>9, Zenon DEF CallsInv
  <1> QED BY <1>10, <1>11, Zenon

LEMMA PluginsStep ==
    ASSUME Inv, ListInv, CallsInv, [Next]_vars PROVE ListInv' /\ CallsInv'
  <1>0. TypeInv
    BY Zenon DEF Inv
  <1>1. CASE \E f \in unread : LoadPlugin(f)
    BY <1>0, <1>1, LoadKeeps, Zenon
  <1>2. CASE SortPlugins
    BY <1>0, <1>2, SortKeeps, Zenon
  <1>3. CASE Unload
    <2>1. /\ phase = "serve" /\ m_plugins' = <<>> /\ phase' = "done" /\ UNCHANGED <<lib, unread>>
          /\ calls' = [f \in DOMAIN lib |-> IF InPlugins(f) THEN calls[f] \o deleter(lib[f]) ELSE calls[f]]
      BY <1>3, Zenon DEF Unload, ClearPlugins, InPlugins
    <2>2. \A f : ~InPlugins(f)'
      BY SMTT(40), Z3T(40), <2>1 DEF InPlugins
    <2>3. ListInv'
      BY SMTT(40), Z3T(40), <2>1, <2>2 DEF ListInv
    <2>4. \A f \in DOMAIN lib : InPlugins(f) => f \notin unread /\ lib[f].opens
      BY DEF ListInv, Loads
    <2>5. CallsInv'
      BY <2>1, <2>2, <2>4, Zenon DEF CallsInv
    <2> QED BY <2>3, <2>5, Zenon
  <1>4. CASE UNCHANGED pluginVars
    BY <1>4, Zenon DEF pluginVars, ListInv, CallsInv, InPlugins, OrderOf
  <1> QED
    <2>1. Exec \/ UNCHANGED pluginVars
      <3>1. ASSUME NEW s \in Sessions, Arrive(s) \/ Session(s) \/ HangUp(s) PROVE UNCHANGED pluginVars
        BY <3>1, Zenon DEF Arrive, Session, HangUp, Resume, Handler, Write, Begin, Read, Check, Lock, Get, Find, Change, Unlock
      <3> QED BY <3>1, Zenon DEF Next, vars
    <2> QED BY <1>1, <1>2, <1>3, <1>4, <2>1, Zenon DEF Exec

Told(c, call) == {i \in DOMAIN c : c[i] = call}

LEMMA Joint ==
    ASSUME NEW S, NEW p \in Seq(S), NEW q \in Seq(S)
    PROVE  /\ p \o q \in Seq(S) /\ DOMAIN (p \o q) = 1 .. Len(p) + Len(q) /\ Len(p \o q) = Len(p) + Len(q)
           /\ <<>> \o q = q
           /\ \A i \in 1 .. Len(p) : (p \o q)[i] = p[i]
           /\ \A j \in 1 .. Len(q) : (p \o q)[Len(p) + j] = q[j]
  OBVIOUS

\* What a library that was opened and closed was told: k and d are how many
\* calls the constructor and the deleter make.
Lived(l, c, k, d) ==
    /\ d = 2 <=> l.destory
    /\ Told(c, "dlopen") = {1} /\ Told(c, "dlclose") = {k + d}
    /\ Told(c, "init_plugin") = IF k = 2 THEN {2} ELSE {}
    /\ Told(c, "destory_plugin") = IF d = 2 THEN {k + 1} ELSE {}

LEMMA Histories ==
    ASSUME NEW l, l.opens, NEW c, c = Opened(l) \o deleter(l)
    PROVE  \E k \in {1, 2}, d \in {1, 2} : Lived(l, c, k, d)
  <1> DEFINE Calls == {"dlopen", "init_plugin", "destory_plugin", "dlclose"}
             p == Opened(l)
             q == deleter(l)
             k == Len(p)
             d == Len(q)
  <1>1. p \in Seq(Calls) /\ k \in {1, 2} /\ p[1] = "dlopen" /\ (k = 2 => p[2] = "init_plugin")
    <2>1. p = <<"dlopen">> \/ p = <<"dlopen", "init_plugin">>
      BY Zenon DEF Opened
    <2> QED BY SMTT(40), Z3T(40), <2>1
  <1>2. /\ q \in Seq(Calls) /\ d \in {1, 2} /\ q[d] = "dlclose" /\ (d = 2 => q[1] = "destory_plugin")
        /\ d = 2 <=> l.destory
    <2> DEFINE a == <<"destory_plugin">>
               b == <<"dlclose">>
    <2>1. a \in Seq(Calls) /\ b \in Seq(Calls) /\ Len(a) = 1 /\ Len(b) = 1 /\ a[1] = "destory_plugin" /\ b[1] = "dlclose"
      OBVIOUS
    <2>2. q = (IF l.destory THEN a ELSE <<>>) \o b
      BY Zenon DEF deleter
    <2> HIDE DEF a, b, q, Calls
    <2>3. CASE l.destory
      <3>1. q = a \o b
        BY <2>2, <2>3, Zenon
      <3>2. q \in Seq(Calls) /\ Len(q) = 2 /\ q[1] = a[1] /\ q[1 + 1] = b[1]
        <4>1. /\ a \o b \in Seq(Calls) /\ Len(a \o b) = Len(a) + Len(b)
              /\ \A i \in 1 .. Len(a) : (a \o b)[i] = a[i]
              /\ \A j \in 1 .. Len(b) : (a \o b)[Len(a) + j] = b[j]
          BY SMTT(40), Z3T(40), <2>1, Joint
        <4> QED BY SMTT(40), Z3T(40), <2>1, <3>1, <4>1
      <3> QED BY SMTT(40), Z3T(40), <2>1, <2>3, <3>2
    <2>4. CASE ~l.destory
      <3>1. q = <<>> \o b
        BY <2>2, <2>4, Zenon
      <3>2. q = b
        BY <2>1, <3>1, Joint, Zenon
      <3>3. d = 1 /\ q[d] = "dlclose"
        BY <2>1, <3>2, Zenon
      <3>4. d # 2
        BY <3>3
      <3> QED BY <2>1, <2>4, <3>2, <3>3, <3>4, Zenon
    <2> QED BY <2>3, <2>4, Zenon
  <1>3. c = p \o q
    OBVIOUS
  <1> HIDE DEF p, q, Calls
  <1>4. /\ DOMAIN c = 1 .. k + d
        /\ \A i \in 1 .. k : c[i] = p[i]
        /\ \A j \in 1 .. d : c[k + j] = q[j]
    BY <1>1, <1>2, <1>3, Joint
  <1>5. /\ c[1] = "dlopen" /\ (k = 2 => c[2] = "init_plugin") /\ c[k + d] = "dlclose"
        /\ d = 2 => c[k + 1] = "destory_plugin"
    <2>1. 1 \in 1 .. k /\ (k = 2 => 2 \in 1 .. k) /\ d \in 1 .. d /\ 1 \in 1 .. d
      <3> HIDE DEF k, d
      <3> QED BY SMTT(40), Z3T(40), <1>1, <1>2
    <2>2. c[1] = p[1] /\ (k = 2 => c[2] = p[2]) /\ c[k + d] = q[d] /\ c[k + 1] = q[1]
      BY <1>4, <2>1, Zenon
    <2> QED BY <1>1, <1>2, <2>2, Zenon
  <1> HIDE DEF k, d
  <1>6. /\ Told(c, "dlopen") = {1} /\ Told(c, "dlclose") = {k + d}
        /\ Told(c, "init_plugin") = IF k = 2 THEN {2} ELSE {}
        /\ Told(c, "destory_plugin") = IF d = 2 THEN {k + 1} ELSE {}
    <2>1. CASE k = 1 /\ d = 1
      BY SMTT(40), Z3T(40), <1>4, <1>5, <2>1 DEF Told
    <2>2. CASE k = 1 /\ d = 2
      BY SMTT(40), Z3T(40), <1>4, <1>5, <2>2 DEF Told
    <2>3. CASE k = 2 /\ d = 1
      BY SMTT(40), Z3T(40), <1>4, <1>5, <2>3 DEF Told
    <2>4. CASE k = 2 /\ d = 2
      BY SMTT(40), Z3T(40), <1>4, <1>5, <2>4 DEF Told
    <2> QED BY <1>1, <1>2, <2>1, <2>2, <2>3, <2>4, Zenon
  <1>7. Lived(l, c, k, d)
    BY <1>2, <1>6 DEF Lived
  <1> QED BY <1>1, <1>2, <1>7, Zenon

LEMMA LivesRight == ASSUME TypeInv, ListInv, CallsInv PROVE LifeCycle
  <1> SUFFICES ASSUME NEW f \in DOMAIN lib PROVE LifeOf(f)
    BY Zenon DEF LifeCycle
  <1> DEFINE l == lib[f]
             c == calls[f]
  <1>0. \A call : Called(f, call) = Told(c, call)
    BY Zenon DEF Called, Told
  <1>1. InPlugins(f) => f \notin unread /\ l.opens /\ phase # "done"
    BY Zenon DEF ListInv, Loads
  <1> HIDE DEF c, l
  <1>2. CASE f \in unread \/ ~l.opens
    <2>1. c = <<>> /\ ~InPlugins(f)
      BY <1>1, <1>2, Zenon DEF CallsInv, c, l
    <2>2. \A call : Told(c, call) = {}
      BY SMTT(40), Z3T(40), <2>1 DEF Told
    <2>3. Called(f, "dlclose") = {} /\ Called(f, "dlopen") = {}
      BY <1>0, <2>2, Zenon
    <2> QED BY <2>1, <2>3, Zenon DEF LifeOf
  <1>3. CASE InPlugins(f)
    <2>1. c = Opened(l) /\ l.opens
      BY <1>1, <1>3, Zenon DEF CallsInv, c, l
    <2>2. c = <<"dlopen">> \/ c = <<"dlopen", "init_plugin">>
      BY <2>1, Zenon DEF Opened
    <2>3. Told(c, "dlopen") # {} /\ Told(c, "destory_plugin") = {} /\ Told(c, "dlclose") = {}
      BY <2>2 DEF Told
    <2>4. Called(f, "dlopen") # {} /\ Called(f, "destory_plugin") = {} /\ Called(f, "dlclose") = {}
      BY <1>0, <2>3, Zenon
    <2> QED BY <1>1, <1>3, <2>4, Zenon DEF LifeOf
  <1>4. CASE f \notin unread /\ l.opens /\ ~InPlugins(f)
    <2>1. c = Opened(l) \o deleter(l)
      BY <1>4, Zenon DEF CallsInv, c, l
    <2>2. PICK k \in {1, 2}, d \in {1, 2} : Lived(l, c, k, d)
      <3>1. l.opens
        BY <1>4
      <3> QED BY ONLY <2>1, <3>1, Histories, Zenon
    <2>3. Cardinality({1}) = 1 /\ Cardinality({k + d}) = 1 /\ Cardinality({k + 1}) = 1
      BY FS_Singleton, Zenon
    <2>4. /\ Called(f, "dlopen") = {1} /\ Called(f, "dlclose") = {k + d}
          /\ Called(f, "init_plugin") = IF k = 2 THEN {2} ELSE {}
          /\ Called(f, "destory_plugin") = IF d = 2 THEN {k + 1} ELSE {}
      BY <1>0, <2>2 DEF Lived
    <2>5. ASSUME Called(f, "init_plugin") # {}, lib[f].destory PROVE CleanedUp(f)
      <3>1. k = 2 /\ d = 2
        BY <2>2, <2>4, <2>5, Zenon DEF l, Lived
      <3>2. /\ Called(f, "init_plugin") = {2} /\ Called(f, "destory_plugin") = {3} /\ Called(f, "dlclose") = {4}
            /\ Cardinality({3}) = 1
        BY SMTT(40), Z3T(40), <2>3, <2>4, <3>1
      <3> QED BY SMTT(40), Z3T(40), <3>2 DEF CleanedUp
    <2>6. Cardinality(Called(f, "dlclose")) = Cardinality(Called(f, "dlopen"))
      BY <2>3, <2>4, Zenon
    <2>7. ~InPlugins(f)
      BY <1>4, Zenon
    <2> QED BY ONLY <2>5, <2>6, <2>7 DEF LifeOf
  <1> QED BY <1>2, <1>3, <1>4

\* A set of numbers that is not empty has a least one.
LEMMA Least ==
    ASSUME NEW T \in SUBSET Nat, T # {}
    PROVE  \E x \in T : \A y \in T : x <= y
  <1>1. IsWellFoundedOn(OpToRel(<, Nat), Nat)
    BY NatLessThanWellFounded, Zenon
  <1>2. PICK x \in T : \A y \in T : <<y, x>> \notin OpToRel(<, Nat)
    BY <1>1, WFMin, Zenon
  <1>3. ASSUME NEW y \in T PROVE x <= y
    <2>1. <<y, x>> \notin OpToRel(<, Nat)
      BY <1>2, Zenon
    <2>2. ~(y < x)
      BY <2>1, Zenon DEF OpToRel
    <2> QED BY <2>2
  <1> QED BY <1>3

\* create_session finds one of the lowest order of those who want the request,
\* and nobody only if nobody does.
LEMMA FirstOfAll ==
    ASSUME TypeInv, ListInv, phase = "serve", NEW q
    PROVE  /\ create_session(q.url, q.method) = {} => Want(q) = {}
           /\ \A f \in create_session(q.url, q.method) :
                /\ f # StatusPlugin => f \in Want(q)
                /\ \A g \in Want(q) : OrderOf(f) <= OrderOf(g)
  <1> DEFINE willing == {i \in DOMAIN m_plugins : Asked(m_plugins[i].file, q.url, q.method) # "declines"}
             found == create_session(q.url, q.method)
  <1>1. found = {m_plugins[i].file : i \in {k \in willing : \A j \in willing : k <= j}}
    BY Zenon DEF create_session
  <1>2. ASSUME NEW g \in Want(q) PROVE \E j \in willing : m_plugins[j].file = g
    BY <1>2, Zenon DEF Want, ListInv, InPlugins
  <1>3. willing \in SUBSET Nat
    BY SMTT(40), Z3T(40) DEF TypeInv
  <1>4. found = {} => willing = {}
    <2> HIDE DEF willing
    <2>1. ASSUME willing # {} PROVE found # {}
      <3>1. PICK i \in willing : \A j \in willing : i <= j
        BY <1>3, <2>1, Least, Zenon
      <3>2. m_plugins[i].file \in found
        BY <1>1, <3>1, Zenon
      <3> QED BY <3>2
    <2> QED BY <2>1, Zenon
  <1>5. ASSUME NEW f \in found
        PROVE  (f # StatusPlugin => f \in Want(q)) /\ \A g \in Want(q) : OrderOf(f) <= OrderOf(g)
    <2>1. PICK i \in willing : f = m_plugins[i].file /\ \A j \in willing : i <= j
      BY <1>1, <1>5, Zenon
    <2>2. f # StatusPlugin => f \in Want(q)
      <3>1. f \in DOMAIN lib \cup {StatusPlugin} /\ Asked(f, q.url, q.method) # "declines"
        BY CreateSession, Zenon
      <3>2. InPlugins(f)
        BY <2>1, Zenon DEF InPlugins
      <3> QED BY <3>1, <3>2, Zenon DEF ListInv, Want
    <2>3. ASSUME NEW g \in Want(q) PROVE OrderOf(f) <= OrderOf(g)
      <3>1. PICK j \in willing : m_plugins[j].file = g
        BY <1>2, Zenon
      <3>2. i \in DOMAIN m_plugins /\ j \in DOMAIN m_plugins /\ i \in Nat /\ j \in Nat /\ i <= j
        BY <1>3, <2>1, <3>1, Zenon
      <3>3. m_plugins[i].order = OrderOf(f) /\ m_plugins[j].order = OrderOf(g)
        BY <2>1, <3>1, <3>2, Zenon DEF ListInv
      <3>4. m_plugins[i].order \in Int
        <4>1. m_plugins \in Seq([file : DOMAIN lib \cup {StatusPlugin}, order : Int])
          BY DEF TypeInv
        <4>2. m_plugins[i] \in [file : DOMAIN lib \cup {StatusPlugin}, order : Int]
          BY <3>2, <4>1, Element, Zenon
        <4> QED BY <4>2, Zenon
      <3>5. i < j => m_plugins[i].order <= m_plugins[j].order
        BY <3>2, Zenon DEF ListInv
      <3>6. CASE i < j
        BY <3>3, <3>5, <3>6, Zenon
      <3>7. CASE i = j
        BY SMTT(40), Z3T(40), <3>3, <3>4, <3>7
      <3> QED BY SMTT(40), Z3T(40), <3>2, <3>6, <3>7
    <2> QED BY <2>2, <2>3, Zenon
  <1> HIDE DEF willing, found
  <1> QED BY <1>2, <1>4, <1>5, Zenon DEF found

LEMMA StillRight ==
    ASSUME NEW t, ServedRight(t), lib' = lib, request'[t] = request[t], by'[t] = by[t],
           answer'[t] = answer[t] \/ by[t] # Nobody
    PROVE  ServedRight(t)'
  <1>1. Want(request[t])' = Want(request[t])
    BY Zenon DEF Want, Asked
  <1>2. \A f : OrderOf(f)' = OrderOf(f)
    BY Zenon DEF OrderOf
  <1>3. by'[t] \notin {Nobody, StatusPlugin} => by'[t] \in Want(request[t])'
    BY <1>1, Zenon DEF ServedRight
  <1>4. by'[t] # Nobody => \A f \in Want(request[t])' : OrderOf(by[t])' <= OrderOf(f)'
    BY <1>1, <1>2, Zenon DEF ServedRight
  <1>5. by'[t] = Nobody /\ answer'[t].status = 503 => Want(request[t])' = {}
    BY <1>1, Zenon DEF ServedRight
  <1> QED BY <1>3, <1>4, <1>5, Zenon DEF ServedRight

\* What is known of the service of one session.
Service(t) ==
    /\ pc[t] = "idle" <=> request[t] = NoRequest
    /\ pc[t] # "idle" /\ by[t] = Nobody => answer[t] # NoAnswer
    /\ pc[t] # "idle" => ServedRight(t)

LEMMA ArriveServes ==
    ASSUME Inv, ListInv, NEW s \in Sessions, Arrive(s) PROVE Service(s)'
  <1>0. TypeInv /\ RequestInv(s)
    BY Zenon DEF Inv
  <1> DEFINE q == todo[s]
             found == create_session(q.url, q.method)
  <1>1. /\ phase = "serve" /\ pc[s] = "idle" /\ q # NoRequest /\ UNCHANGED <<lib, phase>>
        /\ request'[s] = q /\ by[s] = Nobody
        /\ \/ found = {} /\ answer'[s] = D!Status(503) /\ pc'[s] = "write" /\ by'[s] = by[s]
           \/ answer'[s] = D!Status(405) /\ pc'[s] = "write" /\ by'[s] = by[s]
           \/ \E f \in found : by'[s] = f /\ pc'[s] \in {"begin", "write"}
    <2>1. /\ \A x : Goto(s, x) => pc'[s] = x
          /\ \A x : Respond(s, x) => answer'[s] = x
          /\ \A x : by' = [by EXCEPT ![s] = x] => by'[s] = x
          /\ \A x : request' = [request EXCEPT ![s] = x] => request'[s] = x
      BY <1>0, Zenon DEF Goto, Respond, TypeInv
    <2>2. /\ phase = "serve" /\ pc[s] = "idle" /\ q # NoRequest /\ UNCHANGED <<lib, phase>>
          /\ request'[s] = q /\ by[s] = Nobody
      BY <1>0, <2>1, Zenon DEF Arrive, RequestInv, pluginVars
    <2>3. \/ found = {} /\ answer'[s] = D!Status(503) /\ pc'[s] = "write" /\ by' = by
          \/ answer'[s] = D!Status(405) /\ pc'[s] = "write" /\ by' = by
          \/ \E f \in found : by'[s] = f /\ (pc'[s] = "begin" \/ pc'[s] = "write")
      <3>1. \/ found = {} /\ Respond(s, D!Status(503)) /\ Goto(s, "write") /\ by' = by
            \/ \E f \in found :
                  \/ Respond(s, D!Status(405)) /\ Goto(s, "write") /\ by' = by
                  \/ by' = [by EXCEPT ![s] = f] /\ (Goto(s, "begin") \/ Goto(s, "write"))
        BY Zenon DEF Arrive
      <3> HIDE DEF found
      <3>2. CASE found = {} /\ Respond(s, D!Status(503)) /\ Goto(s, "write") /\ by' = by
        BY <2>1, <3>2, Zenon
      <3>3. CASE Respond(s, D!Status(405)) /\ Goto(s, "write") /\ by' = by
        BY <2>1, <3>3, Zenon
      <3>4. ASSUME NEW f \in found, by' = [by EXCEPT ![s] = f], Goto(s, "begin") \/ Goto(s, "write")
            PROVE  by'[s] = f /\ (pc'[s] = "begin" \/ pc'[s] = "write")
        BY <2>1, <3>4, Zenon
      <3> QED BY <3>1, <3>2, <3>3, <3>4, Zenon
    <2> QED BY <2>2, <2>3, Zenon
  <1>2. /\ found = {} => Want(q) = {}
        /\ \A f \in found : (f # StatusPlugin => f \in Want(q)) /\ \A g \in Want(q) : OrderOf(f) <= OrderOf(g)
    BY <1>0, <1>1, FirstOfAll, Zenon
  <1>3. Want(request[s])' = Want(q) /\ \A f : OrderOf(f)' = OrderOf(f)
    BY <1>1, Zenon DEF Want, Asked, OrderOf
  <1> HIDE DEF q
  <1>4. D!Status(405).status = 405 /\ D!Status(503) # NoAnswer /\ D!Status(405) # NoAnswer
    BY AnswerAssumption, Zenon DEF D!Status
  <1>5. CASE found = {} /\ answer'[s] = D!Status(503) /\ pc'[s] = "write" /\ by'[s] = by[s]
    <2>1. pc'[s] # "idle" /\ request'[s] # NoRequest /\ by'[s] = Nobody /\ answer'[s] # NoAnswer
      BY SMTT(40), Z3T(40), <1>1, <1>4, <1>5
    <2>2. Want(request[s])' = {}
      BY <1>2, <1>3, <1>5, Zenon
    <2>3. ServedRight(s)'
      BY <2>1, <2>2, Zenon DEF ServedRight
    <2> QED BY <2>1, <2>3, Zenon DEF Service
  <1>6. CASE answer'[s] = D!Status(405) /\ pc'[s] = "write" /\ by'[s] = by[s]
    <2>1. answer'[s].status # 503
      BY SMTT(40), Z3T(40), <1>4, <1>6
    <2>2. pc'[s] # "idle" /\ request'[s] # NoRequest /\ by'[s] = Nobody /\ answer'[s] # NoAnswer
      BY <1>1, <1>4, <1>6, ZenonT(40)
    <2>3. ServedRight(s)'
      BY <2>1, <2>2, Zenon DEF ServedRight
    <2> QED BY <2>2, <2>3, Zenon DEF Service
  <1>7. ASSUME NEW f \in found, by'[s] = f, pc'[s] \in {"begin", "write"} PROVE Service(s)'
    <2>1. f # Nobody
      <3>1. f \in DOMAIN lib \cup {StatusPlugin}
        BY <1>0, CreateSession, Zenon
      <3> QED BY <1>0, <3>1, RestAssumption, Zenon DEF TypeInv
    <2>2. (f # StatusPlugin => f \in Want(q)) /\ \A g \in Want(q) : OrderOf(f) <= OrderOf(g)
      BY <1>2, Zenon
    <2>3. pc'[s] # "idle" /\ request'[s] # NoRequest
      BY <1>1, <1>7, Zenon
    <2>4. ServedRight(s)'
      BY <1>3, <1>7, <2>1, <2>2, Zenon DEF ServedRight, OrderOf
    <2> QED BY <1>7, <2>1, <2>3, <2>4, Zenon DEF Service
  <1> QED BY <1>1, <1>5, <1>6, <1>7, Zenon

LEMMA ServiceStep ==
    ASSUME Inv, ListInv, ServiceInv, [Next]_vars PROVE ServiceInv'
  <1> SUFFICES ASSUME NEW t \in Sessions PROVE Service(t)'
    BY Zenon DEF ServiceInv, Service
  <1>0. TypeInv /\ RequestInv(t) /\ Service(t)
    BY Zenon DEF Inv, ServiceInv, Service
  <1>1. ASSUME lib' = lib, request'[t] = request[t], by'[t] = by[t], pc'[t] = "idle" <=> pc[t] = "idle",
               answer'[t] = answer[t] \/ by[t] # Nobody
        PROVE  Service(t)'
    <2>1. ServedRight(t) => ServedRight(t)'
      BY <1>1, StillRight, Zenon
    <2> QED BY <1>0, <1>1, <2>1, Zenon DEF Service
  <1>2. CASE UNCHANGED <<lib, sessionVars>>
    BY <1>1, <1>2, Zenon DEF sessionVars
  <1>3. ASSUME NEW s \in Sessions, Arrive(s) \/ Session(s) \/ HangUp(s), s # t PROVE Service(t)'
    <2>1. lib' = lib
      BY <1>3, Zenon DEF Arrive, Session, HangUp, Resume, Handler, Write, Begin, Read, Check, Lock, Get, Find, Change, Unlock, pluginVars
    <2>2. Same(t)
      BY <1>3, Untouched, Zenon
    <2> QED BY <1>1, <2>1, <2>2, Zenon DEF Same
  <1>4. CASE Arrive(t)
    BY <1>4, ArriveServes, Zenon
  <1>5. CASE Resume(t) \/ Write(t)
    BY <1>0, <1>1, <1>5, Zenon DEF Resume, Write, pluginVars, TypeInv
  <1>6. CASE HangUp(t)
    BY <1>0, <1>1, <1>6, Zenon DEF HangUp, Goto, pluginVars, TypeInv, Service
  <1>7. CASE Handler(t)
    <2>1. lib' = lib /\ request' = request /\ by' = by
      BY <1>7, Zenon DEF Handler, Begin, Read, Check, Lock, Get, Find, Change, Unlock, pluginVars
    <2>2. pc[t] # "idle" /\ pc'[t] # "idle"
      BY <1>0, <1>7, Zenon DEF Handler, Begin, Read, Check, Lock, Get, Find, Change, Unlock, Goto, TypeInv
    <2>3. answer' = answer \/ pc[t] \in {"begin", "read", "check", "lock", "work", "change"}
      BY <1>7, Zenon DEF Handler, Begin, Read, Check, Lock, Get, Find, Change, Unlock
    <2>4. answer' = answer \/ by[t] # Nobody
      BY <1>0, <2>3, RestAssumption, Zenon DEF RequestInv
    <2> QED BY <1>1, <2>1, <2>2, <2>4, Zenon
  <1> QED
    <2>1. ASSUME Exec /\ UNCHANGED <<s_devices, mutex, sessionVars>> PROVE UNCHANGED <<lib, sessionVars>>
      BY <2>1, Zenon DEF Exec, LoadPlugin, SortPlugins, Unload, ClearPlugins
    <2>2. ASSUME UNCHANGED vars PROVE UNCHANGED <<lib, sessionVars>>
      BY <2>2, Zenon DEF vars, pluginVars
    <2>3. ASSUME NEW s \in Sessions, Arrive(s) \/ Session(s) \/ HangUp(s) PROVE Service(t)'
      BY <1>3, <1>4, <1>5, <1>6, <1>7, <2>3, Zenon DEF Session
    <2> QED BY <1>2, <2>1, <2>2, <2>3, Zenon DEF Next

\* The inductive invariants of the plugins and of who serves a request: what
\* loads is in m_plugins until exec clears them, sorted when it is asked, and
\* each library was told what server_plugin has to tell it so far.
THEOREM ExecKeepsPlugins == Spec => [](ListInv /\ CallsInv /\ ServiceInv)
  <1>1. ASSUME Init PROVE ListInv /\ CallsInv /\ ServiceInv
    <2>1. /\ phase = "load" /\ unread = DOMAIN lib /\ m_plugins = <<>> /\ calls = [f \in DOMAIN lib |-> <<>>]
      BY <1>1, Zenon DEF Init, PluginsInit
    <2>2. \A f : ~InPlugins(f)
      BY SMTT(40), Z3T(40), <2>1 DEF InPlugins
    <2>3. ListInv /\ CallsInv
      BY SMTT(40), Z3T(40), <2>1, <2>2 DEF ListInv, CallsInv
    <2>4. ServiceInv
      BY <1>1, Zenon DEF Init, ServiceInv
    <2> QED BY <2>3, <2>4, Zenon
  <1>2. ASSUME Inv, ListInv /\ CallsInv /\ ServiceInv, [Next]_vars PROVE (ListInv /\ CallsInv /\ ServiceInv)'
    BY <1>2, PluginsStep, ServiceStep, Zenon
  <1> QED BY <1>1, <1>2, HandlersKeepInv, PTL DEF Spec

\* A library that init_plugin was called of is told to clean up, once, before
\* it is closed, also when its loading fails half way; it is closed when exec
\* is done, and not while it can be asked (server_plugin and exec).
THEOREM LibrariesAreCleanedUp == Spec => []LifeCycle
  <1>1. Inv /\ ListInv /\ CallsInv => LifeCycle
    BY LivesRight, Zenon DEF Inv
  <1> QED BY <1>1, HandlersKeepInv, ExecKeepsPlugins, PTL

\* A request is served by a plugin of the lowest order among those that could
\* be loaded and want it, whatever the order of the directory, and 503 means
\* that there is none (the std::sort of exec, and server::create_session).
THEOREM LowestOrderServes == Spec => []ServedInOrder
  <1>1. ServiceInv => ServedInOrder
    BY Zenon DEF ServiceInv, ServedInOrder
  <1> QED BY <1>1, ExecKeepsPlugins, PTL
=============================================================================
