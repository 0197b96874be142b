------------------------------- MODULE FileCache -------------------------------
(***************************************************************************)
(* The static content plugin: sessions on several event loop threads serve *)
(* files through one lru_cache of mappings, a simple_timer drops the ones  *)
(* nobody uses, and the files are replaced meanwhile.                      *)
(*                                                                         *)
(* A file has the versions that were written under its path, each with a   *)
(* last write time of its own, which is its number.  A mapping keeps the   *)
(* version it was made of.                                                 *)
(***************************************************************************)
EXTENDS LruCache

CONSTANTS
    Paths, Sessions, Loops,
    Written,         \* the paths whose files change while the server runs
    Addresses,       \* of the file_map objects
    Loads,           \* what is on the disk in the beginning, who runs where and asks for what:
                     \* [disk, loop, target, asking, room], with targets [inside, path, head]
                     \* and the size of the cache as room
    Sizes,           \* sizes a file can have
    MaxVersion       \* bound: how often a file is written

NoSession == "no session"
NoMap == [at |-> "nowhere", version |-> 0, size |-> 0, time |-> 0]

ASSUME FileCacheAssumption ==
    /\ Loads \subseteq [disk : [Paths -> [present : BOOLEAN, sizes : Seq(Sizes)]],
                      loop : [Sessions -> Loops],
                      target : [Sessions -> [inside : BOOLEAN, path : Paths, head : BOOLEAN]],
                      room : Nat, asking : SUBSET Sessions]
    /\ \A load \in Loads : \A p \in Paths : load.disk[p].present => load.disk[p].sizes # <<>>
    /\ Written \subseteq Paths
    /\ Sizes \subseteq Nat /\ MaxVersion \in Nat
    /\ NoMap.at \notin Addresses /\ {NoSession, "timer"} \cap Sessions = {}

VARIABLES
    disk,        \* path -> [present, sizes], the size of each version
    pc, target,  \* where a session is, and what it serves
    size, time,  \* what file_size and last_write_time returned
    loop,        \* session -> the loop it is run by
    running,     \* loop -> the session it runs
    mutex,       \* s_files_cache_mutex: a session, "timer" or NoSession
    cache,       \* s_files_cache, of paths and mappings
    file,        \* session -> the mapping it holds: [at, version, size, time]
    announced,   \* session -> the Content-Length it sent
    sent,        \* session -> the number of body bytes, and of which version
    recent,      \* <<p, q>>: p was served after q was, if q ever was
    timer, it,   \* the timer thread, and the iterator of its callback
    quit,        \* m_quit
    destroy      \* destory_plugin(): "no", "quit" stored, "join" or "done"

session == <<pc, target, loop, size, time, file, announced, sent>>
plugin == <<mutex, cache, recent>>
ticker == <<timer, it, quit, destroy>>
vars == <<disk, session, running, plugin, ticker>>

-----------------------------------------------------------------------------
Version(p) == Len(disk[p].sizes)
Size(p) == disk[p].sizes[Version(p)]

Init ==
    /\ \E load \in Loads :
        /\ disk = load.disk /\ loop = load.loop /\ target = load.target /\ cache = Empty(load.room)
        /\ pc = [s \in Sessions |-> IF s \in load.asking THEN "idle" ELSE "done"]
    /\ size = [s \in Sessions |-> 0] /\ time = [s \in Sessions |-> 0]
    /\ running = [l \in Loops |-> NoSession]
    /\ mutex = NoSession
    /\ file = [s \in Sessions |-> NoMap]
    /\ announced = [s \in Sessions |-> 0]
    /\ sent = [s \in Sessions |-> [version |-> 0, size |-> 0]]
    /\ recent = {}
    /\ timer = "check" /\ it = 1 /\ quit = FALSE /\ destroy = "no"

Runs(s) == running[loop[s]] = s
Goto(s, where) == pc' = [pc EXCEPT ![s] = where]

\* The session is over: its locals go, and with them its share of the mapping.
Leave(s) ==
    /\ Goto(s, "done")
    /\ file' = [file EXCEPT ![s] = NoMap]
    /\ size' = [size EXCEPT ![s] = 0] /\ time' = [time EXCEPT ![s] = 0]
    /\ announced' = [announced EXCEPT ![s] = 0]
    /\ sent' = [sent EXCEPT ![s] = [version |-> 0, size |-> 0]]
    /\ UNCHANGED <<target, loop>>
End(s) == Leave(s) /\ running' = [running EXCEPT ![loop[s]] = NoSession]

-----------------------------------------------------------------------------
(* static_content_session *)

\* A loop that is free runs a session, new or resumed after a yield.
Run(s) ==
    /\ destroy = "no" /\ running[loop[s]] = NoSession
    /\ pc[s] \in {"idle", "head_yield", "body_yield"}
    /\ running' = [running EXCEPT ![loop[s]] = s]
    /\ Goto(s, CASE pc[s] = "idle" -> "resolve" [] pc[s] = "head_yield" -> "body" [] OTHER -> "end")
    /\ UNCHANGED <<disk, target, loop, size, time, file, announced, sent, plugin, ticker>>

\* Up to the checks of fs::status: outside the root, or no file, is a 404.
Resolve(s) ==
    /\ Runs(s) /\ pc[s] = "resolve"
    /\ IF target[s].inside /\ disk[target[s].path].present
       THEN Goto(s, "size") /\ UNCHANGED <<target, loop, size, time, file, announced, sent, running>>
       ELSE End(s)
    /\ UNCHANGED <<disk, plugin, ticker>>

FileSize(s) ==
    /\ Runs(s) /\ pc[s] = "size"
    /\ IF disk[target[s].path].present
       THEN /\ size' = [size EXCEPT ![s] = Size(target[s].path)]
            /\ Goto(s, "time") /\ UNCHANGED <<target, loop, time, file, announced, sent, running>>
       ELSE End(s)
    /\ UNCHANGED <<disk, plugin, ticker>>

LastWriteTime(s) ==
    /\ Runs(s) /\ pc[s] = "time"
    /\ IF disk[target[s].path].present
       THEN /\ time' = [time EXCEPT ![s] = Version(target[s].path)]
            /\ Goto(s, "lock") /\ UNCHANGED <<target, loop, size, file, announced, sent, running>>
       ELSE End(s)
    /\ UNCHANGED <<disk, plugin, ticker>>

\* The thread, and with it the loop, waits for the mutex.
Lock(s) ==
    /\ Runs(s) /\ pc[s] = "lock" /\ mutex = NoSession
    /\ mutex' = s /\ Goto(s, "lookup")
    /\ UNCHANGED <<disk, target, loop, size, time, running, file, announced, sent, cache, recent, ticker>>

Mappings == {file[s] : s \in Sessions} \cup {cache.items[i].value : i \in DOMAIN cache.items}

\* Mutant: the mapping in the cache is good enough.
CurrentAny(m, s) == TRUE

\* The entry the cache has is of the version the session saw.
Current(m, s) == m.time = time[s]

\* What the constructor of file_map makes of the path: nothing is mapped for a
\* file that was empty when the session asked for its size.
NewMap(s, at) ==
    LET path == target[s].path
    IN  [at |-> at, time |-> time[s],
         version |-> IF size[s] = 0 THEN 0 ELSE Version(path),
         size |-> IF size[s] = 0 THEN 0 ELSE Size(path)]
FreeAddresses == Addresses \ {m.at : m \in Mappings}
CanMap(s) == size[s] = 0 \/ (disk[target[s].path].present /\ Size(target[s].path) # 0)

Served(path) == {r \in recent : path \notin {r[1], r[2]}} \cup {<<path, q>> : q \in Paths \ {path}}

\* value(), and if need be the mapping and put(); a mapping that fails (the
\* file is gone, or empty by now) is a 404, which releases the lock.
LookUp(s) ==
    LET path == target[s].path
        hit == Lookup(cache, path)
        used == value(cache, path)
        good == hit # <<>> /\ Current(hit[1], s)
    IN  /\ Runs(s) /\ pc[s] = "lookup"
        /\ recent' = IF hit = <<>> /\ ~CanMap(s) THEN recent ELSE Served(path)
        /\ \/ /\ good
              /\ cache' = used /\ file' = [file EXCEPT ![s] = hit[1]]
              /\ Goto(s, "unlock") /\ UNCHANGED <<target, loop, size, time, announced, sent, running, mutex>>
           \/ /\ ~good /\ CanMap(s) /\ FreeAddresses # {}
              /\ LET m == NewMap(s, CHOOSE at \in FreeAddresses : TRUE)
                 IN  file' = [file EXCEPT ![s] = m] /\ cache' = put(used, path, m)
              /\ Goto(s, "unlock") /\ UNCHANGED <<target, loop, size, time, announced, sent, running, mutex>>
           \/ /\ ~good /\ ~CanMap(s)
              /\ cache' = used /\ mutex' = NoSession
              /\ End(s)
        /\ UNCHANGED <<disk, ticker>>

\* Mutant: the lock is never released.
UnlockNot(s) ==
    /\ Runs(s) /\ pc[s] = "unlock" /\ Goto(s, "head")
    /\ UNCHANGED <<disk, target, loop, size, time, running, file, announced, sent, plugin, ticker>>

Unlock(s) ==
    /\ Runs(s) /\ pc[s] = "unlock"
    /\ mutex' = NoSession /\ Goto(s, "head")
    /\ UNCHANGED <<disk, target, loop, size, time, running, file, announced, sent, cache, recent, ticker>>

\* A write may have to wait for the socket: the session yields, and the loop
\* runs another one.
Write(s, next, yielded) ==
    \/ Goto(s, next) /\ UNCHANGED <<running, file>>
    \/ Goto(s, yielded) /\ running' = [running EXCEPT ![loop[s]] = NoSession] /\ UNCHANGED file

\* stream << res
WriteHead(s) ==
    /\ Runs(s) /\ pc[s] = "head"
    /\ announced' = [announced EXCEPT ![s] = file[s].size]
    /\ Write(s, IF target[s].head THEN "end" ELSE "body",
                IF target[s].head THEN "body_yield" ELSE "head_yield")
    /\ UNCHANGED <<disk, target, loop, size, time, sent, plugin, ticker>>

\* Mutant: the body is that of the mapping the cache has by now.
BodyMapLatest(s) == LET hit == Lookup(cache, target[s].path) IN IF hit = <<>> THEN file[s] ELSE hit[1]

\* Where the body comes from.
BodyMap(s) == file[s]

\* stream.write({file->data(), file->size()})
WriteBody(s) ==
    /\ Runs(s) /\ pc[s] = "body"
    /\ sent' = [sent EXCEPT ![s] = [version |-> BodyMap(s).version, size |-> BodyMap(s).size]]
    /\ Write(s, "end", "body_yield")
    /\ UNCHANGED <<disk, target, loop, size, time, announced, plugin, ticker>>

Return(s) ==
    /\ Runs(s) /\ pc[s] = "end" /\ End(s)
    /\ UNCHANGED <<disk, plugin, ticker>>

\* The peer hangs up while the session waits to write.
HangUp(s) ==
    /\ pc[s] \in {"head_yield", "body_yield"} /\ running[loop[s]] = NoSession
    /\ Leave(s)
    /\ UNCHANGED <<disk, running, plugin, ticker>>

-----------------------------------------------------------------------------
(* The timer, and destory_plugin() *)

\* The predicate of wait_for, before it sleeps or after it was woken.
TimerCheck ==
    /\ timer = "check" /\ timer' = IF quit THEN "exit" ELSE "enter"
    /\ UNCHANGED <<disk, session, running, plugin, it, quit, destroy>>
TimerSleep ==
    /\ timer = "enter" /\ timer' = "asleep"
    /\ UNCHANGED <<disk, session, running, plugin, it, quit, destroy>>

\* Mutant: wait() instead of wait_for(), with the callback left to chance.
TimerTimeoutNever ==
    /\ timer = "asleep" /\ ~quit /\ timer' = "lock"
    /\ UNCHANGED <<disk, session, running, plugin, it, quit, destroy>>

TimerTimeout ==
    /\ timer = "asleep" /\ timer' = IF quit THEN "exit" ELSE "lock"
    /\ UNCHANGED <<disk, session, running, plugin, it, quit, destroy>>

\* The callback.
TimerLock ==
    /\ timer = "lock" /\ mutex = NoSession
    /\ mutex' = "timer" /\ timer' = "sweep" /\ it' = 1
    /\ UNCHANGED <<disk, session, running, cache, recent, quit, destroy>>

\* Mutant: use_count() == 0.
UnusedByAll(m) == m \notin Mappings

\* use_count() == 1: only the cache has it.
Unused(m) == \A s \in Sessions : file[s] # m

Sweep ==
    /\ timer = "sweep" /\ it <= Len(cache.items)
    /\ IF Unused(cache.items[it].value) THEN cache' = erase(cache, it) /\ UNCHANGED it
       ELSE it' = it + 1 /\ UNCHANGED cache
    /\ UNCHANGED <<disk, session, running, mutex, recent, timer, quit, destroy>>
TimerUnlock ==
    /\ timer = "sweep" /\ it > Len(cache.items)
    /\ mutex' = NoSession /\ timer' = "check"
    /\ UNCHANGED <<disk, session, running, cache, recent, it, quit, destroy>>

\* ~simple_timer: the flag, the notification that only a sleeper hears, join.
\* The server unloads its plugins when the loops and the sessions are gone.
StoreQuit ==
    /\ destroy = "no" /\ \A s \in Sessions : pc[s] \in {"idle", "done"}
    /\ quit' = TRUE /\ destroy' = "quit"
    /\ UNCHANGED <<disk, session, running, plugin, timer, it>>
Notify ==
    /\ destroy = "quit" /\ destroy' = "join"
    /\ timer' = IF timer = "asleep" THEN "check" ELSE timer
    /\ UNCHANGED <<disk, session, running, plugin, it, quit>>
Join ==
    /\ destroy = "join" /\ timer = "exit" /\ destroy' = "done"
    /\ UNCHANGED <<disk, session, running, plugin, timer, it, quit>>

-----------------------------------------------------------------------------
(* Whoever writes the files: a version replaces the one before, or is gone. *)

Replace(p, n) ==
    /\ Version(p) < MaxVersion
    /\ disk' = [disk EXCEPT ![p] = [present |-> TRUE, sizes |-> Append(@.sizes, n)]]
    /\ UNCHANGED <<session, running, plugin, ticker>>
Remove(p) ==
    /\ disk[p].present
    /\ disk' = [disk EXCEPT ![p].present = FALSE]
    /\ UNCHANGED <<session, running, plugin, ticker>>

Step(s) ==
    \/ Run(s) \/ Resolve(s) \/ FileSize(s) \/ LastWriteTime(s) \/ Lock(s) \/ LookUp(s)
    \/ Unlock(s) \/ WriteHead(s) \/ WriteBody(s) \/ Return(s)
TimerStep == TimerCheck \/ TimerSleep \/ TimerTimeout \/ TimerLock \/ Sweep \/ TimerUnlock
DestroyStep == Notify \/ Join

Next ==
    \/ \E s \in Sessions : Step(s) \/ HangUp(s)
    \/ TimerStep \/ StoreQuit \/ DestroyStep
    \/ \E p \in Written : Remove(p) \/ \E n \in Sizes : Replace(p, n)

Spec == Init /\ [][Next]_vars

\* Threads run, wait_for() times out, and a thread that waits for the mutex
\* gets it in the end: nobody holds it for long, and sweeps are a minute apart.
Fairness ==
    /\ \A s \in Sessions : SF_vars(Step(s))
    /\ WF_vars(TimerStep) /\ WF_vars(DestroyStep)
FairSpec == Spec /\ Fairness

-----------------------------------------------------------------------------
(* Properties *)

Maps == [at : Addresses, version : Nat, size : Nat, time : Nat]

\* The types, and that the cache of the plugin stays a cache (see WellFormed):
\* put(), value() and the sweep of the timer keep its list and its hash together
\* and within its size.
TypeOK ==
    /\ disk \in [Paths -> [present : BOOLEAN, sizes : Seq(Sizes)]]
    /\ \A p \in Paths : disk[p].present => disk[p].sizes # <<>>
    /\ pc \in [Sessions -> {"idle", "resolve", "size", "time", "lock", "lookup", "unlock", "head", "head_yield",
                            "body", "body_yield", "end", "done"}]
    /\ target \in [Sessions -> [inside : BOOLEAN, path : Paths, head : BOOLEAN]]
    /\ loop \in [Sessions -> Loops] /\ running \in [Loops -> Sessions \cup {NoSession}]
    /\ size \in [Sessions -> Nat] /\ time \in [Sessions -> Nat] /\ announced \in [Sessions -> Nat]
    /\ file \in [Sessions -> Maps \cup {NoMap}] /\ sent \in [Sessions -> [version : Nat, size : Nat]]
    /\ IsCache(cache, Paths, Maps) /\ WellFormed(cache) /\ it \in Nat \ {0}
    /\ mutex \in Sessions \cup {NoSession, "timer"}
    /\ timer \in {"check", "enter", "asleep", "lock", "sweep", "exit"}

\* What a session serves is no older than what it found when it looked at the
\* file, whoever mapped it and however the file, the cache and the timer
\* changed in between.  Nothing at all is served only if the file was empty
\* at some time up to then.
NotStale ==
    \A s \in Sessions : file[s] # NoMap =>
        IF file[s].version # 0 THEN file[s].version >= time[s]
        ELSE \E v \in 1 .. time[s] : disk[target[s].path].sizes[v] = 0

\* The body has the length the head announced, and is one version of the file:
\* file_map keeps both together while the session waits to write.
AnnouncedIsSent ==
    \A s \in Sessions : pc[s] \in {"body_yield", "end"} /\ ~target[s].head =>
        /\ sent[s].size = announced[s]
        /\ sent[s].version # 0 => disk[target[s].path].sizes[sent[s].version] = announced[s]

Ordered(items, order) == \A i, j \in DOMAIN items : i < j => <<items[i].key, items[j].key>> \in order

\* The entries are in the order their files were last served, so that what
\* clean_cache() evicts is what was not asked for the longest.
InOrderOfUse == Ordered(cache.items, recent)

\* "The lock must be released before writing anything": the mutex is never
\* held by a session its loop does not run.
LockNotHeldAcrossYield ==
    mutex \in Sessions => Runs(mutex) /\ pc[mutex] \in {"lookup", "unlock"}

\* What the above come from: a file that was empty in a version up to n, ...
EmptyBy(sizes, n) == \E v \in 1 .. Len(sizes) : v <= n /\ sizes[v] = 0

\* ... a mapping of a file with these versions, ...
MapOf(sizes, m) ==
    IF m.version # 0 THEN m.version \in m.time .. Len(sizes) /\ m.size = sizes[m.version]
    ELSE m.size = 0 /\ EmptyBy(sizes, m.time)
CacheInv == \A i \in DOMAIN cache.items : MapOf(disk[cache.items[i].key].sizes, cache.items[i].value)

\* ... and what a session knows of its file at each place.
SessionInv(s) ==
    LET sizes == disk[target[s].path].sizes
    IN  /\ pc[s] = "time" /\ size[s] = 0 => EmptyBy(sizes, Len(sizes))
        /\ pc[s] \in {"lock", "lookup"} =>
             time[s] \in 1 .. Len(sizes) /\ (size[s] = 0 => EmptyBy(sizes, time[s]))
        /\ pc[s] \in {"idle", "resolve", "size", "time", "lock", "lookup", "done"} => file[s] = NoMap
        /\ pc[s] \in {"unlock", "head", "head_yield", "body", "body_yield", "end"} =>
             file[s] \in Maps /\ MapOf(sizes, file[s]) /\ file[s].time = time[s]
        /\ pc[s] \in {"head_yield", "body", "body_yield", "end"} => announced[s] = file[s].size
        /\ pc[s] \in {"body_yield", "end"} /\ ~target[s].head =>
             sent[s] = [version |-> file[s].version, size |-> file[s].size]

\* The plugin keeps its cache a cache, and every mapping, cached or held, that
\* of a version of its file which is no older than the last write time that it
\* is known by (static_content_session, its timer and whoever writes files).
Inv == TypeOK /\ CacheInv /\ LockNotHeldAcrossYield /\ \A s \in Sessions : SessionInv(s)

\* The sessions that loops began to run come to their end: no two threads wait
\* for each other, and a loop is never stuck behind the mutex.
SessionEnds ==
    LET over == \A s \in Sessions : pc[s] \in {"idle", "done"} IN ~over ~> over

\* destory_plugin() returns, even if the timer does not hear the notification.
DestroyReturns == destroy = "quit" ~> destroy = "done"

\* Mappings nobody uses are given back, as long as the timer runs.
UnusedIsDropped ==
    LET unused == \E i \in DOMAIN cache.items : \A s \in Sessions : file[s] # cache.items[i].value
    IN  unused ~> ~unused \/ quit
=============================================================================
