------------------------------- MODULE Server -------------------------------
(***************************************************************************)
(* server::exec after start-up: the accepting thread creates a session per *)
(* connection, registers it with the least loaded event loop, and after    *)
(* SIGINT or SIGTERM takes the loops down.  Composes the accepting thread, *)
(* the event loops, the sessions, the worker threads and the peers.        *)
(***************************************************************************)
EXTENDS EventLoop

CONSTANTS
    MaxConnectionsPerIp, \* max_connections_per_ip
    StaleReuse,  \* may the allocator hand out the address of a dead session
                 \* while a wake-up for that address is still outstanding?
    ScanRace,    \* may the delete that follows a failed EPOLL_CTL_ADD run
                 \* while a timeout scan of the loop holds the session?
    LateTasks    \* may a worker task still run when the loops are destroyed?

ASSUME ServerAssumption ==
    /\ MaxConnectionsPerIp \in Nat \ {0}
    /\ StaleReuse \in BOOLEAN
    /\ ScanRace \in BOOLEAN
    /\ LateTasks \in BOOLEAN

VARIABLES
    accept,     \* where the accepting thread is, see TypeOK
    addr,       \* local: peer address of the accepted socket
    best_loop,  \* local
    candidate,  \* local: the i of the least-loaded scan
    session,    \* local: {} or the session that this thread still dereferences
    stopping    \* loops still to shut down, or to destroy

acceptVars == <<accept, addr, best_loop, candidate, session, stopping>>

vars == <<sessionVars, wakeuppers, loopVars, acceptVars>>

TypeOK ==
    /\ SessionTypeOK
    /\ LoopTypeOK
    /\ accept \in {"idle", "choose", "created", "inserted", "added", "failed",
                   "quit", "signal", "destroy", "join", "reclaim", "plugins", "done", "hung"}
    /\ addr \in Peers
    /\ best_loop \in Loops
    /\ candidate \in 2 .. NLoops + 1
    /\ session \in SUBSET Sessions
    /\ stopping \in SUBSET Loops

Init ==
    /\ SessionInit
    /\ LoopInit
    /\ accept = "idle"
    /\ addr \in Peers
    /\ best_loop = 1
    /\ candidate = 2
    /\ session = {}
    /\ stopping = {}

-----------------------------------------------------------------------------
(* Accepting a connection *)

\* accept4 and the per-address limit.  A connection over the limit is closed
\* at once and nothing changes.
Accept(p) ==
    /\ accept = "idle"
    /\ connections_per_ip[p] < MaxConnectionsPerIp
    /\ connections_per_ip' = [connections_per_ip EXCEPT ![p] = @ + 1]
    /\ addr' = p
    /\ best_loop' = 1
    /\ candidate' = 2
    /\ accept' = "choose"
    /\ UNCHANGED <<alive, home, peer, coroutine, epoll, m_sessions, m_active_sessions,
                   m_delete_later, wakeuppers, loopVars, session, stopping>>

\* One round of the search for the least used loop.
Choose ==
    /\ accept = "choose"
    /\ candidate <= NLoops
    /\ best_loop' = IF m_active_sessions[best_loop] > m_active_sessions[candidate]
                    THEN candidate ELSE best_loop
    /\ candidate' = candidate + 1
    /\ UNCHANGED <<sessionVars, wakeuppers, loopVars, accept, addr, session, stopping>>

\* A wake-up for this address is still on its way.
Outstanding(s) ==
    \E l \in Loops : \/ <<l, s>> \in wakeuppers
                     \/ s \in m_wakeup_sessions[l]
                     \/ pc[l] = "wakeups" /\ s \in todo[l]

\* new server_session: server_session_created, and a coroutine not started.
Create(s) ==
    /\ accept = "choose"
    /\ candidate > NLoops
    /\ s \notin alive
    /\ StaleReuse \/ ~Outstanding(s)
    /\ alive' = alive \cup {s}
    /\ home' = [home EXCEPT ![s] = best_loop]
    /\ peer' = [peer EXCEPT ![s] = addr]
    /\ coroutine' = [coroutine EXCEPT ![s] = "fresh"]
    /\ session' = {s}
    /\ accept' = "created"
    /\ UNCHANGED <<epoll, connections_per_ip, m_sessions, m_active_sessions,
                   m_delete_later, wakeuppers, loopVars, addr, best_loop, candidate,
                   stopping>>

\* Mutant: a constructor that throws keeps the slot of its address.
CreateFailsKeepsSlot ==
    /\ accept = "choose"
    /\ candidate > NLoops
    /\ accept' = "idle"
    /\ UNCHANGED <<sessionVars, wakeuppers, loopVars, addr, best_loop, candidate,
                   session, stopping>>

\* setsockopt(TCP_NODELAY) fails: the constructor throws, the base class
\* destructor runs server_session_deleted, and exec closes the socket.
CreateFails ==
    /\ accept = "choose"
    /\ candidate > NLoops
    /\ connections_per_ip' = [connections_per_ip EXCEPT ![addr] = @ - 1]
    /\ accept' = "idle"
    /\ UNCHANGED <<alive, home, peer, coroutine, epoll, m_sessions, m_active_sessions,
                   m_delete_later, wakeuppers, loopVars, addr, best_loop, candidate,
                   session, stopping>>

\* register_session: m_sessions.insert, under m_sessions_mutex.
RegisterInsert(s) ==
    /\ accept = "created"
    /\ s \in session
    /\ m_sessions' = [m_sessions EXCEPT ![best_loop] = @ \cup {s}]
    /\ accept' = "inserted"
    /\ UNCHANGED <<alive, home, peer, coroutine, epoll, connections_per_ip,
                   m_active_sessions, m_delete_later, wakeuppers, loopVars, addr,
                   best_loop, candidate, session, stopping>>

\* register_session: EPOLL_CTL_ADD.  The socket is writable, and may have
\* been hung up already: there is an edge at once, and from here on the
\* object is the loop's.
RegisterAdd(s) ==
    /\ accept = "inserted"
    /\ s \in session
    /\ \E event \in {"io", "hup"} : epoll' = [epoll EXCEPT ![s] = event]
    /\ session' = {}
    /\ accept' = "added"
    /\ UNCHANGED <<alive, home, peer, coroutine, connections_per_ip, m_sessions,
                   m_active_sessions, m_delete_later, wakeuppers, loopVars, addr,
                   best_loop, candidate, stopping>>

\* register_session: ++m_active_sessions.
RegisterCount ==
    /\ accept = "added"
    /\ m_active_sessions' = [m_active_sessions EXCEPT ![best_loop] = @ + 1]
    /\ accept' = "idle"
    /\ UNCHANGED <<alive, home, peer, coroutine, epoll, connections_per_ip, m_sessions,
                   m_delete_later, wakeuppers, loopVars, addr, best_loop, candidate,
                   session, stopping>>

\* EPOLL_CTL_ADD fails and register_session throws.
RegisterFails ==
    /\ accept = "inserted"
    /\ accept' = "failed"
    /\ UNCHANGED <<sessionVars, wakeuppers, loopVars, addr, best_loop, candidate,
                   session, stopping>>

\* The catch of the accept loop: delete session, on the accepting thread.
DeleteFailed(s) ==
    /\ accept = "failed"
    /\ s \in session
    /\ ScanRace \/ s \notin Scanning(best_loop)
    /\ Destroy(s)
    /\ session' = {}
    /\ accept' = "idle"
    /\ UNCHANGED <<loopVars, addr, best_loop, candidate, stopping>>

-----------------------------------------------------------------------------
(* Shutting down *)

\* m_shutdown ends the accept loop.
BeginShutdown ==
    /\ accept = "idle"
    /\ accept' = "quit"
    /\ stopping' = Loops
    /\ UNCHANGED <<sessionVars, wakeuppers, loopVars, addr, best_loop, candidate, session>>

\* sessions_event_loop::shutdown: m_quit.store(true) ...
QuitStore(l) ==
    /\ accept = "quit"
    /\ l \in stopping
    /\ m_quit' = [m_quit EXCEPT ![l] = TRUE]
    /\ best_loop' = l
    /\ accept' = "signal"
    /\ UNCHANGED <<sessionVars, wakeuppers, pc, event_fd, wokeup, events, todo,
                   m_wakeup_sessions, signalling, addr, candidate, session, stopping>>

\* ... then eventfd_write.
QuitSignal ==
    /\ accept = "signal"
    /\ event_fd' = [event_fd EXCEPT ![best_loop] = TRUE]
    /\ IF stopping = {best_loop}
       THEN accept' = "destroy" /\ stopping' = Loops
       ELSE accept' = "quit" /\ stopping' = stopping \ {best_loop}
    /\ UNCHANGED <<sessionVars, wakeuppers, pc, m_quit, wokeup, events, todo,
                   m_wakeup_sessions, signalling, addr, best_loop, candidate, session>>

\* event_loops.reset(), ~sessions_event_loop: shutdown() once more ...
BeginDestroy(l) ==
    /\ accept = "destroy"
    /\ l \in stopping
    /\ event_fd' = [event_fd EXCEPT ![l] = TRUE]
    /\ best_loop' = l
    /\ accept' = "join"
    /\ UNCHANGED <<sessionVars, wakeuppers, pc, m_quit, wokeup, events, todo,
                   m_wakeup_sessions, signalling, addr, candidate, session, stopping>>

\* ... and join the loop's thread.
Join ==
    /\ accept = "join"
    /\ pc[best_loop] = "exited"
    /\ accept' = "reclaim"
    /\ UNCHANGED <<sessionVars, wakeuppers, loopVars, addr, best_loop, candidate,
                   session, stopping>>

\* ~sessions_event_loop: delete a session that is still registered.
Reclaim(s) ==
    /\ accept = "reclaim"
    /\ s \in m_sessions[best_loop]
    /\ Destroy(s)
    /\ UNCHANGED <<loopVars, acceptVars>>

\* Mutant: the destructor leaves the registered sessions alone.
DestroyedWithSessions ==
    /\ accept = "reclaim"
    /\ LateTasks \/ \A s \in Sessions : <<best_loop, s>> \notin wakeuppers
    /\ Goto(best_loop, "destroyed")
    /\ stopping' = stopping \ {best_loop}
    /\ accept' = IF stopping = {best_loop} THEN "plugins" ELSE "destroy"
    /\ UNCHANGED <<sessionVars, wakeuppers, m_quit, event_fd, wokeup, events, todo,
                   m_wakeup_sessions, signalling, addr, best_loop, candidate, session>>

\* ~sessions_event_loop is over and the loop's memory is gone.  After the
\* last one exec deletes what is left of m_active_sessions.
Destroyed ==
    /\ accept = "reclaim"
    /\ m_sessions[best_loop] = {}
    /\ LateTasks \/ \A s \in Sessions : <<best_loop, s>> \notin wakeuppers
    /\ Goto(best_loop, "destroyed")
    /\ stopping' = stopping \ {best_loop}
    /\ accept' = IF stopping = {best_loop} THEN "plugins" ELSE "destroy"
    /\ UNCHANGED <<sessionVars, wakeuppers, m_quit, event_fd, wokeup, events, todo,
                   m_wakeup_sessions, signalling, addr, best_loop, candidate, session>>

\* m_plugins.clear() destroys the thread_workers of the plugins.  When their
\* threads have ended exec returns; but the destructor of a pool may wait for
\* ever for a thread that missed its notification (ThreadWorker).
ClearPlugins ==
    /\ accept = "plugins"
    /\ (wakeuppers = {} /\ accept' = "done") \/ accept' = "hung"
    /\ UNCHANGED <<sessionVars, wakeuppers, loopVars, addr, best_loop, candidate,
                   session, stopping>>

\* exec has returned, or never will.
Returned == accept \in {"done", "hung"} /\ UNCHANGED vars

-----------------------------------------------------------------------------
LoopThread(l) ==
    /\ \/ Head(l) \/ EpollWait(l) \/ ProcessEvent(l) \/ Drain(l) \/ SwapWakeups(l)
       \/ WakeupOne(l) \/ WakeupsDone(l) \/ CheckDeadline(l) \/ ScanOne(l, session)
       \/ ScanDone(l) \/ SwapDeleteLater(l) \/ DeleteOne(l) \/ DeleteDone(l)
    /\ UNCHANGED acceptVars

Worker ==
    /\ \E l \in Loops, s \in Sessions : WakeupInsert(l, s) \/ WakeupSignal(l, s)
    /\ UNCHANGED acceptVars

Environment ==
    /\ \/ \E s \in Sessions : (PeerSends(s) \/ PeerHangsUp(s)) /\ UNCHANGED loopVars
       \/ \E l \in Loops : EpollNothing(l)
    /\ UNCHANGED acceptVars

AcceptSteps ==
    \/ Choose
    \/ \E s \in Sessions : Create(s) \/ RegisterInsert(s) \/ RegisterAdd(s) \/ DeleteFailed(s)
    \/ CreateFails
    \/ RegisterCount
    \/ RegisterFails

ShutdownThread ==
    \/ \E l \in Loops : QuitStore(l) \/ BeginDestroy(l)
    \/ QuitSignal
    \/ Join
    \/ \E s \in Sessions : Reclaim(s)
    \/ Destroyed
    \/ ClearPlugins

Next ==
    \/ \E p \in Peers : Accept(p)
    \/ AcceptSteps
    \/ BeginShutdown
    \/ ShutdownThread
    \/ \E l \in Loops : LoopThread(l)
    \/ Worker
    \/ Environment
    \/ Returned

Spec == Init /\ [][Next]_vars

\* The threads run: a loop thread, a worker in a wake-up, and the accepting
\* thread once it has accepted a connection or left the accept loop.  Peers,
\* timers and the arrival of connections or of a signal promise nothing.
FairSpec ==
    /\ Spec
    /\ \A l \in Loops : WF_vars(LoopThread(l))
    /\ WF_vars(Worker)
    /\ WF_vars(AcceptSteps)
    /\ WF_vars(ShutdownThread)

-----------------------------------------------------------------------------
(* Who holds a session *)

\* Objects that the loop is about to delete (delete_later_objects).
Doomed(l) == IF pc[l] = "delete" THEN todo[l] ELSE {}

\* Objects in a local of loop() other than delete_later_objects that it
\* dereferences without looking them up again.
Borrowed(l) == {e[1] : e \in events[l]} \cup Scanning(l)

\* The object that only the accepting thread knows.
Unregistered == IF accept = "created" THEN session ELSE {}

\* Every pointer that a thread dereferences points to a live object: what
\* epoll_wait reported, the snapshot of a timeout scan, the two sets of
\* objects to delete, the registered sessions, and the session the accepting
\* thread is registering.  No event, wake-up, timeout or delete reaches an
\* object that another step has deleted.
NoDanglingPointer ==
    /\ session \subseteq alive
    /\ \A l \in Loops :
         m_sessions[l] \cup m_delete_later[l] \cup Doomed(l) \cup Borrowed(l) \subseteq alive

\* Every live object is in exactly one place that will delete it: with the
\* accepting thread, registered with its own loop, or in one of the two sets
\* of its own loop that wait for deletion.  No object leaks and none is
\* deleted twice, whatever mix of hang-ups, exceptions, wake-ups and
\* timeouts ends it.
OwnedExactlyOnce ==
    \A s \in alive :
        LET l == home[s]
            others == Loops \ {l}
        IN  /\ \A k \in others : s \notin m_sessions[k] \cup m_delete_later[k] \cup Doomed(k)
            /\ \/ s \in Unregistered /\ s \notin m_sessions[l] \cup m_delete_later[l] \cup Doomed(l)
               \/ s \in m_sessions[l] /\ s \notin Unregistered \cup m_delete_later[l] \cup Doomed(l)
               \/ s \in m_delete_later[l] /\ s \notin Unregistered \cup m_sessions[l] \cup Doomed(l)
               \/ s \in Doomed(l) /\ s \notin Unregistered \cup m_sessions[l] \cup m_delete_later[l]

\* A handler that returns is not followed by delete_later: the object goes
\* only because ::shutdown makes epoll report a hang-up.  That report is
\* never lost: as long as the session of a finished coroutine is registered,
\* its hang-up is pending in epoll or in the events being processed.
FinishedIsReported ==
    \A l \in Loops : \A s \in m_sessions[l] :
        coroutine[s] = "over" => epoll[s] = "hup" \/ <<s, "hup">> \in events[l]

-----------------------------------------------------------------------------
(* Counting *)

\* The load of a loop, by which exec balances, is the number of sockets in
\* its epoll set; register_session counts after EPOLL_CTL_ADD, so until then
\* the loop may have counted the session out before it was counted in (the
\* unsigned counter wraps), but never when exec compares the loops.
LoadIsExact ==
    \A l \in Loops :
        m_active_sessions[l] =
            Cardinality({s \in m_sessions[l] : epoll[s] # "absent"})
            - IF accept = "added" /\ best_loop = l THEN 1 ELSE 0

\* m_connections_per_ip counts exactly the live sessions of an address, plus
\* the one being created, and stays within the limit: the decrement in
\* server_session_deleted always finds its entry (the assert there), and no
\* failure or race leaks a slot of an address or frees it twice.
ConnectionsExact ==
    \A p \in Peers :
        /\ connections_per_ip[p] =
             Cardinality({s \in alive : peer[s] = p})
             + IF accept = "choose" /\ addr = p THEN 1 ELSE 0
        /\ connections_per_ip[p] <= MaxConnectionsPerIp

-----------------------------------------------------------------------------
(* Wake-ups and shutdown *)

\* A queued wake-up always has its signal: m_event_fd is readable, or the
\* worker that queued it has still to write, or the loop has drained it and
\* is about to take the queue.  The order of insert and write on one side,
\* and of drain and swap on the other, loses nothing.
WakeupNotLost ==
    \A l \in Loops :
        m_wakeup_sessions[l] # {} =>
            \/ event_fd[l]
            \/ \E s \in Sessions : <<l, s>> \in signalling
            \/ pc[l] = "swap"

\* A loop that is asked to quit does not sleep through it: once m_quit is
\* set and signalled, a thread in epoll_wait has something to return for.
QuitNotLost ==
    \A l \in Loops :
        m_quit[l] /\ pc[l] = "wait" => event_fd[l] \/ (accept = "signal" /\ best_loop = l)

\* When every loop is destroyed no session is left, so the last loop of exec
\* (for session in m_active_sessions: delete), which erases from the set it
\* walks, has nothing to walk, and every address is back to no connections.
NothingLeftAfterLoops ==
    accept \in {"plugins", "done", "hung"} =>
        alive = {} /\ \A p \in Peers : connections_per_ip[p] = 0

\* A wakeupper is not used after the memory of its loop is gone.
HandleOutlivesNoLoop == \A w \in wakeuppers : pc[w[1]] # "destroyed"

-----------------------------------------------------------------------------
(* Progress *)

\* Every session whose coroutine is over is deleted.
FinishedIsDeleted ==
    \A s \in Sessions : (s \in alive /\ coroutine[s] = "over") ~> (s \notin alive)

\* Every wake-up a worker queues is taken up by its loop, unless it quits.
WakeupIsServed ==
    \A l \in Loops, s \in Sessions :
        s \in m_wakeup_sessions[l] ~>
            (pc[l] = "wakeups" /\ s \in todo[l]) \/ pc[l] \in {"exited", "destroyed"}

\* After SIGINT or SIGTERM exec gets as far as m_plugins.clear(): every loop's
\* thread is joined and every session deleted, whatever they were doing.  (It
\* need not get any further: ClearPlugins.)
ShutdownReachesPlugins == (accept = "quit") ~> (accept = "plugins")
-----------------------------------------------------------------------------
(* The inductive invariant behind the safety properties, for a server in   *)
(* which the allocator and the failed registration do not race with a      *)
(* loop (~StaleReuse, ~ScanRace).  Module ServerProofs proves it.          *)

\* The accepting thread holds one object between its constructor and
\* EPOLL_CTL_ADD, and nobody else can reach it in that time: no epoll event
\* and no wake-up names it, and it has not run.
SetUpIsPrivate ==
    /\ session # {} <=> accept \in {"created", "inserted", "failed"}
    /\ \A s, t \in session : s = t
    /\ \A s \in session :
         /\ s \in alive
         /\ home[s] = best_loop
         /\ epoll[s] = "absent"
         /\ coroutine[s] = "fresh"
         /\ ~Outstanding(s)
         /\ \A l \in Loops :
              /\ s \notin m_delete_later[l] \cup Doomed(l)
              /\ \A k \in {"io", "hup"} : <<s, k>> \notin events[l]
         /\ s \in m_sessions[best_loop] <=> accept # "created"

\* The sets of a loop hold only its own live objects, no object is in two of
\* them, and every live object is in one of them or with the accepting thread.
SetsPartitionAlive ==
    /\ \A l \in Loops :
         /\ \A s \in m_sessions[l] \cup m_delete_later[l] \cup Doomed(l) :
              s \in alive /\ home[s] = l
         /\ m_sessions[l] \cap m_delete_later[l] = {}
         /\ m_sessions[l] \cap Doomed(l) = {}
         /\ m_delete_later[l] \cap Doomed(l) = {}
    /\ \A s \in alive : s \in session \cup m_sessions[home[s]] \cup m_delete_later[home[s]]
                                     \cup Doomed(home[s])

\* What epoll and the locals of loop() refer to is registered with the loop.
BorrowedIsRegistered ==
    /\ \A s \in Sessions : epoll[s] # "absent" => s \in m_sessions[home[s]]
    /\ \A l \in Loops :
         /\ Scanning(l) \subseteq m_sessions[l]
         /\ \A e \in events[l] : e[1] \in m_sessions[l]
         /\ \A e, f \in events[l] : e[1] = f[1] => e = f
         /\ events[l] # {} => pc[l] = "events"
         /\ pc[l] \in {"head", "wait", "delete", "exited", "destroyed"} => m_delete_later[l] = {}

\* A loop is destroyed only by the accepting thread, after its thread has
\* quit and its sessions are gone.
LoopsGoInOrder ==
    /\ accept = "reclaim" => pc[best_loop] = "exited"
    /\ \A l \in Loops : pc[l] = "destroyed" =>
         /\ m_sessions[l] = {}
         /\ accept \in {"destroy", "join", "reclaim", "plugins", "done", "hung"}
    /\ accept \in {"destroy", "join", "reclaim", "plugins", "done", "hung"} =>
         \A l \in Loops \ stopping : pc[l] = "destroyed"
    /\ accept \in {"plugins", "done", "hung"} => stopping = {}

SafetyInv == TypeOK /\ SetUpIsPrivate /\ SetsPartitionAlive /\ BorrowedIsRegistered /\ LoopsGoInOrder

=============================================================================
