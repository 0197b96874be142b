------------------------------ MODULE EventLoop ------------------------------
(***************************************************************************)
(* sessions_event_loop: the thread that waits in epoll_wait, hands events, *)
(* wake-ups and expired deadlines to the sessions, and deletes at the end  *)
(* of an iteration the sessions that gave themselves up during it; and the *)
(* worker threads that wake a session through its wakeupper.               *)
(*                                                                         *)
(* Deadlines are abstracted to which sessions a timeout scan finds due     *)
(* (module Deadlines models the clock): any session may be, except one     *)
(* that the accepting thread is still registering, whose deadline lies a   *)
(* whole headers_timeout or ssl_accept_timeout ahead.                      *)
(***************************************************************************)
EXTENDS ServerSession

VARIABLES
    pc,         \* where the loop thread is, see LoopTypeOK
    m_quit,
    event_fd,   \* the counter of m_event_fd is not zero
    wokeup,     \* local of loop(): epoll_wait reported m_event_fd
    events,     \* local: the epoll events still to process, <<session, event>>
    todo,       \* local: wokeup_sessions, sessions or delete_later_objects
    m_wakeup_sessions,
    signalling  \* worker threads between the insert and the eventfd_write

loopVars == <<pc, m_quit, event_fd, wokeup, events, todo, m_wakeup_sessions, signalling>>

LoopTypeOK ==
    /\ pc \in [Loops -> {"head", "wait", "events", "swap", "wakeups", "deadline",
                         "scan", "reap", "delete", "exited", "destroyed"}]
    /\ m_quit \in [Loops -> BOOLEAN]
    /\ event_fd \in [Loops -> BOOLEAN]
    /\ wokeup \in [Loops -> BOOLEAN]
    /\ events \in [Loops -> SUBSET (Sessions \X {"io", "hup"})]
    /\ todo \in [Loops -> SUBSET Sessions]
    /\ m_wakeup_sessions \in [Loops -> SUBSET Sessions]
    /\ signalling \subseteq Loops \X Sessions

LoopInit ==
    /\ pc = [l \in Loops |-> "head"]
    /\ m_quit = [l \in Loops |-> FALSE]
    /\ event_fd = [l \in Loops |-> FALSE]
    /\ wokeup = [l \in Loops |-> FALSE]
    /\ events = [l \in Loops |-> {}]
    /\ todo = [l \in Loops |-> {}]
    /\ m_wakeup_sessions = [l \in Loops |-> {}]
    /\ signalling = {}

Goto(l, label) == pc' = [pc EXCEPT ![l] = label]

-----------------------------------------------------------------------------
(* loop() *)

\* Mutant: the loop quits only once it has no sessions.
HeadWaitsForSessions(l) ==
    /\ pc[l] = "head"
    /\ Goto(l, IF m_quit[l] /\ m_sessions[l] = {} THEN "exited" ELSE "wait")
    /\ UNCHANGED <<sessionVars, wakeuppers, m_quit, event_fd, wokeup, events, todo,
                   m_wakeup_sessions, signalling>>

\* while (!m_quit)
Head(l) ==
    /\ pc[l] = "head"
    /\ Goto(l, IF m_quit[l] THEN "exited" ELSE "wait")
    /\ UNCHANGED <<sessionVars, wakeuppers, m_quit, event_fd, wokeup, events, todo,
                   m_wakeup_sessions, signalling>>

Ready(l) == {s \in Sessions : home[s] = l /\ epoll[s] \in {"io", "hup"}}

\* epoll_wait returns because something is ready.  Edge triggered: what it
\* reports is no longer pending.
EpollWait(l) ==
    /\ pc[l] = "wait"
    /\ Ready(l) # {} \/ event_fd[l]
    /\ events' = [events EXCEPT ![l] = {<<s, epoll[s]>> : s \in Ready(l)}]
    /\ wokeup' = [wokeup EXCEPT ![l] = event_fd[l]]
    /\ epoll' = [s \in Sessions |-> IF s \in Ready(l) THEN "quiet" ELSE epoll[s]]
    /\ Goto(l, "events")
    /\ UNCHANGED <<alive, home, peer, coroutine, connections_per_ip, m_sessions,
                   m_active_sessions, m_delete_later, wakeuppers, m_quit, event_fd,
                   todo, m_wakeup_sessions, signalling>>

\* epoll_wait returns with nothing: its timeout for the earliest deadline
\* has passed, or a signal interrupted it (triggered_events < 0).
EpollNothing(l) ==
    /\ pc[l] = "wait"
    /\ Ready(l) = {} /\ ~event_fd[l]
    /\ \/ Goto(l, "deadline")
       \/ Goto(l, "head")
    /\ UNCHANGED <<sessionVars, wakeuppers, m_quit, event_fd, wokeup, events, todo,
                   m_wakeup_sessions, signalling>>

\* One process_events call.  With workload balancing the events are sorted
\* by order() first: here they come in any order.
ProcessEvent(l) ==
    /\ pc[l] = "events"
    /\ \E e \in events[l] :
         /\ events' = [events EXCEPT ![l] = @ \ {e}]
         /\ ProcessEvents(e[1], e[2])
    /\ UNCHANGED <<pc, m_quit, event_fd, wokeup, todo, m_wakeup_sessions, signalling>>

\* The events are processed; if m_event_fd was among them, drain it.  This
\* is the last use of wokeup in the iteration.
Drain(l) ==
    /\ pc[l] = "events"
    /\ events[l] = {}
    /\ wokeup' = [wokeup EXCEPT ![l] = FALSE]
    /\ \/ wokeup[l] /\ event_fd' = [event_fd EXCEPT ![l] = FALSE] /\ Goto(l, "swap")
       \/ ~wokeup[l] /\ UNCHANGED event_fd /\ Goto(l, "deadline")
    /\ UNCHANGED <<sessionVars, wakeuppers, m_quit, events, todo, m_wakeup_sessions,
                   signalling>>

\* wokeup_sessions.swap(m_wakeup_sessions), under m_wakeup_mutex.
SwapWakeups(l) ==
    /\ pc[l] = "swap"
    /\ todo' = [todo EXCEPT ![l] = m_wakeup_sessions[l]]
    /\ m_wakeup_sessions' = [m_wakeup_sessions EXCEPT ![l] = {}]
    /\ Goto(l, "wakeups")
    /\ UNCHANGED <<sessionVars, wakeuppers, m_quit, event_fd, wokeup, events, signalling>>

\* Mutant: resume whatever was queued.
WakeupOneUnchecked(l) ==
    /\ pc[l] = "wakeups"
    /\ \E s \in todo[l] :
         /\ todo' = [todo EXCEPT ![l] = @ \ {s}]
         /\ Wakeup(s)
    /\ UNCHANGED <<pc, m_quit, event_fd, wokeup, events, m_wakeup_sessions, signalling>>

\* The wakeupper may outlive its session: only resume the ones which are
\* still registered.
WakeupOne(l) ==
    /\ pc[l] = "wakeups"
    /\ \E s \in todo[l] :
         /\ todo' = [todo EXCEPT ![l] = @ \ {s}]
         /\ IF s \in m_sessions[l]
            THEN Wakeup(s)
            ELSE UNCHANGED <<sessionVars, wakeuppers>>
    /\ UNCHANGED <<pc, m_quit, event_fd, wokeup, events, m_wakeup_sessions, signalling>>

\* Mutant: the signal is drained after the queue was taken.
WakeupsDoneDrains(l) ==
    /\ pc[l] = "wakeups"
    /\ todo[l] = {}
    /\ Goto(l, "deadline")
    /\ event_fd' = [event_fd EXCEPT ![l] = FALSE]
    /\ UNCHANGED <<sessionVars, wakeuppers, m_quit, wokeup, events, todo,
                   m_wakeup_sessions, signalling>>

WakeupsDone(l) ==
    /\ pc[l] = "wakeups"
    /\ todo[l] = {}
    /\ Goto(l, "deadline")
    /\ UNCHANGED <<sessionVars, wakeuppers, m_quit, event_fd, wokeup, events, todo,
                   m_wakeup_sessions, signalling>>

\* The earliest deadline is due or not; if it is, snapshot m_sessions under
\* m_sessions_mutex.
CheckDeadline(l) ==
    /\ pc[l] = "deadline"
    /\ \/ todo' = [todo EXCEPT ![l] = m_sessions[l]] /\ Goto(l, "scan")
       \/ UNCHANGED todo /\ Goto(l, "reap")
    /\ UNCHANGED <<sessionVars, wakeuppers, m_quit, event_fd, wokeup, events,
                   m_wakeup_sessions, signalling>>

\* One round of the scan; registering is the session whose registration is
\* under way, whose deadline is never due.
ScanOne(l, registering) ==
    /\ pc[l] = "scan"
    /\ \E s \in todo[l] :
         /\ todo' = [todo EXCEPT ![l] = @ \ {s}]
         /\ \/ UNCHANGED <<sessionVars, wakeuppers>>
            \/ s \notin registering /\ Timeout(s)
    /\ UNCHANGED <<pc, m_quit, event_fd, wokeup, events, m_wakeup_sessions, signalling>>

\* The snapshot that a scan has still to visit.
Scanning(l) == IF pc[l] = "scan" THEN todo[l] ELSE {}

ScanDone(l) ==
    /\ pc[l] = "scan"
    /\ todo[l] = {}
    /\ Goto(l, "reap")
    /\ UNCHANGED <<sessionVars, wakeuppers, m_quit, event_fd, wokeup, events, todo,
                   m_wakeup_sessions, signalling>>

\* delete_later_objects.swap(m_delete_later_objects), under its lock.
SwapDeleteLater(l) ==
    /\ pc[l] = "reap"
    /\ todo' = [todo EXCEPT ![l] = m_delete_later[l]]
    /\ m_delete_later' = [m_delete_later EXCEPT ![l] = {}]
    /\ Goto(l, "delete")
    /\ UNCHANGED <<alive, home, peer, coroutine, epoll, connections_per_ip, m_sessions,
                   m_active_sessions, wakeuppers, m_quit, event_fd, wokeup, events,
                   m_wakeup_sessions, signalling>>

DeleteOne(l) ==
    /\ pc[l] = "delete"
    /\ \E s \in todo[l] :
         /\ todo' = [todo EXCEPT ![l] = @ \ {s}]
         /\ Destroy(s)
    /\ UNCHANGED <<pc, m_quit, event_fd, wokeup, events, m_wakeup_sessions, signalling>>

DeleteDone(l) ==
    /\ pc[l] = "delete"
    /\ todo[l] = {}
    /\ Goto(l, "head")
    /\ UNCHANGED <<sessionVars, wakeuppers, m_quit, event_fd, wokeup, events, todo,
                   m_wakeup_sessions, signalling>>

-----------------------------------------------------------------------------
(* Worker threads: wakeupper::wakeup, that is wakeup_session *)

\* m_wakeup_sessions.insert, under m_wakeup_mutex.
WakeupInsert(l, s) ==
    /\ <<l, s>> \in wakeuppers \ signalling
    /\ m_wakeup_sessions' = [m_wakeup_sessions EXCEPT ![l] = @ \cup {s}]
    /\ signalling' = signalling \cup {<<l, s>>}
    /\ UNCHANGED <<sessionVars, wakeuppers, pc, m_quit, event_fd, wokeup, events, todo>>

\* eventfd_write, after which the task is over and drops its handle.
WakeupSignal(l, s) ==
    /\ <<l, s>> \in signalling
    /\ event_fd' = [event_fd EXCEPT ![l] = TRUE]
    /\ signalling' = signalling \ {<<l, s>>}
    /\ wakeuppers' = wakeuppers \ {<<l, s>>}
    /\ UNCHANGED <<sessionVars, pc, m_quit, wokeup, events, todo, m_wakeup_sessions>>
=============================================================================
