---------------------------- MODULE ServerSession ----------------------------
(***************************************************************************)
(* One server_session per accepted connection (server_session.h): the heap *)
(* object, the coroutine that runs the connection's handler, its socket in *)
(* the epoll set of its event loop, and the server's book-keeping of live  *)
(* connections (server_session_created, server_session_deleted).           *)
(*                                                                         *)
(* A member of Sessions is the ADDRESS of an object, not a connection: the *)
(* allocator hands an address out again after a delete, and a wake-up that *)
(* is still on its way to the old object then names the new one.           *)
(***************************************************************************)
EXTENDS Integers, FiniteSets

CONSTANTS
    Sessions,   \* addresses of session objects
    NLoops,     \* event_loops_size
    Peers       \* peer addresses, as m_connections_per_ip keys them

ASSUME NLoopsAssumption == NLoops \in Nat \ {0}

Loops == 1 .. NLoops

VARIABLES
    alive,              \* objects that exist: server::m_active_sessions
    home,               \* m_event_loop of the object
    peer,               \* m_peer_addr of the object
    coroutine,          \* m_io_yield: not started, suspended in a yield, over
    epoll,              \* the socket in the epoll set: absent, quiet, or the
                        \* edge that epoll_wait has still to report
    connections_per_ip, \* m_connections_per_ip; no entry is 0
    m_sessions,         \* sessions_event_loop::m_sessions of each loop
    m_active_sessions,  \* sessions_event_loop::m_active_sessions of each loop
    m_delete_later,     \* m_delete_later_objects of each loop
    wakeuppers          \* wake-up handles that worker threads hold, <<loop, session>>

sessionVars == <<alive, home, peer, coroutine, epoll, connections_per_ip,
                 m_sessions, m_active_sessions, m_delete_later>>

SessionTypeOK ==
    /\ alive \subseteq Sessions
    /\ home \in [Sessions -> Loops]
    /\ peer \in [Sessions -> Peers]
    /\ coroutine \in [Sessions -> {"fresh", "suspended", "over"}]
    /\ epoll \in [Sessions -> {"absent", "quiet", "io", "hup"}]
    /\ connections_per_ip \in [Peers -> Int]
    /\ m_sessions \in [Loops -> SUBSET Sessions]
    /\ m_active_sessions \in [Loops -> Int]
    /\ m_delete_later \in [Loops -> SUBSET Sessions]
    /\ wakeuppers \subseteq Loops \X Sessions

SessionInit ==
    /\ alive = {}
    /\ home \in [Sessions -> {1}]
    /\ \E p \in Peers : peer = [s \in Sessions |-> p]
    /\ coroutine = [s \in Sessions |-> "over"]
    /\ epoll = [s \in Sessions |-> "absent"]
    /\ connections_per_ip = [p \in Peers |-> 0]
    /\ m_sessions = [l \in Loops |-> {}]
    /\ m_active_sessions = [l \in Loops |-> 0]
    /\ m_delete_later = [l \in Loops |-> {}]
    /\ wakeuppers = {}

-----------------------------------------------------------------------------
(* Registration *)

\* Mutant: the counter goes down although nothing was erased.
UnregisterCountsTwice(s) ==
    LET l == home[s]
    IN  /\ m_sessions' = [m_sessions EXCEPT ![l] = @ \ {s}]
        /\ m_active_sessions' = [m_active_sessions EXCEPT ![l] = @ - 1]
        /\ epoll' = [epoll EXCEPT ![s] = "absent"]

\* unregister_session: erase, and return early when there was nothing to
\* erase; EPOLL_CTL_DEL, which fails for a socket that was never added, and
\* then the counter is left alone.
Unregister(s) ==
    LET l == home[s]
        erased == s \in m_sessions[l]
    IN  /\ m_sessions' = [m_sessions EXCEPT ![l] = @ \ {s}]
        /\ m_active_sessions' =
             IF erased /\ epoll[s] # "absent"
             THEN [m_active_sessions EXCEPT ![l] = @ - 1]
             ELSE m_active_sessions
        /\ epoll' = IF erased THEN [epoll EXCEPT ![s] = "absent"] ELSE epoll

\* Mutant: delete_later without unregister_session.
DeleteLaterRegistered(s) ==
    /\ UNCHANGED <<m_sessions, m_active_sessions, epoll>>
    /\ m_delete_later' = [m_delete_later EXCEPT ![home[s]] = @ \cup {s}]

\* delete_later on an object whose destructor has not started.
DeleteLater(s) ==
    /\ Unregister(s)
    /\ m_delete_later' = [m_delete_later EXCEPT ![home[s]] = @ \cup {s}]

\* server_session_deleted, the tail of every destructor.
SessionDeleted(s) ==
    /\ alive' = alive \ {s}
    /\ connections_per_ip' = [connections_per_ip EXCEPT ![peer[s]] = @ - 1]

-----------------------------------------------------------------------------
(* Running the coroutine *)

\* Anything a handler does before its next yield may hand the wakeupper of
\* its stream to a worker thread.
HandOut(s) == wakeuppers' \in {wakeuppers, wakeuppers \cup {<<home[s], s>>}}

\* Mutant: a handler that returns does not shut the socket down.
ResumeNoShutdown(s) ==
    /\ HandOut(s)
    /\ \E c \in {"suspended", "over"} : coroutine' = [coroutine EXCEPT ![s] = c]
    /\ UNCHANGED <<epoll, m_sessions, m_active_sessions, m_delete_later>>

\* m_io_yield({}): the handler runs up to its next yield, or returns and
\* ::shutdown leaves a hang-up for epoll to report, or an exception leaves
\* io_loop through its catch (...) and delete_later.
Resume(s) ==
    /\ HandOut(s)
    /\ \/ /\ coroutine' = [coroutine EXCEPT ![s] = "suspended"]
          /\ UNCHANGED <<epoll, m_sessions, m_active_sessions, m_delete_later>>
       \/ /\ coroutine' = [coroutine EXCEPT ![s] = "over"]
          /\ epoll' = [epoll EXCEPT ![s] = IF @ = "absent" THEN @ ELSE "hup"]
          /\ UNCHANGED <<m_sessions, m_active_sessions, m_delete_later>>
       \/ /\ coroutine' = [coroutine EXCEPT ![s] = "over"]
          /\ DeleteLater(s)

\* quit_io_loop(ec), then delete_later: the coroutine is resumed with the
\* error until it is over.
QuitAndDelete(s) ==
    /\ IF coroutine[s] = "over" THEN UNCHANGED wakeuppers ELSE HandOut(s)
    /\ coroutine' = [coroutine EXCEPT ![s] = "over"]
    /\ DeleteLater(s)

\* process_events and wakeup resume a coroutine that is not over, and give
\* up the object of one that is.
ResumeOrDelete(s) ==
    /\ \/ coroutine[s] # "over" /\ Resume(s)
       \/ coroutine[s] = "over" /\ DeleteLater(s) /\ UNCHANGED <<coroutine, wakeuppers>>
    /\ UNCHANGED <<alive, home, peer, connections_per_ip>>

ProcessEvents(s, event) ==
    CASE event = "hup" -> /\ QuitAndDelete(s)
                          /\ UNCHANGED <<alive, home, peer, connections_per_ip>>
      [] event = "io"  -> ResumeOrDelete(s)

Wakeup(s) == ResumeOrDelete(s)

Timeout(s) ==
    /\ QuitAndDelete(s)
    /\ UNCHANGED <<alive, home, peer, connections_per_ip>>

\* ~server_session: with m_deleting set, the delete_later of an exception
\* that ends the coroutine returns at once.  close() has nothing left to
\* take out of the epoll set after unregister_session.
Destroy(s) ==
    /\ IF coroutine[s] = "over" THEN UNCHANGED wakeuppers ELSE HandOut(s)
    /\ coroutine' = [coroutine EXCEPT ![s] = "over"]
    /\ Unregister(s)
    /\ SessionDeleted(s)
    /\ UNCHANGED <<home, peer, m_delete_later>>

-----------------------------------------------------------------------------
(* The peer *)

\* Bytes arrive, or the send buffer drains.
PeerSends(s) ==
    /\ epoll[s] = "quiet"
    /\ epoll' = [epoll EXCEPT ![s] = "io"]
    /\ UNCHANGED <<alive, home, peer, coroutine, connections_per_ip, m_sessions,
                   m_active_sessions, m_delete_later, wakeuppers>>

\* The peer closes or resets the connection.
PeerHangsUp(s) ==
    /\ epoll[s] \in {"quiet", "io"}
    /\ epoll' = [epoll EXCEPT ![s] = "hup"]
    /\ UNCHANGED <<alive, home, peer, coroutine, connections_per_ip, m_sessions,
                   m_active_sessions, m_delete_later, wakeuppers>>
=============================================================================
