------------------------------ MODULE Deadlines ------------------------------
(***************************************************************************)
(* The deadlines of the sessions of one event loop.  loop() does not scan  *)
(* its sessions on every event: m_earliest_deadline caches a lower bound   *)
(* of their deadlines, any thread may lower it (notify_deadline), and the  *)
(* loop clears and rebuilds it when it is due.                             *)
(*                                                                         *)
(* Time is relative: a deadline is the number of ticks that are left, 0    *)
(* once it is due, and a tick takes one from all of them.  Never stands    *)
(* for time_point::max(), for the -1 timeout of epoll_wait, and for the    *)
(* time_point{} of a session without a deadline, which notify_deadline and *)
(* the scan skip.                                                          *)
(*                                                                         *)
(* While a TLS session shakes hands, next_timeout() is still the deadline  *)
(* that the constructor of server_session set: m_stream, and with it the   *)
(* deadline of the stream, is there only once the constructor of           *)
(* ssl_socket_session has returned.                                        *)
(***************************************************************************)
EXTENDS Integers

CONSTANTS
    Sessions,
    Secured,        \* the sessions whose stream is an ssl_socket_session
    MaxTicks,       \* the longest timeout a session may set
    AcceptTimeout,  \* ssl_accept_timeout()
    MaxSignals      \* how many signals interrupt the loop's epoll_wait

ASSUME DeadlinesAssumption ==
    /\ Secured \subseteq Sessions
    /\ MaxTicks \in Nat \ {0}
    /\ AcceptTimeout \in 1 .. MaxTicks
    /\ MaxSignals \in Nat

Never == MaxTicks + 2
Timeouts == 1 .. MaxTicks
Instants == 0 .. MaxTicks \cup {Never}

VARIABLES
    stage,      \* how far the accepting thread is with each session, then "handshake" (TLS), then "started"
    deadline,   \* next_timeout() of each session
    unseen,     \* the deadline of a stream under construction, which next_timeout() does not see
    edge,       \* sessions with an event that epoll_wait has still to report
    m_earliest_deadline,
    pc,         \* where loop() is
    batch,      \* local of loop(): the reported events still to process
    due,        \* local: the sessions whose deadline is not after now
    sessions,   \* local: the snapshot that the scan has still to visit
    earliest,   \* local
    timeout,    \* local: the timeout argument of epoll_wait
    left,       \* what is left of it
    signals     \* signals so far

vars == <<stage, deadline, unseen, edge, m_earliest_deadline, pc, batch, due, sessions, earliest, timeout, left, signals>>

Registering == {"armed", "published", "inserted"}
Running == {"handshake", "started"}

TypeOK ==
    /\ stage \in [Sessions -> {"none", "added"} \cup Registering \cup Running]
    /\ deadline \in [Sessions -> Instants]
    /\ unseen \in [Sessions -> Instants]
    /\ edge \in SUBSET Sessions
    /\ m_earliest_deadline \in Instants
    /\ pc \in {"wait", "run", "check", "clear", "snapshot", "scan", "sleep"}
    /\ batch \in SUBSET Sessions
    /\ due \in SUBSET Sessions
    /\ sessions \in SUBSET Sessions
    /\ earliest \in Instants
    /\ timeout \in 1 .. Never
    /\ left \in 0 .. Never
    /\ signals \in 0 .. MaxSignals

Init ==
    /\ stage = [s \in Sessions |-> "none"]
    /\ deadline = [s \in Sessions |-> Never]
    /\ unseen = [s \in Sessions |-> Never]
    /\ edge = {}
    /\ m_earliest_deadline = Never
    /\ pc = "wait"
    /\ batch = {}
    /\ due = {}
    /\ sessions = {}
    /\ earliest = Never
    /\ timeout = Never
    /\ left = Never
    /\ signals = 0

Lesser(a, b) == IF a < b THEN a ELSE b

\* notify_deadline: the compare and exchange loop is an atomic minimum.
NotifyDeadline(d) == m_earliest_deadline' = Lesser(d, m_earliest_deadline)

SetStage(s, x) == stage' = [stage EXCEPT ![s] = x]

-----------------------------------------------------------------------------
(* The accepting thread: one session at a time *)

\* The constructor's set_next_timeout stores the deadline ...
Arm(s) ==
    /\ \A t \in Sessions : stage[t] \notin Registering
    /\ stage[s] = "none"
    /\ SetStage(s, "armed")
    /\ \E d \in Timeouts :
         /\ s \in Secured => d = AcceptTimeout
         /\ deadline' = [deadline EXCEPT ![s] = d]
    /\ UNCHANGED <<unseen, edge, m_earliest_deadline, pc, batch, due, sessions, earliest, timeout, left, signals>>

\* ... and publishes it.
Publish(s) ==
    /\ stage[s] = "armed"
    /\ SetStage(s, "published")
    /\ NotifyDeadline(deadline[s])
    /\ UNCHANGED <<deadline, unseen, edge, pc, batch, due, sessions, earliest, timeout, left, signals>>

\* register_session: m_sessions.insert ...
Insert(s) ==
    /\ stage[s] = "published"
    /\ SetStage(s, "inserted")
    /\ UNCHANGED <<deadline, unseen, edge, m_earliest_deadline, pc, batch, due, sessions, earliest, timeout, left, signals>>

\* ... and EPOLL_CTL_ADD: a new socket is writable, so there is an edge.
Add(s) ==
    /\ stage[s] = "inserted"
    /\ SetStage(s, "added")
    /\ edge' = edge \cup {s}
    /\ UNCHANGED <<deadline, unseen, m_earliest_deadline, pc, batch, due, sessions, earliest, timeout, left, signals>>

-----------------------------------------------------------------------------
(* loop() *)

EpollWait ==
    /\ pc = "wait"
    /\ edge # {} \/ left = 0
    /\ batch' = edge
    /\ edge' = {}
    /\ pc' = "run"
    /\ UNCHANGED <<stage, deadline, unseen, m_earliest_deadline, due, sessions, earliest, timeout, left, signals>>

\* A signal interrupts epoll_wait: continue, and sleep the whole timeout anew.
Interrupted ==
    /\ pc = "wait"
    /\ signals < MaxSignals
    /\ signals' = signals + 1
    /\ left' = timeout
    /\ UNCHANGED <<stage, deadline, unseen, edge, m_earliest_deadline, pc, batch, due, sessions, earliest, timeout>>

\* The session is over and its object leaves m_sessions.
Gone(s) ==
    /\ SetStage(s, "none")
    /\ deadline' = [deadline EXCEPT ![s] = Never]
    /\ unseen' = [unseen EXCEPT ![s] = Never]

\* A coroutine that ends may have set deadlines on its way (shutdown() of a
\* TLS session does): they stay published.
Ends(s) == Gone(s) /\ \E p \in Timeouts \cup {Never} : NotifyDeadline(p)

\* The constructor of ssl_socket_session: it sets and publishes a deadline that
\* next_timeout() does not return yet, and yields while SSL_accept wants more.
Handshake(s) ==
    /\ s \in Secured
    /\ SetStage(s, "handshake")
    /\ \/ /\ stage[s] = "added"
          /\ unseen' = [unseen EXCEPT ![s] = AcceptTimeout]
          /\ NotifyDeadline(AcceptTimeout)
       \/ /\ stage[s] = "handshake"
          /\ UNCHANGED <<unseen, m_earliest_deadline>>
    /\ UNCHANGED deadline

\* Mutant: set_session_timeout stores the deadline without publishing it.
ServeSilent(s) ==
    /\ SetStage(s, "started")
    /\ \E d \in Timeouts : deadline' = [deadline EXCEPT ![s] = d]
    /\ unseen' = [unseen EXCEPT ![s] = Never]
    /\ UNCHANGED m_earliest_deadline

\* basic_http_session::io_loop until it yields.  It starts with
\* set_session_timeout; a running one keeps its deadline, gives it up (a
\* timeout of 0) or sets others: p is the earliest of those it sets before it
\* yields, d the last.
Serve(s) ==
    /\ SetStage(s, "started")
    /\ unseen' = [unseen EXCEPT ![s] = Never]
    /\ \/ /\ stage[s] = "started"
          /\ deadline' \in {deadline, [deadline EXCEPT ![s] = Never]}
          /\ UNCHANGED m_earliest_deadline
       \/ \E p \in Timeouts :
            /\ NotifyDeadline(p)
            /\ \E d \in p .. MaxTicks \cup {Never} : deadline' = [deadline EXCEPT ![s] = d]

\* One process_events, or one wakeup().
RunOne(s) ==
    /\ pc = "run"
    /\ s \in batch
    /\ batch' = batch \ {s}
    /\ Handshake(s) \/ Serve(s) \/ Ends(s)
    /\ edge' = IF stage'[s] = "none" THEN edge \ {s} ELSE edge
    /\ UNCHANGED <<pc, due, sessions, earliest, timeout, left, signals>>

RunDone ==
    /\ pc = "run"
    /\ batch = {}
    /\ pc' = "check"
    /\ UNCHANGED <<stage, deadline, unseen, edge, m_earliest_deadline, batch, due, sessions, earliest, timeout, left, signals>>

\* auto now = clock::now(), and is the earliest deadline due?
Check ==
    /\ pc = "check"
    /\ due' = {s \in Sessions : deadline[s] = 0}
    /\ pc' = IF m_earliest_deadline = 0 THEN "clear" ELSE "sleep"
    /\ UNCHANGED <<stage, deadline, unseen, edge, m_earliest_deadline, batch, sessions, earliest, timeout, left, signals>>

\* m_earliest_deadline.store(max): what was published since the load is lost.
Clear ==
    /\ pc = "clear"
    /\ m_earliest_deadline' = Never
    /\ pc' = "snapshot"
    /\ UNCHANGED <<stage, deadline, unseen, edge, batch, due, sessions, earliest, timeout, left, signals>>

Snapshot ==
    /\ pc = "snapshot"
    /\ sessions' = {s \in Sessions : stage[s] \in {"inserted", "added"} \cup Running}
    /\ earliest' = Never
    /\ pc' = "scan"
    /\ UNCHANGED <<stage, deadline, unseen, edge, m_earliest_deadline, batch, due, timeout, left, signals>>

\* timeout() of a session that is due ends it and takes it out of epoll.
ScanOne(s) ==
    /\ pc = "scan"
    /\ s \in sessions
    /\ sessions' = sessions \ {s}
    /\ \/ s \in due /\ Ends(s) /\ edge' = edge \ {s} /\ UNCHANGED earliest
       \/ /\ s \notin due
          /\ earliest' = Lesser(earliest, deadline[s])
          /\ UNCHANGED <<stage, deadline, unseen, edge, m_earliest_deadline>>
    /\ UNCHANGED <<pc, batch, due, timeout, left, signals>>

\* Mutant: the result of the scan is not published.
ScanForgets ==
    /\ pc = "scan"
    /\ sessions = {}
    /\ pc' = "sleep"
    /\ UNCHANGED <<stage, deadline, unseen, edge, m_earliest_deadline, batch, due, sessions, earliest, timeout, left, signals>>

\* notify_deadline(earliest)
ScanDone ==
    /\ pc = "scan"
    /\ sessions = {}
    /\ NotifyDeadline(earliest)
    /\ pc' = "sleep"
    /\ UNCHANGED <<stage, deadline, unseen, edge, batch, due, sessions, earliest, timeout, left, signals>>

\* The timeout of the next epoll_wait: none, or until a tick (the 50ms of
\* slack) after the earliest deadline.
Sleep ==
    /\ pc = "sleep"
    /\ timeout' = IF m_earliest_deadline = Never THEN Never ELSE m_earliest_deadline + 1
    /\ left' = timeout'
    /\ pc' = "wait"
    /\ UNCHANGED <<stage, deadline, unseen, edge, m_earliest_deadline, batch, due, sessions, earliest, signals>>

-----------------------------------------------------------------------------
(* The world *)

\* An event for a session that runs.
Event(s) ==
    /\ stage[s] \in Running
    /\ edge' = edge \cup {s}
    /\ UNCHANGED <<stage, deadline, unseen, m_earliest_deadline, pc, batch, due, sessions, earliest, timeout, left, signals>>

Later(t) == IF t \in {0, Never} THEN t ELSE t - 1

\* The accepting thread registers a session faster than the session's first
\* timeout, which is seconds.
Tick ==
    /\ \A s \in Sessions : stage[s] \in Registering => deadline[s] > 1
    /\ deadline' = [s \in Sessions |-> Later(deadline[s])]
    /\ unseen' = [s \in Sessions |-> Later(unseen[s])]
    /\ m_earliest_deadline' = Later(m_earliest_deadline)
    /\ earliest' = Later(earliest)
    /\ left' = IF pc = "wait" THEN Later(left) ELSE left
    /\ UNCHANGED <<stage, edge, pc, batch, due, sessions, timeout, signals>>

-----------------------------------------------------------------------------
LoopThread ==
    \/ EpollWait \/ RunDone \/ Check \/ Clear \/ Snapshot \/ ScanDone \/ Sleep
    \/ \E s \in Sessions : RunOne(s) \/ ScanOne(s)

Accepting == \E s \in Sessions : Publish(s) \/ Insert(s) \/ Add(s)

Next ==
    \/ \E s \in Sessions : Arm(s) \/ Event(s)
    \/ Accepting
    \/ LoopThread
    \/ Interrupted
    \/ Tick

Spec == Init /\ [][Next]_vars

\* Threads run and time passes, strongly: that a new session holds up the clock
\* for a moment is how Tick says that registration is fast, and connections
\* that keep coming must not stop time.
FairSpec == Spec /\ WF_vars(LoopThread) /\ WF_vars(Accepting) /\ SF_vars(Tick)

-----------------------------------------------------------------------------
\* The last deadline that a session has set.
Latest(s) == IF stage[s] = "handshake" THEN unseen[s] ELSE deadline[s]

\* The last deadline a session has set is never forgotten, although
\* notify_deadline races with the store that clears the cache: what the
\* accepting thread published for a new session may be lost, but then the
\* session's first event is still to come, and runs set_session_timeout on the
\* loop; and once a session runs, a deadline no later than its last one is in
\* the cache, or the scan that rebuilds the cache will see one.
DeadlineCovered ==
    \A s \in Sessions :
        /\ stage[s] = "added" => s \in edge \cup batch
        /\ stage[s] \in Running =>
             \/ m_earliest_deadline <= Latest(s)
             \/ pc = "snapshot"
             \/ pc = "scan" /\ (s \in sessions \/ earliest <= Latest(s))

\* What does not hold during a TLS handshake: that the cache covers
\* next_timeout(), which stays the constructor's earlier deadline while only
\* the later one of the stream is published on the loop.
NextTimeoutCovered ==
    \A s \in Sessions :
        stage[s] \in Running =>
             \/ m_earliest_deadline <= deadline[s]
             \/ pc = "snapshot"
             \/ pc = "scan" /\ (s \in sessions \/ earliest <= deadline[s])

\* The loop does not sleep past the last deadline of a running session: without
\* signals its epoll_wait ends at most one tick of slack after it.  (A signal
\* makes it sleep the whole timeout again.)
SleepNotTooLong ==
    pc = "wait" /\ signals = 0 => \A s \in Sessions : stage[s] \in Running => left <= Latest(s) + 1

\* A running session whose next_timeout() has passed is closed, or sets another
\* deadline, also one that shakes hands and whose next_timeout() the cache has
\* lost.
OverdueIsClosed ==
    \A s \in Sessions :
        (stage[s] \in Running /\ deadline[s] = 0) ~> ~(stage[s] \in Running /\ deadline[s] = 0)

\* The inductive invariant behind the two safety properties.
Inv ==
    /\ TypeOK
    /\ DeadlineCovered
    /\ SleepNotTooLong
    /\ pc = "scan" \/ sessions = {}
    /\ pc = "run" \/ batch = {}
    /\ pc = "scan" => sessions \subseteq {s \in Sessions : stage[s] \in {"inserted", "added"} \cup Running}
    /\ \A s \in edge \cup batch : stage[s] \in {"added"} \cup Running
    /\ edge \cap batch \subseteq {s \in Sessions : stage[s] \in Running}
    /\ \A s \in Secured : stage[s] \in {"added"} \cup Registering => deadline[s] <= AcceptTimeout
    /\ \A s \in Sessions : stage[s] = "handshake" => s \in Secured /\ deadline[s] <= unseen[s]
=============================================================================
