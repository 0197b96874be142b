---------------------------- MODULE ThreadWorker ----------------------------
(***************************************************************************)
(* thread_worker: a pool of threads, a queue of tasks, one mutex and one   *)
(* condition variable.                                                     *)
(***************************************************************************)
EXTENDS Integers, Sequences, FiniteSets

CONSTANTS
    Tasks,      \* the tasks that sessions insert, each once
    Workers,    \* the threads of the pool
    Nobody      \* the holder of a free mutex

ASSUME WorkerAssumption == Workers # {} /\ IsFiniteSet(Workers) /\ Nobody \notin Workers

VARIABLES
    m_quit,
    m_pending_tasks,
    m_lock,     \* holder of the mutex
    pc,         \* where each thread is
    task,       \* local of each thread: the task it runs, <<>> or <<t>>
    waiters,    \* threads blocked in m_wait_condition
    destructor, \* where the owner of the pool is
    queued,     \* history: every task inserted so far, in order
    started     \* history: how many tasks were handed to a thread

vars == <<m_quit, m_pending_tasks, m_lock, pc, task, waiters, destructor, queued, started>>

TypeOK ==
    /\ m_quit \in BOOLEAN
    /\ m_pending_tasks \in Seq(Tasks)
    /\ m_lock \in Workers \cup {Nobody}
    /\ pc \in [Workers -> {"loop", "lock", "test", "block", "waiting", "take", "run", "exited"}]
    /\ task \in [Workers -> {<<>>} \cup {<<t>> : t \in Tasks}]
    /\ waiters \in SUBSET Workers
    /\ destructor \in {"none", "notify", "join", "joined"}
    /\ queued \in Seq(Tasks)
    /\ started \in 0 .. Len(queued)

Init ==
    /\ m_quit = FALSE
    /\ m_pending_tasks = <<>>
    /\ m_lock = Nobody
    /\ pc = [w \in Workers |-> "loop"]
    /\ task = [w \in Workers |-> <<>>]
    /\ waiters = {}
    /\ destructor = "none"
    /\ queued = <<>>
    /\ started = 0

Goto(w, label) == pc' = [pc EXCEPT ![w] = label]

-----------------------------------------------------------------------------
(* The threads of the pool *)

\* while (!m_quit)
Loop(w) ==
    /\ pc[w] = "loop"
    /\ Goto(w, IF m_quit THEN "exited" ELSE "lock")
    /\ UNCHANGED <<m_quit, m_pending_tasks, m_lock, task, waiters, destructor, queued, started>>

\* next_task takes m_lock, or wait() takes it again after a notification.
Lock(w) ==
    /\ pc[w] = "lock"
    /\ m_lock = Nobody
    /\ m_lock' = w
    /\ Goto(w, "test")
    /\ UNCHANGED <<m_quit, m_pending_tasks, task, waiters, destructor, queued, started>>

\* The predicate of the wait, evaluated with m_lock held.
Test(w) ==
    /\ pc[w] = "test"
    /\ Goto(w, IF m_quit \/ m_pending_tasks # <<>> THEN "take" ELSE "block")
    /\ UNCHANGED <<m_quit, m_pending_tasks, m_lock, task, waiters, destructor, queued, started>>

\* The predicate was false: release m_lock and block, in one step.
Block(w) ==
    /\ pc[w] = "block"
    /\ waiters' = waiters \cup {w}
    /\ m_lock' = Nobody
    /\ Goto(w, "waiting")
    /\ UNCHANGED <<m_quit, m_pending_tasks, task, destructor, queued, started>>

\* A thread that a notification took out of the waiters goes for m_lock.
Wake(w) ==
    /\ pc[w] = "waiting"
    /\ w \notin waiters
    /\ Goto(w, "lock")
    /\ UNCHANGED <<m_quit, m_pending_tasks, m_lock, task, waiters, destructor, queued, started>>

\* A condition variable may wake a waiter for no reason.
SpuriousWake(w) ==
    /\ w \in waiters
    /\ waiters' = waiters \ {w}
    /\ UNCHANGED <<m_quit, m_pending_tasks, m_lock, pc, task, destructor, queued, started>>

\* Mutant: front() without pop().
TakeNoPop(w) ==
    /\ pc[w] = "take"
    /\ m_lock' = Nobody
    /\ \/ m_quit /\ Goto(w, "loop") /\ UNCHANGED <<task, started>>
       \/ /\ ~m_quit
          /\ task' = [task EXCEPT ![w] = <<Head(m_pending_tasks)>>]
          /\ started' = started + 1
          /\ Goto(w, "run")
    /\ UNCHANGED <<m_quit, m_pending_tasks, waiters, destructor, queued>>

\* The end of next_task: nothing when m_quit is set, else the oldest task.
Take(w) ==
    /\ pc[w] = "take"
    /\ m_lock' = Nobody
    /\ \/ m_quit /\ Goto(w, "loop") /\ UNCHANGED <<m_pending_tasks, task, started>>
       \/ /\ ~m_quit
          /\ task' = [task EXCEPT ![w] = <<Head(m_pending_tasks)>>]
          /\ m_pending_tasks' = Tail(m_pending_tasks)
          /\ started' = started + 1
          /\ Goto(w, "run")
    /\ UNCHANGED <<m_quit, waiters, destructor, queued>>

\* task() returns, or throws into the catch of the loop.
Run(w) ==
    /\ pc[w] = "run"
    /\ task' = [task EXCEPT ![w] = <<>>]
    /\ Goto(w, "loop")
    /\ UNCHANGED <<m_quit, m_pending_tasks, m_lock, waiters, destructor, queued, started>>

-----------------------------------------------------------------------------
(* Sessions and the owner *)

NotifyOne == \/ waiters = {} /\ UNCHANGED waiters
             \/ \E w \in waiters : waiters' = waiters \ {w}

\* Mutant: a task that finds the queue empty is not announced.
InsertTaskQuiet(t) ==
    /\ destructor = "none"
    /\ \A i \in 1 .. Len(queued) : queued[i] # t
    /\ m_lock = Nobody
    /\ m_pending_tasks' = Append(m_pending_tasks, t)
    /\ queued' = Append(queued, t)
    /\ IF m_pending_tasks = <<>> THEN UNCHANGED waiters ELSE NotifyOne
    /\ UNCHANGED <<m_quit, m_lock, pc, task, destructor, started>>

\* insert_task, under m_lock; nobody calls it once the destructor runs.
InsertTask(t) ==
    /\ destructor = "none"
    /\ \A i \in 1 .. Len(queued) : queued[i] # t
    /\ m_lock = Nobody
    /\ m_pending_tasks' = Append(m_pending_tasks, t)
    /\ queued' = Append(queued, t)
    /\ NotifyOne
    /\ UNCHANGED <<m_quit, m_lock, pc, task, destructor, started>>

\* ~thread_worker: m_quit.store(true), without m_lock ...
QuitStore ==
    /\ destructor = "none"
    /\ m_quit' = TRUE
    /\ destructor' = "notify"
    /\ UNCHANGED <<m_pending_tasks, m_lock, pc, task, waiters, queued, started>>

\* ... notify_all() ...
NotifyAll ==
    /\ destructor = "notify"
    /\ waiters' = {}
    /\ destructor' = "join"
    /\ UNCHANGED <<m_quit, m_pending_tasks, m_lock, pc, task, queued, started>>

\* ... and join() of every thread.
Join ==
    /\ destructor = "join"
    /\ \A w \in Workers : pc[w] = "exited"
    /\ destructor' = "joined"
    /\ UNCHANGED <<m_quit, m_pending_tasks, m_lock, pc, task, waiters, queued, started>>

-----------------------------------------------------------------------------
Thread(w) == Loop(w) \/ Lock(w) \/ Test(w) \/ Block(w) \/ Wake(w) \/ Take(w) \/ Run(w)

Owner == NotifyAll \/ Join

Next ==
    \/ \E w \in Workers : Thread(w) \/ SpuriousWake(w)
    \/ \E t \in Tasks : InsertTask(t)
    \/ QuitStore
    \/ Owner

Spec == Init /\ [][Next]_vars

\* Threads run and tasks end.  Nothing promises a spurious wake-up.
FairSpec ==
    /\ Spec
    /\ \A w \in Workers : WF_vars(Thread(w))
    /\ WF_vars(Owner)

-----------------------------------------------------------------------------
\* The detailed pool implements the abstract one.
TQ == INSTANCE TaskQueue WITH
    queued <- queued,
    started <- started,
    running <- {t \in Tasks : \E w \in Workers : task[w] = <<t>>},
    quitting <- m_quit

\* thread_worker starts every task at most once, in the order of insertion,
\* and runs no more of them than it has threads.
ImplementsTaskQueue == TQ!Spec

\* The notification of insert_task is not lost: while tasks wait and all
\* threads are idle, one of them is on its way to the queue.
SomeoneIsAwake ==
    m_pending_tasks # <<>> => \E w \in Workers : w \notin waiters

\* Every inserted task is started, unless the pool is destroyed.
TaskIsStarted ==
    \A n \in 1 .. Cardinality(Tasks) :
        (Len(queued) >= n) ~> (started >= n \/ m_quit)

\* ~thread_worker returns: the threads it asks to quit do quit.
DestructorReturns == (destructor = "notify") ~> (destructor = "joined")

-----------------------------------------------------------------------------
(* The inductive invariant behind ImplementsTaskQueue and SomeoneIsAwake. *)

\* A thread holds m_lock exactly while it is in next_task, and what it saw in
\* the predicate of the wait is still so.
LockHeld ==
    \A w \in Workers :
        /\ m_lock = w <=> pc[w] \in {"test", "block", "take"}
        /\ pc[w] = "take" => m_quit \/ m_pending_tasks # <<>>
        /\ pc[w] = "block" => m_pending_tasks = <<>>
        /\ w \in waiters => pc[w] = "waiting"

\* The queue is what was inserted and not handed out, in order; nothing was
\* inserted twice.
QueueIsRest ==
    /\ Len(queued) = started + Len(m_pending_tasks)
    /\ \A i \in 1 .. Len(m_pending_tasks) : m_pending_tasks[i] = queued[started + i]
    /\ \A i, j \in 1 .. Len(queued) : queued[i] = queued[j] => i = j

\* A running task has been handed out, to one thread.
TaskIsOwned ==
    \A w \in Workers :
        /\ pc[w] # "run" => task[w] = <<>>
        /\ pc[w] = "run" =>
             /\ \E j \in 1 .. started : task[w] = <<queued[j]>>
             /\ \A v \in Workers \ {w} : task[v] # task[w]

Inv == TypeOK /\ LockHeld /\ QueueIsRest /\ TaskIsOwned /\ SomeoneIsAwake

=============================================================================
