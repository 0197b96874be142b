------------------------- MODULE ThreadWorkerProofs -------------------------
(***************************************************************************)
(* thread_worker implements TaskQueue, for any number of threads and tasks *)
(***************************************************************************)
EXTENDS ThreadWorker, TLAPS

LEMMA TypeNext == ASSUME TypeOK, LockHeld, QueueIsRest, [Next]_vars PROVE TypeOK'
  <1>1. ASSUME NEW w \in Workers, Loop(w) \/ Lock(w) \/ Test(w) \/ Block(w) \/ Wake(w) \/ SpuriousWake(w) \/ Run(w)
        PROVE  TypeOK'
    BY <1>1 DEF TypeOK, Loop, Lock, Test, Block, Wake, SpuriousWake, Run, Goto
  <1>2. ASSUME NEW w \in Workers, Take(w) PROVE TypeOK'
    <2>1. CASE m_quit
      BY <1>2, <2>1 DEF TypeOK, Take, Goto
    <2>2. CASE ~m_quit
      <3>1. m_pending_tasks # <<>> /\ m_pending_tasks \in Seq(Tasks)
        BY <1>2, <2>2 DEF LockHeld, Take, TypeOK
      <3>2. Head(m_pending_tasks) \in Tasks /\ Tail(m_pending_tasks) \in Seq(Tasks) /\ Len(m_pending_tasks) > 0
        BY <3>1
      <3>3. started + 1 \in 0 .. Len(queued)
        BY <3>1, <3>2 DEF TypeOK, QueueIsRest
      <3>4. <<Head(m_pending_tasks)>> \in {<<>>} \cup {<<t>> : t \in Tasks}
        BY <3>2
      <3>5. task' \in [Workers -> {<<>>} \cup {<<t>> : t \in Tasks}]
        BY <1>2, <2>2, <3>4 DEF TypeOK, Take
      <3> QED BY Zenon, <1>2, <2>2, <3>2, <3>3, <3>5 DEF TypeOK, Take, Goto
    <2> QED BY <2>1, <2>2
  <1>3. ASSUME NEW t \in Tasks, InsertTask(t) PROVE TypeOK'
    <2>1. waiters' \in SUBSET Workers
      BY <1>3 DEF InsertTask, NotifyOne, TypeOK
    <2>2. Append(queued, t) \in Seq(Tasks) /\ Append(m_pending_tasks, t) \in Seq(Tasks)
          /\ Len(Append(queued, t)) = Len(queued) + 1
      BY DEF TypeOK
    <2>3. started \in 0 .. Len(queued) + 1
      BY DEF TypeOK
    <2> QED BY <1>3, <2>1, <2>2, <2>3 DEF InsertTask, TypeOK
  <1>4. CASE QuitStore \/ NotifyAll \/ Join
    BY Zenon, <1>4 DEF QuitStore, NotifyAll, Join, TypeOK
  <1>5. CASE UNCHANGED vars
    BY <1>5 DEF vars, TypeOK
  <1> QED BY <1>1, <1>2, <1>3, <1>4, <1>5 DEF Next, Thread, Owner

LEMMA LockNext == ASSUME Inv, TypeOK', [Next]_vars PROVE LockHeld' /\ SomeoneIsAwake'
  <1> USE WorkerAssumption DEF Inv, TypeOK
  <1>1. ASSUME NEW w \in Workers, Loop(w) \/ Lock(w) \/ Test(w) \/ Block(w) \/ Wake(w) \/ Run(w)
        PROVE  LockHeld' /\ SomeoneIsAwake'
    BY <1>1 DEF LockHeld, SomeoneIsAwake, Loop, Lock, Test, Block, Wake, Run, Goto
  <1>2. ASSUME NEW w \in Workers, Take(w) PROVE LockHeld' /\ SomeoneIsAwake'
    <2>1. m_lock = w /\ m_lock' = Nobody /\ w \notin waiters /\ UNCHANGED <<m_quit, waiters>>
      BY <1>2 DEF Take, LockHeld
    <2>2. pc'[w] \in {"loop", "run"} /\ \A v \in Workers \ {w} : pc'[v] = pc[v]
      BY <1>2 DEF Take, Goto
    <2>3. \A v \in Workers \ {w} : pc[v] \notin {"test", "block", "take"}
      BY <2>1 DEF LockHeld
    <2> QED BY <2>1, <2>2, <2>3 DEF LockHeld, SomeoneIsAwake
  <1>3. ASSUME NEW t \in Tasks, InsertTask(t) PROVE LockHeld' /\ SomeoneIsAwake'
    <2>1. /\ UNCHANGED <<m_quit, m_lock, pc>> /\ m_lock = Nobody
          /\ m_pending_tasks' = Append(m_pending_tasks, t) /\ NotifyOne
      BY <1>3 DEF InsertTask
    <2>2. Append(m_pending_tasks, t) # <<>>
      OBVIOUS
    <2>3. waiters' \subseteq waiters /\ \E w \in Workers : w \notin waiters'
      BY <2>1 DEF NotifyOne
    <2> QED BY <2>1, <2>2, <2>3 DEF LockHeld, SomeoneIsAwake
  <1>4. CASE QuitStore \/ NotifyAll \/ Join \/ UNCHANGED vars \/ \E w \in Workers : SpuriousWake(w)
    BY <1>4 DEF QuitStore, NotifyAll, Join, SpuriousWake, vars, LockHeld, SomeoneIsAwake
  <1> QED BY <1>1, <1>2, <1>3, <1>4 DEF Next, Thread, Owner

LEMMA QueueNext == ASSUME Inv, [Next]_vars PROVE QueueIsRest'
  <1> USE DEF Inv
  <1>0. queued \in Seq(Tasks) /\ m_pending_tasks \in Seq(Tasks) /\ started \in Nat
    BY DEF TypeOK
  <1>1. ASSUME NEW w \in Workers, Take(w), ~m_quit PROVE QueueIsRest'
    <2>1. m_pending_tasks # <<>> /\ m_pending_tasks' = Tail(m_pending_tasks)
          /\ started' = started + 1 /\ queued' = queued
      BY <1>1 DEF Take, LockHeld
    <2>2. /\ Len(Tail(m_pending_tasks)) = Len(m_pending_tasks) - 1
          /\ \A i \in 1 .. Len(Tail(m_pending_tasks)) :
               Tail(m_pending_tasks)[i] = m_pending_tasks[i + 1] /\ i + 1 \in 1 .. Len(m_pending_tasks)
      BY <1>0, <2>1
    <2>3. \A i \in 1 .. Len(Tail(m_pending_tasks)) : started + (i + 1) = (started + 1) + i
      BY <1>0
    <2>4. Len(queued') = started' + Len(m_pending_tasks')
      <3>1. Len(queued) = started + Len(m_pending_tasks)
        BY Zenon DEF QueueIsRest
      <3>2. Len(m_pending_tasks) \in Nat
        BY <1>0
      <3> HIDE DEF Inv
      <3> QED BY <1>0, <2>1, <2>2, <3>1, <3>2
    <2>5. ASSUME NEW i \in 1 .. Len(m_pending_tasks')
          PROVE  m_pending_tasks'[i] = queued'[started' + i]
      <3>1. /\ m_pending_tasks'[i] = m_pending_tasks[i + 1] /\ i + 1 \in 1 .. Len(m_pending_tasks)
            /\ started' + i = started + (i + 1)
        BY Zenon, <2>1, <2>2, <2>3
      <3>2. m_pending_tasks[i + 1] = queued[started + (i + 1)]
        BY Zenon, <3>1 DEF QueueIsRest
      <3> QED BY Zenon, <2>1, <3>1, <3>2
    <2> QED BY <2>1, <2>4, <2>5 DEF QueueIsRest
  <1>2. ASSUME NEW t \in Tasks, InsertTask(t) PROVE QueueIsRest'
    <2>1. /\ queued' = Append(queued, t) /\ m_pending_tasks' = Append(m_pending_tasks, t)
          /\ started' = started /\ \A i \in 1 .. Len(queued) : queued[i] # t
      BY <1>2 DEF InsertTask
    <2>2. /\ Len(queued') = Len(queued) + 1 /\ Len(m_pending_tasks') = Len(m_pending_tasks) + 1
          /\ \A i \in 1 .. Len(queued) : queued'[i] = queued[i]
          /\ \A i \in 1 .. Len(m_pending_tasks) : m_pending_tasks'[i] = m_pending_tasks[i]
          /\ queued'[Len(queued) + 1] = t /\ m_pending_tasks'[Len(m_pending_tasks) + 1] = t
      BY <1>0, <2>1
    <2>3. \A i \in 1 .. Len(m_pending_tasks') : m_pending_tasks'[i] = queued'[started + i]
      <3> TAKE i \in 1 .. Len(m_pending_tasks')
      <3>1. CASE i = Len(m_pending_tasks) + 1
        BY <3>1, <2>2, <1>0 DEF QueueIsRest
      <3>2. CASE i # Len(m_pending_tasks) + 1
        <4>1. i \in 1 .. Len(m_pending_tasks) /\ started + i \in 1 .. Len(queued)
          BY <3>2, <2>2, <1>0 DEF QueueIsRest
        <4> QED BY <4>1, <2>2 DEF QueueIsRest
      <3> QED BY <3>1, <3>2
    <2>4. \A i, j \in 1 .. Len(queued') : queued'[i] = queued'[j] => i = j
      BY <1>0, <2>1, <2>2 DEF QueueIsRest
    <2>5. Len(queued') = started' + Len(m_pending_tasks')
      BY <1>0, <2>1, <2>2 DEF QueueIsRest
    <2> QED BY Zenon, <2>1, <2>3, <2>4, <2>5 DEF QueueIsRest
  <1>3. CASE UNCHANGED <<queued, m_pending_tasks, started>>
    BY <1>3 DEF QueueIsRest
  <1>4. UNCHANGED <<queued, m_pending_tasks, started>> \/ (\E w \in Workers : Take(w) /\ ~m_quit)
        \/ (\E t \in Tasks : InsertTask(t))
    BY DEF Next, Thread, Owner, Loop, Lock, Test, Block, Wake, SpuriousWake, Take, Run, QuitStore,
           NotifyAll, Join, vars
  <1> QED BY <1>1, <1>2, <1>3, <1>4

\* The task that a thread takes has no other owner.
LEMMA TakeFresh ==
    ASSUME Inv, NEW w \in Workers, Take(w), ~m_quit
    PROVE  /\ Head(m_pending_tasks) = queued[started + 1] /\ started + 1 \in 1 .. Len(queued)
           /\ task[w] = <<>> /\ task' = [task EXCEPT ![w] = <<queued[started + 1]>>]
           /\ \A v \in Workers : task[v] # <<queued[started + 1]>>
  <1> USE DEF Inv
  <1>1. m_pending_tasks # <<>> /\ m_pending_tasks \in Seq(Tasks) /\ started \in Nat /\ Len(queued) \in Nat
    BY DEF Take, LockHeld, TypeOK
  <1>2. Head(m_pending_tasks) = m_pending_tasks[1] /\ 1 \in 1 .. Len(m_pending_tasks)
    BY <1>1
  <1>3. Head(m_pending_tasks) = queued[started + 1] /\ started + 1 \in 1 .. Len(queued)
    BY <1>1, <1>2 DEF QueueIsRest
  <1>4. ASSUME NEW v \in Workers, task[v] = <<queued[started + 1]>> PROVE FALSE
    <2>1. task[v] # <<>>
      BY <1>4
    <2>2. PICK j \in 1 .. started : task[v] = <<queued[j]>>
      BY <2>1 DEF TaskIsOwned, TypeOK
    <2>3. queued[j] = queued[started + 1]
      BY <1>4, <2>2
    <2> QED BY <1>1, <1>3, <2>2, <2>3 DEF QueueIsRest
  <1>5. task[w] = <<>>
    BY DEF Take, TaskIsOwned
  <1> QED BY <1>3, <1>4, <1>5 DEF Take

LEMMA OwnedNext == ASSUME Inv, TypeOK', [Next]_vars PROVE TaskIsOwned'
  <1> USE DEF Inv
  <1>0. queued \in Seq(Tasks) /\ started \in Nat /\ started <= Len(queued)
    BY DEF TypeOK
  <1>1. ASSUME NEW w \in Workers, Take(w), ~m_quit PROVE TaskIsOwned'
    <2>1. /\ task'[w] = <<queued[started + 1]>> /\ pc'[w] = "run"
          /\ started' = started + 1 /\ queued' = queued
          /\ \A v \in Workers \ {w} : task'[v] = task[v] /\ pc'[v] = pc[v]
      <3>1. task' = [task EXCEPT ![w] = <<queued[started + 1]>>]
        BY <1>1, TakeFresh
      <3>2. pc' = [pc EXCEPT ![w] = "run"] /\ started' = started + 1 /\ queued' = queued
        BY <1>1 DEF Take, Goto
      <3> QED BY <3>1, <3>2 DEF TypeOK
    <2>2. \A v \in Workers \ {w} : task'[v] # task'[w]
      BY <1>1, <2>1, TakeFresh
    <2>3. \A j \in 1 .. started : j \in 1 .. started'
      BY <1>0, <2>1
    <2>4. started + 1 \in 1 .. started'
      BY <1>0, <2>1
    <2> QED BY <2>1, <2>2, <2>3, <2>4 DEF TaskIsOwned
  <1>2. ASSUME NEW t \in Tasks, InsertTask(t) PROVE TaskIsOwned'
    <2>1. UNCHANGED <<pc, task, started>> /\ \A j \in 1 .. started : queued'[j] = queued[j]
      BY <1>0, <1>2 DEF InsertTask
    <2> QED BY <2>1 DEF TaskIsOwned
  <1>3. ASSUME NEW w \in Workers, Run(w) PROVE TaskIsOwned'
    <2>1. /\ UNCHANGED <<queued, started>> /\ task'[w] = <<>> /\ pc'[w] = "loop"
          /\ \A v \in Workers \ {w} : task'[v] = task[v] /\ pc'[v] = pc[v]
      BY <1>3 DEF Run, Goto, TypeOK
    <2>2. \A v \in Workers \ {w} : pc[v] = "run" => task[v] # <<>>
      BY DEF TaskIsOwned
    <2> QED BY <2>1, <2>2 DEF TaskIsOwned
  <1>4. CASE /\ UNCHANGED <<task, queued, started>>
             /\ \A w \in Workers : pc'[w] = "run" <=> pc[w] = "run"
    BY <1>4 DEF TaskIsOwned
  <1>5. ASSUME NEW w \in Workers,
               Loop(w) \/ Lock(w) \/ Test(w) \/ Block(w) \/ Wake(w) \/ SpuriousWake(w) \/ (Take(w) /\ m_quit)
        PROVE  TaskIsOwned'
    BY <1>4, <1>5 DEF Loop, Lock, Test, Block, Wake, SpuriousWake, Take, Goto, TypeOK
  <1>6. CASE QuitStore \/ NotifyAll \/ Join \/ UNCHANGED vars
    BY <1>4, <1>6 DEF QuitStore, NotifyAll, Join, vars
  <1> QED BY <1>1, <1>2, <1>3, <1>5, <1>6 DEF Next, Thread, Owner

\* Inv is inductive, so it holds in every state of every pool: the threads
\* agree on the queue, and the notification of insert_task is never lost.
THEOREM PoolInvariant == Spec => []Inv
  <1>1. Init => Inv
    <2> SUFFICES ASSUME Init PROVE Inv
      OBVIOUS
    <2>1. TypeOK
      <3>1. <<>> \in Seq(Tasks) /\ 0 \in 0 .. Len(<<>>)
        OBVIOUS
      <3>2. task \in [Workers -> {<<>>} \cup {<<t>> : t \in Tasks}]
        BY DEF Init
      <3> QED BY Zenon, <3>1, <3>2 DEF Init, TypeOK
    <2>2. LockHeld
      BY WorkerAssumption DEF Init, LockHeld
    <2>3. TaskIsOwned /\ SomeoneIsAwake /\ QueueIsRest
      BY DEF Init, TaskIsOwned, SomeoneIsAwake, QueueIsRest
    <2> QED BY <2>1, <2>2, <2>3 DEF Inv
  <1>2. Inv /\ [Next]_vars => Inv'
    BY TypeNext, LockNext, QueueNext, OwnedNext DEF Inv
  <1> QED BY <1>1, <1>2, PTL DEF Spec

\* While tasks wait in the queue, some thread of the pool is not blocked.
THEOREM NotificationNotLost == Spec => []SomeoneIsAwake
  <1>1. Inv => SomeoneIsAwake
    BY DEF Inv
  <1> QED BY <1>1, PoolInvariant, PTL

-----------------------------------------------------------------------------
(* The refinement *)

\* The tasks that the threads run now: what TaskQueue calls running.
Running == {t \in Tasks : \E w \in Workers : task[w] = <<t>>}

\* Each running task has a thread of its own.
LEMMA RunningThreads == TQ!ThreadForEach(Running)
  <1> DEFINE f == [t \in Running |-> CHOOSE w \in Workers : task[w] = <<t>>]
  <1>1. \A t \in Running : f[t] \in Workers /\ task[f[t]] = <<t>>
    BY DEF Running
  <1>2. \A s, t \in Running : f[s] = f[t] => s = t
    <2> TAKE s, t \in Running
    <2> HAVE f[s] = f[t]
    <2>1. <<s>> = <<t>>
      BY <1>1
    <2> QED BY <2>1
  <1>3. f \in [Running -> Workers]
    BY <1>1
  <1> QED BY Zenon, <1>2, <1>3 DEF TQ!ThreadForEach

\* next_task is TaskQueue's Start, or nothing when the pool quits.
LEMMA TakeStarts ==
    ASSUME Inv, TypeOK', NEW w \in Workers, Take(w)
    PROVE  TQ!Start \/ UNCHANGED TQ!vars
  <1>1. CASE m_quit
    BY <1>1 DEF Take, TQ!vars
  <1>2. CASE ~m_quit
    <2>1. started < Len(queued) /\ started' = started + 1 /\ UNCHANGED <<queued, m_quit>>
      BY <1>2, TakeFresh DEF Inv, TypeOK, Take
    <2>2. task' = [task EXCEPT ![w] = <<queued[started + 1]>>] /\ task[w] = <<>>
      BY <1>2, TakeFresh
    <2>3. queued[started + 1] \in Tasks
      BY <2>1 DEF Inv, TypeOK
    <2>4. Running' = Running \cup {queued[started + 1]}
      <3>1. task'[w] = <<queued[started + 1]>> /\ \A v \in Workers \ {w} : task'[v] = task[v]
        BY <2>2 DEF Inv, TypeOK
      <3>2. \A t \in Tasks : <<t>> = <<queued[started + 1]>> <=> t = queued[started + 1]
        OBVIOUS
      <3>3. \A t \in Tasks : <<t>> # <<>>
        OBVIOUS
      <3>4. \A t : t \in Running' <=> t \in Running \cup {queued[started + 1]}
        BY <2>2, <2>3, <3>1, <3>2, <3>3 DEF Running
      <3> QED BY <3>4
    <2>5. TQ!ThreadForEach(Running')
      <3>1. TQ!ThreadForEach(Running)'
        BY RunningThreads, PTL
      <3> QED BY <3>1 DEF TQ!ThreadForEach
    <2> QED BY Zenon, <2>1, <2>4, <2>5 DEF TQ!Start, Running
  <1> QED BY <1>1, <1>2

\* The end of a task is TaskQueue's Finish.
LEMMA RunFinishes ==
    ASSUME Inv, NEW w \in Workers, Run(w)
    PROVE  \E t \in Tasks : TQ!Finish(t)
  <1>1. /\ UNCHANGED <<queued, started, m_quit>> /\ pc[w] = "run"
        /\ task'[w] = <<>> /\ \A v \in Workers \ {w} : task'[v] = task[v]
    BY DEF Run, Inv, TypeOK
  <1>2. PICK t \in Tasks : task[w] = <<t>>
    <2>1. PICK j \in 1 .. started : task[w] = <<queued[j]>>
      BY <1>1 DEF Inv, TaskIsOwned
    <2>2. queued[j] \in Tasks
      BY DEF Inv, TypeOK
    <2> QED BY <2>1, <2>2
  <1>3. \A v \in Workers \ {w} : task[v] # <<t>>
    BY <1>1, <1>2 DEF Inv, TaskIsOwned
  <1>4. \A s \in Tasks : <<s>> = <<t>> <=> s = t
    OBVIOUS
  <1>5. \A s \in Tasks : <<s>> # <<>>
    OBVIOUS
  <1>6. t \in Running
    BY <1>2 DEF Running
  <1>7. \A s : s \in Running' <=> s \in Running \ {t}
    BY <1>1, <1>2, <1>3, <1>4, <1>5 DEF Running
  <1>8. Running' = Running \ {t}
    BY <1>7
  <1> QED BY Zenon, <1>1, <1>6, <1>8 DEF TQ!Finish, Running

\* Every step of the pool is a step of TaskQueue or leaves it alone, so the
\* pool starts each task at most once, in the order of insertion, each on a
\* thread of its own.
THEOREM PoolImplementsTaskQueue == Spec => ImplementsTaskQueue
  <1>1. Init => TQ!Init
    <2> SUFFICES ASSUME Init PROVE TQ!Init
      OBVIOUS
    <2>1. \A t \in Tasks : <<t>> # <<>>
      OBVIOUS
    <2>2. {t \in Tasks : \E w \in Workers : task[w] = <<t>>} = {}
      BY <2>1 DEF Init
    <2> QED BY <2>2 DEF Init, TQ!Init
  <1>2. ASSUME Inv, Inv', [Next]_vars PROVE [TQ!Next]_TQ!vars
    <2>1. CASE \E w \in Workers : Take(w)
      BY <1>2, <2>1, TakeStarts DEF TQ!Next, Inv
    <2>2. CASE \E w \in Workers : Run(w)
      BY <1>2, <2>2, RunFinishes DEF TQ!Next
    <2>3. ASSUME NEW t \in Tasks, InsertTask(t) PROVE TQ!Next
      BY <2>3 DEF InsertTask, TQ!InsertTask, TQ!Next
    <2>4. CASE QuitStore
      BY <2>4 DEF QuitStore, TQ!Quit, TQ!Next
    <2>5. CASE UNCHANGED <<m_quit, task, queued, started>>
      BY <2>5 DEF TQ!vars
    <2>6. \/ \E w \in Workers : Take(w) \/ Run(w)
          \/ \E t \in Tasks : InsertTask(t)
          \/ QuitStore
          \/ UNCHANGED <<m_quit, task, queued, started>>
      BY <1>2 DEF Next, Thread, Owner, Loop, Lock, Test, Block, Wake, SpuriousWake, NotifyAll, Join, vars
    <2> QED BY <2>1, <2>2, <2>3, <2>4, <2>5, <2>6
  <1> QED BY <1>1, <1>2, PoolInvariant, PTL DEF Spec, TQ!Spec, ImplementsTaskQueue
=============================================================================
