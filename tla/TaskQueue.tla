------------------------------ MODULE TaskQueue ------------------------------
(***************************************************************************)
(* What thread_worker promises: tasks start in the order they were         *)
(* inserted, each at most once, at most Workers of them at a time; after   *)
(* the destructor has asked the threads to quit, a waiting task need not   *)
(* be run.                                                                 *)
(***************************************************************************)
EXTENDS Integers, Sequences

CONSTANTS Tasks, Workers

VARIABLES
    queued,     \* every task inserted so far, in order
    started,    \* how many of them have been started
    running,    \* the tasks that run now
    quitting    \* the destructor has been called

vars == <<queued, started, running, quitting>>

Init ==
    /\ queued = <<>>
    /\ started = 0
    /\ running = {}
    /\ quitting = FALSE

InsertTask(t) ==
    /\ \A i \in 1 .. Len(queued) : queued[i] # t
    /\ queued' = Append(queued, t)
    /\ UNCHANGED <<started, running, quitting>>

\* No two of the tasks share a thread.
ThreadForEach(tasks) ==
    \E thread \in [tasks -> Workers] : \A s, t \in tasks : thread[s] = thread[t] => s = t

Start ==
    /\ started < Len(queued)
    /\ started' = started + 1
    /\ running' = running \cup {queued[started + 1]}
    /\ ThreadForEach(running')
    /\ UNCHANGED <<queued, quitting>>

\* The task returns or throws.
Finish(t) ==
    /\ t \in running
    /\ running' = running \ {t}
    /\ UNCHANGED <<queued, started, quitting>>

Quit ==
    /\ quitting' = TRUE
    /\ UNCHANGED <<queued, started, running>>

Next ==
    \/ \E t \in Tasks : InsertTask(t) \/ Finish(t)
    \/ Start
    \/ Quit

Spec == Init /\ [][Next]_vars
=============================================================================
