---------------------------- MODULE ServerProofs ----------------------------
(***************************************************************************)
(* Proofs about module Server, for every number of sessions, loops and     *)
(* peer addresses.  The types and the wake-ups need no assumption.         *)
(* SafetyInv is an invariant if the allocator and a failed registration do *)
(* not race with a loop; the memory safety of the session objects follows. *)
(* Three more inductive invariants rest on it: a finished session stays    *)
(* reported (ReportInv), connections_per_ip is exact (CountInv), and so is *)
(* the load of a loop (LoadInv).                                           *)
(***************************************************************************)
EXTENDS Server, FiniteSetTheorems, TLAPS

\* The first loop and the bounds of the least-loaded search.
LEMMA LoopsFacts == /\ Loops \subseteq Nat
                    /\ 1 \in Loops
                    /\ 2 \in 2 .. NLoops + 1
                    /\ \A i \in 2 .. NLoops + 1 : i <= NLoops => i \in Loops /\ i + 1 \in 2 .. NLoops + 1
  BY NLoopsAssumption DEF Loops

LEMMA TypeLoopUnchanged == ASSUME LoopTypeOK, UNCHANGED loopVars PROVE LoopTypeOK'
  BY DEF LoopTypeOK, loopVars

LEMMA TypeSessionUnchanged == ASSUME SessionTypeOK, UNCHANGED <<sessionVars, wakeuppers>> PROVE SessionTypeOK'
  BY DEF SessionTypeOK, sessionVars

\* What running, giving up and deleting a session leaves well typed.
LEMMA TypeHandOut == ASSUME SessionTypeOK, NEW s \in Sessions,
                            HandOut(s) \/ UNCHANGED wakeuppers
                     PROVE  wakeuppers' \subseteq Loops \X Sessions
  BY DEF SessionTypeOK, HandOut

LEMMA TypeUnregister == ASSUME SessionTypeOK, NEW s \in Sessions, Unregister(s)
                        PROVE  /\ m_sessions' \in [Loops -> SUBSET Sessions]
                               /\ m_active_sessions' \in [Loops -> Int]
                               /\ epoll' \in [Sessions -> {"absent", "quiet", "io", "hup"}]
  BY DEF SessionTypeOK, Unregister

LEMMA TypeDeleteLater == ASSUME SessionTypeOK, NEW s \in Sessions, DeleteLater(s)
                         PROVE  /\ m_sessions' \in [Loops -> SUBSET Sessions]
                                /\ m_active_sessions' \in [Loops -> Int]
                                /\ epoll' \in [Sessions -> {"absent", "quiet", "io", "hup"}]
                                /\ m_delete_later' \in [Loops -> SUBSET Sessions]
  BY TypeUnregister DEF SessionTypeOK, DeleteLater

LEMMA TypeDestroy == ASSUME SessionTypeOK, NEW s \in Sessions, Destroy(s) PROVE SessionTypeOK'
  BY TypeHandOut, TypeUnregister DEF SessionTypeOK, Destroy, SessionDeleted

LEMMA TypeResumeOrDelete == ASSUME SessionTypeOK, NEW s \in Sessions, ResumeOrDelete(s)
                            PROVE  SessionTypeOK'
  <1>1. CASE Resume(s)
    BY <1>1, TypeHandOut, TypeDeleteLater, Zenon DEF SessionTypeOK, Resume, ResumeOrDelete
  <1>2. CASE DeleteLater(s) /\ UNCHANGED <<coroutine, wakeuppers>>
    BY <1>2, TypeDeleteLater, Zenon DEF SessionTypeOK, ResumeOrDelete
  <1> QED BY <1>1, <1>2, Zenon DEF ResumeOrDelete

LEMMA TypeTimeout == ASSUME SessionTypeOK, NEW s \in Sessions, Timeout(s) PROVE SessionTypeOK'
  BY TypeHandOut, TypeDeleteLater DEF SessionTypeOK, Timeout, QuitAndDelete

LEMMA TypeProcessEvents == ASSUME SessionTypeOK, NEW s \in Sessions, NEW e \in {"io", "hup"},
                                  ProcessEvents(s, e)
                           PROVE  SessionTypeOK'
  BY Zenon, TypeTimeout, TypeResumeOrDelete DEF ProcessEvents, Timeout

\* The accepting thread, one step.
LEMMA TypeAccept == ASSUME TypeOK,
                           \/ \E p \in Peers : Accept(p)
                           \/ AcceptSteps
                           \/ BeginShutdown
                    PROVE  TypeOK'
  <1> USE LoopsFacts, TypeLoopUnchanged, TypeSessionUnchanged DEF TypeOK
  <1>1. ASSUME NEW p \in Peers, Accept(p) PROVE TypeOK'
    BY <1>1 DEF Accept, SessionTypeOK
  <1>2. CASE Choose
    BY <1>2, Zenon DEF Choose
  <1>3. ASSUME NEW s \in Sessions, Create(s) PROVE TypeOK'
    BY <1>3, Zenon DEF Create, SessionTypeOK
  <1>4. CASE CreateFails
    BY <1>4 DEF CreateFails, SessionTypeOK
  <1>5. ASSUME NEW s \in Sessions, RegisterInsert(s) PROVE TypeOK'
    BY <1>5, Zenon DEF RegisterInsert, SessionTypeOK
  <1>6. ASSUME NEW s \in Sessions, RegisterAdd(s) PROVE TypeOK'
    BY <1>6, Zenon DEF RegisterAdd, SessionTypeOK
  <1>7. CASE RegisterCount
    BY <1>7 DEF RegisterCount, SessionTypeOK
  <1>8. CASE RegisterFails
    BY <1>8, Zenon DEF RegisterFails
  <1>9. ASSUME NEW s \in Sessions, DeleteFailed(s) PROVE TypeOK'
    BY <1>9, TypeDestroy, Zenon DEF DeleteFailed
  <1>10. CASE BeginShutdown
    BY <1>10, Zenon DEF BeginShutdown
  <1> QED BY <1>1, <1>2, <1>3, <1>4, <1>5, <1>6, <1>7, <1>8, <1>9, <1>10, Zenon DEF AcceptSteps

LEMMA TypeShutdown == ASSUME TypeOK, ShutdownThread PROVE TypeOK'
  <1> USE LoopsFacts, TypeLoopUnchanged, TypeSessionUnchanged DEF TypeOK
  <1>1. ASSUME NEW l \in Loops, QuitStore(l) PROVE TypeOK'
    BY <1>1 DEF QuitStore, LoopTypeOK
  <1>2. CASE QuitSignal
    <2>1. SessionTypeOK' /\ LoopTypeOK'
      BY <1>2 DEF QuitSignal, LoopTypeOK
    <2>2. /\ accept' \in {"quit", "destroy"}
          /\ stopping' \in SUBSET Loops
          /\ UNCHANGED <<addr, best_loop, candidate, session>>
      BY Zenon, <1>2 DEF QuitSignal
    <2> QED BY <2>1, <2>2, Zenon
  <1>3. ASSUME NEW l \in Loops, BeginDestroy(l) PROVE TypeOK'
    BY <1>3 DEF BeginDestroy, LoopTypeOK
  <1>4. CASE Join
    BY <1>4 DEF Join
  <1>5. ASSUME NEW s \in Sessions, Reclaim(s) PROVE TypeOK'
    BY <1>5, TypeDestroy, Zenon DEF Reclaim, acceptVars
  <1>6. CASE Destroyed
    BY <1>6 DEF Destroyed, LoopTypeOK, Goto
  <1>7. CASE ClearPlugins
    BY <1>7, Zenon DEF ClearPlugins
  <1> QED BY <1>1, <1>2, <1>3, <1>4, <1>5, <1>6, <1>7, Zenon DEF ShutdownThread

\* A loop thread, one step.
LEMMA TypeLoopThread == ASSUME TypeOK, NEW l \in Loops, LoopThread(l) PROVE TypeOK'
  <1> SUFFICES SessionTypeOK' /\ LoopTypeOK'
    BY Zenon DEF TypeOK, LoopThread, acceptVars
  <1> USE LoopsFacts, TypeLoopUnchanged, TypeSessionUnchanged DEF TypeOK, Goto
  <1>1. CASE Head(l)
    BY <1>1 DEF Head, LoopTypeOK
  <1>2. CASE EpollWait(l)
    <2>1. SessionTypeOK'
      BY <1>2, Zenon DEF EpollWait, SessionTypeOK
    <2>2. {<<s, epoll[s]>> : s \in Ready(l)} \subseteq Sessions \X {"io", "hup"}
      BY DEF Ready
    <2>3. event_fd[l] \in BOOLEAN
      BY DEF LoopTypeOK
    <2>4. wokeup' \in [Loops -> BOOLEAN]
      BY <1>2, <2>3, Zenon DEF EpollWait, LoopTypeOK
    <2>5. LoopTypeOK'
      BY <1>2, <2>2, <2>4, Zenon DEF EpollWait, LoopTypeOK
    <2> QED BY <2>1, <2>5, Zenon
  <1>3. CASE ProcessEvent(l)
    <2>1. PICK e \in events[l] : /\ events' = [events EXCEPT ![l] = @ \ {e}]
                                 /\ ProcessEvents(e[1], e[2])
      BY Zenon, <1>3 DEF ProcessEvent
    <2>a. e \in Sessions \X {"io", "hup"}
      BY Zenon, <2>1 DEF LoopTypeOK
    <2>2. e[1] \in Sessions /\ e[2] \in {"io", "hup"}
      BY <2>a, Zenon
    <2>3. SessionTypeOK'
      BY <2>1, <2>2, TypeProcessEvents, Zenon
    <2>4. LoopTypeOK'
      BY <1>3, <2>1 DEF ProcessEvent, LoopTypeOK
    <2> QED BY <2>3, <2>4
  <1>4. CASE Drain(l)
    BY Zenon, <1>4 DEF Drain, LoopTypeOK
  <1>5. CASE SwapWakeups(l)
    BY <1>5 DEF SwapWakeups, LoopTypeOK
  <1>6. CASE WakeupOne(l)
    <2>1. PICK s \in todo[l] : /\ todo' = [todo EXCEPT ![l] = @ \ {s}]
                               /\ Wakeup(s) \/ UNCHANGED <<sessionVars, wakeuppers>>
      BY Zenon, <1>6 DEF WakeupOne
    <2>2. s \in Sessions
      BY <2>1, Zenon DEF LoopTypeOK
    <2>3. SessionTypeOK'
      BY <2>1, <2>2, TypeResumeOrDelete, Zenon DEF Wakeup
    <2>4. LoopTypeOK'
      BY Zenon, <1>6, <2>1 DEF WakeupOne, LoopTypeOK
    <2> QED BY <2>3, <2>4
  <1>7. CASE WakeupsDone(l)
    BY <1>7, Zenon DEF WakeupsDone, LoopTypeOK
  <1>8. CASE CheckDeadline(l)
    BY <1>8 DEF CheckDeadline, LoopTypeOK, SessionTypeOK, sessionVars
  <1>9. CASE ScanOne(l, session)
    <2>1. PICK s \in todo[l] : /\ todo' = [todo EXCEPT ![l] = @ \ {s}]
                               /\ Timeout(s) \/ UNCHANGED <<sessionVars, wakeuppers>>
      BY Zenon, <1>9 DEF ScanOne
    <2>2. s \in Sessions
      BY <2>1 DEF LoopTypeOK
    <2>3. SessionTypeOK'
      BY <2>1, <2>2, TypeTimeout, Zenon
    <2>4. LoopTypeOK'
      BY <1>9, <2>1, Zenon DEF ScanOne, LoopTypeOK
    <2> QED BY <2>3, <2>4
  <1>10. CASE ScanDone(l)
    BY <1>10, Zenon DEF ScanDone, LoopTypeOK
  <1>11. CASE SwapDeleteLater(l)
    BY <1>11, Zenon DEF SwapDeleteLater, LoopTypeOK, SessionTypeOK
  <1>12. CASE DeleteOne(l)
    <2>1. PICK s \in todo[l] : todo' = [todo EXCEPT ![l] = @ \ {s}] /\ Destroy(s)
      BY Zenon, <1>12 DEF DeleteOne
    <2>2. s \in Sessions
      BY Zenon, <2>1 DEF LoopTypeOK
    <2>3. SessionTypeOK'
      BY <2>1, <2>2, TypeDestroy, Zenon
    <2>4. LoopTypeOK'
      BY <1>12, <2>1, Zenon DEF DeleteOne, LoopTypeOK
    <2> QED BY <2>3, <2>4
  <1>13. CASE DeleteDone(l)
    BY <1>13 DEF DeleteDone, LoopTypeOK
  <1> QED BY Zenon, <1>1, <1>2, <1>3, <1>4, <1>5, <1>6, <1>7, <1>8, <1>9, <1>10, <1>11, <1>12,
             <1>13 DEF LoopThread

\* Workers, peers and timers, one step.
LEMMA TypeOthers == ASSUME TypeOK, Worker \/ Environment PROVE TypeOK'
  <1> SUFFICES SessionTypeOK' /\ LoopTypeOK'
    BY Zenon DEF TypeOK, Worker, Environment, acceptVars
  <1> USE LoopsFacts, TypeLoopUnchanged, TypeSessionUnchanged DEF TypeOK, Goto
  <1>1. ASSUME NEW l \in Loops, NEW s \in Sessions, WakeupInsert(l, s)
        PROVE  SessionTypeOK' /\ LoopTypeOK'
    BY SMTT(60), <1>1 DEF WakeupInsert, LoopTypeOK, SessionTypeOK, sessionVars
  <1>2. ASSUME NEW l \in Loops, NEW s \in Sessions, WakeupSignal(l, s)
        PROVE  SessionTypeOK' /\ LoopTypeOK'
    BY <1>2, Zenon DEF WakeupSignal, LoopTypeOK, SessionTypeOK, sessionVars
  <1>3. ASSUME NEW s \in Sessions, PeerSends(s) \/ PeerHangsUp(s), UNCHANGED loopVars
        PROVE  SessionTypeOK' /\ LoopTypeOK'
    BY <1>3, Zenon DEF PeerSends, PeerHangsUp, SessionTypeOK
  <1>4. ASSUME NEW l \in Loops, EpollNothing(l) PROVE SessionTypeOK' /\ LoopTypeOK'
    BY <1>4 DEF EpollNothing, LoopTypeOK
  <1> QED BY <1>1, <1>2, <1>3, <1>4, Zenon DEF Worker, Environment

\* Every variable of the server keeps its type, whatever the interleaving.
THEOREM TypeCorrect == Spec => []TypeOK
  <1>1. Init => TypeOK
    BY LoopsFacts DEF Init, SessionInit, LoopInit, TypeOK, SessionTypeOK, LoopTypeOK
  <1>2. TypeOK /\ [Next]_vars => TypeOK'
    <2>1. TypeOK /\ UNCHANGED vars => TypeOK'
      BY TypeLoopUnchanged, TypeSessionUnchanged DEF TypeOK, vars, acceptVars
    <2> QED BY <2>1, TypeAccept, TypeShutdown, TypeLoopThread, TypeOthers, Zenon DEF Next, Returned
  <1> QED BY <1>1, <1>2, PTL DEF Spec

-----------------------------------------------------------------------------
(* No wake-up and no quit is lost *)

\* For one loop.  The thread that ~sessions_event_loop has joined stays where
\* it is, which is why destroying the loop takes no signal from anyone.
SignalOf(l) ==
    /\ m_wakeup_sessions[l] # {} =>
         event_fd[l] \/ (\E s \in Sessions : <<l, s>> \in signalling) \/ pc[l] = "swap"
    /\ m_quit[l] /\ pc[l] = "wait" => event_fd[l] \/ (accept = "signal" /\ best_loop = l)
    /\ accept = "reclaim" /\ best_loop = l => pc[l] = "exited"

SignalInv == \A l \in Loops : SignalOf(l)

\* Steps of others leave what a loop knows as it is.
LEMMA SignalKept ==
    ASSUME NEW k \in Loops, SignalOf(k),
           pc'[k] = pc[k], m_quit'[k] = m_quit[k], event_fd'[k] = event_fd[k],
           m_wakeup_sessions'[k] = m_wakeup_sessions[k],
           \A s \in Sessions : <<k, s>> \in signalling => <<k, s>> \in signalling',
           \/ UNCHANGED <<accept, best_loop>>
           \/ accept # "signal" /\ (accept' = "reclaim" => pc[k] = "exited" \/ best_loop' # k)
    PROVE  SignalOf(k)'
  BY Zenon DEF SignalOf

LEMMA SignalAccept ==
    ASSUME SignalInv, \/ \E p \in Peers : Accept(p)
                      \/ AcceptSteps
                      \/ BeginShutdown
    PROVE  SignalInv'
  <1>1. UNCHANGED loopVars /\ accept # "signal" /\ accept' # "reclaim"
    BY Zenon DEF Accept, AcceptSteps, Choose, Create, RegisterInsert, RegisterAdd, DeleteFailed, CreateFails, RegisterCount,
                 RegisterFails, BeginShutdown
  <1> QED BY <1>1, SignalKept, Zenon DEF SignalInv, loopVars

LEMMA SignalShutdown == ASSUME TypeOK, SignalInv, ShutdownThread PROVE SignalInv'
  <1> SUFFICES ASSUME NEW k \in Loops PROVE SignalOf(k)'
    BY DEF SignalInv
  <1>0. SignalOf(k) /\ best_loop \in Loops
    BY DEF SignalInv, TypeOK
  <1>1. ASSUME NEW l \in Loops, QuitStore(l) PROVE SignalOf(k)'
    <2>1. k # l => m_quit'[k] = m_quit[k]
      BY <1>1, Zenon DEF QuitStore, TypeOK, LoopTypeOK
    <2>2. CASE k = l
      BY <1>0, <1>1, <2>2, Zenon DEF QuitStore, SignalOf
    <2>3. CASE k # l
      BY <1>0, <1>1, <2>1, <2>3, SignalKept, Zenon DEF QuitStore
    <2> QED BY <2>2, <2>3
  <1>2. CASE QuitSignal
    <2>0. accept = "signal" /\ accept' \in {"quit", "destroy"} /\ event_fd' = [event_fd EXCEPT ![best_loop] = TRUE]
          /\ UNCHANGED <<pc, m_quit, m_wakeup_sessions, signalling, best_loop>>
      BY <1>2, Zenon DEF QuitSignal
    <2>1. event_fd'[best_loop] = TRUE /\ (k # best_loop => event_fd'[k] = event_fd[k])
      BY <1>0, <2>0, Zenon DEF TypeOK, LoopTypeOK
    <2>2. CASE k = best_loop
      BY <1>0, <2>0, <2>1, <2>2, Zenon DEF SignalOf
    <2>3. CASE k # best_loop
      BY <1>0, <2>0, <2>1, <2>3, Zenon DEF SignalOf
    <2> QED BY <2>2, <2>3
  <1>3. ASSUME NEW l \in Loops, BeginDestroy(l) PROVE SignalOf(k)'
    <2>0. accept = "destroy" /\ accept' = "join" /\ event_fd' = [event_fd EXCEPT ![l] = TRUE]
          /\ UNCHANGED <<pc, m_quit, m_wakeup_sessions, signalling>>
      BY <1>3, Zenon DEF BeginDestroy
    <2>1. event_fd'[l] = TRUE /\ (k # l => event_fd'[k] = event_fd[k])
      BY <1>3, <2>0, Zenon DEF TypeOK, LoopTypeOK
    <2>2. CASE k = l
      BY <1>0, <2>0, <2>1, <2>2, Zenon DEF SignalOf
    <2>3. CASE k # l
      BY <1>0, <2>0, <2>1, <2>3, SignalKept, Zenon
    <2> QED BY <2>2, <2>3
  <1>4. CASE Join
    BY <1>0, <1>4, SignalKept, Zenon DEF Join, loopVars
  <1>5. ASSUME NEW s \in Sessions, Reclaim(s) PROVE SignalOf(k)'
    BY <1>0, <1>5, SignalKept, Zenon DEF Reclaim, loopVars, acceptVars
  <1>6. CASE Destroyed
    <2>0. /\ accept = "reclaim" /\ accept' \in {"plugins", "destroy"} /\ pc' = [pc EXCEPT ![best_loop] = "destroyed"]
          /\ UNCHANGED <<event_fd, m_quit, m_wakeup_sessions, signalling, best_loop>>
      BY <1>6, Zenon DEF Destroyed, Goto
    <2>1. pc'[best_loop] = "destroyed" /\ (k # best_loop => pc'[k] = pc[k])
      BY <1>0, <2>0, Zenon DEF TypeOK, LoopTypeOK
    <2>2. CASE k = best_loop
      BY <1>0, <2>0, <2>1, <2>2, Zenon DEF SignalOf
    <2>3. CASE k # best_loop
      BY <1>0, <2>0, <2>1, <2>3, SignalKept, Zenon
    <2> QED BY <2>2, <2>3
  <1>7. CASE ClearPlugins
    BY <1>0, <1>7, SignalKept, Zenon DEF ClearPlugins, loopVars
  <1> QED BY <1>1, <1>2, <1>3, <1>4, <1>5, <1>6, <1>7, Zenon DEF ShutdownThread

LEMMA SignalLoopThread == ASSUME TypeOK, SignalInv, NEW l \in Loops, LoopThread(l) PROVE SignalInv'
  <1>0. UNCHANGED <<accept, best_loop>> /\ SignalOf(l)
    BY DEF LoopThread, acceptVars, SignalInv
  <1>1. UNCHANGED <<m_quit, signalling>>
    BY Zenon DEF LoopThread, Head, EpollWait, ProcessEvent, Drain, SwapWakeups, WakeupOne, WakeupsDone, CheckDeadline, ScanOne,
                 ScanDone, SwapDeleteLater, DeleteOne, DeleteDone
  <1>2. ASSUME NEW k \in Loops, k # l PROVE SignalOf(k)'
    <2>1. pc'[k] = pc[k]
      BY <1>2, Zenon DEF LoopThread, Goto, Head, EpollWait, ProcessEvent, Drain, SwapWakeups, WakeupOne, WakeupsDone,
                   CheckDeadline, ScanOne, ScanDone, SwapDeleteLater, DeleteOne, DeleteDone, TypeOK, LoopTypeOK
    <2>2. event_fd'[k] = event_fd[k] /\ m_wakeup_sessions'[k] = m_wakeup_sessions[k]
      BY <1>2, Zenon DEF LoopThread, Head, EpollWait, ProcessEvent, Drain, SwapWakeups, WakeupOne, WakeupsDone,
                   CheckDeadline, ScanOne, ScanDone, SwapDeleteLater, DeleteOne, DeleteDone, TypeOK, LoopTypeOK
    <2> QED BY <1>0, <1>1, <2>1, <2>2, SignalKept, Zenon DEF SignalInv
  <1>3. SignalOf(l)'
    <2>0. ASSUME NEW label, pc' = [pc EXCEPT ![l] = label] PROVE pc'[l] = label
      BY <2>0, Zenon DEF TypeOK, LoopTypeOK
    <2>1. CASE Head(l)
      <3>1. pc[l] = "head" /\ pc'[l] = (IF m_quit[l] THEN "exited" ELSE "wait") /\ UNCHANGED <<event_fd, m_wakeup_sessions>>
        BY <2>0, <2>1, Zenon DEF Head, Goto
      <3> QED BY <1>0, <1>1, <3>1, Zenon DEF SignalOf
    <2>2. CASE Drain(l)
      <3>1. /\ pc[l] = "events" /\ UNCHANGED m_wakeup_sessions
            /\ pc'[l] = "swap" \/ (pc'[l] = "deadline" /\ UNCHANGED event_fd)
        BY <2>0, <2>2, Zenon DEF Drain, Goto
      <3> QED BY <1>0, <1>1, <3>1, Zenon DEF SignalOf
    <2>3. CASE SwapWakeups(l)
      <3>1. pc[l] = "swap" /\ pc'[l] = "wakeups" /\ m_wakeup_sessions'[l] = {}
        BY <2>0, <2>3, Zenon DEF SwapWakeups, Goto, TypeOK, LoopTypeOK
      <3> QED BY <1>0, <1>1, <3>1, Zenon DEF SignalOf
    <2>4. CASE ProcessEvent(l) \/ WakeupOne(l) \/ ScanOne(l, session) \/ DeleteOne(l)
      <3>1. UNCHANGED <<pc, event_fd, m_wakeup_sessions>>
        BY <2>4, Zenon DEF ProcessEvent, WakeupOne, ScanOne, DeleteOne
      <3> QED BY <1>0, <1>1, <3>1, Zenon DEF SignalOf
    <2>5. CASE EpollWait(l) \/ WakeupsDone(l) \/ CheckDeadline(l) \/ ScanDone(l) \/ SwapDeleteLater(l) \/ DeleteDone(l)
      <3>1. /\ pc[l] \notin {"swap", "exited"} /\ pc'[l] # "wait"
            /\ UNCHANGED <<event_fd, m_wakeup_sessions>>
        BY <2>0, <2>5 DEF EpollWait, WakeupsDone, CheckDeadline, ScanDone, SwapDeleteLater, DeleteDone, Goto
      <3> QED BY <1>0, <1>1, <3>1, Zenon DEF SignalOf
    <2> QED BY <2>1, <2>2, <2>3, <2>4, <2>5, Zenon DEF LoopThread
  <1> QED BY <1>2, <1>3, Zenon DEF SignalInv

LEMMA SignalOthers == ASSUME TypeOK, SignalInv, Worker \/ Environment PROVE SignalInv'
  <1> SUFFICES ASSUME NEW k \in Loops PROVE SignalOf(k)'
    BY DEF SignalInv
  <1>0. SignalOf(k) /\ UNCHANGED <<accept, best_loop>>
    BY DEF SignalInv, Worker, Environment, acceptVars
  <1>1. ASSUME NEW l \in Loops, NEW s \in Sessions, WakeupInsert(l, s) PROVE SignalOf(k)'
    <2>1. <<l, s>> \in signalling' /\ signalling \subseteq signalling' /\ UNCHANGED <<pc, m_quit, event_fd>>
      BY <1>1, Zenon DEF WakeupInsert
    <2>2. k # l => m_wakeup_sessions'[k] = m_wakeup_sessions[k]
      BY <1>1, Zenon DEF WakeupInsert, TypeOK, LoopTypeOK
    <2>3. CASE k = l
      BY <1>0, <2>1, <2>3, Zenon DEF SignalOf
    <2>4. CASE k # l
      BY <1>0, <2>1, <2>2, <2>4, SignalKept, Zenon
    <2> QED BY <2>3, <2>4
  <1>2. ASSUME NEW l \in Loops, NEW s \in Sessions, WakeupSignal(l, s) PROVE SignalOf(k)'
    <2>1. event_fd'[l] = TRUE /\ (k # l => event_fd'[k] = event_fd[k])
      BY <1>2, Zenon DEF WakeupSignal, TypeOK, LoopTypeOK
    <2>2. signalling' = signalling \ {<<l, s>>} /\ UNCHANGED <<pc, m_quit, m_wakeup_sessions>>
      BY <1>2, Zenon DEF WakeupSignal
    <2>3. CASE k = l
      BY <1>0, <2>1, <2>2, <2>3, Zenon DEF SignalOf
    <2>4. CASE k # l
      <3>1. \A o \in Sessions : <<k, o>> \in signalling => <<k, o>> \in signalling'
        BY <2>2, <2>4
      <3> QED BY <1>0, <2>1, <2>2, <2>4, <3>1, SignalKept, Zenon
    <2> QED BY <2>3, <2>4
  <1>3. CASE UNCHANGED loopVars
    BY <1>0, <1>3, SignalKept, Zenon DEF loopVars
  <1>4. ASSUME NEW l \in Loops, EpollNothing(l) PROVE SignalOf(k)'
    <2>1. /\ pc[l] = "wait" /\ pc'[l] \in {"deadline", "head"} /\ (k # l => pc'[k] = pc[k])
          /\ UNCHANGED <<m_quit, event_fd, m_wakeup_sessions, signalling>>
      BY <1>4, Zenon DEF EpollNothing, Goto, TypeOK, LoopTypeOK
    <2>2. CASE k = l
      BY <1>0, <2>1, <2>2, Zenon DEF SignalOf
    <2>3. CASE k # l
      BY <1>0, <2>1, <2>3, SignalKept, Zenon
    <2> QED BY <2>2, <2>3
  <1> QED BY <1>1, <1>2, <1>3, <1>4, Zenon DEF Worker, Environment

LEMMA SignalAlways == Spec => []SignalInv
  <1>1. Init => SignalInv
    BY Zenon DEF Init, LoopInit, SignalInv, SignalOf
  <1>2. TypeOK /\ SignalInv /\ [Next]_vars => SignalInv'
    <2> SUFFICES ASSUME TypeOK, SignalInv, [Next]_vars PROVE SignalInv'
      OBVIOUS
    <2>1. CASE UNCHANGED vars
      BY <2>1, SignalKept, Zenon DEF SignalInv, vars, loopVars, acceptVars
    <2> QED BY <2>1, SignalAccept, SignalShutdown, SignalLoopThread, SignalOthers, Zenon DEF Next, Returned
  <1> QED BY <1>1, <1>2, TypeCorrect, PTL DEF Spec

\* A wake-up that was queued has its signal, in every interleaving of the
\* workers in wakeup_session with the drain and the swap of loop().
THEOREM NoWakeupLost == Spec => []WakeupNotLost
  <1>1. SignalInv => WakeupNotLost
    BY Zenon DEF SignalInv, SignalOf, WakeupNotLost
  <1> QED BY <1>1, SignalAlways, PTL

\* No loop sleeps through shutdown(): m_quit is seen, or its signal is there
\* or about to be written.
THEOREM NoQuitLost == Spec => []QuitNotLost
  <1>1. SignalInv => QuitNotLost
    BY Zenon DEF SignalInv, SignalOf, QuitNotLost
  <1> QED BY <1>1, SignalAlways, PTL

-----------------------------------------------------------------------------
(* What a loop does to the session it runs *)

\* The session stays registered ...
Kept(s) ==
    /\ \E x \in {"absent", "quiet", "io", "hup"} :
         epoll' = [epoll EXCEPT ![s] = x] /\ (x = "absent" <=> epoll[s] = "absent")
    /\ UNCHANGED <<m_sessions, m_delete_later>>

\* ... or is given up for deletion.
GivenUp(s) ==
    /\ epoll' = [epoll EXCEPT ![s] = "absent"]
    /\ m_sessions' = [m_sessions EXCEPT ![home[s]] = @ \ {s}]
    /\ m_delete_later' = [m_delete_later EXCEPT ![home[s]] = @ \cup {s}]

Ran(s) ==
    /\ Kept(s) \/ GivenUp(s)
    /\ wakeuppers' \in {wakeuppers, wakeuppers \cup {<<home[s], s>>}}
    /\ \E c \in {"fresh", "suspended", "over"} : coroutine' = [coroutine EXCEPT ![s] = c]
    /\ UNCHANGED <<alive, home, peer, connections_per_ip>>

\* delete_later of a registered session gives it up.
LEMMA DeleteLaterGivesUp ==
    ASSUME TypeOK, NEW s \in Sessions, s \in m_sessions[home[s]], DeleteLater(s)
    PROVE  GivenUp(s)
  BY Zenon DEF DeleteLater, Unregister, GivenUp

\* process_events, wakeup and timeout of a registered session.
LEMMA ResumeRuns ==
    ASSUME TypeOK, NEW s \in Sessions, s \in m_sessions[home[s]], ResumeOrDelete(s)
    PROVE  Ran(s)
  <1>1. epoll \in [Sessions -> {"absent", "quiet", "io", "hup"}] /\ coroutine \in [Sessions -> {"fresh", "suspended", "over"}]
    BY Zenon DEF TypeOK, SessionTypeOK
  <1>2. CASE Resume(s)
    <2>1. Kept(s) \/ GivenUp(s)
      <3>1. CASE UNCHANGED <<epoll, m_sessions, m_active_sessions, m_delete_later>>
        <4>1. epoll' = [epoll EXCEPT ![s] = epoll[s]]
          BY Zenon, <3>1, <1>1
        <4> QED BY Zenon, <3>1, <4>1, <1>1 DEF Kept
      <3>2. CASE /\ epoll' = [epoll EXCEPT ![s] = IF @ = "absent" THEN @ ELSE "hup"]
                 /\ UNCHANGED <<m_sessions, m_active_sessions, m_delete_later>>
        BY Zenon, <3>2, <1>1 DEF Kept
      <3>3. CASE DeleteLater(s)
        BY Zenon, <3>3, DeleteLaterGivesUp
      <3> QED BY Zenon, <1>2, <3>1, <3>2, <3>3 DEF Resume
    <2> QED BY Zenon, <2>1, <1>2 DEF Ran, ResumeOrDelete, Resume, HandOut
  <1>3. CASE DeleteLater(s) /\ UNCHANGED <<coroutine, wakeuppers>>
    <2>1. coroutine' = [coroutine EXCEPT ![s] = coroutine[s]]
      BY Zenon, <1>3, <1>1
    <2> QED BY Zenon, <1>3, <2>1, <1>1, DeleteLaterGivesUp DEF Ran, ResumeOrDelete
  <1> QED BY Zenon, <1>2, <1>3 DEF ResumeOrDelete

LEMMA TimeoutRuns ==
    ASSUME TypeOK, NEW s \in Sessions, s \in m_sessions[home[s]], Timeout(s)
    PROVE  Ran(s)
  BY Zenon, DeleteLaterGivesUp DEF Timeout, QuitAndDelete, HandOut, Ran

LEMMA ProcessEventsRuns ==
    ASSUME TypeOK, NEW s \in Sessions, s \in m_sessions[home[s]], NEW e \in {"io", "hup"},
           ProcessEvents(s, e)
    PROVE  Ran(s)
  BY Zenon, TimeoutRuns, ResumeRuns DEF ProcessEvents, Timeout

-----------------------------------------------------------------------------
(* The loop threads *)

\* A loop that runs one registered session, and is then done with it for
\* this phase of its iteration, keeps the invariant.
LEMMA RunKeepsSafety ==
    ASSUME SafetyInv, TypeOK', NEW l \in Loops, NEW s \in m_sessions[l], s \notin session,
           Ran(s),
           pc[l] \in {"events", "wakeups", "scan"},
           UNCHANGED <<pc, m_wakeup_sessions, acceptVars>>,
           \A k \in Loops \ {l} : todo'[k] = todo[k] /\ events'[k] = events[k],
           todo'[l] \subseteq todo[l], s \in todo'[l] => pc[l] = "events",
           events'[l] \subseteq events[l], \A e \in events'[l] : e[1] # s
    PROVE  SafetyInv'
  <1> USE DEF SafetyInv
  <1>1. s \in Sessions /\ s \in alive /\ home[s] = l
    BY Zenon DEF TypeOK, SessionTypeOK, SetsPartitionAlive
  <1>2. UNCHANGED <<accept, best_loop, session, stopping, alive, home>>
    BY Zenon DEF acceptVars, Ran
  <1>3. /\ \A k \in Loops : m_sessions'[k] \in {m_sessions[k], m_sessions[k] \ {s}}
        /\ \A k \in Loops \ {l} : m_sessions'[k] = m_sessions[k] /\ m_delete_later'[k] = m_delete_later[k]
        /\ \/ m_sessions'[l] = m_sessions[l] /\ m_delete_later'[l] = m_delete_later[l]
              /\ (epoll'[s] = "absent" <=> epoll[s] = "absent")
           \/ m_sessions'[l] = m_sessions[l] \ {s} /\ m_delete_later'[l] = m_delete_later[l] \cup {s}
              /\ epoll'[s] = "absent"
        /\ \A t \in Sessions \ {s} : epoll'[t] = epoll[t] /\ coroutine'[t] = coroutine[t]
        /\ wakeuppers' \subseteq wakeuppers \cup {<<l, s>>}
    BY <1>1 DEF TypeOK, SessionTypeOK, Ran, Kept, GivenUp
  <1>4. \A k \in Loops : Doomed(k)' = Doomed(k)
    BY Zenon, <1>2 DEF Doomed
  <1>5. SetUpIsPrivate'
    <2>1. \A t \in session : t # s
      BY Zenon
    <2>2. ASSUME NEW t \in session PROVE ~Outstanding(t)'
      BY ZenonT(60), <2>1, <1>3, <2>2 DEF SetUpIsPrivate, Outstanding
    <2>3. ASSUME NEW t \in session, NEW k \in Loops
          PROVE  /\ t \notin m_delete_later'[k] \cup Doomed(k)'
                 /\ \A x \in {"io", "hup"} : <<t, x>> \notin events'[k]
      <3>1. t \notin m_delete_later[k] \cup Doomed(k) /\ \A x \in {"io", "hup"} : <<t, x>> \notin events[k]
        BY Zenon DEF SetUpIsPrivate
      <3>2. m_delete_later'[k] \subseteq m_delete_later[k] \cup {s} /\ events'[k] \subseteq events[k]
        BY Zenon, <1>3
      <3> QED BY Zenon, <3>1, <3>2, <2>1, <1>4
    <2>4. ASSUME NEW t \in session PROVE t \in Sessions /\ epoll'[t] = "absent" /\ coroutine'[t] = "fresh"
      BY ZenonT(60), <2>1, <1>3 DEF SetUpIsPrivate, TypeOK
    <2>5. ASSUME NEW t \in session PROVE t \in m_sessions'[best_loop] <=> t \in m_sessions[best_loop]
      BY Zenon, <2>1, <1>3 DEF TypeOK
    <2> QED BY Zenon, <1>2, <2>2, <2>3, <2>4, <2>5 DEF SetUpIsPrivate
  <1>6. SetsPartitionAlive'
    <2>1. Doomed(l) = {}
      BY Zenon DEF Doomed
    <2>2. ASSUME NEW k \in Loops
          PROVE  /\ \A t \in m_sessions'[k] \cup m_delete_later'[k] \cup Doomed(k)' :
                      t \in alive /\ home[t] = k
                 /\ m_sessions'[k] \cap m_delete_later'[k] = {}
                 /\ m_sessions'[k] \cap Doomed(k)' = {}
                 /\ m_delete_later'[k] \cap Doomed(k)' = {}
      <3>1. CASE k = l
        <4>1. /\ \A t \in m_sessions[l] \cup m_delete_later[l] : t \in alive /\ home[t] = l
              /\ m_sessions[l] \cap m_delete_later[l] = {}
          BY Zenon DEF SetsPartitionAlive
        <4>2. \/ m_sessions'[l] = m_sessions[l] /\ m_delete_later'[l] = m_delete_later[l]
              \/ m_sessions'[l] = m_sessions[l] \ {s} /\ m_delete_later'[l] = m_delete_later[l] \cup {s}
          BY Zenon, <1>3
        <4>3. Doomed(k)' = {}
          BY Zenon, <3>1, <2>1, <1>4
        <4>4. /\ \A t \in m_sessions'[l] \cup m_delete_later'[l] : t \in alive /\ home[t] = l
              /\ m_sessions'[l] \cap m_delete_later'[l] = {}
          BY Zenon, <4>1, <4>2, <1>1
        <4> QED BY Zenon, <3>1, <4>3, <4>4
      <3>2. CASE k # l
        BY SMTT(40), Z3T(40), <3>2, <1>3, <1>4 DEF SetsPartitionAlive
      <3> QED BY Zenon, <3>1, <3>2
    <2>3. ASSUME NEW t \in alive
          PROVE  t \in session \cup m_sessions'[home[t]] \cup m_delete_later'[home[t]]
                                \cup Doomed(home[t])'
      <3>1. home[t] \in Loops
        BY Zenon DEF TypeOK, SessionTypeOK
      <3> QED BY <3>1, <1>1, <1>2, <1>3 DEF SetsPartitionAlive, Doomed
    <2> QED BY Zenon, <1>2, <2>2, <2>3 DEF SetsPartitionAlive
  <1>7. BorrowedIsRegistered'
    <2>1. ASSUME NEW t \in Sessions, epoll'[t] # "absent" PROVE t \in m_sessions'[home'[t]]
      <3>1. home[t] \in Loops /\ home' = home
        BY Zenon, <1>2 DEF TypeOK, SessionTypeOK
      <3>2. CASE t = s
        <4>1. epoll[s] # "absent" /\ m_sessions'[l] = m_sessions[l]
          BY Zenon, <2>1, <3>2, <1>3
        <4> QED BY Zenon, <4>1, <3>1, <3>2, <1>1
      <3>3. CASE t # s
        <4>1. epoll[t] # "absent"
          BY Zenon, <2>1, <3>3, <1>3
        <4>2. t \in m_sessions[home[t]]
          BY Zenon, <4>1 DEF BorrowedIsRegistered
        <4>3. m_sessions'[home[t]] \in {m_sessions[home[t]], m_sessions[home[t]] \ {s}}
          BY Zenon, <1>3, <3>1
        <4> QED BY Zenon, <4>2, <4>3, <3>1, <3>3
      <3> QED BY Zenon, <3>2, <3>3
    <2>2. ASSUME NEW k \in Loops PROVE Scanning(k)' \subseteq m_sessions'[k]
      BY <1>3 DEF BorrowedIsRegistered, Scanning
    <2>3. ASSUME NEW k \in Loops PROVE \A e \in events'[k] : e[1] \in m_sessions'[k]
      BY <1>3 DEF BorrowedIsRegistered
    <2>4. ASSUME NEW k \in Loops
          PROVE  /\ \A e, f \in events'[k] : e[1] = f[1] => e = f
                 /\ events'[k] # {} => pc'[k] = "events"
      BY ZenonT(60) DEF BorrowedIsRegistered
    <2>5. ASSUME NEW k \in Loops, pc'[k] \in {"head", "wait", "delete", "exited", "destroyed"}
          PROVE  m_delete_later'[k] = {}
      BY Zenon, <1>3, <2>5 DEF BorrowedIsRegistered
    <2> QED BY Zenon, <2>1, <2>2, <2>3, <2>4, <2>5 DEF BorrowedIsRegistered
  <1>8. LoopsGoInOrder'
    BY Zenon, <1>2, <1>3 DEF LoopsGoInOrder
  <1> QED BY Zenon, <1>5, <1>6, <1>7, <1>8

\* A destructor that runs when no loop holds the object any more, on a loop
\* thread or on the accepting thread, keeps the invariant.
LEMMA DestroyKeepsSafety ==
    ASSUME SafetyInv, TypeOK', NEW s \in alive, Destroy(s),
           UNCHANGED <<pc, m_wakeup_sessions, events, best_loop, stopping>>,
           \/ s \notin session /\ UNCHANGED <<accept, session>>
           \/ accept = "failed" /\ accept' = "idle" /\ session = {s} /\ session' = {},
           \A k \in Loops : /\ todo'[k] \in {todo[k], todo[k] \ {s}}
                            /\ s \notin Scanning(k)' \cup Doomed(k)' \cup m_delete_later[k]
                            /\ \A e \in events[k] : e[1] # s
    PROVE  SafetyInv'
  <1> USE DEF SafetyInv
  <1>1. s \in Sessions /\ home[s] \in Loops
    BY Zenon DEF TypeOK, SessionTypeOK
  <1>2. /\ alive' = alive \ {s}
        /\ home' = home
        /\ m_delete_later' = m_delete_later
        /\ m_sessions'[home[s]] = m_sessions[home[s]] \ {s}
        /\ \A k \in Loops \ {home[s]} : m_sessions'[k] = m_sessions[k]
        /\ \A t \in Sessions \ {s} : epoll'[t] = epoll[t] /\ coroutine'[t] = coroutine[t]
        /\ epoll'[s] = "absent"
        /\ wakeuppers' \subseteq wakeuppers \cup {<<home[s], s>>}
    BY <1>1 DEF Destroy, Unregister, SessionDeleted, HandOut, TypeOK, SessionTypeOK,
                BorrowedIsRegistered
  <1>3. \A k \in Loops : s \notin m_sessions'[k]
    BY Zenon, <1>1, <1>2 DEF SetsPartitionAlive
  <1>4. \A k \in Loops : /\ Doomed(k)' \subseteq Doomed(k)
                         /\ Doomed(k) \subseteq Doomed(k)' \cup {s}
                         /\ Scanning(k)' \subseteq Scanning(k)
    BY Zenon DEF Doomed, Scanning
  <1>5. SetUpIsPrivate'
    <2>1. CASE session' = {}
      BY Zenon, <2>1 DEF SetUpIsPrivate
    <2>2. CASE s \notin session /\ UNCHANGED <<accept, session>>
      <3>1. ASSUME NEW t \in session PROVE ~Outstanding(t)'
        <4>1. t # s /\ ~Outstanding(t)
          BY Zenon, <2>2 DEF SetUpIsPrivate
        <4>2. ASSUME NEW k \in Loops
              PROVE  /\ <<k, t>> \in wakeuppers' => <<k, t>> \in wakeuppers
                     /\ t \in todo'[k] => t \in todo[k]
          BY Zenon, <4>1, <1>2
        <4> QED BY Zenon, <4>1, <4>2 DEF Outstanding
      <3>2. ASSUME NEW t \in session
            PROVE  /\ t \in alive' /\ epoll'[t] = "absent" /\ coroutine'[t] = "fresh"
                   /\ t \in m_sessions'[best_loop] <=> t \in m_sessions[best_loop]
        BY Zenon, <2>2, <1>2 DEF SetUpIsPrivate, TypeOK
      <3>3. ASSUME NEW t \in session, NEW k \in Loops
            PROVE  /\ t \notin m_delete_later'[k] \cup Doomed(k)'
                   /\ \A x \in {"io", "hup"} : <<t, x>> \notin events'[k]
        BY Zenon, <1>2, <1>4 DEF SetUpIsPrivate
      <3> QED BY ZenonT(60), <2>2, <1>2, <3>1, <3>2, <3>3 DEF SetUpIsPrivate
    <2> QED BY Zenon, <2>1, <2>2
  <1>6. SetsPartitionAlive'
    <2>1. ASSUME NEW k \in Loops
          PROVE  /\ \A t \in m_sessions'[k] \cup m_delete_later'[k] \cup Doomed(k)' :
                      t \in alive' /\ home'[t] = k
                 /\ m_sessions'[k] \cap m_delete_later'[k] = {}
                 /\ m_sessions'[k] \cap Doomed(k)' = {}
                 /\ m_delete_later'[k] \cap Doomed(k)' = {}
      BY <1>2, <1>3, <1>4 DEF SetsPartitionAlive
    <2>2. ASSUME NEW t \in alive', NEW k \in Loops, home[t] = k
          PROVE  t \in session' \cup m_sessions'[k] \cup m_delete_later'[k] \cup Doomed(k)'
      BY Zenon, <2>2, <1>1, <1>2, <1>4 DEF SetsPartitionAlive
    <2>3. \A t \in alive' : home[t] \in Loops
      BY Zenon, <1>2 DEF TypeOK, SessionTypeOK
    <2> QED BY ZenonT(60), <1>2, <2>1, <2>2, <2>3 DEF SetsPartitionAlive, Doomed
  <1>7. BorrowedIsRegistered'
    <2>1. ASSUME NEW t \in Sessions, epoll'[t] # "absent" PROVE t \in m_sessions'[home'[t]]
      BY ZenonT(60), <1>1, <1>2, <2>1 DEF BorrowedIsRegistered, TypeOK, SessionTypeOK
    <2>2. ASSUME NEW k \in Loops
          PROVE  Scanning(k)' \subseteq m_sessions'[k] /\ \A e \in events'[k] : e[1] \in m_sessions'[k]
      BY <1>1, <1>2, <1>4 DEF BorrowedIsRegistered
    <2> QED BY <1>2, <2>1, <2>2 DEF BorrowedIsRegistered
  <1>8. LoopsGoInOrder'
    BY Zenon, <1>2 DEF LoopsGoInOrder
  <1> QED BY Zenon, <1>5, <1>6, <1>7, <1>8

\* A loop thread that only goes on to its next phase keeps the invariant.
LEMMA GotoKeepsSafety ==
    ASSUME SafetyInv, TypeOK', NEW l \in Loops,
           NEW x \in {"head", "wait", "events", "swap", "deadline", "reap", "exited"},
           Goto(l, x),
           UNCHANGED <<sessionVars, wakeuppers, events, m_wakeup_sessions, todo, acceptVars>>,
           pc[l] \notin {"exited", "destroyed"}, Doomed(l) = {}, events[l] = {},
           x \in {"head", "wait", "exited"} => m_delete_later[l] = {}
    PROVE  SafetyInv'
  <1> USE DEF SafetyInv
  <1>1. pc'[l] = x /\ \A k \in Loops \ {l} : pc'[k] = pc[k]
    BY Zenon DEF TypeOK, LoopTypeOK, Goto
  <1>2. UNCHANGED <<alive, home, coroutine, epoll, m_sessions, m_delete_later, accept,
                    best_loop, session, stopping>>
    BY Zenon DEF sessionVars, acceptVars
  <1>3. \A k \in Loops : Doomed(k)' = Doomed(k) /\ Scanning(k)' \subseteq Scanning(k)
    BY Zenon, <1>1 DEF Doomed, Scanning
  <1>4. SetUpIsPrivate'
    <2>1. ASSUME NEW t \in session PROVE ~Outstanding(t)'
      BY Zenon, <1>1 DEF SetUpIsPrivate, Outstanding
    <2> QED BY ZenonT(60), <2>1, <1>2, <1>3 DEF SetUpIsPrivate
  <1>5. SetsPartitionAlive'
    <2>1. \A t \in alive : home[t] \in Loops
      BY Zenon DEF TypeOK, SessionTypeOK
    <2> QED BY ZenonT(60), <1>2, <1>3, <2>1 DEF SetsPartitionAlive, Doomed
  <1>6. BorrowedIsRegistered'
    BY ZenonT(60), <1>1, <1>2, <1>3 DEF BorrowedIsRegistered
  <1>7. LoopsGoInOrder'
    <2>1. best_loop \in Loops
      BY Zenon DEF TypeOK
    <2> QED BY Zenon, <2>1, <1>1, <1>2 DEF LoopsGoInOrder
  <1> QED BY Zenon, <1>4, <1>5, <1>6, <1>7

\* Taking the wake-ups, the snapshot of a scan or the objects to delete.
LEMMA SafetyTake ==
    ASSUME SafetyInv, TypeOK', NEW l \in Loops, UNCHANGED acceptVars,
           \/ SwapWakeups(l)
           \/ CheckDeadline(l) /\ todo' = [todo EXCEPT ![l] = m_sessions[l]] /\ Goto(l, "scan")
           \/ SwapDeleteLater(l)
    PROVE  SafetyInv'
  <1> USE DEF SafetyInv
  <1>0. UNCHANGED <<alive, home, coroutine, epoll, m_sessions, wakeuppers, events, accept,
                    best_loop, session, stopping>>
    BY Zenon DEF SwapWakeups, CheckDeadline, SwapDeleteLater, sessionVars, acceptVars
  <1>1. \A k \in Loops \ {l} :
          /\ pc'[k] = pc[k] /\ todo'[k] = todo[k] /\ m_delete_later'[k] = m_delete_later[k]
          /\ m_wakeup_sessions'[k] = m_wakeup_sessions[k]
    BY SMTT(40), Z3T(40) DEF TypeOK, LoopTypeOK, SessionTypeOK, Goto, SwapWakeups, CheckDeadline,
           SwapDeleteLater, sessionVars
  <1>2. /\ pc[l] \in {"swap", "deadline", "reap"}
        /\ pc'[l] \in {"wakeups", "scan", "delete"}
        /\ pc'[l] = "wakeups" => todo'[l] = m_wakeup_sessions[l]
        /\ m_wakeup_sessions'[l] \subseteq m_wakeup_sessions[l]
        /\ pc'[l] = "scan" => todo'[l] = m_sessions[l]
        /\ pc'[l] \in {"wakeups", "scan"} => m_delete_later'[l] = m_delete_later[l]
        /\ pc'[l] = "delete" => todo'[l] = m_delete_later[l] /\ m_delete_later'[l] = {}
    BY DEF TypeOK, LoopTypeOK, SessionTypeOK, Goto, SwapWakeups, CheckDeadline,
           SwapDeleteLater, sessionVars
  <1>3. /\ \A k \in Loops \ {l} : Doomed(k)' = Doomed(k) /\ Scanning(k)' = Scanning(k)
        /\ Doomed(l) = {} /\ Scanning(l) = {}
        /\ m_delete_later'[l] \cup Doomed(l)' = m_delete_later[l]
        /\ m_delete_later'[l] \cap Doomed(l)' = {}
        /\ Scanning(l)' \subseteq m_sessions[l]
    BY Zenon, <1>1, <1>2 DEF Doomed, Scanning
  <1>4. SetUpIsPrivate'
    <2>1. ASSUME NEW t \in session PROVE ~Outstanding(t)'
      BY Zenon, <1>0, <1>1, <1>2 DEF SetUpIsPrivate, Outstanding
    <2>2. ASSUME NEW t \in session, NEW k \in Loops
          PROVE  t \notin m_delete_later'[k] \cup Doomed(k)'
      <3>1. t \notin m_delete_later[k] \cup Doomed(k)
        BY Zenon DEF SetUpIsPrivate
      <3>2. CASE k = l
        BY Zenon, <3>1, <3>2, <1>3
      <3>3. CASE k # l
        BY Zenon, <3>1, <3>3, <1>1, <1>3
      <3> QED BY Zenon, <3>2, <3>3
    <2> QED BY Zenon, <2>1, <2>2, <1>0 DEF SetUpIsPrivate
  <1>5. SetsPartitionAlive'
    <2>1. ASSUME NEW k \in Loops
          PROVE  /\ m_delete_later'[k] \cup Doomed(k)' = m_delete_later[k] \cup Doomed(k)
                 /\ m_delete_later'[k] \cap Doomed(k)' = {}
      BY Zenon, <1>1, <1>3 DEF SetsPartitionAlive
    <2>2. \A t \in alive : home[t] \in Loops
      BY Zenon DEF TypeOK, SessionTypeOK
    <2>3. ASSUME NEW t \in alive
          PROVE  t \in session \cup m_sessions[home[t]] \cup m_delete_later'[home[t]] \cup
                       (IF pc'[home[t]] = "delete" THEN todo'[home[t]] ELSE {})
      <3>1. PICK k \in Loops : k = home[t]
        BY Zenon, <2>2
      <3>2. t \in session \cup m_sessions[k] \cup m_delete_later[k] \cup Doomed(k)
        BY Zenon, <3>1 DEF SetsPartitionAlive
      <3>3. t \in session \cup m_sessions[k] \cup m_delete_later'[k] \cup Doomed(k)'
        BY Zenon, <2>1, <3>2
      <3> QED BY Zenon, <3>1, <3>3 DEF Doomed
    <2>4. ASSUME NEW k \in Loops
          PROVE  /\ \A t \in m_sessions[k] \cup m_delete_later'[k] \cup Doomed(k)' :
                      t \in alive /\ home[t] = k
                 /\ m_sessions[k] \cap m_delete_later'[k] = {}
                 /\ m_sessions[k] \cap Doomed(k)' = {}
      BY SMTT(40), Z3T(40), <2>1 DEF SetsPartitionAlive
    <2> QED BY Zenon, <2>1, <2>3, <2>4, <1>0 DEF SetsPartitionAlive, Doomed
  <1>6. BorrowedIsRegistered'
    BY <1>0, <1>1, <1>2, <1>3 DEF BorrowedIsRegistered
  <1>7. LoopsGoInOrder'
    <2>1. best_loop \in Loops
      BY Zenon DEF TypeOK
    <2> QED BY Zenon, <2>1, <1>0, <1>1, <1>2 DEF LoopsGoInOrder
  <1> QED BY Zenon, <1>4, <1>5, <1>6, <1>7

\* What epoll_wait reports is registered with the loop that waits.
LEMMA SafetyEpollWait ==
    ASSUME SafetyInv, TypeOK', NEW l \in Loops, EpollWait(l), UNCHANGED acceptVars
    PROVE  SafetyInv'
  <1> USE DEF SafetyInv
  <1>0. UNCHANGED <<alive, home, coroutine, m_sessions, m_delete_later, wakeuppers, todo,
                    m_wakeup_sessions, accept, best_loop, session, stopping>>
    BY Zenon DEF EpollWait, acceptVars
  <1>1. /\ pc[l] = "wait" /\ pc'[l] = "events"
        /\ \A k \in Loops \ {l} : pc'[k] = pc[k] /\ events'[k] = events[k]
        /\ events'[l] = {<<s, epoll[s]>> : s \in Ready(l)}
        /\ \A s \in Sessions : epoll'[s] = IF s \in Ready(l) THEN "quiet" ELSE epoll[s]
    BY Zenon DEF EpollWait, TypeOK, LoopTypeOK, Goto
  <1>2. Ready(l) \subseteq m_sessions[l] /\ Ready(l) \cap session = {} /\ Ready(l) \subseteq Sessions
    BY Zenon DEF Ready, BorrowedIsRegistered, SetUpIsPrivate
  <1>3. \A s \in Ready(l) : epoll[s] # "absent"
    BY Zenon DEF Ready
  <1>4. \A k \in Loops : Doomed(k)' = Doomed(k) /\ Scanning(k)' = Scanning(k)
    BY Zenon, <1>0, <1>1 DEF Doomed, Scanning
  <1>5. SetUpIsPrivate'
    <2>1. ASSUME NEW t \in session PROVE ~Outstanding(t)'
      BY Zenon, <1>0, <1>1 DEF SetUpIsPrivate, Outstanding
    <2>2. ASSUME NEW t \in session, NEW k \in Loops, NEW x \in {"io", "hup"}
          PROVE  <<t, x>> \notin events'[k]
      <3>1. CASE k = l
        BY Zenon, <3>1, <1>1, <1>2
      <3>2. CASE k # l
        BY Zenon, <3>2, <1>1 DEF SetUpIsPrivate
      <3> QED BY Zenon, <3>1, <3>2
    <2>3. ASSUME NEW t \in session PROVE epoll'[t] = "absent"
      BY Zenon, <1>1, <1>2 DEF SetUpIsPrivate, TypeOK
    <2> QED BY Zenon, <2>1, <2>2, <2>3, <1>0, <1>4 DEF SetUpIsPrivate
  <1>6. SetsPartitionAlive'
    <2>1. \A t \in alive : home[t] \in Loops
      BY Zenon DEF TypeOK, SessionTypeOK
    <2> QED BY Zenon, <1>0, <1>4, <2>1 DEF SetsPartitionAlive, Doomed
  <1>7. BorrowedIsRegistered'
    <2>1. \A s \in Sessions : epoll'[s] # "absent" => s \in m_sessions[home[s]]
      BY Zenon, <1>1, <1>3 DEF BorrowedIsRegistered
    <2>2. ASSUME NEW k \in Loops
          PROVE  /\ \A e \in events'[k] : e[1] \in m_sessions[k]
                 /\ \A e, f \in events'[k] : e[1] = f[1] => e = f
                 /\ events'[k] # {} => pc'[k] = "events"
      <3>1. CASE k = l
        BY <3>1, <1>1, <1>2
      <3>2. CASE k # l
        BY ZenonT(60), <3>2, <1>1 DEF BorrowedIsRegistered
      <3> QED BY Zenon, <3>1, <3>2
    <2> QED BY ZenonT(60), <2>1, <2>2, <1>0, <1>1, <1>4 DEF BorrowedIsRegistered
  <1>8. LoopsGoInOrder'
    <2>1. best_loop \in Loops
      BY Zenon DEF TypeOK
    <2> QED BY Zenon, <2>1, <1>0, <1>1 DEF LoopsGoInOrder
  <1> QED BY Zenon, <1>5, <1>6, <1>7, <1>8

LEMMA SafetyDeleteOne ==
    ASSUME SafetyInv, TypeOK', NEW l \in Loops, DeleteOne(l), UNCHANGED acceptVars
    PROVE  SafetyInv'
  <1> USE DEF SafetyInv
  <1>1. PICK s \in todo[l] : todo' = [todo EXCEPT ![l] = @ \ {s}] /\ Destroy(s)
    BY Zenon DEF DeleteOne
  <1>2. /\ pc[l] = "delete" /\ todo'[l] = todo[l] \ {s} /\ s \in Doomed(l)
        /\ \A k \in Loops \ {l} : todo'[k] = todo[k]
        /\ UNCHANGED <<pc, m_wakeup_sessions, events>>
    BY Zenon, <1>1 DEF DeleteOne, TypeOK, LoopTypeOK, Doomed
  <1>3. s \in alive /\ home[s] = l /\ s \notin session
    BY ZenonT(60), <1>2 DEF SetsPartitionAlive, SetUpIsPrivate
  <1>4. ASSUME NEW k \in Loops
        PROVE  /\ todo'[k] \in {todo[k], todo[k] \ {s}}
               /\ s \notin Scanning(k)' \cup Doomed(k)' \cup m_delete_later[k]
               /\ \A e \in events[k] : e[1] # s
    <2>1. s \notin m_sessions[k]
      BY Zenon, <1>2, <1>3 DEF SetsPartitionAlive
    <2>2. s \notin m_delete_later[k]
      BY Zenon, <1>2, <1>3 DEF SetsPartitionAlive
    <2>3. s \notin Doomed(k)'
      BY Zenon, <1>2, <1>3 DEF SetsPartitionAlive, Doomed
    <2>4. s \notin Scanning(k)'
      BY Zenon, <1>2, <2>1 DEF BorrowedIsRegistered, Scanning
    <2>5. todo'[k] \in {todo[k], todo[k] \ {s}}
      BY Zenon, <1>2
    <2>6. \A e \in events[k] : e[1] # s
      <3>1. \A e \in events[k] : e[1] \in m_sessions[k]
        BY Zenon DEF BorrowedIsRegistered
      <3> QED BY <2>1, <3>1
    <2> QED BY Zenon, <2>2, <2>3, <2>4, <2>5, <2>6
  <1> QED BY Zenon, <1>1, <1>2, <1>3, <1>4, DestroyKeepsSafety DEF acceptVars

\* process_events, the wake-ups and the scan run registered sessions that
\* the accepting thread is done with.
LEMMA SafetyRun ==
    ASSUME SafetyInv, TypeOK', NEW l \in Loops, UNCHANGED acceptVars,
           ProcessEvent(l) \/ WakeupOne(l) \/ ScanOne(l, session)
    PROVE  SafetyInv'
  <1> USE DEF SafetyInv
  <1>1. CASE ProcessEvent(l)
    <2>1. PICK e \in events[l] : events' = [events EXCEPT ![l] = @ \ {e}] /\ ProcessEvents(e[1], e[2])
      BY Zenon, <1>1 DEF ProcessEvent
    <2>2. e \in Sessions \X {"io", "hup"}
      BY Zenon, <2>1 DEF TypeOK, LoopTypeOK
    <2>3. e[1] \in Sessions /\ e[2] \in {"io", "hup"} /\ e = <<e[1], e[2]>>
      BY <2>2
    <2>4. e[1] \in m_sessions[l] /\ home[e[1]] = l /\ e[1] \notin session
      <3>1. e[1] \in m_sessions[l]
        BY Zenon, <2>1 DEF BorrowedIsRegistered
      <3>2. home[e[1]] = l
        BY Zenon, <3>1 DEF SetsPartitionAlive
      <3>3. <<e[1], e[2]>> \in events[l]
        BY Zenon, <2>1, <2>3
      <3>4. e[1] \notin session
        BY Zenon, <2>3, <3>3 DEF SetUpIsPrivate
      <3> QED BY Zenon, <3>1, <3>2, <3>4
    <2>5. Ran(e[1])
      BY Zenon, <2>1, <2>3, <2>4, ProcessEventsRuns
    <2>6. /\ events'[l] = events[l] \ {e}
          /\ \A k \in Loops \ {l} : events'[k] = events[k]
          /\ pc[l] = "events" /\ UNCHANGED <<pc, m_wakeup_sessions, todo>>
      BY Zenon, <1>1, <2>1 DEF TypeOK, LoopTypeOK, ProcessEvent
    <2>7. \A f \in events'[l] : f[1] # e[1]
      BY Zenon, <2>6 DEF BorrowedIsRegistered
    <2> QED BY ZenonT(60), <2>4, <2>5, <2>6, <2>7, RunKeepsSafety
  <1>2. ASSUME NEW s \in todo[l], todo' = [todo EXCEPT ![l] = @ \ {s}],
               pc[l] \in {"wakeups", "scan"}, UNCHANGED <<pc, events, m_wakeup_sessions>>
        PROVE  /\ UNCHANGED <<sessionVars, wakeuppers>> => SafetyInv'
               /\ s \in m_sessions[l] /\ s \notin session /\ Ran(s) => SafetyInv'
    <2>1. todo'[l] = todo[l] \ {s} /\ \A k \in Loops \ {l} : todo'[k] = todo[k]
      BY Zenon, <1>2 DEF TypeOK, LoopTypeOK
    <2>2. CASE UNCHANGED <<sessionVars, wakeuppers>>
      <3>0. UNCHANGED <<alive, home, coroutine, epoll, m_sessions, m_delete_later, accept,
                        best_loop, session, stopping, wakeuppers>>
        BY Zenon, <2>2 DEF sessionVars, acceptVars
      <3>1. \A k \in Loops : Doomed(k)' = Doomed(k) /\ Scanning(k)' \subseteq Scanning(k)
        BY Zenon, <1>2, <2>1 DEF Doomed, Scanning
      <3>2. SetUpIsPrivate'
        <4>1. ASSUME NEW t \in session PROVE ~Outstanding(t)'
          BY Zenon, <1>2, <2>1, <3>0 DEF SetUpIsPrivate, Outstanding
        <4> QED BY Zenon, <4>1, <1>2, <3>0, <3>1 DEF SetUpIsPrivate
      <3>3. SetsPartitionAlive'
        <4>1. \A t \in alive : home[t] \in Loops
          BY Zenon DEF TypeOK, SessionTypeOK
        <4> QED BY ZenonT(60), <3>0, <3>1, <4>1 DEF SetsPartitionAlive, Doomed
      <3>4. BorrowedIsRegistered'
        BY Zenon, <1>2, <3>0, <3>1 DEF BorrowedIsRegistered
      <3>5. LoopsGoInOrder'
        BY Zenon, <1>2, <3>0 DEF LoopsGoInOrder
      <3> QED BY Zenon, <3>2, <3>3, <3>4, <3>5
    <2>3. CASE s \in m_sessions[l] /\ s \notin session /\ Ran(s)
      <3>1. events[l] = {}
        BY Zenon, <1>2 DEF BorrowedIsRegistered
      <3> QED BY Zenon, <1>2, <2>1, <2>3, <3>1, RunKeepsSafety
    <2> QED BY Zenon, <2>2, <2>3
  <1>3. CASE WakeupOne(l)
    <2>1. PICK s \in todo[l] : /\ todo' = [todo EXCEPT ![l] = @ \ {s}]
                               /\ IF s \in m_sessions[l]
                                  THEN Wakeup(s)
                                  ELSE UNCHANGED <<sessionVars, wakeuppers>>
      BY Zenon, <1>3 DEF WakeupOne
    <2>2. pc[l] = "wakeups" /\ UNCHANGED <<pc, events, m_wakeup_sessions>>
      BY Zenon, <1>3 DEF WakeupOne
    <2>3. s \notin session
      BY Zenon, <2>1, <2>2 DEF SetUpIsPrivate, Outstanding
    <2>4. CASE s \in m_sessions[l]
      <3>1. s \in Sessions /\ home[s] = l
        BY Zenon, <2>4 DEF TypeOK, SessionTypeOK, SetsPartitionAlive
      <3>2. Ran(s)
        BY Zenon, <2>1, <2>4, <3>1, ResumeRuns DEF Wakeup
      <3> QED BY Zenon, <2>1, <2>2, <2>3, <2>4, <3>2, <1>2
    <2> QED BY Zenon, <2>1, <2>2, <2>4, <1>2
  <1>4. CASE ScanOne(l, session)
    <2>1. PICK s \in todo[l] : /\ todo' = [todo EXCEPT ![l] = @ \ {s}]
                               /\ \/ UNCHANGED <<sessionVars, wakeuppers>>
                                  \/ s \notin session /\ Timeout(s)
      BY Zenon, <1>4 DEF ScanOne
    <2>2. pc[l] = "scan" /\ UNCHANGED <<pc, events, m_wakeup_sessions>>
      BY Zenon, <1>4 DEF ScanOne
    <2>3. CASE s \notin session /\ Timeout(s)
      <3>1. s \in m_sessions[l]
        BY Zenon, <2>2 DEF BorrowedIsRegistered, Scanning
      <3>2. s \in Sessions /\ home[s] = l
        BY Zenon, <3>1 DEF TypeOK, SessionTypeOK, SetsPartitionAlive
      <3>3. Ran(s)
        BY Zenon, <2>3, <3>1, <3>2, TimeoutRuns
      <3> QED BY Zenon, <2>1, <2>2, <2>3, <3>1, <3>3, <1>2
    <2> QED BY Zenon, <2>1, <2>2, <2>3, <1>2
  <1> QED BY Zenon, <1>1, <1>3, <1>4

LEMMA SafetyLoopThread ==
    ASSUME SafetyInv, TypeOK', NEW l \in Loops, LoopThread(l) \/ (EpollNothing(l) /\ UNCHANGED acceptVars)
    PROVE  SafetyInv'
  <1>0. UNCHANGED acceptVars
    BY Zenon DEF LoopThread
  <1>1. CASE Head(l) \/ Drain(l) \/ WakeupsDone(l) \/ ScanDone(l) \/ DeleteDone(l) \/ EpollNothing(l)
             \/ (CheckDeadline(l) /\ UNCHANGED todo /\ Goto(l, "reap"))
    <2>1. UNCHANGED <<sessionVars, wakeuppers, events, m_wakeup_sessions, todo>>
      BY Zenon, <1>1 DEF Head, Drain, WakeupsDone, ScanDone, DeleteDone, EpollNothing, CheckDeadline
    <2>2. PICK x \in {"head", "wait", "events", "swap", "deadline", "reap", "exited"} :
            /\ Goto(l, x)
            /\ x \in {"head", "wait", "exited"} => pc[l] \in {"head", "wait", "delete"}
      BY Zenon, <1>1 DEF Head, Drain, WakeupsDone, ScanDone, DeleteDone, EpollNothing, CheckDeadline
    <2>3. /\ pc[l] \in {"head", "wait", "events", "wakeups", "scan", "delete", "deadline"}
          /\ pc[l] = "delete" => todo[l] = {}
          /\ pc[l] = "events" => events[l] = {}
      BY Zenon, <1>1 DEF Head, Drain, WakeupsDone, ScanDone, DeleteDone, EpollNothing, CheckDeadline
    <2>4. Doomed(l) = {} /\ events[l] = {}
      BY Zenon, <2>3 DEF Doomed, SafetyInv, BorrowedIsRegistered
    <2>5. x \in {"head", "wait", "exited"} => m_delete_later[l] = {}
      BY Zenon, <2>2 DEF SafetyInv, BorrowedIsRegistered
    <2> QED BY Zenon, <1>0, <2>1, <2>2, <2>3, <2>4, <2>5, GotoKeepsSafety
  <1>2. CASE SwapWakeups(l) \/ SwapDeleteLater(l)
             \/ (CheckDeadline(l) /\ todo' = [todo EXCEPT ![l] = m_sessions[l]] /\ Goto(l, "scan"))
    BY Zenon, <1>0, <1>2, SafetyTake
  <1>3. CASE EpollWait(l)
    BY Zenon, <1>0, <1>3, SafetyEpollWait
  <1>4. CASE DeleteOne(l)
    BY Zenon, <1>0, <1>4, SafetyDeleteOne
  <1>5. CASE ProcessEvent(l) \/ WakeupOne(l) \/ ScanOne(l, session)
    BY Zenon, <1>0, <1>5, SafetyRun
  <1>6. CheckDeadline(l) => \/ todo' = [todo EXCEPT ![l] = m_sessions[l]] /\ Goto(l, "scan")
                            \/ UNCHANGED todo /\ Goto(l, "reap")
    BY Zenon DEF CheckDeadline
  <1> QED BY Zenon, <1>1, <1>2, <1>3, <1>4, <1>5, <1>6 DEF LoopThread

-----------------------------------------------------------------------------
(* The accepting thread *)

\* A step of the accepting thread that leaves the sessions and the loops
\* alone keeps all of the invariant that is about them.
LEMMA AcceptMoveKeepsSafety ==
    ASSUME SafetyInv, TypeOK',
           UNCHANGED <<alive, home, coroutine, epoll, m_sessions, m_delete_later, wakeuppers,
                       pc, events, todo, m_wakeup_sessions, session>>,
           \/ /\ accept \notin {"created", "inserted", "failed"}
              /\ accept' \notin {"created", "inserted", "failed"}
           \/ /\ accept \in {"inserted", "failed"} /\ accept' \in {"inserted", "failed"}
              /\ UNCHANGED best_loop
           \/ UNCHANGED <<accept, best_loop>>,
           LoopsGoInOrder'
    PROVE  SafetyInv'
  <1> USE DEF SafetyInv
  <1>1. \A k \in Loops : Doomed(k)' = Doomed(k) /\ Scanning(k)' = Scanning(k)
    BY Zenon DEF Doomed, Scanning
  <1>2. SetUpIsPrivate'
    <2>1. ASSUME NEW t \in session PROVE ~Outstanding(t)'
      BY Zenon DEF SetUpIsPrivate, Outstanding
    <2> QED BY Zenon, <2>1, <1>1 DEF SetUpIsPrivate
  <1>3. SetsPartitionAlive'
    <2>1. \A t \in alive : home[t] \in Loops
      BY Zenon DEF TypeOK, SessionTypeOK
    <2> QED BY Zenon, <1>1, <2>1 DEF SetsPartitionAlive, Doomed
  <1>4. BorrowedIsRegistered'
    BY ZenonT(90), <1>1 DEF BorrowedIsRegistered
  <1> QED BY Zenon, <1>2, <1>3, <1>4

LEMMA SafetyAcceptMove ==
    ASSUME SafetyInv, TypeOK',
           \/ \E p \in Peers : Accept(p)
           \/ Choose \/ CreateFails \/ RegisterCount \/ RegisterFails \/ BeginShutdown
           \/ \E l \in Loops : QuitStore(l) \/ BeginDestroy(l)
           \/ QuitSignal \/ Join \/ ClearPlugins
    PROVE  SafetyInv'
  <1> USE DEF SafetyInv
  <1>1. UNCHANGED <<alive, home, coroutine, epoll, m_sessions, m_delete_later, wakeuppers,
                    pc, events, todo, m_wakeup_sessions, session>>
    BY Zenon DEF Accept, Choose, CreateFails, RegisterCount, RegisterFails, BeginShutdown, QuitStore,
           BeginDestroy, QuitSignal, Join, ClearPlugins, sessionVars, loopVars
  <1>2. \/ /\ accept \notin {"created", "inserted", "failed"}
           /\ accept' \notin {"created", "inserted", "failed"}
        \/ /\ accept \in {"inserted", "failed"} /\ accept' \in {"inserted", "failed"}
           /\ UNCHANGED best_loop
    BY Zenon DEF Accept, Choose, CreateFails, RegisterCount, RegisterFails, BeginShutdown, QuitStore,
           BeginDestroy, QuitSignal, Join, ClearPlugins
  <1>3. LoopsGoInOrder'
    <2>1. CASE \/ \E p \in Peers : Accept(p)
               \/ Choose \/ CreateFails \/ RegisterCount \/ RegisterFails \/ BeginShutdown
               \/ \E l \in Loops : QuitStore(l)
      <3>1. /\ accept \notin {"destroy", "join", "reclaim", "plugins", "done", "hung"}
            /\ accept' \notin {"destroy", "join", "reclaim", "plugins", "done", "hung"}
        BY Zenon, <2>1 DEF Accept, Choose, CreateFails, RegisterCount, RegisterFails, BeginShutdown,
                    QuitStore
      <3> QED BY Zenon, <1>1, <3>1 DEF LoopsGoInOrder
    <2>2. CASE QuitSignal
      BY Zenon, <2>2, <1>1 DEF QuitSignal, LoopsGoInOrder
    <2>3. CASE (\E l \in Loops : BeginDestroy(l)) \/ Join \/ ClearPlugins
      BY Zenon, <2>3, <1>1 DEF BeginDestroy, Join, ClearPlugins, LoopsGoInOrder
    <2> QED BY Zenon, <2>1, <2>2, <2>3
  <1> QED BY Zenon, <1>1, <1>2, <1>3, AcceptMoveKeepsSafety

\* A new object: its address is in no set of a loop, and without StaleReuse
\* no wake-up is on its way to it.
LEMMA SafetyCreate ==
    ASSUME SafetyInv, TypeOK', ~StaleReuse, NEW s \in Sessions, Create(s)
    PROVE  SafetyInv'
  <1> USE DEF SafetyInv
  <1>0. /\ UNCHANGED <<epoll, m_sessions, m_delete_later, wakeuppers, pc, events, todo,
                       m_wakeup_sessions, best_loop, stopping>>
        /\ accept = "choose" /\ accept' = "created" /\ session' = {s}
        /\ s \notin alive /\ alive' = alive \cup {s} /\ ~Outstanding(s)
    BY Zenon DEF Create, loopVars
  <1>1. /\ home'[s] = best_loop /\ coroutine'[s] = "fresh"
        /\ \A t \in Sessions \ {s} : home'[t] = home[t]
        /\ best_loop \in Loops
    BY ZenonT(60) DEF Create, TypeOK, SessionTypeOK
  <1>2. \A k \in Loops : /\ Doomed(k)' = Doomed(k) /\ Scanning(k)' = Scanning(k)
                         /\ s \notin m_sessions[k] \cup m_delete_later[k] \cup Doomed(k)
    BY Zenon, <1>0 DEF Doomed, Scanning, SetsPartitionAlive
  <1>3. epoll[s] = "absent" /\ \A k \in Loops : \A e \in events[k] : e[1] # s
    BY SMTT(40), Z3T(40), <1>2 DEF BorrowedIsRegistered, TypeOK, SessionTypeOK
  <1>4. SetUpIsPrivate'
    <2>1. ~Outstanding(s)'
      BY Zenon, <1>0 DEF Outstanding
    <2>2. \A k \in Loops : \A x \in {"io", "hup"} : <<s, x>> \notin events[k]
      BY Zenon, <1>3
    <2> QED BY <1>0, <1>1, <1>2, <1>3, <2>1, <2>2 DEF SetUpIsPrivate
  <1>5. SetsPartitionAlive'
    <2>1. ASSUME NEW t \in alive'
          PROVE  t \in session' \cup m_sessions[home'[t]] \cup m_delete_later[home'[t]] \cup
                       (IF pc[home'[t]] = "delete" THEN todo[home'[t]] ELSE {})
      <3>1. session = {}
        BY Zenon, <1>0 DEF SetUpIsPrivate
      <3> QED BY Zenon, <3>1, <1>0, <1>1 DEF SetsPartitionAlive, Doomed, TypeOK, SessionTypeOK
    <2>2. ASSUME NEW k \in Loops, NEW t \in m_sessions[k] \cup m_delete_later[k] \cup Doomed(k)
          PROVE  t \in alive' /\ home'[t] = k
      <3>1. t \in alive /\ home[t] = k /\ t # s
        BY <1>2, <2>2 DEF SetsPartitionAlive
      <3> QED BY Zenon, <3>1, <1>0, <1>1 DEF TypeOK, SessionTypeOK
    <2> QED BY Zenon, <1>0, <1>2, <2>1, <2>2 DEF SetsPartitionAlive, Doomed
  <1>6. BorrowedIsRegistered'
    BY ZenonT(60), <1>0, <1>1, <1>2, <1>3 DEF BorrowedIsRegistered
  <1>7. LoopsGoInOrder'
    BY Zenon, <1>0 DEF LoopsGoInOrder
  <1> QED BY Zenon, <1>4, <1>5, <1>6, <1>7

\* register_session: the session is the loop's from EPOLL_CTL_ADD on.
LEMMA SafetyRegister ==
    ASSUME SafetyInv, TypeOK', NEW s \in Sessions, RegisterInsert(s) \/ RegisterAdd(s)
    PROVE  SafetyInv'
  <1> USE DEF SafetyInv
  <1>0. /\ UNCHANGED <<alive, home, coroutine, m_delete_later, wakeuppers, pc, events, todo,
                       m_wakeup_sessions, best_loop, stopping>>
        /\ s \in session
    BY Zenon DEF RegisterInsert, RegisterAdd, loopVars
  <1>1. best_loop \in Loops /\ session = {s} /\ s \in alive /\ home[s] = best_loop
    BY ZenonT(60), <1>0 DEF TypeOK, SetUpIsPrivate
  <1>2. \A k \in Loops : Doomed(k)' = Doomed(k) /\ Scanning(k)' = Scanning(k)
    BY Zenon, <1>0 DEF Doomed, Scanning
  <1>3. ~Outstanding(s)'
    BY Zenon, <1>0 DEF SetUpIsPrivate, Outstanding
  <1>4. \A t \in alive : home[t] \in Loops
    BY Zenon DEF TypeOK, SessionTypeOK
  <1>5. CASE RegisterInsert(s)
    <2>1. /\ m_sessions'[best_loop] = m_sessions[best_loop] \cup {s}
          /\ \A k \in Loops \ {best_loop} : m_sessions'[k] = m_sessions[k]
          /\ UNCHANGED <<epoll, session>> /\ accept = "created" /\ accept' = "inserted"
      BY Zenon, <1>5 DEF RegisterInsert, TypeOK, SessionTypeOK
    <2>2. SetUpIsPrivate'
      <3>1. /\ epoll[s] = "absent" /\ coroutine[s] = "fresh"
            /\ \A k \in Loops : /\ s \notin m_delete_later[k] \cup Doomed(k)
                               /\ \A x \in {"io", "hup"} : <<s, x>> \notin events[k]
        BY Zenon, <1>0 DEF SetUpIsPrivate
      <3>2. s \in m_sessions'[best_loop]
        BY Zenon, <2>1
      <3>3. /\ \A k \in Loops : s \notin m_delete_later'[k] \cup Doomed(k)'
            /\ session' = {s} /\ s \in alive' /\ home'[s] = best_loop'
            /\ s \in m_sessions'[best_loop'] /\ accept' = "inserted"
        BY Zenon, <1>0, <1>1, <1>2, <2>1, <3>1, <3>2
      <3>4. \A k \in Loops : \A x \in {"io", "hup"} : <<s, x>> \notin events'[k]
        BY Zenon, <1>0, <3>1
      <3>5. epoll'[s] = "absent" /\ coroutine'[s] = "fresh"
        BY Zenon, <1>0, <2>1, <3>1
      <3> HIDE DEF SafetyInv
      <3> QED BY Zenon, <1>3, <3>3, <3>4, <3>5 DEF SetUpIsPrivate
    <2>3. SetsPartitionAlive'
      <3>1. ASSUME NEW k \in Loops
            PROVE  /\ \A t \in m_sessions'[k] \cup m_delete_later[k] \cup Doomed(k) :
                        t \in alive /\ home[t] = k
                   /\ m_sessions'[k] \cap m_delete_later[k] = {}
                   /\ m_sessions'[k] \cap Doomed(k) = {}
                   /\ m_sessions[k] \subseteq m_sessions'[k]
        <4>1. s \notin m_delete_later[k] \cup Doomed(k)
          BY Zenon, <1>0 DEF SetUpIsPrivate
        <4>2. CASE k = best_loop
          <5>1. m_sessions'[k] = m_sessions[k] \cup {s} /\ home[s] = k
            BY Zenon, <4>2, <1>1, <2>1
          <5>2. /\ \A t \in m_sessions[k] \cup m_delete_later[k] \cup Doomed(k) :
                     t \in alive /\ home[t] = k
                /\ m_sessions[k] \cap m_delete_later[k] = {}
                /\ m_sessions[k] \cap Doomed(k) = {}
            BY Zenon DEF SetsPartitionAlive
          <5> HIDE DEF SafetyInv
          <5> QED BY ZenonT(60), <4>1, <5>1, <5>2, <1>1
        <4>3. CASE k # best_loop
          BY Zenon, <4>3, <2>1 DEF SetsPartitionAlive
        <4> QED BY Zenon, <4>2, <4>3
      <3>2. ASSUME NEW t \in alive
            PROVE  t \in session \cup m_sessions'[home[t]] \cup m_delete_later[home[t]]
                               \cup Doomed(home[t])
        BY Zenon, <3>1, <1>4 DEF SetsPartitionAlive
      <3>3. \A k \in Loops : m_delete_later[k] \cap Doomed(k) = {}
        BY Zenon DEF SetsPartitionAlive
      <3>4. ASSUME NEW k \in Loops
            PROVE  /\ \A t \in m_sessions'[k] \cup m_delete_later'[k] \cup Doomed(k)' :
                        t \in alive' /\ home'[t] = k
                   /\ m_sessions'[k] \cap m_delete_later'[k] = {}
                   /\ m_sessions'[k] \cap Doomed(k)' = {}
                   /\ m_delete_later'[k] \cap Doomed(k)' = {}
        BY Zenon, <1>0, <1>2, <3>1, <3>3
      <3>5. ASSUME NEW t \in alive'
            PROVE  t \in session' \cup m_sessions'[home'[t]] \cup m_delete_later'[home'[t]]
                               \cup Doomed(home[t])'
        BY Zenon, <1>0, <1>2, <1>4, <2>1, <3>2
      <3> QED BY Zenon, <3>4, <3>5, <1>0 DEF SetsPartitionAlive, Doomed
    <2>4. BorrowedIsRegistered'
      <3>1. \A k \in Loops : m_sessions[k] \subseteq m_sessions'[k]
        BY Zenon, <1>1, <2>1
      <3>2. \A t \in Sessions : home[t] \in Loops
        BY Zenon DEF TypeOK, SessionTypeOK
      <3> QED BY SMTT(40), Z3T(40), <1>0, <1>2, <2>1, <3>1, <3>2 DEF BorrowedIsRegistered
    <2>5. LoopsGoInOrder'
      BY Zenon, <1>0, <1>1, <2>1 DEF LoopsGoInOrder
    <2> QED BY Zenon, <2>2, <2>3, <2>4, <2>5
  <1>6. CASE RegisterAdd(s)
    <2>1. /\ UNCHANGED m_sessions /\ accept = "inserted" /\ accept' = "added" /\ session' = {}
          /\ \A t \in Sessions \ {s} : epoll'[t] = epoll[t]
          /\ s \in m_sessions[home[s]]
      <3>1. /\ UNCHANGED m_sessions /\ accept = "inserted" /\ accept' = "added" /\ session' = {}
            /\ \E x \in {"io", "hup"} : epoll' = [epoll EXCEPT ![s] = x]
        BY Zenon, <1>6 DEF RegisterAdd
      <3>2. epoll \in [Sessions -> {"absent", "quiet", "io", "hup"}]
        BY Zenon DEF TypeOK, SessionTypeOK
      <3>3. \A t \in Sessions \ {s} : epoll'[t] = epoll[t]
        <4> HIDE DEF SafetyInv
        <4> QED BY Zenon, <3>1, <3>2
      <3>4. s \in m_sessions[best_loop]
        BY Zenon, <1>0, <3>1 DEF SetUpIsPrivate
      <3> QED BY Zenon, <1>1, <3>1, <3>3, <3>4
    <2>2. SetUpIsPrivate'
      BY Zenon, <2>1 DEF SetUpIsPrivate
    <2>3. SetsPartitionAlive'
      <3>1. ASSUME NEW k \in Loops
            PROVE  /\ \A t \in m_sessions'[k] \cup m_delete_later'[k] \cup Doomed(k)' :
                        t \in alive' /\ home'[t] = k
                   /\ m_sessions'[k] \cap m_delete_later'[k] = {}
                   /\ m_sessions'[k] \cap Doomed(k)' = {}
                   /\ m_delete_later'[k] \cap Doomed(k)' = {}
        BY Zenon, <1>0, <1>2, <2>1 DEF SetsPartitionAlive
      <3>2. ASSUME NEW t \in alive'
            PROVE  t \in session' \cup m_sessions'[home'[t]] \cup m_delete_later'[home'[t]]
                               \cup Doomed(home[t])'
        <4>1. t \in session \cup m_sessions[home[t]] \cup m_delete_later[home[t]]
                       \cup Doomed(home[t])
          BY Zenon, <1>0 DEF SetsPartitionAlive
        <4>2. t \in session => t \in m_sessions[home[t]]
          BY Zenon, <1>1, <2>1
        <4>3. Doomed(home[t])' = Doomed(home[t])
          BY Zenon, <1>0, <1>2, <1>4
        <4> QED BY Zenon, <4>1, <4>2, <4>3, <1>0, <2>1
      <3> QED BY Zenon, <3>1, <3>2, <1>0 DEF SetsPartitionAlive, Doomed
    <2>4. BorrowedIsRegistered'
      BY <1>0, <1>2, <2>1 DEF BorrowedIsRegistered
    <2>5. LoopsGoInOrder'
      BY Zenon, <1>0, <2>1 DEF LoopsGoInOrder
    <2> QED BY Zenon, <2>2, <2>3, <2>4, <2>5
  <1> QED BY Zenon, <1>5, <1>6

\* delete session in the catch of the accept loop, and in ~sessions_event_loop.
LEMMA SafetyAcceptDelete ==
    ASSUME SafetyInv, TypeOK', NEW s \in Sessions,
           (~ScanRace /\ DeleteFailed(s)) \/ Reclaim(s)
    PROVE  SafetyInv'
  <1> USE DEF SafetyInv
  <1>0. /\ UNCHANGED <<pc, m_wakeup_sessions, events, todo, best_loop, stopping>>
        /\ Destroy(s) /\ best_loop \in Loops
    BY Zenon DEF DeleteFailed, Reclaim, loopVars, acceptVars, TypeOK
  <1>1. s \in m_sessions[best_loop] /\ s \in alive /\ home[s] = best_loop
    BY Zenon, <1>0 DEF DeleteFailed, Reclaim, SetUpIsPrivate, SetsPartitionAlive
  <1>2. \/ s \notin session /\ UNCHANGED <<accept, session>>
        \/ accept = "failed" /\ accept' = "idle" /\ session = {s} /\ session' = {}
    BY Zenon DEF DeleteFailed, Reclaim, acceptVars, SetUpIsPrivate
  <1>3. \A e \in events[best_loop] : e[1] # s
    <2>1. CASE Reclaim(s)
      BY Zenon, <2>1 DEF Reclaim, LoopsGoInOrder, BorrowedIsRegistered, TypeOK
    <2>2. CASE DeleteFailed(s)
      <3>1. SUFFICES ASSUME NEW e \in events[best_loop], e[1] = s PROVE FALSE
        BY Zenon
      <3>2. e \in Sessions \X {"io", "hup"}
        BY Zenon, <1>0, <3>1 DEF TypeOK, LoopTypeOK
      <3>3. e = <<s, e[2]>> /\ e[2] \in {"io", "hup"}
        BY <3>1, <3>2
      <3>4. <<s, e[2]>> \in events[best_loop]
        BY Zenon, <3>1, <3>3
      <3>5. s \in session
        BY Zenon, <2>2 DEF DeleteFailed
      <3> QED BY Zenon, <1>0, <3>3, <3>4, <3>5 DEF SetUpIsPrivate
    <2> QED BY Zenon, <2>1, <2>2
  <1>4. s \notin Scanning(best_loop)
    BY Zenon DEF DeleteFailed, Reclaim, LoopsGoInOrder, Scanning
  <1>5. ASSUME NEW k \in Loops
        PROVE  /\ todo'[k] \in {todo[k], todo[k] \ {s}}
               /\ s \notin Scanning(k)' \cup Doomed(k)' \cup m_delete_later[k]
               /\ \A e \in events[k] : e[1] # s
    <2>1. s \notin Doomed(k) \cup m_delete_later[k]
      BY Zenon, <1>1 DEF SetsPartitionAlive
    <2>2. k # best_loop => s \notin m_sessions[k]
      BY Zenon, <1>1 DEF SetsPartitionAlive
    <2>3. s \notin Scanning(k)
      BY Zenon, <1>4, <2>2 DEF BorrowedIsRegistered
    <2>4. \A e \in events[k] : e[1] # s
      BY <1>3, <2>2 DEF BorrowedIsRegistered
    <2> QED BY Zenon, <1>0, <2>1, <2>3, <2>4 DEF Scanning, Doomed
  <1> QED BY Zenon, <1>0, <1>1, <1>2, <1>5, DestroyKeepsSafety

\* A destroyed loop had no session left.
LEMMA SafetyDestroyed ==
    ASSUME SafetyInv, TypeOK', Destroyed
    PROVE  SafetyInv'
  <1> USE DEF SafetyInv
  <1>0. /\ UNCHANGED <<alive, home, coroutine, epoll, m_sessions, m_delete_later, wakeuppers,
                       events, todo, m_wakeup_sessions, session, best_loop>>
        /\ accept = "reclaim" /\ m_sessions[best_loop] = {} /\ best_loop \in Loops
        /\ accept' \in {"plugins", "destroy"} /\ stopping' = stopping \ {best_loop}
        /\ accept' = "plugins" => stopping' = {}
    BY Zenon DEF Destroyed, sessionVars, TypeOK
  <1>1. /\ pc[best_loop] = "exited" /\ pc'[best_loop] = "destroyed"
        /\ \A k \in Loops \ {best_loop} : pc'[k] = pc[k]
    BY Zenon, <1>0 DEF Destroyed, Goto, LoopsGoInOrder, TypeOK, LoopTypeOK
  <1>2. \A k \in Loops : Doomed(k)' = Doomed(k) /\ Scanning(k)' = Scanning(k)
    BY Zenon, <1>0, <1>1 DEF Doomed, Scanning
  <1>3. SetUpIsPrivate'
    BY Zenon, <1>0 DEF SetUpIsPrivate
  <1>4. SetsPartitionAlive'
    <2>1. \A t \in alive : home[t] \in Loops
      BY Zenon DEF TypeOK, SessionTypeOK
    <2> QED BY ZenonT(60), <1>0, <1>2, <2>1 DEF SetsPartitionAlive, Doomed
  <1>5. BorrowedIsRegistered'
    BY ZenonT(60), <1>0, <1>1, <1>2 DEF BorrowedIsRegistered
  <1>6. LoopsGoInOrder'
    BY Zenon, <1>0, <1>1 DEF LoopsGoInOrder
  <1> QED BY Zenon, <1>3, <1>4, <1>5, <1>6

-----------------------------------------------------------------------------
(* Workers and peers *)

\* A worker only moves a wake-up that is outstanding; a peer only makes
\* noise on a socket that is in an epoll set.
LEMMA SafetyOthers ==
    ASSUME SafetyInv, TypeOK', UNCHANGED acceptVars, NEW s \in Sessions,
           \/ \E l \in Loops : WakeupInsert(l, s) \/ WakeupSignal(l, s)
           \/ (PeerSends(s) \/ PeerHangsUp(s)) /\ UNCHANGED loopVars
    PROVE  SafetyInv'
  <1> USE DEF SafetyInv
  <1>0. UNCHANGED <<alive, home, coroutine, m_sessions, m_delete_later, pc, events, todo,
                    accept, session, best_loop, stopping>>
    BY Zenon DEF WakeupInsert, WakeupSignal, PeerSends, PeerHangsUp, sessionVars, loopVars, acceptVars
  <1>1. ASSUME NEW t \in Sessions PROVE (epoll'[t] = "absent") <=> (epoll[t] = "absent")
    BY ZenonT(60) DEF WakeupInsert, WakeupSignal, PeerSends, PeerHangsUp, sessionVars, TypeOK, SessionTypeOK
  <1>2. \A k \in Loops : Doomed(k)' = Doomed(k) /\ Scanning(k)' = Scanning(k)
    BY Zenon, <1>0 DEF Doomed, Scanning
  <1>3. SetUpIsPrivate'
    <2>1. ASSUME NEW t \in session PROVE ~Outstanding(t)'
      <3>1. ~Outstanding(t)
        BY Zenon DEF SetUpIsPrivate
      <3>2. CASE \E l \in Loops : WakeupInsert(l, s)
        <4>1. PICK l \in Loops : WakeupInsert(l, s)
          BY Zenon, <3>2
        <4>2. t # s
          BY Zenon, <3>1, <4>1 DEF Outstanding, WakeupInsert
        <4>3. \A k \in Loops : t \in m_wakeup_sessions'[k] => t \in m_wakeup_sessions[k]
          BY Zenon, <4>1, <4>2 DEF WakeupInsert, TypeOK, LoopTypeOK
        <4> QED BY Zenon, <4>1, <4>3, <3>1, <1>0 DEF Outstanding, WakeupInsert
      <3>3. CASE \E l \in Loops : WakeupSignal(l, s)
        BY Zenon, <3>1, <3>3, <1>0 DEF Outstanding, WakeupSignal
      <3>4. CASE (PeerSends(s) \/ PeerHangsUp(s)) /\ UNCHANGED loopVars
        BY Zenon, <3>1, <3>4, <1>0 DEF Outstanding, PeerSends, PeerHangsUp, loopVars
      <3> QED BY Zenon, <3>2, <3>3, <3>4
    <2>2. \A t \in session : t \in Sessions
      BY Zenon DEF TypeOK
    <2> QED BY ZenonT(60), <2>1, <2>2, <1>0, <1>1, <1>2 DEF SetUpIsPrivate
  <1>4. SetsPartitionAlive'
    <2>1. \A t \in alive : home[t] \in Loops
      BY Zenon DEF TypeOK, SessionTypeOK
    <2> QED BY Zenon, <1>0, <1>2, <2>1 DEF SetsPartitionAlive, Doomed
  <1>5. BorrowedIsRegistered'
    BY Zenon, <1>0, <1>1, <1>2 DEF BorrowedIsRegistered
  <1>6. LoopsGoInOrder'
    BY Zenon, <1>0 DEF LoopsGoInOrder
  <1> QED BY Zenon, <1>3, <1>4, <1>5, <1>6

-----------------------------------------------------------------------------
(* The theorems *)

LEMMA SafetyInit == ASSUME Init, TypeOK PROVE SafetyInv
  <1>2. SetUpIsPrivate
    BY Zenon DEF Init, SetUpIsPrivate
  <1>3. SetsPartitionAlive
    BY Zenon DEF Init, SessionInit, LoopInit, SetsPartitionAlive, Doomed
  <1>4. BorrowedIsRegistered
    BY Zenon DEF Init, SessionInit, LoopInit, BorrowedIsRegistered, Scanning
  <1>5. LoopsGoInOrder
    BY Zenon DEF Init, LoopInit, LoopsGoInOrder
  <1> QED BY Zenon, <1>2, <1>3, <1>4, <1>5 DEF SafetyInv

LEMMA SafetyStutter == ASSUME SafetyInv, UNCHANGED vars, TypeOK' PROVE SafetyInv'
  <1>1. UNCHANGED <<alive, home, coroutine, epoll, m_sessions, m_delete_later, wakeuppers,
                    pc, events, todo, m_wakeup_sessions, session, accept, best_loop, stopping>>
    BY Zenon DEF vars, sessionVars, loopVars, acceptVars
  <1>2. LoopsGoInOrder'
    BY Zenon, <1>1 DEF SafetyInv, LoopsGoInOrder
  <1> QED BY Zenon, <1>1, <1>2, AcceptMoveKeepsSafety

LEMMA SafetyNext ==
    ASSUME ~StaleReuse, ~ScanRace, SafetyInv, Next, TypeOK'
    PROVE  SafetyInv'
  <1>1. CASE \E p \in Peers : Accept(p)
    BY Zenon, <1>1, SafetyAcceptMove
  <1>2. CASE AcceptSteps
    BY Zenon, <1>2, SafetyAcceptMove, SafetyCreate, SafetyRegister, SafetyAcceptDelete DEF AcceptSteps
  <1>3. CASE BeginShutdown
    BY Zenon, <1>3, SafetyAcceptMove
  <1>4. CASE ShutdownThread
    BY Zenon, <1>4, SafetyAcceptMove, SafetyAcceptDelete, SafetyDestroyed DEF ShutdownThread
  <1>5. CASE \E l \in Loops : LoopThread(l)
    BY Zenon, <1>5, SafetyLoopThread
  <1>6. CASE Worker
    BY Zenon, <1>6, SafetyOthers DEF Worker
  <1>7. CASE Environment
    BY Zenon, <1>7, SafetyOthers, SafetyLoopThread DEF Environment
  <1>8. CASE Returned
    BY Zenon, <1>8, SafetyStutter DEF Returned
  <1> QED BY Zenon, <1>1, <1>2, <1>3, <1>4, <1>5, <1>6, <1>7, <1>8 DEF Next

\* SafetyInv holds in every state of the server, for any number of sessions,
\* loops and peers, in every interleaving of the accepting thread, the loop
\* threads, the worker threads and the peers.
THEOREM SafetyInvariant == ~StaleReuse /\ ~ScanRace => (Spec => []SafetyInv)
  <1>1. ASSUME ~StaleReuse, ~ScanRace PROVE SafetyInv /\ TypeOK' /\ [Next]_vars => SafetyInv'
    BY Zenon, <1>1, SafetyNext, SafetyStutter
  <1>2. Init /\ TypeOK => SafetyInv
    BY Zenon, SafetyInit
  <1>3. ASSUME ~StaleReuse, ~ScanRace PROVE Spec => []SafetyInv
    BY <1>1, <1>2, <1>3, TypeCorrect, PTL DEF Spec
  <1> QED BY Zenon, <1>3

\* Every pointer that a thread of the server dereferences, in process_events,
\* wakeup, timeout, delete_later or a delete, points to a live session.
THEOREM MemorySafe == ~StaleReuse /\ ~ScanRace => (Spec => []NoDanglingPointer)
  <1>1. SafetyInv => NoDanglingPointer
    <2> SUFFICES ASSUME SafetyInv PROVE NoDanglingPointer
      BY Zenon
    <2>1. session \subseteq alive
      BY Zenon DEF SafetyInv, SetUpIsPrivate
    <2>2. ASSUME NEW l \in Loops
          PROVE  /\ m_sessions[l] \cup m_delete_later[l] \cup Doomed(l) \subseteq alive
                 /\ Borrowed(l) \subseteq m_sessions[l]
      <3>1. m_sessions[l] \cup m_delete_later[l] \cup Doomed(l) \subseteq alive
        BY Zenon DEF SafetyInv, SetsPartitionAlive
      <3>2. Scanning(l) \subseteq m_sessions[l] /\ \A e \in events[l] : e[1] \in m_sessions[l]
        BY Zenon DEF SafetyInv, BorrowedIsRegistered
      <3> QED BY Zenon, <3>1, <3>2 DEF Borrowed
    <2> QED BY Zenon, <2>1, <2>2 DEF NoDanglingPointer
  <1>2. ASSUME ~StaleReuse, ~ScanRace PROVE Spec => []NoDanglingPointer
    BY <1>1, <1>2, SafetyInvariant, PTL
  <1> QED BY Zenon, <1>2

\* Every live session is in exactly one place that deletes it: delete_later,
\* the accept loop's catch and ~sessions_event_loop together delete each
\* session once, and none is forgotten.
THEOREM NoLeakNoDoubleDelete == ~StaleReuse /\ ~ScanRace => (Spec => []OwnedExactlyOnce)
  <1>1. SafetyInv => OwnedExactlyOnce
    <2> SUFFICES ASSUME SafetyInv, NEW s \in alive
        PROVE  LET l == home[s]
                   others == Loops \ {l}
               IN  /\ \A k \in others : s \notin m_sessions[k] \cup m_delete_later[k] \cup Doomed(k)
                   /\ \/ s \in Unregistered /\ s \notin m_sessions[l] \cup m_delete_later[l] \cup Doomed(l)
                      \/ s \in m_sessions[l] /\ s \notin Unregistered \cup m_delete_later[l] \cup Doomed(l)
                      \/ s \in m_delete_later[l] /\ s \notin Unregistered \cup m_sessions[l] \cup Doomed(l)
                      \/ s \in Doomed(l) /\ s \notin Unregistered \cup m_sessions[l] \cup m_delete_later[l]
      BY Zenon DEF OwnedExactlyOnce
    <2>1. home[s] \in Loops
      BY Zenon DEF SafetyInv, TypeOK, SessionTypeOK
    <2>2. \A k \in Loops \ {home[s]} : s \notin m_sessions[k] \cup m_delete_later[k] \cup Doomed(k)
      BY Zenon DEF SafetyInv, SetsPartitionAlive
    <2>3. /\ s \in session \cup m_sessions[home[s]] \cup m_delete_later[home[s]] \cup Doomed(home[s])
          /\ m_sessions[home[s]] \cap m_delete_later[home[s]] = {}
          /\ m_sessions[home[s]] \cap Doomed(home[s]) = {}
          /\ m_delete_later[home[s]] \cap Doomed(home[s]) = {}
      BY Zenon, <2>1 DEF SafetyInv, SetsPartitionAlive
    <2>4. s \in session => /\ s \in m_sessions[home[s]] <=> accept # "created"
                           /\ s \notin m_delete_later[home[s]] \cup Doomed(home[s])
      BY Zenon, <2>1 DEF SafetyInv, SetUpIsPrivate
    <2> QED BY Zenon, <2>2, <2>3, <2>4 DEF Unregistered
  <1>2. ASSUME ~StaleReuse, ~ScanRace PROVE Spec => []OwnedExactlyOnce
    BY <1>1, <1>2, SafetyInvariant, PTL
  <1> QED BY Zenon, <1>2

-----------------------------------------------------------------------------
(* A finished session is reported *)

\* Of a registered session: it is in the epoll set, unless it is still being
\* registered, and once its coroutine is over its hang-up is on its way.
Reported(l, t) ==
    /\ t \notin session => epoll[t] # "absent"
    /\ coroutine[t] = "over" => epoll[t] = "hup" \/ <<t, "hup">> \in events[l]

ReportInv == \A l \in Loops : \A t \in m_sessions[l] : Reported(l, t)

LEMMA ReportKept ==
    ASSUME NEW l \in Loops, NEW t, Reported(l, t), epoll'[t] = epoll[t], coroutine'[t] = coroutine[t],
           <<t, "hup">> \in events[l] => <<t, "hup">> \in events'[l],
           t \in session => t \in session'
    PROVE  Reported(l, t)'
  BY Zenon DEF Reported

\* Steps that run no session and wait for none.
LEMMA ReportSame ==
    ASSUME ReportInv, UNCHANGED <<m_sessions, epoll, coroutine, events, session>>
    PROVE  ReportInv'
  BY Zenon DEF ReportInv, Reported

\* The session goes.
LEMMA ReportDestroy ==
    ASSUME SafetyInv, ReportInv, NEW s \in Sessions, Destroy(s), UNCHANGED events,
           session' = session \/ (session = {s} /\ session' = {})
    PROVE  ReportInv'
  <1> SUFFICES ASSUME NEW l \in Loops, NEW t \in m_sessions'[l] PROVE Reported(l, t)'
    BY Zenon DEF ReportInv
  <1>1. home[s] \in Loops /\ \A k \in Loops : m_sessions[k] \subseteq Sessions
    BY Zenon DEF SafetyInv, TypeOK, SessionTypeOK
  <1>2. t \in m_sessions[l] /\ t # s
    <2>1. m_sessions' = [m_sessions EXCEPT ![home[s]] = @ \ {s}]
      BY Zenon DEF Destroy, Unregister
    <2>2. m_sessions'[l] = IF l = home[s] THEN m_sessions[l] \ {s} ELSE m_sessions[l]
      BY Zenon, <1>1, <2>1 DEF SafetyInv, TypeOK, SessionTypeOK
    <2>3. s \in m_sessions[l] => l = home[s]
      BY Zenon DEF SafetyInv, SetsPartitionAlive
    <2> QED BY Zenon, <2>2, <2>3
  <1>3. t \in Sessions
    BY Zenon, <1>1, <1>2
  <1>4. epoll'[t] = epoll[t] /\ coroutine'[t] = coroutine[t]
    <2>1. epoll' = epoll \/ epoll' = [epoll EXCEPT ![s] = "absent"]
      BY Zenon DEF Destroy, Unregister
    <2>2. coroutine' = [coroutine EXCEPT ![s] = "over"]
      BY Zenon DEF Destroy
    <2> QED BY Zenon, <1>2, <1>3, <2>1, <2>2 DEF SafetyInv, TypeOK, SessionTypeOK
  <1> QED BY Zenon, <1>2, <1>4, ReportKept DEF ReportInv

\* A loop runs a registered session, up to a yield or to its end.
LEMMA ReportRun ==
    ASSUME SafetyInv, ReportInv, NEW s \in Sessions, s \in m_sessions[home[s]], s \notin session,
           ResumeOrDelete(s) \/ Timeout(s), UNCHANGED session,
           \A l \in Loops : \A t \in Sessions \ {s} : <<t, "hup">> \in events[l] => <<t, "hup">> \in events'[l]
    PROVE  ReportInv'
  <1> SUFFICES ASSUME NEW l \in Loops, NEW t \in m_sessions'[l] PROVE Reported(l, t)'
    BY Zenon DEF ReportInv
  <1>0. /\ home[s] \in Loops /\ \A k \in Loops : m_sessions[k] \subseteq Sessions
        /\ epoll \in [Sessions -> {"absent", "quiet", "io", "hup"}]
        /\ coroutine \in [Sessions -> {"fresh", "suspended", "over"}]
        /\ m_sessions \in [Loops -> SUBSET Sessions]
    BY Zenon DEF SafetyInv, TypeOK, SessionTypeOK
  <1>1. \/ coroutine' = [coroutine EXCEPT ![s] = "suspended"] /\ UNCHANGED <<epoll, m_sessions>>
        \/ /\ coroutine' = [coroutine EXCEPT ![s] = "over"] /\ UNCHANGED m_sessions
           /\ epoll' = [epoll EXCEPT ![s] = IF epoll[s] = "absent" THEN epoll[s] ELSE "hup"]
        \/ /\ m_sessions' = [m_sessions EXCEPT ![home[s]] = @ \ {s}]
           /\ epoll' = [epoll EXCEPT ![s] = "absent"]
           /\ coroutine' = coroutine \/ coroutine' = [coroutine EXCEPT ![s] = "over"]
    <2>1. DeleteLater(s) => /\ m_sessions' = [m_sessions EXCEPT ![home[s]] = @ \ {s}]
                            /\ epoll' = [epoll EXCEPT ![s] = "absent"]
      BY Zenon DEF DeleteLater, Unregister
    <2> QED BY Zenon, <2>1 DEF ResumeOrDelete, Resume, Timeout, QuitAndDelete
  <1>2. epoll[s] # "absent"
    BY Zenon, <1>0 DEF ReportInv, Reported
  <1>3. t \in m_sessions[l] /\ t \in Sessions
    <2>1. m_sessions'[l] \subseteq m_sessions[l]
      BY <1>0, <1>1
    <2> QED BY Zenon, <1>0, <2>1
  <1>4. CASE t # s
    <2>1. epoll'[t] = epoll[t] /\ coroutine'[t] = coroutine[t]
      BY Zenon, <1>0, <1>1, <1>3, <1>4
    <2> QED BY Zenon, <1>3, <1>4, <2>1, ReportKept DEF ReportInv
  <1>5. CASE t = s
    <2>1. l = home[s]
      BY Zenon, <1>3, <1>5 DEF SafetyInv, SetsPartitionAlive
    <2>2. ~(m_sessions' = [m_sessions EXCEPT ![home[s]] = @ \ {s}])
      BY Zenon, <1>0, <1>5, <2>1
    <2>3. \/ coroutine'[s] = "suspended" /\ epoll'[s] = epoll[s]
          \/ epoll'[s] = "hup"
      BY Zenon, <1>0, <1>1, <1>2, <2>2
    <2> QED BY Zenon, <1>2, <1>5, <2>3 DEF Reported
  <1> QED BY Zenon, <1>4, <1>5

LEMMA ReportEpollWait ==
    ASSUME SafetyInv, ReportInv, NEW l \in Loops, EpollWait(l), UNCHANGED session
    PROVE  ReportInv'
  <1> SUFFICES ASSUME NEW k \in Loops, NEW t \in m_sessions[k] PROVE Reported(k, t)'
    BY Zenon DEF ReportInv, EpollWait
  <1>0. t \in Sessions /\ home[t] = k /\ Reported(k, t)
    BY Zenon DEF SafetyInv, TypeOK, SessionTypeOK, SetsPartitionAlive, ReportInv
  <1>1. /\ epoll'[t] = IF t \in Ready(l) THEN "quiet" ELSE epoll[t]
        /\ coroutine'[t] = coroutine[t]
    BY Zenon, <1>0 DEF EpollWait
  <1>2. CASE k # l
    <2>1. t \notin Ready(l)
      BY Zenon, <1>0, <1>2 DEF Ready
    <2>2. events'[k] = events[k]
      BY Zenon, <1>2 DEF EpollWait, SafetyInv, TypeOK, LoopTypeOK
    <2> QED BY Zenon, <1>0, <1>1, <2>1, <2>2, ReportKept
  <1>3. CASE k = l
    <2>1. events[l] = {} /\ events'[l] = {<<s, epoll[s]>> : s \in Ready(l)}
      BY Zenon DEF EpollWait, SafetyInv, BorrowedIsRegistered, TypeOK, LoopTypeOK
    <2>2. epoll[t] = "hup" => t \in Ready(l)
      BY Zenon, <1>0, <1>3 DEF Ready
    <2>3. epoll[t] = "hup" => <<t, "hup">> \in events'[l]
      BY Zenon, <2>1, <2>2
    <2>4. epoll[t] # "absent" => epoll'[t] # "absent"
      BY Zenon, <1>1
    <2> QED BY Zenon, <1>0, <1>1, <1>3, <2>1, <2>3, <2>4 DEF Reported
  <1> QED BY Zenon, <1>2, <1>3

LEMMA ReportProcessEvent ==
    ASSUME SafetyInv, ReportInv, NEW l \in Loops, ProcessEvent(l), UNCHANGED session
    PROVE  ReportInv'
  <1> USE DEF SafetyInv
  <1>1. PICK e \in events[l] : events' = [events EXCEPT ![l] = @ \ {e}] /\ ProcessEvents(e[1], e[2])
    BY Zenon DEF ProcessEvent
  <1>2. e \in Sessions \X {"io", "hup"}
    BY Zenon, <1>1 DEF TypeOK, LoopTypeOK
  <1>3. e[1] \in Sessions /\ e[2] \in {"io", "hup"} /\ e = <<e[1], e[2]>>
    BY <1>2
  <1>4. e[1] \in m_sessions[l] /\ home[e[1]] = l /\ e[1] \notin session
    <2>1. e[1] \in m_sessions[l]
      BY Zenon, <1>1 DEF BorrowedIsRegistered
    <2>2. <<e[1], e[2]>> \in events[l]
      BY Zenon, <1>1, <1>3
    <2> QED BY Zenon, <1>3, <2>1, <2>2 DEF SetUpIsPrivate, SetsPartitionAlive
  <1>5. ResumeOrDelete(e[1]) \/ Timeout(e[1])
    BY Zenon, <1>1, <1>3 DEF ProcessEvents, Timeout
  <1>6. ASSUME NEW k \in Loops, NEW t \in Sessions \ {e[1]}, <<t, "hup">> \in events[k] PROVE <<t, "hup">> \in events'[k]
    <2>1. <<t, "hup">> # e
      BY <1>6, <1>3
    <2> QED BY Zenon, <1>1, <1>6, <2>1 DEF TypeOK, LoopTypeOK
  <1> HIDE DEF SafetyInv
  <1> QED BY Zenon, <1>3, <1>4, <1>5, <1>6, ReportRun

LEMMA ReportLoopThread ==
    ASSUME SafetyInv, ReportInv, NEW l \in Loops, LoopThread(l) PROVE ReportInv'
  <1>0. UNCHANGED session
    BY Zenon DEF LoopThread, acceptVars
  <1>1. CASE Head(l) \/ Drain(l) \/ SwapWakeups(l) \/ WakeupsDone(l) \/ CheckDeadline(l) \/ ScanDone(l) \/ SwapDeleteLater(l)
             \/ DeleteDone(l)
    <2>1. UNCHANGED <<m_sessions, epoll, coroutine, events>>
      BY Zenon, <1>1 DEF Head, Drain, SwapWakeups, WakeupsDone, CheckDeadline, ScanDone, SwapDeleteLater, DeleteDone, sessionVars
    <2> QED BY Zenon, <1>0, <2>1, ReportSame
  <1>2. ASSUME NEW s \in todo[l], UNCHANGED events PROVE
           /\ UNCHANGED sessionVars => ReportInv'
           /\ s \in m_sessions[l] /\ s \notin session /\ (ResumeOrDelete(s) \/ Timeout(s)) => ReportInv'
    <2>1. CASE UNCHANGED sessionVars
      BY Zenon, <1>0, <1>2, <2>1, ReportSame DEF sessionVars
    <2>2. CASE s \in m_sessions[l] /\ s \notin session /\ (ResumeOrDelete(s) \/ Timeout(s))
      <3>1. s \in Sessions /\ home[s] = l
        BY Zenon, <2>2 DEF SafetyInv, TypeOK, SessionTypeOK, SetsPartitionAlive
      <3> QED BY Zenon, <1>0, <1>2, <2>2, <3>1, ReportRun
    <2> QED BY Zenon, <2>1, <2>2
  <1>3. CASE WakeupOne(l)
    <2>1. PICK s \in todo[l] : /\ pc[l] = "wakeups" /\ UNCHANGED events
                               /\ IF s \in m_sessions[l] THEN Wakeup(s) ELSE UNCHANGED <<sessionVars, wakeuppers>>
      BY Zenon, <1>3 DEF WakeupOne
    <2>2. s \notin session
      BY Zenon, <2>1 DEF SafetyInv, SetUpIsPrivate, Outstanding
    <2> QED BY Zenon, <1>2, <2>1, <2>2 DEF Wakeup
  <1>4. CASE ScanOne(l, session)
    <2>1. PICK s \in todo[l] : /\ pc[l] = "scan" /\ UNCHANGED events
                               /\ UNCHANGED <<sessionVars, wakeuppers>> \/ (s \notin session /\ Timeout(s))
      BY Zenon, <1>4 DEF ScanOne
    <2>2. s \in m_sessions[l]
      BY Zenon, <2>1 DEF SafetyInv, BorrowedIsRegistered, Scanning
    <2> QED BY Zenon, <1>2, <2>1, <2>2
  <1>5. CASE DeleteOne(l)
    <2>1. PICK s \in todo[l] : Destroy(s) /\ UNCHANGED events
      BY Zenon, <1>5 DEF DeleteOne
    <2>2. s \in Sessions
      BY Zenon, <2>1 DEF SafetyInv, TypeOK, LoopTypeOK
    <2> QED BY Zenon, <1>0, <2>1, <2>2, ReportDestroy
  <1> QED BY Zenon, <1>0, <1>1, <1>3, <1>4, <1>5, ReportEpollWait, ReportProcessEvent DEF LoopThread

LEMMA ReportAccept ==
    ASSUME SafetyInv, TypeOK', ReportInv, (\E p \in Peers : Accept(p)) \/ AcceptSteps \/ BeginShutdown \/ ShutdownThread
    PROVE  ReportInv'
  <1>1. CASE (\E p \in Peers : Accept(p)) \/ Choose \/ CreateFails \/ RegisterCount \/ RegisterFails \/ BeginShutdown
             \/ (\E l \in Loops : QuitStore(l) \/ BeginDestroy(l)) \/ QuitSignal \/ Join \/ Destroyed \/ ClearPlugins
    <2>1. UNCHANGED <<m_sessions, epoll, coroutine, events, session>>
      BY Zenon, <1>1 DEF Accept, Choose, CreateFails, RegisterCount, RegisterFails, BeginShutdown, QuitStore, BeginDestroy,
                         QuitSignal, Join, Destroyed, ClearPlugins, sessionVars, loopVars
    <2> QED BY Zenon, <2>1, ReportSame
  <1>2. ASSUME NEW s \in Sessions, Create(s) PROVE ReportInv'
    <2>0. session = {}
      <3>1. accept \notin {"created", "inserted", "failed"}
        BY <1>2 DEF Create
      <3> QED BY Zenon, <3>1 DEF SafetyInv, SetUpIsPrivate
    <2>1. /\ UNCHANGED <<m_sessions, epoll, events>> /\ session' = {s} /\ coroutine' = [coroutine EXCEPT ![s] = "fresh"]
          /\ session = {}
      BY Zenon, <1>2, <2>0 DEF Create, loopVars
    <2> SUFFICES ASSUME NEW l \in Loops, NEW t \in m_sessions[l] PROVE Reported(l, t)'
      BY Zenon, <2>1 DEF ReportInv
    <2>2. t \in Sessions /\ t # s
      <3>1. t \in alive /\ s \notin alive
        BY Zenon, <1>2 DEF SafetyInv, SetsPartitionAlive, Create
      <3> QED BY Zenon, <3>1 DEF SafetyInv, TypeOK, SessionTypeOK
    <2>3. coroutine'[t] = coroutine[t]
      BY Zenon, <2>1, <2>2 DEF SafetyInv, TypeOK, SessionTypeOK
    <2> QED BY Zenon, <2>1, <2>3, ReportKept DEF ReportInv
  <1>3. ASSUME NEW s \in Sessions, RegisterInsert(s) PROVE ReportInv'
    <2>1. /\ UNCHANGED <<coroutine, epoll, events, session>> /\ s \in session /\ coroutine[s] = "fresh"
          /\ m_sessions' = [m_sessions EXCEPT ![best_loop] = @ \cup {s}]
      BY Zenon, <1>3 DEF RegisterInsert, loopVars, SafetyInv, SetUpIsPrivate
    <2> SUFFICES ASSUME NEW l \in Loops, NEW t \in m_sessions'[l] PROVE Reported(l, t)'
      BY Zenon DEF ReportInv
    <2>2. t = s \/ t \in m_sessions[l]
      BY Zenon, <2>1 DEF SafetyInv, TypeOK, SessionTypeOK
    <2>3. CASE t = s
      BY Zenon, <2>1, <2>3 DEF Reported
    <2>4. CASE t \in m_sessions[l]
      BY Zenon, <2>1, <2>4, ReportKept DEF ReportInv
    <2> QED BY Zenon, <2>2, <2>3, <2>4
  <1>4. ASSUME NEW s \in Sessions, RegisterAdd(s) PROVE ReportInv'
    <2>1. PICK event \in {"io", "hup"} :
            /\ UNCHANGED <<coroutine, events, m_sessions>> /\ session = {s} /\ session' = {} /\ coroutine[s] = "fresh"
            /\ epoll' = [epoll EXCEPT ![s] = event]
      BY Zenon, <1>4 DEF RegisterAdd, loopVars, SafetyInv, SetUpIsPrivate
    <2> SUFFICES ASSUME NEW l \in Loops, NEW t \in m_sessions[l] PROVE Reported(l, t)'
      BY Zenon, <2>1 DEF ReportInv
    <2>2. t \in Sessions /\ epoll'[s] = event /\ (t # s => epoll'[t] = epoll[t])
      BY Zenon, <2>1 DEF SafetyInv, TypeOK, SessionTypeOK
    <2>3. CASE t = s
      BY Zenon, <2>1, <2>2, <2>3 DEF Reported
    <2>4. CASE t # s
      BY Zenon, <2>1, <2>2, <2>4, ReportKept DEF ReportInv
    <2> QED BY Zenon, <2>3, <2>4
  <1>5. ASSUME NEW s \in Sessions, DeleteFailed(s) PROVE ReportInv'
    <2>1. Destroy(s) /\ UNCHANGED events /\ session = {s} /\ session' = {}
      BY Zenon, <1>5 DEF DeleteFailed, loopVars, SafetyInv, SetUpIsPrivate
    <2> QED BY Zenon, <2>1, ReportDestroy
  <1>6. ASSUME NEW s \in Sessions, Reclaim(s) PROVE ReportInv'
    <2>1. Destroy(s) /\ UNCHANGED <<events, session>>
      BY Zenon, <1>6 DEF Reclaim, loopVars, acceptVars
    <2> QED BY Zenon, <2>1, ReportDestroy
  <1> QED BY Zenon, <1>1, <1>2, <1>3, <1>4, <1>5, <1>6 DEF AcceptSteps, ShutdownThread

LEMMA ReportOthers ==
    ASSUME SafetyInv, ReportInv, Worker \/ Environment PROVE ReportInv'
  <1>0. UNCHANGED session
    BY Zenon DEF Worker, Environment, acceptVars
  <1>1. CASE Worker \/ \E l \in Loops : EpollNothing(l)
    <2>1. UNCHANGED <<m_sessions, epoll, coroutine, events>>
      BY Zenon, <1>1 DEF Worker, WakeupInsert, WakeupSignal, EpollNothing, sessionVars
    <2> QED BY Zenon, <1>0, <2>1, ReportSame
  <1>2. ASSUME NEW s \in Sessions, PeerSends(s) \/ PeerHangsUp(s), UNCHANGED loopVars PROVE ReportInv'
    <2>1. PICK event \in {"io", "hup"} :
             /\ epoll' = [epoll EXCEPT ![s] = event] /\ epoll[s] # "hup" /\ UNCHANGED <<m_sessions, coroutine, events>>
      BY Zenon, <1>2 DEF PeerSends, PeerHangsUp, loopVars
    <2> SUFFICES ASSUME NEW l \in Loops, NEW t \in m_sessions[l] PROVE Reported(l, t)'
      BY Zenon, <2>1 DEF ReportInv
    <2>2. t \in Sessions /\ epoll'[s] = event /\ (t # s => epoll'[t] = epoll[t]) /\ Reported(l, t)
      BY Zenon, <2>1 DEF SafetyInv, TypeOK, SessionTypeOK, ReportInv
    <2>3. CASE t = s
      BY Zenon, <1>0, <2>1, <2>2, <2>3 DEF Reported
    <2>4. CASE t # s
      BY Zenon, <1>0, <2>1, <2>2, <2>4, ReportKept
    <2> QED BY Zenon, <2>3, <2>4
  <1> QED BY Zenon, <1>1, <1>2 DEF Environment

\* The hang-up that ends a finished session is never lost: for as long as the
\* session is registered, epoll has it pending or loop() has still to process
\* it (::shutdown in io_loop, EPOLLRDHUP in process_events).
THEOREM FinishedStaysReported == ~StaleReuse /\ ~ScanRace => (Spec => []FinishedIsReported)
  <1>1. Init => ReportInv
    BY Zenon DEF Init, SessionInit, ReportInv
  <1>2. SafetyInv /\ TypeOK' /\ ReportInv /\ [Next]_vars => ReportInv'
    <2> SUFFICES ASSUME SafetyInv, TypeOK', ReportInv, [Next]_vars PROVE ReportInv'
      BY Zenon
    <2>1. CASE UNCHANGED vars
      BY Zenon, <2>1, ReportSame DEF vars, sessionVars, loopVars, acceptVars
    <2> QED BY Zenon, <2>1, ReportAccept, ReportLoopThread, ReportOthers DEF Next, Returned
  <1>3. ReportInv => FinishedIsReported
    BY Zenon DEF ReportInv, Reported, FinishedIsReported
  <1>4. ASSUME ~StaleReuse, ~ScanRace PROVE Spec => []FinishedIsReported
    BY <1>1, <1>2, <1>3, <1>4, SafetyInvariant, TypeCorrect, PTL DEF Spec
  <1> QED BY Zenon, <1>4

-----------------------------------------------------------------------------
(* The connections of an address are counted exactly *)

Of(p) == {s \in alive : peer[s] = p}
Coming(p) == IF accept = "choose" /\ addr = p THEN 1 ELSE 0

CountInv ==
    /\ IsFiniteSet(alive)
    /\ \A p \in Peers : /\ connections_per_ip[p] = Cardinality(Of(p)) + Coming(p)
                        /\ connections_per_ip[p] <= MaxConnectionsPerIp

LEMMA OfIsFinite ==
    ASSUME IsFiniteSet(alive), NEW p PROVE IsFiniteSet(Of(p)) /\ Cardinality(Of(p)) \in Nat
  <1>1. Of(p) \in SUBSET alive
    BY Zenon DEF Of
  <1>2. IsFiniteSet(Of(p))
    BY <1>1, FS_Subset
  <1> QED BY <1>2, FS_CardinalityType

LEMMA CountSame ==
    ASSUME CountInv, UNCHANGED <<alive, peer, connections_per_ip>>,
           UNCHANGED <<accept, addr>> \/ (accept # "choose" /\ accept' # "choose")
    PROVE  CountInv'
  <1>1. \A p : Of(p)' = Of(p) /\ Coming(p)' = Coming(p)
    BY Zenon DEF Of, Coming
  <1> QED BY Zenon, <1>1 DEF CountInv

LEMMA CountAccept ==
    ASSUME TypeOK, CountInv, NEW p \in Peers, Accept(p) PROVE CountInv'
  <1>1. /\ UNCHANGED <<alive, peer>> /\ accept = "idle" /\ accept' = "choose" /\ addr' = p
        /\ connections_per_ip[p] < MaxConnectionsPerIp
        /\ connections_per_ip' = [connections_per_ip EXCEPT ![p] = connections_per_ip[p] + 1]
        /\ connections_per_ip \in [Peers -> Int]
    BY Zenon DEF Accept, TypeOK, SessionTypeOK
  <1>2. \A q \in Peers : Of(q)' = Of(q) /\ Coming(q) = 0 /\ Coming(q)' = IF q = p THEN 1 ELSE 0
    BY Zenon, <1>1 DEF Of, Coming
  <1>3. \A q \in Peers : Cardinality(Of(q)) \in Nat
    BY Zenon, OfIsFinite DEF CountInv
  <1>4. ASSUME NEW q \in Peers
        PROVE  /\ connections_per_ip'[q] = Cardinality(Of(q)') + Coming(q)'
               /\ connections_per_ip'[q] <= MaxConnectionsPerIp
    <2>1. /\ connections_per_ip[q] = Cardinality(Of(q)) + Coming(q) /\ connections_per_ip[q] <= MaxConnectionsPerIp
      BY Zenon DEF CountInv
    <2>2. Of(q)' = Of(q) /\ Coming(q) = 0 /\ Coming(q)' = IF q = p THEN 1 ELSE 0
      BY Zenon, <1>2
    <2>3. CASE q = p
      BY <1>1, <1>3, <2>1, <2>2, <2>3, ServerAssumption
    <2>4. CASE q # p
      BY <1>1, <1>3, <2>1, <2>2, <2>4, Zenon
    <2> QED BY Zenon, <2>3, <2>4
  <1> QED BY Zenon, <1>1, <1>4 DEF CountInv

LEMMA CountCreateFails ==
    ASSUME TypeOK, CountInv, CreateFails PROVE CountInv'
  <1>1. /\ UNCHANGED <<alive, peer, addr>> /\ accept = "choose" /\ accept' = "idle"
        /\ connections_per_ip' = [connections_per_ip EXCEPT ![addr] = connections_per_ip[addr] - 1]
        /\ connections_per_ip \in [Peers -> Int]
    BY Zenon DEF CreateFails, TypeOK, SessionTypeOK
  <1>2. \A q \in Peers : Of(q)' = Of(q) /\ Coming(q)' = 0 /\ Coming(q) = IF q = addr THEN 1 ELSE 0
    BY Zenon, <1>1 DEF Of, Coming
  <1>3. \A q \in Peers : Cardinality(Of(q)) \in Nat
    BY Zenon, OfIsFinite DEF CountInv
  <1>4. ASSUME NEW q \in Peers
        PROVE  /\ connections_per_ip'[q] = Cardinality(Of(q)') + Coming(q)'
               /\ connections_per_ip'[q] <= MaxConnectionsPerIp
    <2>1. /\ connections_per_ip[q] = Cardinality(Of(q)) + Coming(q) /\ connections_per_ip[q] <= MaxConnectionsPerIp
      BY Zenon DEF CountInv
    <2>2. Of(q)' = Of(q) /\ Coming(q)' = 0 /\ Coming(q) = IF q = addr THEN 1 ELSE 0
      BY Zenon, <1>2
    <2>3. CASE q = addr
      BY <1>1, <1>3, <2>1, <2>2, <2>3, ServerAssumption
    <2>4. CASE q # addr
      BY <1>1, <1>3, <2>1, <2>2, <2>4, Zenon
    <2> QED BY Zenon, <2>3, <2>4
  <1> QED BY Zenon, <1>1, <1>4 DEF CountInv

LEMMA CountCreate ==
    ASSUME TypeOK, CountInv, NEW s \in Sessions, Create(s) PROVE CountInv'
  <1>1. /\ s \notin alive /\ alive' = alive \cup {s} /\ peer' = [peer EXCEPT ![s] = addr]
        /\ accept = "choose" /\ accept' = "created" /\ UNCHANGED <<connections_per_ip, addr>>
        /\ peer \in [Sessions -> Peers] /\ alive \subseteq Sessions
    BY Zenon DEF Create, TypeOK, SessionTypeOK
  <1>2. IsFiniteSet(alive) /\ IsFiniteSet(alive')
    BY <1>1, FS_AddElement, Zenon DEF CountInv
  <1>3. peer'[s] = addr /\ \A t \in alive : peer'[t] = peer[t] /\ t # s
    BY Zenon, <1>1
  <1>4. ASSUME NEW q \in Peers
        PROVE  /\ connections_per_ip'[q] = Cardinality(Of(q)') + Coming(q)'
               /\ connections_per_ip'[q] <= MaxConnectionsPerIp
    <2>1. /\ connections_per_ip[q] = Cardinality(Of(q)) + Coming(q) /\ connections_per_ip[q] <= MaxConnectionsPerIp
          /\ Coming(q)' = 0
      BY Zenon, <1>1 DEF CountInv, Coming
    <2>2. IsFiniteSet(Of(q)) /\ Cardinality(Of(q)) \in Nat
      BY Zenon, <1>2, OfIsFinite
    <2>3. CASE q = addr
      <3>1. Of(q)' = Of(q) \cup {s} /\ s \notin Of(q)
        BY <1>1, <1>3, <2>3, Zenon DEF Of
      <3>2. Cardinality(Of(q)') = Cardinality(Of(q)) + 1
        BY Zenon, <2>2, <3>1, FS_AddElement
      <3>3. Coming(q) = 1
        BY Zenon, <1>1, <2>3 DEF Coming
      <3> QED BY <1>1, <2>1, <2>2, <3>2, <3>3
    <2>4. CASE q # addr
      <3>1. Of(q)' = Of(q)
        BY <1>1, <1>3, <2>4, Zenon DEF Of
      <3>2. Coming(q) = 0
        BY Zenon, <2>4 DEF Coming
      <3> QED BY <1>1, <2>1, <3>1, <3>2, Zenon
    <2> QED BY Zenon, <2>3, <2>4
  <1> QED BY Zenon, <1>2, <1>4 DEF CountInv

LEMMA CountDestroy ==
    ASSUME TypeOK, CountInv, NEW s \in alive, Destroy(s),
           UNCHANGED <<accept, addr>> \/ (accept # "choose" /\ accept' # "choose")
    PROVE  CountInv'
  <1>1. /\ alive' = alive \ {s} /\ UNCHANGED peer
        /\ connections_per_ip' = [connections_per_ip EXCEPT ![peer[s]] = connections_per_ip[peer[s]] - 1]
        /\ connections_per_ip \in [Peers -> Int] /\ peer[s] \in Peers
    BY Zenon DEF Destroy, SessionDeleted, TypeOK, SessionTypeOK
  <1>2. IsFiniteSet(alive) /\ IsFiniteSet(alive')
    BY <1>1, FS_RemoveElement, Zenon DEF CountInv
  <1>3. \A q : Coming(q)' = Coming(q)
    BY Zenon DEF Coming
  <1>4. ASSUME NEW q \in Peers
        PROVE  /\ connections_per_ip'[q] = Cardinality(Of(q)') + Coming(q)'
               /\ connections_per_ip'[q] <= MaxConnectionsPerIp
    <2>1. /\ connections_per_ip[q] = Cardinality(Of(q)) + Coming(q) /\ connections_per_ip[q] <= MaxConnectionsPerIp
      BY Zenon DEF CountInv
    <2>2. IsFiniteSet(Of(q)) /\ Cardinality(Of(q)) \in Nat /\ Coming(q) \in {0, 1}
      BY Zenon, <1>2, OfIsFinite DEF Coming
    <2>3. CASE q = peer[s]
      <3>1. Of(q)' = Of(q) \ {s} /\ s \in Of(q)
        BY <1>1, <2>3, Zenon DEF Of
      <3>2. Cardinality(Of(q)') = Cardinality(Of(q)) - 1
        BY Zenon, <2>2, <3>1, FS_RemoveElement
      <3> QED BY SMTT(40), Z3T(40), <1>1, <1>3, <2>1, <2>2, <2>3, <3>2, ServerAssumption
    <2>4. CASE q # peer[s]
      <3>1. Of(q)' = Of(q)
        BY <1>1, <2>4, Zenon DEF Of
      <3> QED BY <1>1, <1>3, <2>1, <2>4, <3>1, Zenon
    <2> QED BY Zenon, <2>3, <2>4
  <1> QED BY Zenon, <1>2, <1>4 DEF CountInv

LEMMA CountNext ==
    ASSUME SafetyInv, CountInv, [Next]_vars PROVE CountInv'
  <1>0. TypeOK
    BY Zenon DEF SafetyInv
  <1>1. CASE Choose \/ RegisterCount \/ RegisterFails \/ BeginShutdown
             \/ (\E s \in Sessions : RegisterInsert(s) \/ RegisterAdd(s))
             \/ (\E l \in Loops : QuitStore(l) \/ BeginDestroy(l)) \/ QuitSignal \/ Join \/ Destroyed \/ ClearPlugins
    <2>1. UNCHANGED <<alive, peer, connections_per_ip>>
      BY Zenon, <1>1 DEF Choose, RegisterCount, RegisterFails, RegisterInsert, RegisterAdd, BeginShutdown, QuitStore,
                         BeginDestroy, QuitSignal, Join, Destroyed, ClearPlugins, sessionVars
    <2>2. UNCHANGED <<accept, addr>> \/ (accept # "choose" /\ accept' # "choose")
      BY Zenon, <1>1 DEF Choose, RegisterCount, RegisterFails, RegisterInsert, RegisterAdd, BeginShutdown, QuitStore,
                         BeginDestroy, QuitSignal, Join, Destroyed, ClearPlugins
    <2> QED BY Zenon, <2>1, <2>2, CountSame
  <1>2. ASSUME NEW s \in Sessions, DeleteFailed(s) \/ Reclaim(s) PROVE CountInv'
    <2>1. s \in alive
      BY Zenon, <1>0, <1>2 DEF DeleteFailed, Reclaim, SafetyInv, SetUpIsPrivate, SetsPartitionAlive, TypeOK
    <2> QED BY Zenon, <1>0, <1>2, <2>1, CountDestroy DEF DeleteFailed, Reclaim, acceptVars
  <1>3. ASSUME NEW l \in Loops, LoopThread(l) PROVE CountInv'
    <2>0. UNCHANGED <<accept, addr>>
      BY Zenon, <1>3 DEF LoopThread, acceptVars
    <2>1. CASE DeleteOne(l)
      <3>1. PICK s \in todo[l] : Destroy(s) /\ pc[l] = "delete"
        BY Zenon, <2>1 DEF DeleteOne
      <3>2. s \in alive
        BY Zenon, <3>1 DEF SafetyInv, SetsPartitionAlive, Doomed
      <3> QED BY Zenon, <1>0, <2>0, <3>1, <3>2, CountDestroy
    <2>2. CASE ~DeleteOne(l)
      <3>1. UNCHANGED <<alive, peer, connections_per_ip>>
        <4>1. CASE ProcessEvent(l)
          <5>1. PICK e \in events[l] : ProcessEvents(e[1], e[2])
            BY Zenon, <4>1 DEF ProcessEvent
          <5>2. e \in Sessions \X {"io", "hup"}
            BY Zenon, <1>0, <5>1 DEF TypeOK, LoopTypeOK
          <5>3. e[2] \in {"io", "hup"}
            BY <5>2
          <5> QED BY Zenon, <5>1, <5>3 DEF ProcessEvents, ResumeOrDelete
        <4>2. CASE WakeupOne(l) \/ ScanOne(l, session)
          BY Zenon, <4>2 DEF WakeupOne, ScanOne, Wakeup, Timeout, ResumeOrDelete, sessionVars
        <4> QED BY Zenon, <1>3, <2>2, <4>1, <4>2 DEF LoopThread, Head, EpollWait, Drain, SwapWakeups, WakeupsDone,
                    CheckDeadline, ScanDone, SwapDeleteLater, DeleteDone, sessionVars
      <3> QED BY Zenon, <2>0, <3>1, CountSame
    <2> QED BY Zenon, <2>1, <2>2
  <1>4. CASE Worker \/ Environment \/ UNCHANGED vars
    <2>1. UNCHANGED <<alive, peer, connections_per_ip, accept, addr>>
      BY Zenon, <1>4 DEF Worker, Environment, WakeupInsert, WakeupSignal, PeerSends, PeerHangsUp, EpollNothing, acceptVars,
                         sessionVars, vars
    <2> QED BY Zenon, <2>1, CountSame
  <1> QED BY Zenon, <1>0, <1>1, <1>2, <1>3, <1>4, CountAccept, CountCreate, CountCreateFails
          DEF Next, AcceptSteps, ShutdownThread, Returned

LEMMA CountAlways == ~StaleReuse /\ ~ScanRace => (Spec => []CountInv)
  <1>1. Init => CountInv
    <2> SUFFICES ASSUME Init PROVE CountInv
      BY Zenon
    <2>1. alive = {} /\ \A p \in Peers : connections_per_ip[p] = 0 /\ Of(p) = {} /\ Coming(p) = 0
      BY Zenon DEF Init, SessionInit, Of, Coming
    <2>2. IsFiniteSet({}) /\ Cardinality({}) = 0
      BY FS_EmptySet
    <2>3. \A p \in Peers : Cardinality(Of(p)) = 0
      BY Zenon, <2>1, <2>2
    <2> QED BY <2>1, <2>2, <2>3, ServerAssumption DEF CountInv
  <1>2. SafetyInv /\ CountInv /\ [Next]_vars => CountInv'
    BY Zenon, CountNext
  <1>3. ASSUME ~StaleReuse, ~ScanRace PROVE Spec => []CountInv
    BY <1>1, <1>2, <1>3, SafetyInvariant, PTL DEF Spec
  <1> QED BY Zenon, <1>3

\* server_session_created and server_session_deleted count the connections of
\* an address exactly, and within max_connections_per_ip, for any number of
\* sessions and addresses.
THEOREM ConnectionsCounted == ~StaleReuse /\ ~ScanRace => (Spec => []ConnectionsExact)
  <1>1. CountInv => ConnectionsExact
    BY Zenon DEF CountInv, ConnectionsExact, Of, Coming
  <1>2. ASSUME ~StaleReuse, ~ScanRace PROVE Spec => []ConnectionsExact
    BY <1>1, <1>2, CountAlways, PTL
  <1> QED BY Zenon, <1>2

\* Once the loops are destroyed no session and no connection is left, so that
\* the last loop of exec has nothing to delete.
THEOREM NothingIsLeft == ~StaleReuse /\ ~ScanRace => (Spec => []NothingLeftAfterLoops)
  <1>1. SafetyInv /\ CountInv => NothingLeftAfterLoops
    <2> SUFFICES ASSUME SafetyInv, CountInv, accept \in {"plugins", "done", "hung"}
                 PROVE  alive = {} /\ \A p \in Peers : connections_per_ip[p] = 0
      BY Zenon DEF NothingLeftAfterLoops
    <2>1. session = {} /\ accept # "choose"
      BY Zenon DEF SafetyInv, SetUpIsPrivate
    <2>2. \A l \in Loops : pc[l] = "destroyed" /\ m_sessions[l] = {} /\ m_delete_later[l] = {} /\ Doomed(l) = {}
      <3>1. \A l \in Loops : pc[l] = "destroyed"
        BY DEF SafetyInv, LoopsGoInOrder
      <3> QED BY <3>1, Zenon DEF SafetyInv, LoopsGoInOrder, BorrowedIsRegistered, Doomed
    <2>3. alive = {}
      <3>1. ASSUME NEW s \in alive PROVE FALSE
        <4>1. home[s] \in Loops
          BY Zenon DEF SafetyInv, TypeOK, SessionTypeOK
        <4> QED BY Zenon, <2>1, <2>2, <4>1 DEF SafetyInv, SetsPartitionAlive
      <3> QED BY Zenon, <3>1
    <2>4. \A p \in Peers : Of(p) = {} /\ Coming(p) = 0
      BY Zenon, <2>1, <2>3 DEF Of, Coming
    <2>5. \A p \in Peers : connections_per_ip[p] = Cardinality({}) + 0
      BY Zenon, <2>4 DEF CountInv
    <2>6. Cardinality({}) = 0
      BY FS_EmptySet
    <2> QED BY <2>3, <2>5, <2>6
  <1>2. ASSUME ~StaleReuse, ~ScanRace PROVE Spec => []NothingLeftAfterLoops
    BY <1>1, <1>2, SafetyInvariant, CountAlways, PTL
  <1> QED BY Zenon, <1>2

-----------------------------------------------------------------------------
(* The load of a loop is counted exactly *)

InEpoll(l) == {s \in m_sessions[l] : epoll[s] # "absent"}
Uncounted(l) == IF accept = "added" /\ best_loop = l THEN 1 ELSE 0
LoadInv == \A l \in Loops : m_active_sessions[l] = Cardinality(InEpoll(l)) - Uncounted(l)

LEMMA InEpollIsFinite ==
    ASSUME SafetyInv, CountInv, NEW l \in Loops
    PROVE  IsFiniteSet(InEpoll(l)) /\ Cardinality(InEpoll(l)) \in Nat
  <1>1. InEpoll(l) \in SUBSET alive /\ IsFiniteSet(alive)
    BY Zenon DEF InEpoll, SafetyInv, SetsPartitionAlive, CountInv
  <1>2. IsFiniteSet(InEpoll(l))
    BY <1>1, FS_Subset, Zenon
  <1> QED BY <1>2, FS_CardinalityType, Zenon

\* Steps that neither register nor unregister.
LEMMA LoadSame ==
    ASSUME TypeOK, LoadInv, UNCHANGED <<m_sessions, m_active_sessions>>,
           \A t \in Sessions : epoll'[t] = "absent" <=> epoll[t] = "absent",
           UNCHANGED <<accept, best_loop>> \/ (accept # "added" /\ accept' # "added")
    PROVE  LoadInv'
  <1>1. ASSUME NEW l \in Loops PROVE InEpoll(l)' = InEpoll(l) /\ Uncounted(l)' = Uncounted(l)
    <2>1. m_sessions[l] \subseteq Sessions
      BY Zenon DEF TypeOK, SessionTypeOK
    <2> QED BY Zenon, <2>1 DEF InEpoll, Uncounted
  <1> QED BY Zenon, <1>1 DEF LoadInv

LEMMA LoadUnregister ==
    ASSUME SafetyInv, CountInv, LoadInv, NEW s \in Sessions, Unregister(s),
           UNCHANGED <<accept, best_loop>> \/ (accept # "added" /\ accept' # "added")
    PROVE  LoadInv'
  <1> SUFFICES ASSUME NEW l \in Loops PROVE m_active_sessions'[l] = Cardinality(InEpoll(l)') - Uncounted(l)'
    BY Zenon DEF LoadInv
  <1>0. /\ m_sessions \in [Loops -> SUBSET Sessions] /\ epoll \in [Sessions -> {"absent", "quiet", "io", "hup"}]
        /\ m_active_sessions \in [Loops -> Int] /\ home[s] \in Loops
    BY Zenon DEF SafetyInv, TypeOK, SessionTypeOK
  <1>1. m_active_sessions[l] = Cardinality(InEpoll(l)) - Uncounted(l) /\ Uncounted(l)' = Uncounted(l)
        /\ Uncounted(l) \in {0, 1}
    BY Zenon DEF LoadInv, Uncounted
  <1>2. IsFiniteSet(InEpoll(l)) /\ Cardinality(InEpoll(l)) \in Nat
    BY Zenon, InEpollIsFinite
  <1>3. s \in m_sessions[l] => l = home[s]
    BY Zenon DEF SafetyInv, SetsPartitionAlive
  <1>4. /\ m_sessions'[l] = IF l = home[s] THEN m_sessions[l] \ {s} ELSE m_sessions[l]
        /\ \A t \in Sessions \ {s} : epoll'[t] = epoll[t]
    BY Zenon, <1>0 DEF Unregister
  <1>5. InEpoll(l)' = InEpoll(l) \ {s}
    BY <1>0, <1>3, <1>4, Zenon DEF InEpoll
  <1>6. CASE s \in InEpoll(l)
    <2>1. l = home[s] /\ s \in m_sessions[l] /\ epoll[s] # "absent"
      BY Zenon, <1>3, <1>6 DEF InEpoll
    <2>2. m_active_sessions'[l] = m_active_sessions[l] - 1
      BY Zenon, <1>0, <2>1 DEF Unregister
    <2>3. Cardinality(InEpoll(l)') = Cardinality(InEpoll(l)) - 1
      BY Zenon, <1>2, <1>5, <1>6, FS_RemoveElement
    <2> QED BY <1>0, <1>1, <1>2, <2>2, <2>3
  <1>7. CASE s \notin InEpoll(l)
    <2>1. InEpoll(l)' = InEpoll(l)
      BY <1>5, <1>7, Zenon
    <2>2. m_active_sessions'[l] = m_active_sessions[l]
      <3>1. CASE l = home[s]
        <4>1. ~(s \in m_sessions[l] /\ epoll[s] # "absent")
          BY Zenon, <1>7 DEF InEpoll
        <4> QED BY Zenon, <3>1, <4>1 DEF Unregister
      <3>2. CASE l # home[s]
        BY <1>0, <3>2, Zenon DEF Unregister
      <3> QED BY Zenon, <3>1, <3>2
    <2> QED BY <1>1, <2>1, <2>2, Zenon
  <1> QED BY Zenon, <1>6, <1>7

LEMMA LoadRun ==
    ASSUME SafetyInv, CountInv, LoadInv, NEW s \in Sessions, ResumeOrDelete(s) \/ Timeout(s), UNCHANGED <<accept, best_loop>>
    PROVE  LoadInv'
  <1>0. TypeOK /\ epoll \in [Sessions -> {"absent", "quiet", "io", "hup"}]
    BY Zenon DEF SafetyInv, TypeOK, SessionTypeOK
  <1>1. CASE DeleteLater(s)
    BY Zenon, <1>1, LoadUnregister DEF DeleteLater
  <1>2. CASE /\ UNCHANGED <<m_sessions, m_active_sessions>>
             /\ epoll' = epoll \/ epoll' = [epoll EXCEPT ![s] = IF @ = "absent" THEN @ ELSE "hup"]
    <2>1. \A t \in Sessions : epoll'[t] = "absent" <=> epoll[t] = "absent"
      BY <1>0, <1>2, Zenon
    <2> QED BY Zenon, <1>0, <1>2, <2>1, LoadSame
  <1> QED BY Zenon, <1>1, <1>2 DEF ResumeOrDelete, Resume, Timeout, QuitAndDelete

LEMMA LoadLoopThread ==
    ASSUME SafetyInv, CountInv, LoadInv, NEW l \in Loops, LoopThread(l) PROVE LoadInv'
  <1>0. UNCHANGED <<accept, best_loop>> /\ TypeOK
    BY Zenon DEF LoopThread, acceptVars, SafetyInv
  <1>1. CASE UNCHANGED <<m_sessions, m_active_sessions, epoll>>
    BY Zenon, <1>0, <1>1, LoadSame
  <1>2. CASE EpollWait(l)
    <2>1. \A t \in Sessions : epoll'[t] = IF t \in Ready(l) THEN "quiet" ELSE epoll[t]
      BY Zenon, <1>2 DEF EpollWait
    <2>2. \A t \in Ready(l) : epoll[t] # "absent"
      BY Zenon DEF Ready
    <2>3. \A t \in Sessions : epoll'[t] = "absent" <=> epoll[t] = "absent"
      BY <2>1, <2>2, Zenon
    <2> QED BY Zenon, <1>0, <1>2, <2>3, LoadSame DEF EpollWait
  <1>3. CASE ProcessEvent(l)
    <2>1. PICK e \in events[l] : ProcessEvents(e[1], e[2])
      BY Zenon, <1>3 DEF ProcessEvent
    <2>2. e \in Sessions \X {"io", "hup"}
      BY Zenon, <1>0, <2>1 DEF TypeOK, LoopTypeOK
    <2>3. e[1] \in Sessions /\ e[2] \in {"io", "hup"}
      BY <2>2, Zenon
    <2>4. ResumeOrDelete(e[1]) \/ Timeout(e[1])
      BY Zenon, <2>1, <2>3 DEF ProcessEvents, Timeout
    <2> QED BY Zenon, <1>0, <2>3, <2>4, LoadRun
  <1>4. CASE WakeupOne(l) \/ ScanOne(l, session)
    <2>1. PICK s \in todo[l] : ResumeOrDelete(s) \/ Timeout(s) \/ UNCHANGED sessionVars
      BY Zenon, <1>4 DEF WakeupOne, ScanOne, Wakeup
    <2>2. s \in Sessions
      BY Zenon, <1>0 DEF TypeOK, LoopTypeOK
    <2>3. UNCHANGED sessionVars => LoadInv'
      BY Zenon, <1>1 DEF sessionVars
    <2> QED BY Zenon, <1>0, <2>1, <2>2, <2>3, LoadRun
  <1>5. CASE DeleteOne(l)
    <2>1. PICK s \in todo[l] : Destroy(s)
      BY Zenon, <1>5 DEF DeleteOne
    <2>2. s \in Sessions
      BY Zenon, <1>0 DEF TypeOK, LoopTypeOK
    <2> QED BY Zenon, <1>0, <2>1, <2>2, LoadUnregister DEF Destroy
  <1> QED BY Zenon, <1>1, <1>2, <1>3, <1>4, <1>5 DEF LoopThread, Head, Drain, SwapWakeups, WakeupsDone,
          CheckDeadline, ScanDone, SwapDeleteLater, DeleteDone, sessionVars

LEMMA LoadRegister ==
    ASSUME SafetyInv, CountInv, LoadInv, NEW s \in Sessions, RegisterInsert(s) \/ RegisterAdd(s) PROVE LoadInv'
  <1>0. /\ m_sessions \in [Loops -> SUBSET Sessions] /\ epoll \in [Sessions -> {"absent", "quiet", "io", "hup"}]
        /\ m_active_sessions \in [Loops -> Int] /\ best_loop \in Loops
    BY Zenon DEF SafetyInv, TypeOK, SessionTypeOK
  <1>1. s \in session /\ epoll[s] = "absent" /\ home[s] = best_loop /\ UNCHANGED <<m_active_sessions, best_loop>>
    BY Zenon DEF RegisterInsert, RegisterAdd, SafetyInv, SetUpIsPrivate
  <1> SUFFICES ASSUME NEW l \in Loops PROVE m_active_sessions'[l] = Cardinality(InEpoll(l)') - Uncounted(l)'
    BY Zenon DEF LoadInv
  <1>2. m_active_sessions[l] = Cardinality(InEpoll(l)) - Uncounted(l)
    BY Zenon DEF LoadInv
  <1>3. IsFiniteSet(InEpoll(l)) /\ Cardinality(InEpoll(l)) \in Nat
    BY Zenon, InEpollIsFinite
  <1>4. CASE RegisterInsert(s)
    <2>1. /\ m_sessions' = [m_sessions EXCEPT ![best_loop] = @ \cup {s}] /\ UNCHANGED epoll
      BY Zenon, <1>4 DEF RegisterInsert
    <2>2. InEpoll(l)' = InEpoll(l)
      BY <1>0, <1>1, <2>1, Zenon DEF InEpoll
    <2>3. Uncounted(l)' = Uncounted(l)
      BY <1>4 DEF RegisterInsert, Uncounted
    <2> QED BY Zenon, <1>1, <1>2, <2>2, <2>3
  <1>5. CASE RegisterAdd(s)
    <2>1. PICK event \in {"io", "hup"} :
             epoll' = [epoll EXCEPT ![s] = event] /\ UNCHANGED m_sessions /\ accept = "inserted" /\ accept' = "added"
      BY Zenon, <1>5 DEF RegisterAdd
    <2>2. Uncounted(l) = 0 /\ Uncounted(l)' = IF l = best_loop THEN 1 ELSE 0
      BY Zenon, <1>1, <2>1 DEF Uncounted
    <2>3. s \in m_sessions[best_loop] /\ (s \in m_sessions[l] => l = best_loop)
      BY Zenon, <1>1, <2>1 DEF SafetyInv, SetUpIsPrivate, SetsPartitionAlive
    <2>4. CASE l = best_loop
      <3>1. InEpoll(l)' = InEpoll(l) \cup {s} /\ s \notin InEpoll(l)
        BY <1>0, <1>1, <2>1, <2>3, <2>4, Zenon DEF InEpoll
      <3>2. Cardinality(InEpoll(l)') = Cardinality(InEpoll(l)) + 1
        BY <1>3, <3>1, FS_AddElement, Zenon
      <3> QED BY SMTT(40), Z3T(40), <1>1, <1>2, <1>3, <2>2, <2>4, <3>2
    <2>5. CASE l # best_loop
      <3>1. InEpoll(l)' = InEpoll(l)
        BY <1>0, <2>1, <2>3, <2>5, Zenon DEF InEpoll
      <3> QED BY <1>1, <1>2, <2>2, <2>5, <3>1, Zenon
    <2> QED BY Zenon, <2>4, <2>5
  <1> QED BY Zenon, <1>4, <1>5

LEMMA LoadCount ==
    ASSUME SafetyInv, CountInv, LoadInv, RegisterCount PROVE LoadInv'
  <1>0. m_active_sessions \in [Loops -> Int] /\ best_loop \in Loops
    BY Zenon DEF SafetyInv, TypeOK, SessionTypeOK
  <1>1. /\ accept = "added" /\ accept' = "idle" /\ UNCHANGED <<m_sessions, epoll, best_loop>>
        /\ m_active_sessions' = [m_active_sessions EXCEPT ![best_loop] = m_active_sessions[best_loop] + 1]
    BY Zenon DEF RegisterCount
  <1> SUFFICES ASSUME NEW l \in Loops PROVE m_active_sessions'[l] = Cardinality(InEpoll(l)') - Uncounted(l)'
    BY Zenon DEF LoadInv
  <1>2. /\ m_active_sessions[l] = Cardinality(InEpoll(l)) - Uncounted(l) /\ InEpoll(l)' = InEpoll(l)
        /\ Uncounted(l)' = 0 /\ Uncounted(l) = IF l = best_loop THEN 1 ELSE 0
    BY Zenon, <1>1 DEF LoadInv, InEpoll, Uncounted
  <1>3. Cardinality(InEpoll(l)) \in Nat
    BY Zenon, InEpollIsFinite
  <1>4. CASE l = best_loop
    BY <1>0, <1>1, <1>2, <1>3, <1>4
  <1>5. CASE l # best_loop
    BY <1>0, <1>1, <1>2, <1>3, <1>5, Zenon
  <1> QED BY Zenon, <1>4, <1>5

LEMMA LoadNext ==
    ASSUME SafetyInv, CountInv, LoadInv, [Next]_vars PROVE LoadInv'
  <1>0. TypeOK /\ epoll \in [Sessions -> {"absent", "quiet", "io", "hup"}]
    BY Zenon DEF SafetyInv, TypeOK, SessionTypeOK
  <1>1. CASE (\E p \in Peers : Accept(p)) \/ Choose \/ CreateFails \/ (\E s \in Sessions : Create(s)) \/ RegisterFails
             \/ BeginShutdown \/ (\E l \in Loops : QuitStore(l) \/ BeginDestroy(l)) \/ QuitSignal \/ Join \/ Destroyed
             \/ ClearPlugins \/ Worker \/ (\E l \in Loops : EpollNothing(l) /\ UNCHANGED acceptVars) \/ UNCHANGED vars
    <2>1. UNCHANGED <<m_sessions, m_active_sessions, epoll>>
      BY Zenon, <1>1 DEF Accept, Choose, CreateFails, Create, RegisterFails, BeginShutdown, QuitStore, BeginDestroy, QuitSignal,
                         Join, Destroyed, ClearPlugins, Worker, WakeupInsert, WakeupSignal, EpollNothing, sessionVars, vars
    <2>2. UNCHANGED <<accept, best_loop>> \/ (accept # "added" /\ accept' # "added")
      BY Zenon, <1>1 DEF Accept, Choose, CreateFails, Create, RegisterFails, BeginShutdown, QuitStore, BeginDestroy, QuitSignal,
                         Join, Destroyed, ClearPlugins, Worker, EpollNothing, acceptVars, vars
    <2> QED BY Zenon, <1>0, <2>1, <2>2, LoadSame
  <1>2. ASSUME NEW s \in Sessions, DeleteFailed(s) \/ Reclaim(s) PROVE LoadInv'
    BY Zenon, <1>2, LoadUnregister DEF DeleteFailed, Reclaim, Destroy, acceptVars
  <1>3. ASSUME NEW s \in Sessions, PeerSends(s) \/ PeerHangsUp(s), UNCHANGED acceptVars PROVE LoadInv'
    <2>1. \A t \in Sessions : epoll'[t] = "absent" <=> epoll[t] = "absent"
      BY <1>0, <1>3, Zenon DEF PeerSends, PeerHangsUp
    <2> QED BY Zenon, <1>0, <1>3, <2>1, LoadSame DEF PeerSends, PeerHangsUp, acceptVars
  <1> QED BY Zenon, <1>1, <1>2, <1>3, LoadRegister, LoadCount, LoadLoopThread
          DEF Next, AcceptSteps, ShutdownThread, Environment, Returned

\* By the load that exec balances by, a loop counts exactly the sockets in its
\* epoll set, but for one that register_session has yet to count.
THEOREM LoadCounted == ~StaleReuse /\ ~ScanRace => (Spec => []LoadIsExact)
  <1>1. Init => LoadInv
    <2> SUFFICES ASSUME Init PROVE LoadInv
      BY Zenon
    <2>1. \A l \in Loops : m_active_sessions[l] = 0 /\ InEpoll(l) = {} /\ Uncounted(l) = 0
      BY Zenon DEF Init, SessionInit, InEpoll, Uncounted
    <2>2. Cardinality({}) = 0
      BY FS_EmptySet
    <2> QED BY <2>1, <2>2 DEF LoadInv
  <1>2. SafetyInv /\ CountInv /\ LoadInv /\ [Next]_vars => LoadInv'
    BY Zenon, LoadNext
  <1>3. LoadInv => LoadIsExact
    BY Zenon DEF LoadInv, LoadIsExact, InEpoll, Uncounted
  <1>4. ASSUME ~StaleReuse, ~ScanRace PROVE Spec => []LoadIsExact
    BY <1>1, <1>2, <1>3, <1>4, SafetyInvariant, CountAlways, PTL DEF Spec
  <1> QED BY Zenon, <1>4

=============================================================================
