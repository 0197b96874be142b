--------------------------- MODULE DeadlinesProofs ---------------------------
(***************************************************************************)
(* The last deadline of a running session is not forgotten, and the loop   *)
(* does not sleep through it, for any number of sessions, with and without *)
(* TLS, and any timeouts.                                                  *)
(***************************************************************************)
EXTENDS Deadlines, TLAPS

\* A tick keeps the order of what is left of two timeouts.
LEMMA LaterFacts ==
    ASSUME NEW a \in 0 .. Never, NEW b \in Instants
    PROVE  /\ Later(b) \in Instants
           /\ Later(a) \in 0 .. Never
           /\ a <= b => Later(a) <= Later(b)
           /\ a <= b + 1 => Later(a) <= Later(b) + 1
  BY DeadlinesAssumption DEF Later, Instants, Never

LEMMA LesserFacts ==
    ASSUME NEW a \in Instants, NEW b \in Instants
    PROVE  Lesser(a, b) \in Instants /\ Lesser(a, b) <= a /\ Lesser(a, b) <= b
  BY DeadlinesAssumption DEF Lesser, Instants, Never

LEMMA TypeNext == ASSUME TypeOK, [Next]_vars PROVE TypeOK'
  <1> USE DeadlinesAssumption
  <1>0. Timeouts \subseteq Instants /\ Never \in Instants /\ Never \in 1 .. Never /\ 0 \in 0 .. Never
    BY DEF Timeouts, Instants, Never
  <1>1. ASSUME NEW s \in Sessions, Arm(s) \/ Publish(s) \/ Insert(s) \/ Add(s) PROVE TypeOK'
    BY <1>0, <1>1, LesserFacts DEF TypeOK, Arm, Publish, Insert, Add, SetStage, NotifyDeadline, Registering
  <1>2. ASSUME NEW s \in Sessions, RunOne(s) PROVE TypeOK'
    <2>1. \A d \in Timeouts \cup {Never} : Lesser(d, m_earliest_deadline) \in Instants
      BY <1>0, LesserFacts DEF TypeOK
    <2>2. Handshake(s) \/ Serve(s) \/ Ends(s)
      BY <1>2 DEF RunOne
    <2>3. stage' \in [Sessions -> {"none", "added"} \cup Registering \cup Running]
      BY <2>2 DEF TypeOK, Handshake, Serve, Ends, SetStage, Gone, Running
    <2>4. deadline' \in [Sessions -> Instants]
      BY <1>0, <2>2 DEF TypeOK, Handshake, Serve, Ends, Gone, Timeouts, Instants
    <2>5. unseen' \in [Sessions -> Instants]
      BY <1>0, <2>2 DEF TypeOK, Handshake, Serve, Ends, Gone, Timeouts, Instants
    <2>6. m_earliest_deadline' \in Instants
      BY <1>0, <2>1, <2>2 DEF TypeOK, Handshake, Serve, Ends, NotifyDeadline, Timeouts
    <2> QED BY <1>2, <2>3, <2>4, <2>5, <2>6 DEF TypeOK, RunOne
  <1>3. ASSUME NEW s \in Sessions, ScanOne(s) \/ Event(s) PROVE TypeOK'
    <2>1. CASE Event(s)
      BY <2>1 DEF TypeOK, Event
    <2>2. CASE ScanOne(s) /\ Ends(s)
      BY <1>0, <2>2, LesserFacts DEF TypeOK, ScanOne, Ends, SetStage, Gone, NotifyDeadline
    <2>3. CASE ScanOne(s) /\ ~Ends(s)
      BY <1>0, <2>3, LesserFacts DEF TypeOK, ScanOne
    <2> QED BY <1>3, <2>1, <2>2, <2>3
  <1>4. CASE EpollWait \/ RunDone \/ Check \/ Clear \/ Snapshot \/ ScanDone
    BY <1>0, <1>4, LesserFacts DEF TypeOK, EpollWait, RunDone, Check, Clear, Snapshot, ScanDone, NotifyDeadline
  <1>5. CASE Sleep
    <2>1. m_earliest_deadline # Never => m_earliest_deadline + 1 \in 1 .. Never
      BY DEF TypeOK, Instants, Never
    <2>2. timeout' \in 1 .. Never /\ timeout' \in 0 .. Never
      BY <1>0, <1>5, <2>1 DEF Sleep, Never
    <2> QED BY <1>5, <2>2 DEF TypeOK, Sleep
  <1>6. CASE Interrupted
    <2>1. timeout \in 0 .. Never /\ signals + 1 \in 0 .. MaxSignals
      BY <1>6 DEF TypeOK, Interrupted, Never
    <2> QED BY <1>6, <2>1 DEF TypeOK, Interrupted
  <1>7. CASE Tick
    <2>1. \A t \in Instants : t \in 0 .. Never
      BY DEF Instants, Never
    <2>2. /\ \A s \in Sessions : Later(deadline[s]) \in Instants /\ Later(unseen[s]) \in Instants
          /\ Later(m_earliest_deadline) \in Instants /\ Later(earliest) \in Instants
      BY <2>1, LaterFacts DEF TypeOK
    <2>3. Later(left) \in 0 .. Never
      BY <1>0, LaterFacts DEF TypeOK
    <2> QED BY <1>7, <2>2, <2>3 DEF TypeOK, Tick
  <1>8. CASE UNCHANGED vars
    BY <1>8 DEF TypeOK, vars
  <1> QED BY <1>1, <1>2, <1>3, <1>4, <1>5, <1>6, <1>7, <1>8 DEF Next, LoopThread, Accepting

-----------------------------------------------------------------------------
(* Steps of the accepting thread and of the world *)

LEMMA InvAccepting ==
    ASSUME Inv, TypeOK', NEW s \in Sessions, Arm(s) \/ Publish(s) \/ Insert(s) \/ Add(s) \/ Event(s)
    PROVE  Inv'
  <1> USE DEF Inv
  <1>1. /\ UNCHANGED <<pc, batch, sessions, earliest, left, signals>>
        /\ unseen' = unseen
        /\ \A t \in Sessions \ {s} : stage'[t] = stage[t] /\ deadline'[t] = deadline[t]
        /\ stage'[s] \in Running => stage'[s] = stage[s] /\ deadline'[s] = deadline[s]
        /\ stage'[s] = "added" => s \in edge'
        /\ stage[s] # "added"  \/ Event(s)
    BY DEF TypeOK, Arm, Publish, Insert, Add, Event, SetStage, Registering, Running
  <1>2. /\ m_earliest_deadline' \in Instants /\ m_earliest_deadline \in Instants
        /\ m_earliest_deadline' <= m_earliest_deadline
    <2>1. CASE Publish(s)
      BY <2>1, LesserFacts DEF TypeOK, Publish, NotifyDeadline
    <2>2. CASE UNCHANGED m_earliest_deadline
      BY <2>2, DeadlinesAssumption DEF TypeOK, Instants, Never
    <2> QED BY <2>1, <2>2 DEF Arm, Insert, Add, Event
  <1>3. /\ edge \subseteq edge' /\ edge' \subseteq edge \cup {s}
        /\ s \in edge' \cup batch => stage'[s] \in {"added"} \cup Running
        /\ s \in edge' /\ s \in batch => stage'[s] \in Running
    <2>1. CASE Arm(s) \/ Publish(s) \/ Insert(s)
      BY <2>1 DEF Arm, Publish, Insert, Registering, Running
    <2>2. CASE Add(s)
      BY <2>2 DEF Add, SetStage, TypeOK, Running
    <2>3. CASE Event(s)
      BY <2>3 DEF Event
    <2> QED BY <2>1, <2>2, <2>3
  <1>4. DeadlineCovered'
    <2>1. ASSUME NEW t \in Sessions, stage'[t] \in Running
          PROVE  \/ m_earliest_deadline' <= Latest(t)'
                 \/ pc = "snapshot"
                 \/ pc = "scan" /\ (t \in sessions \/ earliest <= Latest(t)')
      <3>1. stage[t] \in Running /\ Latest(t)' = Latest(t) /\ Latest(t) \in Instants
        BY <1>1, <2>1 DEF TypeOK, Latest
      <3>2. m_earliest_deadline <= Latest(t) => m_earliest_deadline' <= Latest(t)
        BY <1>2, <3>1, DeadlinesAssumption DEF Instants, Never
      <3> QED BY <3>1, <3>2 DEF DeadlineCovered
    <2>2. ASSUME NEW t \in Sessions, stage'[t] = "added" PROVE t \in edge' \cup batch
      BY <1>1, <1>3, <2>2 DEF DeadlineCovered
    <2> QED BY <1>1, <2>1, <2>2 DEF DeadlineCovered
  <1>5. SleepNotTooLong'
    BY <1>1 DEF SleepNotTooLong, Latest
  <1>6. sessions' \subseteq {t \in Sessions : stage'[t] \in {"inserted", "added"} \cup Running} \/ pc' # "scan"
    BY DEF TypeOK, Arm, Publish, Insert, Add, Event, SetStage, Registering, Running
  <1>7. \A t \in edge' \cup batch' : stage'[t] \in {"added"} \cup Running
    BY <1>1, <1>3 DEF TypeOK
  <1>8. edge' \cap batch' \subseteq {t \in Sessions : stage'[t] \in Running}
    BY <1>1, <1>3 DEF TypeOK
  <1>9. \A t \in Secured : stage'[t] \in {"added"} \cup Registering => deadline'[t] <= AcceptTimeout
    BY DeadlinesAssumption DEF TypeOK, Arm, Publish, Insert, Add, Event, SetStage, Registering, Running
  <1>10. \A t \in Sessions : stage'[t] = "handshake" => t \in Secured /\ deadline'[t] <= unseen'[t]
    BY <1>1 DEF Running
  <1> QED BY <1>1, <1>4, <1>5, <1>6, <1>7, <1>8, <1>9, <1>10

LEMMA InvTick == ASSUME Inv, TypeOK', Tick \/ Interrupted PROVE Inv'
  <1> USE DEF Inv
  <1>1. CASE Tick
    <2>0. /\ UNCHANGED <<stage, edge, pc, batch, sessions, signals>>
          /\ \A s \in Sessions : deadline'[s] = Later(deadline[s]) /\ deadline[s] \in Instants
          /\ \A s \in Sessions : Latest(s)' = Later(Latest(s)) /\ Latest(s) \in Instants
          /\ \A s \in Sessions : unseen'[s] = Later(unseen[s]) /\ unseen[s] \in Instants
          /\ m_earliest_deadline' = Later(m_earliest_deadline)
          /\ earliest' = Later(earliest)
          /\ pc = "wait" => left' = Later(left)
      BY <1>1 DEF Tick, TypeOK, Latest
    <2>1. \A t \in Instants : t \in 0 .. Never
      BY DeadlinesAssumption DEF Instants, Never
    <2>2. ASSUME NEW s \in Sessions
          PROVE  /\ m_earliest_deadline <= Latest(s) => m_earliest_deadline' <= Latest(s)'
                 /\ earliest <= Latest(s) => earliest' <= Latest(s)'
                 /\ pc = "wait" /\ left <= Latest(s) + 1 => left' <= Latest(s)' + 1
      <3>1. m_earliest_deadline \in 0 .. Never /\ earliest \in 0 .. Never /\ left \in 0 .. Never
        BY <2>1 DEF TypeOK
      <3> QED BY <2>0, <3>1, LaterFacts
    <2>3. DeadlineCovered'
      BY <2>0, <2>2 DEF DeadlineCovered
    <2>4. SleepNotTooLong'
      BY <2>0, <2>2 DEF SleepNotTooLong
    <2>5. ASSUME NEW s \in Secured, stage[s] \in {"added"} \cup Registering PROVE deadline'[s] <= AcceptTimeout
      <3>1. deadline[s] <= AcceptTimeout /\ deadline'[s] = Later(deadline[s]) /\ deadline[s] \in Instants
        BY <2>0, <2>5, DeadlinesAssumption
      <3> QED BY <3>1, DeadlinesAssumption DEF Later, Instants, Never
    <2>6. ASSUME NEW s \in Sessions, stage[s] = "handshake" PROVE s \in Secured /\ deadline'[s] <= unseen'[s]
      <3>1. s \in Secured /\ deadline[s] <= unseen[s] /\ deadline[s] \in 0 .. Never
        BY <2>0, <2>1, <2>6
      <3> QED BY <2>0, <3>1, LaterFacts
    <2> QED BY <2>0, <2>3, <2>4, <2>5, <2>6
  <1>2. CASE Interrupted
    <2>1. signals' # 0
      BY <1>2, DeadlinesAssumption DEF Interrupted, TypeOK
    <2>2. UNCHANGED <<stage, deadline, unseen, edge, m_earliest_deadline, pc, batch, sessions, earliest>>
      BY <1>2 DEF Interrupted
    <2> QED BY <2>1, <2>2 DEF DeadlineCovered, SleepNotTooLong, Latest
  <1> QED BY <1>1, <1>2

-----------------------------------------------------------------------------
(* Steps of the loop *)

\* What one run of a coroutine does to the deadlines of its session.
LEMMA RunSets ==
    ASSUME Inv, TypeOK', NEW s \in Sessions, s \in batch, pc = "run", Handshake(s) \/ Serve(s) \/ Ends(s)
    PROVE  /\ m_earliest_deadline' <= m_earliest_deadline
           /\ stage'[s] \in Running => m_earliest_deadline' <= Latest(s)'
           /\ stage'[s] = "handshake" => s \in Secured /\ deadline'[s] <= unseen'[s]
  <1> USE DeadlinesAssumption DEF Inv
  <1>0. /\ Timeouts \subseteq Instants /\ Never \in Instants /\ AcceptTimeout \in Timeouts
        /\ \A a \in Instants : a <= Never /\ a <= a
        /\ m_earliest_deadline \in Instants /\ deadline[s] \in Instants
    BY DEF Timeouts, Instants, Never, TypeOK
  <1>1. CASE Handshake(s)
    <2>1. CASE stage[s] = "added"
      <3>1. /\ stage'[s] = "handshake" /\ unseen'[s] = AcceptTimeout /\ NotifyDeadline(AcceptTimeout)
            /\ s \in Secured /\ deadline'[s] = deadline[s] /\ deadline[s] <= AcceptTimeout
        BY <1>1, <2>1 DEF Handshake, SetStage, TypeOK
      <3> QED BY <1>0, <3>1, LesserFacts DEF NotifyDeadline, Latest
    <2>2. CASE stage[s] = "handshake" /\ UNCHANGED <<unseen, m_earliest_deadline>>
      <3>1. stage'[s] = "handshake" /\ deadline'[s] = deadline[s] /\ m_earliest_deadline <= Latest(s)
        BY <1>1, <2>2 DEF Handshake, SetStage, TypeOK, DeadlineCovered, Running
      <3> QED BY <1>0, <2>2, <3>1 DEF Latest
    <2> QED BY <1>1, <2>1, <2>2 DEF Handshake
  <1>2. CASE Serve(s)
    <2>0. stage'[s] = "started" /\ Latest(s)' = deadline'[s]
      BY <1>2 DEF Serve, SetStage, TypeOK, Latest
    <2>1. CASE stage[s] = "started" /\ deadline' \in {deadline, [deadline EXCEPT ![s] = Never]} /\ UNCHANGED m_earliest_deadline
      <3>1. m_earliest_deadline <= deadline[s]
        BY <2>1 DEF DeadlineCovered, Latest, Running
      <3>2. deadline'[s] \in {deadline[s], Never}
        BY <2>1 DEF TypeOK
      <3> QED BY <1>0, <2>0, <2>1, <3>1, <3>2
    <2>2. CASE \E p \in Timeouts :
                 /\ NotifyDeadline(p)
                 /\ \E d \in p .. MaxTicks \cup {Never} : deadline' = [deadline EXCEPT ![s] = d]
      <3>1. PICK p \in Timeouts :
                 /\ NotifyDeadline(p)
                 /\ \E d \in p .. MaxTicks \cup {Never} : deadline' = [deadline EXCEPT ![s] = d]
        BY Zenon, <2>2
      <3>2. PICK d \in p .. MaxTicks \cup {Never} : deadline' = [deadline EXCEPT ![s] = d]
        BY Zenon, <3>1
      <3>3. deadline'[s] = d /\ p <= d /\ p \in Instants /\ d \in Instants
        BY <3>2 DEF TypeOK, Timeouts, Instants, Never
      <3>4. m_earliest_deadline' \in Instants /\ m_earliest_deadline' <= p /\ m_earliest_deadline' <= m_earliest_deadline
        BY <1>0, <3>1, <3>3, LesserFacts DEF NotifyDeadline
      <3> QED BY <2>0, <3>3, <3>4 DEF Instants, Never
    <2> QED BY <1>2, <2>1, <2>2 DEF Serve
  <1>3. CASE Ends(s)
    <2>1. stage'[s] = "none"
      BY <1>3 DEF Ends, Gone, SetStage, TypeOK
    <2>2. PICK p \in Timeouts \cup {Never} : NotifyDeadline(p)
      BY Zenon, <1>3 DEF Ends
    <2> QED BY <1>0, <2>1, <2>2, LesserFacts DEF NotifyDeadline, Running
  <1> QED BY <1>1, <1>2, <1>3

LEMMA InvRunOne == ASSUME Inv, TypeOK', NEW s \in Sessions, RunOne(s) PROVE Inv'
  <1> USE DEF Inv
  <1>0. Handshake(s) \/ Serve(s) \/ Ends(s)
    BY DEF RunOne
  <1>1. /\ pc = "run" /\ s \in batch /\ batch' = batch \ {s}
        /\ UNCHANGED <<pc, sessions, earliest>>
        /\ edge' \subseteq edge /\ edge \subseteq edge' \cup {s}
        /\ stage'[s] = "none" => s \notin edge'
    BY DEF RunOne
  <1>2. /\ \A t \in Sessions \ {s} : stage'[t] = stage[t] /\ deadline'[t] = deadline[t] /\ unseen'[t] = unseen[t]
        /\ stage'[s] \in {"none"} \cup Running
    BY <1>0 DEF TypeOK, Handshake, Serve, Ends, Gone, SetStage, Running
  <1>3. /\ m_earliest_deadline' <= m_earliest_deadline
        /\ stage'[s] \in Running => m_earliest_deadline' <= Latest(s)'
        /\ stage'[s] = "handshake" => s \in Secured /\ deadline'[s] <= unseen'[s]
    BY <1>0, <1>1, RunSets
  <1>4. DeadlineCovered'
    <2>1. ASSUME NEW t \in Sessions, stage'[t] \in Running PROVE m_earliest_deadline' <= Latest(t)'
      <3>1. CASE t = s
        BY <3>1, <2>1, <1>3
      <3>2. CASE t # s
        <4>1. m_earliest_deadline <= Latest(t)' /\ Latest(t)' \in Instants
          BY <3>2, <2>1, <1>1, <1>2 DEF DeadlineCovered, Latest, TypeOK
        <4> QED BY <4>1, <1>3, DeadlinesAssumption DEF TypeOK, Instants, Never
      <3> QED BY <3>1, <3>2
    <2>2. ASSUME NEW t \in Sessions, stage'[t] = "added" PROVE t \in edge' \cup batch'
      BY <2>2, <1>1, <1>2 DEF DeadlineCovered, Running
    <2> QED BY <2>1, <2>2 DEF DeadlineCovered
  <1>5. SleepNotTooLong'
    BY <1>1 DEF SleepNotTooLong
  <1>6. \A t \in edge' \cup batch' : stage'[t] \in {"added"} \cup Running
    BY <1>1, <1>2 DEF TypeOK
  <1>7. edge' \cap batch' \subseteq {t \in Sessions : stage'[t] \in Running}
    BY <1>1, <1>2 DEF TypeOK
  <1>8. \A t \in Secured : stage'[t] \in {"added"} \cup Registering => deadline'[t] <= AcceptTimeout
    BY <1>2, DeadlinesAssumption DEF Running, Registering
  <1>9. \A t \in Sessions : stage'[t] = "handshake" => t \in Secured /\ deadline'[t] <= unseen'[t]
    BY <1>2, <1>3
  <1> QED BY <1>1, <1>4, <1>5, <1>6, <1>7, <1>8, <1>9

LEMMA InvScanOne == ASSUME Inv, TypeOK', NEW s \in Sessions, ScanOne(s) PROVE Inv'
  <1> USE DEF Inv
  <1>1. /\ pc = "scan" /\ sessions' = sessions \ {s} /\ batch = {}
        /\ UNCHANGED <<pc, batch>>
        /\ \A t \in Sessions \ {s} : stage'[t] = stage[t] /\ deadline'[t] = deadline[t] /\ unseen'[t] = unseen[t]
        /\ \/ stage'[s] = "none" /\ edge' = edge \ {s} /\ earliest' = earliest /\ Ends(s)
           \/ /\ earliest' = Lesser(earliest, deadline[s]) /\ m_earliest_deadline' = m_earliest_deadline
              /\ stage'[s] = stage[s] /\ deadline'[s] = deadline[s] /\ unseen'[s] = unseen[s] /\ edge' = edge
    BY DEF TypeOK, ScanOne, Ends, Gone, SetStage
  <1>2. m_earliest_deadline' <= m_earliest_deadline
    <2>1. CASE Ends(s)
      <3>1. PICK p \in Timeouts \cup {Never} : NotifyDeadline(p)
        BY Zenon, <2>1 DEF Ends
      <3>2. p \in Instants
        BY DeadlinesAssumption DEF Timeouts, Instants, Never
      <3> QED BY <3>1, <3>2, LesserFacts DEF NotifyDeadline, TypeOK
    <2>2. CASE m_earliest_deadline' = m_earliest_deadline
      BY <2>2, DeadlinesAssumption DEF TypeOK, Instants, Never
    <2> QED BY <1>1, <2>1, <2>2
  <1>3. earliest' <= earliest /\ (stage'[s] # "none" => earliest' <= deadline'[s])
    BY <1>1, LesserFacts, DeadlinesAssumption DEF TypeOK, Instants, Never
  <1>4. stage'[s] = "handshake" => deadline'[s] <= unseen'[s] /\ s \in Secured
    BY <1>1
  <1>5. stage'[s] \in Running => earliest' <= Latest(s)'
    BY <1>3, <1>4, DeadlinesAssumption DEF TypeOK, Instants, Never, Latest, Running
  <1>6. DeadlineCovered'
    <2>1. ASSUME NEW t \in Sessions, stage'[t] \in Running
          PROVE  m_earliest_deadline' <= Latest(t)' \/ t \in sessions' \/ earliest' <= Latest(t)'
      <3>1. CASE t = s
        BY <3>1, <2>1, <1>5
      <3>2. CASE t # s
        <4>1. Latest(t)' = Latest(t) /\ Latest(t) \in Instants
          BY <3>2, <1>1 DEF Latest, TypeOK
        <4>2. m_earliest_deadline <= Latest(t) \/ t \in sessions \/ earliest <= Latest(t)
          BY <3>2, <2>1, <1>1 DEF DeadlineCovered
        <4> QED BY <4>1, <4>2, <3>2, <1>1, <1>2, <1>3, DeadlinesAssumption DEF TypeOK, Instants, Never
      <3> QED BY <3>1, <3>2
    <2>2. ASSUME NEW t \in Sessions, stage'[t] = "added" PROVE t \in edge' \cup batch'
      BY <2>2, <1>1 DEF DeadlineCovered
    <2> QED BY <1>1, <2>1, <2>2 DEF DeadlineCovered
  <1>7. SleepNotTooLong'
    BY <1>1 DEF SleepNotTooLong
  <1>8. sessions' \subseteq {t \in Sessions : stage'[t] \in {"inserted", "added"} \cup Running}
    BY <1>1
  <1>9. \A t \in edge' \cup batch' : stage'[t] \in {"added"} \cup Running
    BY <1>1 DEF TypeOK
  <1>10. \A t \in Secured : stage'[t] \in {"added"} \cup Registering => deadline'[t] <= AcceptTimeout
    BY <1>1, DeadlinesAssumption DEF Registering
  <1>11. \A t \in Sessions : stage'[t] = "handshake" => t \in Secured /\ deadline'[t] <= unseen'[t]
    BY <1>1, <1>4
  <1> QED BY <1>1, <1>6, <1>7, <1>8, <1>9, <1>10, <1>11

LEMMA InvLoop ==
    ASSUME Inv, TypeOK', EpollWait \/ RunDone \/ Check \/ Clear \/ Snapshot \/ ScanDone \/ Sleep
    PROVE  Inv'
  <1> USE DEF Inv
  <1>1. CASE EpollWait
    BY <1>1 DEF EpollWait, DeadlineCovered, SleepNotTooLong, Latest
  <1>2. CASE RunDone
    BY <1>2 DEF RunDone, DeadlineCovered, SleepNotTooLong, Latest
  <1>3. CASE Check
    BY <1>3 DEF Check, DeadlineCovered, SleepNotTooLong, Latest
  <1>4. CASE Clear
    BY <1>4 DEF Clear, DeadlineCovered, SleepNotTooLong, Latest
  <1>5. CASE Snapshot
    BY <1>5 DEF Snapshot, DeadlineCovered, SleepNotTooLong, Latest
  <1>6. CASE ScanDone
    <2>1. m_earliest_deadline' <= m_earliest_deadline /\ m_earliest_deadline' <= earliest
      BY <1>6, LesserFacts DEF ScanDone, NotifyDeadline, TypeOK
    <2>2. ASSUME NEW s \in Sessions, stage[s] \in Running PROVE m_earliest_deadline' <= Latest(s)
      <3>1. m_earliest_deadline <= Latest(s) \/ earliest <= Latest(s)
        BY <1>6, <2>2 DEF ScanDone, DeadlineCovered
      <3>2. Latest(s) \in Instants
        BY DEF Latest, TypeOK
      <3> QED BY <2>1, <3>1, <3>2, DeadlinesAssumption DEF TypeOK, Instants, Never
    <2> QED BY <1>6, <2>2 DEF ScanDone, DeadlineCovered, SleepNotTooLong, Latest
  <1>7. CASE Sleep
    <2>1. ASSUME NEW s \in Sessions, stage[s] \in Running PROVE left' <= Latest(s) + 1
      <3>1. m_earliest_deadline <= Latest(s) /\ Latest(s) \in Instants
        BY <1>7, <2>1 DEF Sleep, DeadlineCovered, Latest, TypeOK
      <3>2. left' = IF m_earliest_deadline = Never THEN Never ELSE m_earliest_deadline + 1
        BY <1>7 DEF Sleep
      <3> QED BY <3>1, <3>2, DeadlinesAssumption DEF TypeOK, Instants, Never
    <2> QED BY <1>7, <2>1 DEF Sleep, DeadlineCovered, SleepNotTooLong, Latest
  <1> QED BY <1>1, <1>2, <1>3, <1>4, <1>5, <1>6, <1>7

-----------------------------------------------------------------------------
\* The inductive invariant holds in every state.
THEOREM InvHolds == Spec => []Inv
  <1>1. Init => Inv
    BY DeadlinesAssumption DEF Init, Inv, TypeOK, DeadlineCovered, SleepNotTooLong, Instants, Never, Running, Registering
  <1>2. Inv /\ [Next]_vars => Inv'
    <2> SUFFICES ASSUME Inv, [Next]_vars PROVE Inv'
      OBVIOUS
    <2>1. TypeOK'
      BY TypeNext DEF Inv
    <2>2. CASE UNCHANGED vars
      BY <2>2 DEF vars, Inv, TypeOK, DeadlineCovered, SleepNotTooLong, Latest
    <2> QED BY <2>1, <2>2, InvAccepting, InvTick, InvRunOne, InvScanOne, InvLoop
            DEF Next, LoopThread, Accepting
  <1> QED BY <1>1, <1>2, PTL DEF Spec

\* No interleaving of notify_deadline with the scan loses the last deadline
\* that a running session has set, also while it shakes hands and next_timeout()
\* does not return that deadline yet.
THEOREM NoDeadlineLost == Spec => []DeadlineCovered
  BY InvHolds, PTL DEF Inv

\* loop() gives epoll_wait a timeout that ends, undisturbed by signals, a tick
\* after the last deadline of each running session at the latest.
THEOREM LoopWakesInTime == Spec => []SleepNotTooLong
  BY InvHolds, PTL DEF Inv
=============================================================================
