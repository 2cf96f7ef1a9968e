------------------------ MODULE CheckpointTaskProofs ------------------------
(***************************************************************************)
(* For any number of sessions: the background thread waits for a FLUSH     *)
(* that waits for it only after a CLEANUP or SNAPSHOT has cleared the flag *)
(* of a queued task, and only a delta checkpoint that is given up leaves   *)
(* the flag set for nobody.                                                *)
(***************************************************************************)
EXTENDS CheckpointTask, Integers, TLAPS

(* A flagged task has left the queue, and its inner function is not done.  *)
Executing == bg_pc \in {"begin", "inner"} /\ bg_task \in Flagged

(* checkpoint_in_progress_ covers every flagged task, of which there is at *)
(* most one: as long as no command has cleared the flag too early.         *)
OneTask ==
    /\ Queued \/ Executing => checkpoint_in_progress
    /\ Executing => ~Queued
    /\ bg_pc = "inner" => bg_task \in Trigger
    /\ \A i, j \in DOMAIN task_queue :
          task_queue[i] \in Flagged /\ task_queue[j] \in Flagged => i = j

(* A FLUSH that waits has its task queued or executed.                     *)
WaitingHasTask ==
    \A s \in Flusher : session[s] = "waiting" =>
        \/ bg_pc = "begin" /\ bg_task = s
        \/ \E i \in DOMAIN task_queue : task_queue[i] = s

(* Only CLEANUP has a second task, which is no checkpoint.                 *)
FlushIsNoCleanup == \A s \in Flusher : session[s] \notin {"cleanup", "cleaning"}

IInv == TypeOK /\ (overridden \/ OneTask) /\ WaitingHasTask /\ FlushIsNoCleanup

(* A step has appended a task of owner o to the queue.                     *)
Appended(o) ==
    /\ task_queue' \in Seq(Owner)
    /\ \A i \in DOMAIN task_queue :
          i \in DOMAIN task_queue' /\ task_queue'[i] = task_queue[i]
    /\ \E n \in DOMAIN task_queue' :
          /\ task_queue'[n] = o
          /\ \A i \in DOMAIN task_queue' : i \in DOMAIN task_queue \/ i = n

(* What Append does to a queue.                                            *)
LEMMA AppendQueue ==
    ASSUME NEW q \in Seq(Owner), NEW o \in Owner
    PROVE  /\ Append(q, o) \in Seq(Owner)
           /\ \A i \in DOMAIN q : i \in DOMAIN Append(q, o) /\ Append(q, o)[i] = q[i]
           /\ \A i \in DOMAIN Append(q, o) : i \in DOMAIN q \/ i = Len(q) + 1
           /\ Len(q) + 1 \in DOMAIN Append(q, o) /\ Append(q, o)[Len(q) + 1] = o
  OBVIOUS

(* What taking the first task does to a queue.                             *)
LEMMA TailQueue ==
    ASSUME NEW q \in Seq(Owner), q # <<>>
    PROVE  /\ Tail(q) \in Seq(Owner)
           /\ Head(q) \in Owner
           /\ 1 \in DOMAIN q /\ Head(q) = q[1]
           /\ \A i \in DOMAIN Tail(q) :
                 i + 1 # 1 /\ i + 1 \in DOMAIN q /\ Tail(q)[i] = q[i + 1]
           /\ \A i, j \in DOMAIN Tail(q) : i + 1 = j + 1 => i = j
           /\ \A i \in DOMAIN q : i # 1 =>
                 i \in Int /\ i - 1 \in DOMAIN Tail(q) /\ Tail(q)[i - 1] = q[i]
  OBVIOUS

(* A task of someone else does not take a waiting session's task away.     *)
LEMMA WaitingAppended ==
    ASSUME NEW o, Appended(o), WaitingHasTask, UNCHANGED <<bg_task, bg_pc, session>>
    PROVE  WaitingHasTask'
  <1> SUFFICES ASSUME NEW s \in Flusher, session[s] = "waiting"
               PROVE  \/ bg_pc = "begin" /\ bg_task = s
                      \/ \E i \in DOMAIN task_queue' : task_queue'[i] = s
    BY DEF WaitingHasTask
  <1>1. CASE \E i \in DOMAIN task_queue : task_queue[i] = s
    BY <1>1 DEF Appended
  <1> QED
    BY <1>1 DEF WaitingHasTask

(* No flagged task waits behind the one the background thread executes.    *)
LEMMA OneTaskSuffices == IInv => NoMutualWait
  <1> SUFFICES ASSUME IInv, MutualWait, ~overridden
               PROVE  FALSE
    BY DEF NoMutualWait
  <1>0. /\ bg_pc = "begin" /\ bg_task = "full" /\ ckp_begin_ts \in Flusher
        /\ session[ckp_begin_ts] = "waiting"
    BY DEF MutualWait
  <1>1. bg_task \in Trigger
    BY <1>0, ConstantsAssumption DEF IInv, TypeOK, Owner, Other, NoOne
  <1>2. bg_task \notin Flusher
    BY <1>0, ConstantsAssumption DEF Session
  <1>3. ~Queued
    BY <1>0, <1>1 DEF IInv, OneTask, Executing, Flagged
  <1> QED
    BY <1>0, <1>2, <1>3 DEF IInv, WaitingHasTask, Queued, Flagged

(* The initial state: an empty queue and no waiting session.               *)
LEMMA InitOneTask == Init => IInv
  <1> SUFFICES ASSUME Init PROVE IInv
    OBVIOUS
  <1>1. TypeOK
    <2>1. <<>> \in Seq(Owner)
      OBVIOUS
    <2>2. session \in [Session -> {"idle"}]
      BY DEF Init
    <2> QED
      BY <2>1, <2>2 DEF Init, TypeOK
  <1>2. DOMAIN task_queue = {}
    BY DEF Init
  <1>3. OneTask
    BY <1>2 DEF Init, OneTask, Executing, Queued
  <1>4. WaitingHasTask /\ FlushIsNoCleanup
    BY DEF Init, WaitingHasTask, FlushIsNoCleanup, Session
  <1> QED
    BY <1>1, <1>3, <1>4 DEF IInv

(* A submission by TrySubmitCheckpointTask keeps the flag exact.           *)
LEMMA FlaggedSubmitted ==
    ASSUME NEW o \in Flagged, Appended(o), overridden \/ OneTask, ~checkpoint_in_progress,
           checkpoint_in_progress' = TRUE, UNCHANGED <<bg_task, bg_pc, overridden>>
    PROVE  overridden' \/ OneTask'
  <1> SUFFICES ASSUME OneTask PROVE OneTask'
    OBVIOUS
  <1>1. ~Queued /\ ~Executing
    BY DEF OneTask
  <1> QED
    BY <1>1 DEF OneTask, Queued, Executing, Appended

(* So does the submission of a task the flag is not for.                   *)
LEMMA OtherSubmitted ==
    ASSUME NEW o, o \notin Flagged, Appended(o), overridden \/ OneTask,
           UNCHANGED <<checkpoint_in_progress, bg_task, bg_pc, overridden>>
    PROVE  overridden' \/ OneTask'
  <1> SUFFICES ASSUME OneTask PROVE OneTask'
    OBVIOUS
  <1>1. \A i \in DOMAIN task_queue' : task_queue'[i] \in Flagged =>
            i \in DOMAIN task_queue /\ task_queue'[i] = task_queue[i]
    BY DEF Appended
  <1> QED
    BY <1>1 DEF OneTask, Queued, Executing

(* Every step keeps the invariant.                                         *)
LEMMA NextOneTask == IInv /\ [Next]_vars => IInv'
  <1> SUFFICES ASSUME IInv, [Next]_vars
               PROVE  IInv'
    OBVIOUS
  <1> USE ConstantsAssumption DEF IInv, TypeOK, FlushIsNoCleanup, Goes, Session, NoOne, Other
  <1>1. ASSUME NEW s \in Flusher, BeginFlush(s)
        PROVE  IInv'
    BY <1>1 DEF BeginFlush, OneTask, WaitingHasTask, Executing, Queued
  <1>2. ASSUME NEW s \in Flusher, RefuseFlush(s)
        PROVE  IInv'
    BY <1>2 DEF RefuseFlush, OneTask, WaitingHasTask, Executing, Queued
  <1>3. ASSUME NEW s \in Flusher, FlushData(s)
        PROVE  IInv'
    <2>1. CASE ~MaySubmit
      <3>1. /\ session' = [session EXCEPT ![s] = "commit"]
            /\ UNCHANGED <<checkpoint_in_progress, task_queue, ckp_begin_ts, bg_task, bg_pc,
                           running, overridden>>
        BY <1>3, <2>1 DEF FlushData
      <3> QED
        BY <3>1 DEF OneTask, WaitingHasTask, Executing, Queued
    <2>2. CASE MaySubmit
      <3>1. /\ task_queue' = Append(task_queue, s)
            /\ checkpoint_in_progress' = TRUE /\ ~checkpoint_in_progress
            /\ session' = [session EXCEPT ![s] = "waiting"]
            /\ UNCHANGED <<ckp_begin_ts, bg_task, bg_pc, running, overridden>>
        BY <1>3, <2>2 DEF FlushData, MaySubmit, Submit
      <3>2. s \in Owner /\ s \in Flagged
        BY DEF Owner, Flagged
      <3>3. Appended(s)
        BY <3>1, <3>2, AppendQueue DEF Appended
      <3>4. TypeOK' /\ FlushIsNoCleanup'
        BY <3>1, <3>3 DEF Appended
      <3>5. overridden' \/ OneTask'
        BY <3>1, <3>2, <3>3, FlaggedSubmitted
      <3>6. ASSUME NEW t \in Flusher, session'[t] = "waiting"
            PROVE  \/ bg_pc' = "begin" /\ bg_task' = t
                   \/ \E i \in DOMAIN task_queue' : task_queue'[i] = t
        <4>1. CASE t = s
          BY <3>3, <4>1 DEF Appended
        <4>2. CASE t # s
          <5>1. session[t] = "waiting"
            BY <3>1, <3>6, <4>2
          <5>2. CASE \E i \in DOMAIN task_queue : task_queue[i] = t
            BY <3>3, <5>2 DEF Appended
          <5>3. CASE bg_pc = "begin" /\ bg_task = t
            BY <3>1, <5>3
          <5> QED
            BY <5>1, <5>2, <5>3 DEF WaitingHasTask
        <4> QED
          BY <4>1, <4>2
      <3> QED
        BY <3>4, <3>5, <3>6 DEF WaitingHasTask
    <2> QED
      BY <2>1, <2>2
  <1>4. ASSUME NEW s \in Commander, Command(s)
        PROVE  IInv'
    <2>1. PICK l \in {"waiting", "cleaning"} :
             /\ session' = [session EXCEPT ![s] = l]
             /\ task_queue' = Append(task_queue, s)
             /\ UNCHANGED <<checkpoint_in_progress, ckp_begin_ts, bg_task, bg_pc, running,
                            overridden>>
      BY <1>4 DEF Command, Submit
    <2>2. s \in Owner /\ s \notin Flagged /\ s \notin Flusher
      BY DEF Owner, Flagged
    <2>3. Appended(s)
      BY <2>1, <2>2, AppendQueue DEF Appended
    <2>4. TypeOK' /\ FlushIsNoCleanup'
      BY <2>1, <2>2, <2>3 DEF Appended
    <2>5. overridden' \/ OneTask'
      BY <2>1, <2>2, <2>3, OtherSubmitted
    <2>6. ASSUME NEW t \in Flusher, session'[t] = "waiting"
          PROVE  \/ bg_pc' = "begin" /\ bg_task' = t
                 \/ \E i \in DOMAIN task_queue' : task_queue'[i] = t
      <3>1. session[t] = "waiting"
        BY <2>1, <2>2, <2>6
      <3>2. CASE \E i \in DOMAIN task_queue : task_queue[i] = t
        BY <2>3, <3>2 DEF Appended
      <3>3. CASE bg_pc = "begin" /\ bg_task = t
        BY <2>1, <3>3
      <3> QED
        BY <3>1, <3>2, <3>3 DEF WaitingHasTask
    <2> QED
      BY <2>4, <2>5, <2>6 DEF WaitingHasTask
  <1>5. ASSUME NEW s \in Session, CommitTxn(s)
        PROVE  IInv'
    BY <1>5 DEF CommitTxn, OneTask, WaitingHasTask, Executing, Queued
  <1>6. ASSUME NEW full \in Trigger, TriggerCheckpoint(full)
        PROVE  IInv'
    <2>1. /\ task_queue' = Append(task_queue, full)
          /\ checkpoint_in_progress' = TRUE /\ ~checkpoint_in_progress
          /\ UNCHANGED <<ckp_begin_ts, bg_task, bg_pc, session, running, overridden>>
      BY <1>6 DEF TriggerCheckpoint, MaySubmit, Submit
    <2>2. full \in Owner /\ full \in Flagged
      BY DEF Owner, Flagged
    <2>3. Appended(full)
      BY <2>1, <2>2, AppendQueue DEF Appended
    <2>4. TypeOK' /\ FlushIsNoCleanup'
      BY <2>1, <2>3 DEF Appended
    <2>5. overridden' \/ OneTask'
      BY <2>1, <2>2, <2>3, FlaggedSubmitted
    <2>6. WaitingHasTask'
      BY <2>1, <2>3, WaitingAppended
    <2> QED
      BY <2>4, <2>5, <2>6
  <1>7. ASSUME SubmitOther
        PROVE  IInv'
    <2>1. /\ task_queue' = Append(task_queue, Other)
          /\ UNCHANGED <<checkpoint_in_progress, ckp_begin_ts, bg_task, bg_pc, session,
                         running, overridden>>
      BY <1>7 DEF SubmitOther, Submit
    <2>2. Other \in Owner /\ Other \notin Flagged
      BY DEF Owner, Flagged
    <2>3. Appended(Other)
      BY <2>1, <2>2, AppendQueue DEF Appended
    <2>4. TypeOK' /\ FlushIsNoCleanup'
      BY <2>1, <2>3 DEF Appended
    <2>5. overridden' \/ OneTask'
      BY <2>1, <2>2, <2>3, OtherSubmitted
    <2>6. WaitingHasTask'
      BY <2>1, <2>3, WaitingAppended
    <2> QED
      BY <2>4, <2>5, <2>6
  <1>8. ASSUME Dequeue
        PROVE  IInv'
    <2>1. /\ task_queue # <<>> /\ bg_pc = "idle" /\ bg_pc' = "begin"
          /\ task_queue' = Tail(task_queue) /\ bg_task' = Head(task_queue)
          /\ UNCHANGED <<checkpoint_in_progress, ckp_begin_ts, session, running, overridden>>
      BY <1>8 DEF Dequeue
    <2>2. TypeOK' /\ FlushIsNoCleanup'
      BY <2>1, TailQueue
    <2>3. /\ bg_task' = task_queue[1] /\ 1 \in DOMAIN task_queue
          /\ \A i \in DOMAIN task_queue' :
                /\ i + 1 # 1 /\ i + 1 \in DOMAIN task_queue
                /\ task_queue'[i] = task_queue[i + 1]
          /\ \A i, j \in DOMAIN task_queue' : i + 1 = j + 1 => i = j
      BY <2>1, TailQueue
    <2>4. ASSUME OneTask
          PROVE  OneTask'
      <3>1. Queued' \/ Executing' => Queued
        BY <2>3 DEF Queued, Executing
      <3>2. Executing' => ~Queued'
        <4> SUFFICES ASSUME Executing', NEW i \in DOMAIN task_queue',
                            task_queue'[i] \in Flagged
                     PROVE  FALSE
          BY DEF Queued
        <4>1. task_queue[1] \in Flagged /\ task_queue[i + 1] \in Flagged
          BY <2>3 DEF Executing
        <4>2. 1 \in DOMAIN task_queue /\ i + 1 \in DOMAIN task_queue
          BY <2>3
        <4>3. 1 = i + 1
          BY <2>4, <4>1, <4>2 DEF OneTask
        <4>4. i + 1 # 1
          BY <2>3
        <4> QED
          BY <4>3, <4>4
      <3>3. ASSUME NEW i \in DOMAIN task_queue', NEW j \in DOMAIN task_queue',
                   task_queue'[i] \in Flagged, task_queue'[j] \in Flagged
            PROVE  i = j
        <4>1. i + 1 = j + 1
          BY <2>4, <3>3, <2>3 DEF OneTask
        <4> QED
          BY <4>1, <2>3
      <3> QED
        BY <2>1, <2>4, <3>1, <3>2, <3>3 DEF OneTask
    <2>5. ASSUME NEW s \in Flusher, session'[s] = "waiting"
          PROVE  \/ bg_pc' = "begin" /\ bg_task' = s
                 \/ \E i \in DOMAIN task_queue' : task_queue'[i] = s
      <3>1. PICK i \in DOMAIN task_queue : task_queue[i] = s
        BY <2>1, <2>5 DEF WaitingHasTask
      <3>2. CASE i = 1
        BY <3>1, <3>2, <2>1, <2>3
      <3>3. CASE i # 1
        <4>1. i - 1 \in DOMAIN task_queue' /\ task_queue'[i - 1] = s
          BY <3>1, <3>3, <2>1, TailQueue
        <4> QED
          BY <4>1
      <3> QED
        BY <3>2, <3>3
    <2> QED
      BY <2>1, <2>2, <2>4, <2>5 DEF WaitingHasTask
  <1>9. ASSUME ForceCheckpoint
        PROVE  IInv'
    <2>1. PICK l \in {"commit", "cleanup"} :
             /\ session' = [session EXCEPT ![bg_task] = l]
             /\ bg_task \in Session /\ (l = "cleanup" => bg_task \in Commander)
             /\ bg_pc = "begin" /\ bg_pc' = "idle" /\ bg_task' = NoOne
             /\ checkpoint_in_progress' = FALSE
             /\ overridden' = (overridden \/ (bg_task \in Commander /\ Queued))
             /\ UNCHANGED <<ckp_begin_ts, task_queue, running>>
      BY <1>9 DEF ForceCheckpoint
    <2>2. TypeOK' /\ FlushIsNoCleanup'
      BY <2>1
    <2>3. overridden' \/ OneTask'
      <3>1. CASE bg_task \in Commander
        BY <2>1, <3>1 DEF OneTask, Executing, Queued
      <3>2. CASE bg_task \in Flusher
        BY <2>1, <3>2 DEF OneTask, Executing, Queued, Flagged
      <3> QED
        BY <2>1, <3>1, <3>2
    <2>4. WaitingHasTask'
      BY <2>1 DEF WaitingHasTask
    <2> QED
      BY <2>2, <2>3, <2>4
  <1>10. ASSUME ExecuteOther
         PROVE  IInv'
    BY <1>10 DEF ExecuteOther, OneTask, WaitingHasTask, Executing, Queued, Flagged
  <1>11. ASSUME BeginCheckpoint
         PROVE  IInv'
    BY <1>11 DEF BeginCheckpoint, OneTask, WaitingHasTask, Executing, Queued, Flagged
  <1>12. ASSUME GiveUpDelta
         PROVE  IInv'
    BY <1>12 DEF GiveUpDelta, OneTask, WaitingHasTask, Executing, Queued, Flagged
  <1>13. ASSUME CheckpointInner
         PROVE  IInv'
    BY <1>13 DEF CheckpointInner, OneTask, WaitingHasTask, Executing, Queued, Flagged
  <1>14. ASSUME CommitCheckpoint
         PROVE  IInv'
    BY <1>14 DEF CommitCheckpoint, OneTask, WaitingHasTask, Executing, Queued, Flagged
  <1>15. ASSUME UNCHANGED vars
         PROVE  IInv'
    BY <1>15 DEF vars, OneTask, WaitingHasTask, Executing, Queued
  <1> QED
    BY <1>1, <1>2, <1>3, <1>4, <1>5, <1>6, <1>7, <1>8, <1>9, <1>10, <1>11, <1>12,
       <1>13, <1>14, <1>15 DEF Next, Process

(* Whatever the number of sessions, the retry loop of                      *)
(* BGTaskProcessor::Process waits for a FLUSH that waits for the           *)
(* background thread only after a CLEANUP or SNAPSHOT has cleared          *)
(* checkpoint_in_progress_ under a queued task.                            *)
THEOREM FlushNeverBehindRetry == Spec => []NoMutualWait
  <1>1. Init => IInv
    BY InitOneTask
  <1>2. IInv /\ [Next]_vars => IInv'
    BY NextOneTask
  <1>3. IInv => NoMutualWait
    BY OneTaskSuffices
  <1> QED
    BY <1>1, <1>2, <1>3, PTL DEF Spec

(* A step that leaves the flag set and no task for it is a delta           *)
(* checkpoint of a trigger that is given up.                               *)
LEMMA FlagStep ==
    ASSUME IInv, Next, checkpoint_in_progress', ~Pending'
    PROVE  GiveUpDelta \/ (checkpoint_in_progress /\ ~Pending)
  <1> USE ConstantsAssumption DEF IInv, TypeOK, FlushIsNoCleanup, Session, NoOne, Other
  <1>1. ASSUME NEW o \in Owner, task_queue' = Append(task_queue, o),
               UNCHANGED <<bg_task, bg_pc>>
        PROVE  /\ o \notin Flagged
               /\ ~Pending
    <2>1. Appended(o)
      BY <1>1, AppendQueue DEF Appended
    <2> QED
      BY <1>1, <2>1 DEF Appended, Pending, Queued
  <1>2. ASSUME UNCHANGED <<checkpoint_in_progress, task_queue, bg_task, bg_pc>>
        PROVE  checkpoint_in_progress /\ ~Pending
    BY <1>2 DEF Pending, Queued
  <1>3. CASE \E s \in Flusher : BeginFlush(s) \/ RefuseFlush(s)
    BY <1>2, <1>3 DEF BeginFlush, RefuseFlush
  <1>4. CASE \E s \in Flusher : FlushData(s)
    <2>1. PICK s \in Flusher : FlushData(s)
      BY <1>4
    <2>2. CASE MaySubmit
      BY <2>1, <2>2, <1>1 DEF FlushData, Submit, Owner, Flagged
    <2>3. CASE ~MaySubmit
      BY <2>1, <2>3, <1>2 DEF FlushData
    <2> QED
      BY <2>2, <2>3
  <1>5. CASE \E s \in Session : CommitTxn(s)
    BY <1>2, <1>5 DEF CommitTxn
  <1>6. CASE \E s \in Commander : Command(s)
    BY <1>1, <1>6 DEF Command, Submit, Owner
  <1>7. CASE \E full \in Trigger : TriggerCheckpoint(full)
    BY <1>1, <1>7 DEF TriggerCheckpoint, Submit, Owner, Flagged
  <1>8. CASE SubmitOther
    BY <1>1, <1>8 DEF SubmitOther, Submit, Owner
  <1>9. CASE Dequeue
    <2>1. /\ task_queue # <<>> /\ bg_pc = "idle" /\ bg_pc' = "begin"
          /\ task_queue' = Tail(task_queue) /\ bg_task' = Head(task_queue)
          /\ UNCHANGED checkpoint_in_progress
      BY <1>9 DEF Dequeue
    <2>2. ~Queued
      <3> SUFFICES ASSUME NEW i \in DOMAIN task_queue, task_queue[i] \in Flagged
                   PROVE  FALSE
        BY DEF Queued
      <3>1. CASE i = 1
        BY <2>1, <3>1, TailQueue DEF Pending
      <3>2. CASE i # 1
        <4>1. i - 1 \in DOMAIN task_queue' /\ task_queue'[i - 1] = task_queue[i]
          BY <2>1, <3>2, TailQueue
        <4>2. Queued'
          BY <4>1 DEF Queued
        <4> QED
          BY <4>2 DEF Pending
      <3> QED
        BY <3>1, <3>2
    <2> QED
      BY <2>1, <2>2 DEF Pending
  <1>10. CASE ForceCheckpoint \/ CheckpointInner
    BY <1>10 DEF ForceCheckpoint, CheckpointInner
  <1>11. CASE ExecuteOther
    BY <1>11 DEF ExecuteOther, Pending, Queued, Flagged
  <1>12. CASE BeginCheckpoint
    BY <1>12 DEF BeginCheckpoint, Pending, Queued, Flagged
  <1>13. CASE CommitCheckpoint
    BY <1>13 DEF CommitCheckpoint, Pending, Queued
  <1> QED
    BY <1>3, <1>4, <1>5, <1>6, <1>7, <1>8, <1>9, <1>10, <1>11, <1>12, <1>13
    DEF Next, Process

(* checkpoint_in_progress_ outlives the tasks that would clear it in one   *)
(* way only, for any sessions and triggers: Process gives up the delta     *)
(* checkpoint of a trigger that is refused its transaction.                *)
THEOREM FlagLeftOnlyByGiveUp == Spec => FlagLeftByGiveUp
  <1>1. Init => IInv
    BY InitOneTask
  <1>2. IInv /\ [Next]_vars => IInv'
    BY NextOneTask
  <1>3. IInv /\ [Next]_vars =>
          [checkpoint_in_progress' /\ ~Pending' =>
             GiveUpDelta \/ (checkpoint_in_progress /\ ~Pending)]_vars
    BY FlagStep
  <1> QED
    BY <1>1, <1>2, <1>3, PTL DEF Spec, FlagLeftByGiveUp

=============================================================================
