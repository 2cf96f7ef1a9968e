--------------------------- MODULE CheckpointTask ---------------------------
(***************************************************************************)
(* Who runs a checkpoint and when: the FLUSH statement (PhysicalFlush),    *)
(* the CLEANUP and SNAPSHOT commands (PhysicalCommand), the periodic and   *)
(* size triggers, and the one background thread that executes their tasks  *)
(* (BGTaskProcessor::Process), kept apart by two independent devices:      *)
(* checkpoint_in_progress_ of WalManager, for the submission of tasks, and *)
(* ckp_begin_ts_ of TxnManager, for transactions of type kCheckpoint.      *)
(* What a checkpoint does is in module Checkpoint.                         *)
(***************************************************************************)
EXTENDS Naturals, Sequences

CONSTANTS Flusher,    \* sessions that run FLUSH
          Commander,  \* sessions that run CLEANUP or SNAPSHOT
          Trigger,    \* triggers in use: subset of {"full", "delta"}
          MaxQueue    \* bound: only sessions submit to a queue of this length

Session == Flusher \cup Commander
NoOne == "no one"
Other == "other"  \* a task that is no checkpoint and nobody waits for

ASSUME ConstantsAssumption ==
    /\ Trigger \subseteq {"full", "delta"}
    /\ Flusher \cap Commander = {}
    /\ Session \cap {NoOne, Other, "full", "delta"} = {}
    /\ MaxQueue \in Nat

VARIABLES
    checkpoint_in_progress,  \* WalManager::checkpoint_in_progress_
    ckp_begin_ts,            \* who holds it: a session, a trigger's task, NoOne
    task_queue,              \* owners of the queued tasks
    bg_task,                 \* owner of the task being executed, or NoOne
    bg_pc,                   \* where the background thread is in it
    session,                 \* what each session is doing
    running,                 \* the process has not ended
    overridden               \* history: a command cleared the flag of a queued task

vars == <<checkpoint_in_progress, ckp_begin_ts, task_queue, bg_task, bg_pc, session,
          running, overridden>>

Init ==
    /\ checkpoint_in_progress = FALSE
    /\ ckp_begin_ts = NoOne
    /\ task_queue = <<>>
    /\ bg_task = NoOne /\ bg_pc = "idle"
    /\ session = [s \in Session |-> "idle"]
    /\ running = TRUE /\ overridden = FALSE

Goes(s, l) == session' = [session EXCEPT ![s] = l]
Submit(owner) == task_queue' = Append(task_queue, owner)

(* TrySubmitCheckpointTask: the compare-and-exchange and its success.      *)
Mut_MaySubmit == TRUE
MaySubmit == ~checkpoint_in_progress

-----------------------------------------------------------------------------
(* FLUSH: QueryContext::BeginTxn, PhysicalFlush::FlushData, CommitTxn.     *)
BeginFlush(s) ==
    /\ session[s] = "idle" /\ ckp_begin_ts = NoOne
    /\ ckp_begin_ts' = s
    /\ Goes(s, "begun")
    /\ UNCHANGED <<checkpoint_in_progress, task_queue, bg_task, bg_pc, running, overridden>>

(* While another checkpoint transaction is open BeginTxn throws before the *)
(* session has a transaction, and the catch block of QueryStatement rolls  *)
(* that null transaction back: the process ends.                           *)
RefuseFlush(s) ==
    /\ session[s] = "idle" /\ ckp_begin_ts # NoOne
    /\ running' = FALSE
    /\ UNCHANGED <<checkpoint_in_progress, ckp_begin_ts, task_queue, bg_task, bg_pc, session,
                   overridden>>

FlushData(s) ==
    /\ session[s] = "begun"
    /\ IF MaySubmit
       THEN checkpoint_in_progress' = TRUE /\ Submit(s) /\ Goes(s, "waiting")
       ELSE Goes(s, "commit") /\ UNCHANGED <<checkpoint_in_progress, task_queue>>
    /\ UNCHANGED <<ckp_begin_ts, bg_task, bg_pc, running, overridden>>

(* CLEANUP and SNAPSHOT submit their checkpoint task directly; CLEANUP     *)
(* then submits a cleanup task and waits for it, too.                      *)
Command(s) ==
    /\ \/ session[s] = "idle" /\ Goes(s, "waiting")
       \/ session[s] = "cleanup" /\ Goes(s, "cleaning")
    /\ Submit(s)
    /\ UNCHANGED <<checkpoint_in_progress, ckp_begin_ts, bg_task, bg_pc, running, overridden>>

(* CommitTxn; only the transaction of a FLUSH holds ckp_begin_ts_.         *)
CommitTxn(s) ==
    /\ session[s] = "commit"
    /\ Goes(s, "idle")
    /\ ckp_begin_ts' = IF s \in Flusher THEN NoOne ELSE ckp_begin_ts
    /\ UNCHANGED <<checkpoint_in_progress, task_queue, bg_task, bg_pc, running, overridden>>

(* CheckpointPeriodicTrigger::Trigger, and the size test of Flush.         *)
TriggerCheckpoint(full) ==
    /\ MaySubmit /\ Len(task_queue) < MaxQueue
    /\ checkpoint_in_progress' = TRUE
    /\ Submit(full)
    /\ UNCHANGED <<ckp_begin_ts, bg_task, bg_pc, session, running, overridden>>

(* AddDeltaEntryTask, the CleanupTask of the trigger, and the like.        *)
SubmitOther ==
    /\ Len(task_queue) < MaxQueue
    /\ Submit(Other)
    /\ UNCHANGED <<checkpoint_in_progress, ckp_begin_ts, bg_task, bg_pc, session, running, overridden>>

-----------------------------------------------------------------------------
(* The background thread takes the next task.                              *)
Dequeue ==
    /\ bg_pc = "idle" /\ task_queue # <<>>
    /\ bg_task' = Head(task_queue)
    /\ task_queue' = Tail(task_queue)
    /\ bg_pc' = "begin"
    /\ UNCHANGED <<checkpoint_in_progress, ckp_begin_ts, session, running, overridden>>

(* Tasks that TrySubmitCheckpointTask has set the flag for.                *)
Flagged == Flusher \cup Trigger
Queued == \E i \in DOMAIN task_queue : task_queue[i] \in Flagged

(* A ForceCheckpointTask: WalManager::Checkpoint, whose inner function     *)
(* clears the flag whoever set it, then Complete.                          *)
Mut_ForceCheckpoint ==
    /\ bg_pc = "begin" /\ bg_task \in Session /\ session[bg_task] = "waiting"
    /\ checkpoint_in_progress' = FALSE
    /\ bg_task' = NoOne /\ bg_pc' = "idle"
    /\ overridden' = (overridden \/ (bg_task \in Commander /\ Queued))
    /\ UNCHANGED <<ckp_begin_ts, task_queue, session, running>>
ForceCheckpoint ==
    /\ bg_pc = "begin" /\ bg_task \in Session /\ session[bg_task] = "waiting"
    /\ checkpoint_in_progress' = FALSE
    /\ \/ Goes(bg_task, "commit")
       \/ bg_task \in Commander /\ Goes(bg_task, "cleanup")
    /\ bg_task' = NoOne /\ bg_pc' = "idle"
    /\ overridden' = (overridden \/ (bg_task \in Commander /\ Queued))
    /\ UNCHANGED <<ckp_begin_ts, task_queue, running>>

(* A task that is no checkpoint.                                           *)
ExecuteOther ==
    /\ bg_pc = "begin"
    /\ \/ bg_task = Other /\ UNCHANGED session
       \/ /\ bg_task \in Session /\ session[bg_task] = "cleaning"
          /\ Goes(bg_task, "commit")
    /\ bg_task' = NoOne /\ bg_pc' = "idle"
    /\ UNCHANGED <<checkpoint_in_progress, ckp_begin_ts, task_queue, running, overridden>>

(* A CheckpointTask: BeginTxn in Checkpoint(bool).                         *)
BeginCheckpoint ==
    /\ bg_pc = "begin" /\ bg_task \in Trigger
    /\ ckp_begin_ts = NoOne
    /\ ckp_begin_ts' = bg_task
    /\ bg_pc' = "inner"
    /\ UNCHANGED <<checkpoint_in_progress, task_queue, bg_task, session, running, overridden>>

(* It is refused: a full checkpoint sleeps and retries, which leaves the   *)
(* state as it is; a delta checkpoint is given up.                         *)
GiveUpDelta ==
    /\ bg_pc = "begin" /\ bg_task \in Trigger \ {"full"}
    /\ ckp_begin_ts # NoOne
    /\ bg_task' = NoOne /\ bg_pc' = "idle"
    /\ UNCHANGED <<checkpoint_in_progress, ckp_begin_ts, task_queue, session, running, overridden>>

(* FullCheckpointInner or DeltaCheckpointInner, then CommitTxn.            *)
Mut_CheckpointInner ==
    /\ bg_pc = "inner"
    /\ bg_pc' = "commit"
    /\ UNCHANGED <<checkpoint_in_progress, ckp_begin_ts, task_queue, bg_task, session,
                   running, overridden>>
CheckpointInner ==
    /\ bg_pc = "inner"
    /\ checkpoint_in_progress' = FALSE
    /\ bg_pc' = "commit"
    /\ UNCHANGED <<ckp_begin_ts, task_queue, bg_task, session, running, overridden>>

CommitCheckpoint ==
    /\ bg_pc = "commit"
    /\ ckp_begin_ts' = NoOne
    /\ bg_task' = NoOne /\ bg_pc' = "idle"
    /\ UNCHANGED <<checkpoint_in_progress, task_queue, session, running, overridden>>

-----------------------------------------------------------------------------
Process ==
    \/ Dequeue
    \/ ForceCheckpoint
    \/ ExecuteOther
    \/ BeginCheckpoint
    \/ GiveUpDelta
    \/ CheckpointInner
    \/ CommitCheckpoint

Next ==
    /\ running
    /\ \/ \E s \in Flusher : BeginFlush(s) \/ RefuseFlush(s) \/ FlushData(s) \/ CommitTxn(s)
       \/ \E s \in Commander : Command(s) \/ CommitTxn(s)
       \/ \E full \in Trigger : TriggerCheckpoint(full)
       \/ SubmitOther
       \/ Process

(* As long as the process runs the background thread never stops while it  *)
(* has something to do, and a session that has begun goes on; nobody has   *)
(* to start a statement, and no trigger has to fire.                       *)
Fairness ==
    /\ WF_vars(running /\ Process)
    /\ \A s \in Flusher :
          WF_vars(running /\ FlushData(s)) /\ WF_vars(running /\ CommitTxn(s))
    /\ \A s \in Commander :
          /\ WF_vars(running /\ session[s] = "cleanup" /\ Command(s))
          /\ WF_vars(running /\ CommitTxn(s))

Spec == Init /\ [][Next]_vars
FairSpec == Spec /\ Fairness

-----------------------------------------------------------------------------
Owner == Session \cup Trigger \cup {Other}

(* Every variable keeps its type.                                          *)
TypeOK ==
    /\ checkpoint_in_progress \in BOOLEAN
    /\ ckp_begin_ts \in Flusher \cup Trigger \cup {NoOne}
    /\ task_queue \in Seq(Owner)
    /\ bg_task \in Owner \cup {NoOne}
    /\ bg_pc \in {"idle", "begin", "inner", "commit"}
    /\ session \in [Session -> {"idle", "begun", "waiting", "cleanup",
                               "cleaning", "commit"}]
    /\ running \in BOOLEAN /\ overridden \in BOOLEAN

(* The background thread sleeps and retries the full checkpoint of a       *)
(* trigger, and the FLUSH whose transaction it waits for is itself waiting *)
(* for a task that only the background thread can execute.                 *)
MutualWait ==
    /\ bg_pc = "begin" /\ bg_task = "full"
    /\ ckp_begin_ts \in Flusher /\ session[ckp_begin_ts] = "waiting"

(* The retry loop of BGTaskProcessor::Process never waits for a FLUSH that *)
(* waits for it, until the checkpoint of a CLEANUP or SNAPSHOT has cleared *)
(* checkpoint_in_progress_ while the task that set it was queued behind;   *)
(* after that it may.                                                      *)
NoMutualWait == MutualWait => overridden

(* A task checkpoint_in_progress_ was set for is queued or not done.       *)
Pending == Queued \/ (bg_pc \in {"begin", "inner"} /\ bg_task \in Flagged)

(* checkpoint_in_progress_ is left set with no task that will clear it in  *)
(* one way only: a delta checkpoint of a trigger that is refused its       *)
(* transaction is given up before its inner function. From then on FLUSH   *)
(* and the triggers skip their checkpoints. Neither the flags that CLEANUP *)
(* and SNAPSHOT clear early nor any order of the tasks has this effect.    *)
FlagLeftByGiveUp ==
    [][checkpoint_in_progress' /\ ~Pending' =>
          GiveUpDelta \/ (checkpoint_in_progress /\ ~Pending)]_vars

(* From some time on no session begins a FLUSH.                            *)
FlushesEnd == <>[][\A s \in Flusher : ~BeginFlush(s)]_vars

(* Every FLUSH, CLEANUP or SNAPSHOT that has begun returns, unless a FLUSH *)
(* that is refused ends the process, or the background thread comes to     *)
(* retry a full checkpoint for a FLUSH that waits for it (MutualWait), or  *)
(* FLUSH statements come without end and one of them holds ckp_begin_ts_   *)
(* at every retry of a full checkpoint.                                    *)
FlushReturns ==
    FlushesEnd => \A s \in Session :
        session[s] # "idle" ~> session[s] = "idle" \/ ~running \/ MutualWait

=============================================================================
