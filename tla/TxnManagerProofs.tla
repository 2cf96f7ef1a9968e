-------------------------- MODULE TxnManagerProofs --------------------------
(***************************************************************************)
(* The last part of the invariant of TxnInvariant, on the slots and the    *)
(* queues of the flush thread, and the theorems that follow from it.       *)
(***************************************************************************)
EXTENDS TxnInvariant

(* A step that moves only the session thread of t, of a transaction that   *)
(* is in no queue, and not across SendToWAL.                               *)
MovesOutside(t, l) ==
    /\ pc' = [pc EXCEPT ![t] = l]
    /\ pc[t] = "waiting" => t \in bottom_done
    /\ pc[t] \in PreSend <=> l \in PreSend
    /\ UNCHANGED <<wait_conflict_ck, slot_filled, bottom_done, wait_flush, to_write,
                   to_commit>>

(* Such a step leaves the slots and the vectors as they should be.         *)
LEMMA SlotFrame ==
    ASSUME IInv, NEW t \in Txn, NEW l, MovesOutside(t, l)
    PROVE  SlotInv'
  <1> DEFINE queued == slot_filled \cup Vectors(wait_flush) \cup Vectors(to_commit)
  <1>1. pc \in [Txn -> PC]
    BY DEF IInv, TypeInv, MgrType, TxnType, LogType
  <1>2. Vectors(wait_flush) \subseteq Txn /\ Vectors(to_commit) \subseteq Txn
    BY InVectors DEF IInv, SlotInv
  <1>3. queued \subseteq Txn /\ t \notin queued
    BY <1>2 DEF IInv, SlotInv, MovesOutside
  <1>4. \A u \in queued : pc'[u] = "waiting" /\ u \notin bottom_done
    BY <1>1, <1>3 DEF IInv, SlotInv, MovesOutside
  <1>5. \A u \in Txn : u \in wait_conflict_ck \ slot_filled <=> pc'[u] \in PreSend
    <2> SUFFICES ASSUME NEW u \in Txn
                 PROVE  u \in wait_conflict_ck \ slot_filled <=> pc'[u] \in PreSend
      OBVIOUS
    <2>1. pc[u] \in PreSend <=> pc'[u] \in PreSend
      BY <1>1 DEF MovesOutside
    <2> QED
      BY <2>1 DEF IInv, SlotInv
  <1> QED
    BY <1>4, <1>5 DEF IInv, SlotInv, MovesOutside

(* Every step keeps the slots and the vectors of the flush thread apart:   *)
(* SendToWAL moves filled slots to wait_flush_, DequeueBulk moves vectors  *)
(* to the batch, CommitBottom takes one transaction off it.                *)
LEMMA NextSlot == IInv /\ [Next]_vars => SlotInv'
  <1> SUFFICES ASSUME IInv, [Next]_vars PROVE SlotInv'
    OBVIOUS
  <1>1. ASSUME NEW t \in Txn, BeginTxn(t) PROVE SlotInv'
    <2>1. MovesOutside(t, "started")
      BY <1>1 DEF BeginTxn, GoTo, MovesOutside, PreSend, mgr, bot, log, bg
    <2> QED
      BY <2>1, SlotFrame
  <1>2. ASSUME NEW t \in Txn, NEW r \in Row, Delete(t, r) PROVE SlotInv'
    BY <1>2 DEF IInv, SlotInv, PreSend, GoTo, mgr, txn, bot, log, bg, Delete
  <1>3. ASSUME NEW t \in Txn, AddCheckpointCmd(t) PROVE SlotInv'
    BY <1>3 DEF IInv, SlotInv, PreSend, GoTo, mgr, txn, bot, log, bg,
       AddCheckpointCmd
  <1>4. ASSUME NEW t \in Txn, CommitReadOnly(t) PROVE SlotInv'
    <2>1. MovesOutside(t, AfterTop(t))
      BY <1>4 DEF CommitReadOnly, GoTo, MovesOutside, PreSend, mgr, bot, log, bg, AfterTop
    <2> QED
      BY <2>1, SlotFrame
  <1>5. ASSUME NEW t \in Txn, GetWriteCommitTS(t) PROVE SlotInv'
    <2> USE DEF IInv, SlotInv, PreSend, GoTo, mgr, txn, bot, log, bg
    <2>1. /\ pc[t] = "started" /\ pc' = [pc EXCEPT ![t] = "ts_taken"]
          /\ wait_conflict_ck' = wait_conflict_ck \cup {t}
          /\ UNCHANGED <<slot_filled, bottom_done, wait_flush, to_write, to_commit>>
      BY <1>5 DEF GetWriteCommitTS
    <2>2. t \notin slot_filled /\ pc \in [Txn -> PC]
      BY <2>1 DEF TypeInv, MgrType, TxnType, LogType
    <2> QED
      BY <2>1, <2>2, InVectors
  <1>6. ASSUME NEW t \in Txn, SetTxnCommitting(t) PROVE SlotInv'
    <2>1. MovesOutside(t, "committing")
      BY <1>6 DEF SetTxnCommitting, GoTo, MovesOutside, PreSend, mgr, bot, log, bg
    <2> QED
      BY <2>1, SlotFrame
  <1>7. ASSUME NEW t \in Txn, CollectCandidates(t) PROVE SlotInv'
    <2>1. MovesOutside(t, "collected")
      BY <1>7 DEF CollectCandidates, GoTo, MovesOutside, PreSend, mgr, bot, log, bg
    <2> QED
      BY <2>1, SlotFrame
  <1>8. ASSUME NEW t \in Txn, CheckCatalog(t) PROVE SlotInv'
    <2>1. PICK l \in {"conflict", "catalog_ok"} : pc' = [pc EXCEPT ![t] = l]
      BY <1>8 DEF CheckCatalog, GoTo
    <2>2. MovesOutside(t, l)
      BY <1>8, <2>1 DEF CheckCatalog, MovesOutside, PreSend, mgr, bot, log, bg
    <2> QED
      BY <2>2, SlotFrame
  <1>9. ASSUME NEW t \in Txn, CheckCandidates(t) PROVE SlotInv'
    <2>1. PICK l \in {"conflict", "passed"} : pc' = [pc EXCEPT ![t] = l]
      BY <1>9 DEF CheckCandidates, GoTo
    <2>2. MovesOutside(t, l)
      BY <1>9, <2>1 DEF CheckCandidates, MovesOutside, PreSend, mgr, bot, log, bg
    <2> QED
      BY <2>2, SlotFrame
  <1>10. ASSUME NEW t \in Txn, SendToWAL(t) PROVE SlotInv'
    <2> USE DEF IInv, SlotInv, PreSend, GoTo, mgr, txn, bot, log, bg
    <2> DEFINE keep   == pc[t] = "passed"
               slots  == SlotsAfter(t)
               filled == IF keep THEN slot_filled \cup {t} ELSE slot_filled
               vec    == Drained(slots, filled)
    <2>1. t \in wait_conflict_ck /\ t \notin slot_filled
      BY <1>10 DEF SendToWAL
    <2>2. /\ wait_conflict_ck' = slots \ vec /\ slot_filled' = filled \ vec
          /\ wait_flush' = IF vec = {} THEN wait_flush ELSE Append(wait_flush, vec)
          /\ pc' = [pc EXCEPT ![t] = IF keep THEN "waiting" ELSE "aborted"]
          /\ UNCHANGED <<to_commit, to_write, bottom_done>>
      BY <1>10 DEF SendToWAL
    <2>3. slots \subseteq wait_conflict_ck /\ filled \subseteq slots
      BY <2>1 DEF SlotsAfter
    <2>4. vec \subseteq filled
      <3> SUFFICES ASSUME NEW u \in vec PROVE u \in filled
        OBVIOUS
      <3>1. u \in slots /\ slot_ts[u] <= slot_ts[u]
        BY <2>3 DEF Drained, TypeInv, MgrType, TxnType, LogType
      <3> QED
        BY <3>1 DEF Drained
    <2>5. \A u \in Txn : u \in slots \ filled <=> u \in (wait_conflict_ck \ slot_filled) \ {t}
      BY <2>1 DEF SlotsAfter
    <2>6. /\ t \notin Vectors(wait_flush) /\ t \notin Vectors(to_commit)
          /\ t \notin bottom_done
      BY <1>10 DEF SendToWAL, LocalInv, InCommit
    <2>7. pc \in [Txn -> PC]
      BY DEF TypeInv, MgrType, TxnType, LogType
    <2>8. filled \cap (Vectors(wait_flush) \cup Vectors(to_commit) \cup bottom_done) = {}
      BY <2>6
    <2>9. \A u \in filled : pc'[u] = "waiting"
      BY <2>1, <2>2, <2>7
    <2> HIDE DEF keep, slots, filled, vec
    <2>10. QueueOK(wait_flush') /\ Vectors(wait_flush') = Vectors(wait_flush) \cup vec
      BY <2>2, <2>3, <2>4, <2>8, AppendVector
    <2>11. \A u \in Vectors(wait_flush) \cup Vectors(to_commit) : pc'[u] = "waiting"
      BY <2>2, <2>6, <2>7, InVectors
    <2>12. \A u \in Txn : u \in wait_conflict_ck' \ slot_filled' <=> pc'[u] \in PreSend
      BY <2>2, <2>3, <2>4, <2>5, <2>7 DEF keep
    <2> QED
      BY <2>2, <2>3, <2>4, <2>8, <2>9, <2>10, <2>11, <2>12
  <1>11. ASSUME NEW t \in Txn, PostCommit(t) PROVE SlotInv'
    <2>1. MovesOutside(t, AfterTop(t))
      BY <1>11 DEF PostCommit, GoTo, MovesOutside, PreSend, mgr, bot, log, bg, AfterTop, BottomDone
    <2> QED
      BY <2>1, SlotFrame
  <1>12. ASSUME NEW t \in Txn, Rollback(t) PROVE SlotInv'
    <2>1. MovesOutside(t, AfterTop(t))
      BY <1>12 DEF Rollback, GoTo, MovesOutside, PreSend, mgr, bot, log, bg, AfterTop
    <2> QED
      BY <2>1, SlotFrame
  <1>13. ASSUME NEW t \in Txn, ReleaseCheckpoint(t) PROVE SlotInv'
    <2>1. MovesOutside(t, "cleanup")
      BY <1>13 DEF ReleaseCheckpoint, GoTo, MovesOutside, PreSend, mgr, bot, log, bg
    <2> QED
      BY <2>1, SlotFrame
  <1>14. ASSUME NEW t \in Txn, CleanupRead(t) PROVE SlotInv'
    <2>1. MovesOutside(t, "done")
      BY <1>14 DEF CleanupRead, GoTo, MovesOutside, PreSend, mgr, bot, log, bg
    <2> QED
      BY <2>1, SlotFrame
  <1>15. ASSUME NEW t \in Txn, CleanupState(t) PROVE SlotInv'
    <2>1. MovesOutside(t, "finished")
      BY <1>15 DEF CleanupState, GoTo, MovesOutside, PreSend, mgr, bot, log, bg
    <2> QED
      BY <2>1, SlotFrame
  <1>16. ASSUME NEW t \in Txn, CleanupTxn(t) PROVE SlotInv'
    <2>1. PICK l \in {"submit", "done"} : pc' = [pc EXCEPT ![t] = l]
      BY <1>16 DEF CleanupTxn, GoTo
    <2>2. MovesOutside(t, l)
      BY <1>16, <2>1 DEF CleanupTxn, MovesOutside, PreSend, mgr, bot, log, bg
    <2> QED
      BY <2>2, SlotFrame
  <1>17. ASSUME NEW t \in Txn, SubmitDeltaEntry(t) PROVE SlotInv'
    <2>1. MovesOutside(t, "done")
      BY <1>17 DEF SubmitDeltaEntry, GoTo, MovesOutside, PreSend, mgr, bot, log, bg
    <2> QED
      BY <2>1, SlotFrame
  <1>18. ASSUME DequeueBulk PROVE SlotInv'
    BY <1>18, EmptyQueue DEF IInv, SlotInv, PreSend, GoTo, mgr, txn, bot,
       log, bg, DequeueBulk, FlushIdle
  <1>19. ASSUME WriteEntry PROVE SlotInv'
    <2> USE DEF IInv, SlotInv, PreSend, GoTo, mgr, txn, bot, log, bg
    <2>1. QueueOK(to_write') /\ Vectors(to_write') \subseteq Vectors(to_write)
      BY <1>19, PopVector DEF WriteEntry, TypeInv, MgrType, TxnType, LogType
    <2> QED
      BY <1>19, <2>1 DEF WriteEntry
  <1>20. ASSUME FlushLog PROVE SlotInv'
    BY <1>20 DEF IInv, SlotInv, PreSend, GoTo, mgr, txn, bot, log, bg,
       FlushLog
  <1>21. ASSUME CommitBottom PROVE SlotInv'
    <2> USE DEF IInv, SlotInv, PreSend, GoTo, mgr, txn, bot, log, bg
    <2> DEFINE f == Front(Head(to_commit))
    <2>1. /\ QueueOK(to_commit') /\ f \in Vectors(to_commit)
          /\ Vectors(to_commit') = Vectors(to_commit) \ {f}
      BY <1>21, CommitFront DEF CommitBottom
    <2>2. to_write = <<>> /\ bottom_done' = bottom_done \cup {f}
      BY <1>21 DEF CommitBottom, BatchFlushed
    <2>3. Vectors(to_write) = {}
      BY <2>2, EmptyQueue
    <2>4. UNCHANGED <<wait_conflict_ck, slot_filled, pc, wait_flush, to_write>>
      BY <1>21 DEF CommitBottom
    <2> HIDE DEF f
    <2> QED
      BY <2>1, <2>2, <2>3, <2>4
  <1>22. ASSUME AddDeltaEntry PROVE SlotInv'
    BY <1>22 DEF IInv, SlotInv, PreSend, GoTo, mgr, txn, bot, log, bg,
       AddDeltaEntry
  <1>23. ASSUME UNCHANGED vars PROVE SlotInv'
    BY <1>23 DEF IInv, SlotInv, PreSend, GoTo, mgr, txn, bot, log, bg, vars
  <1> QED
    BY <1>1, <1>2, <1>3, <1>4, <1>5, <1>6, <1>7, <1>8, <1>9, <1>10, <1>11,
       <1>12, <1>13, <1>14, <1>15, <1>16, <1>17, <1>18, <1>19, <1>20, <1>21,
       <1>22, <1>23
       DEF Next, Session, FlushThread, Quiescent

-----------------------------------------------------------------------------
(* Theorems                                                                *)

(* The invariant holds in every state the pipeline reaches.                *)
LEMMA Invariance == Spec => []IInv
  <1>1. IInv /\ [Next]_vars => IInv'
    BY NextLocal, NextTs, NextType, NextSlot DEF IInv
  <1> QED
    BY InitInv, <1>1, PTL DEF Spec

(* Every variable of TxnManager, Txn, the flush thread and the delta       *)
(* entries keeps its type, a filled slot is a slot, and no more of wal.log *)
(* is flushed than was written.                                            *)
THEOREM TypeCorrect == Spec => []TypeOK
  <1>1. IInv => TypeOK
    <2> SUFFICES ASSUME IInv PROVE TypeOK
      OBVIOUS
    <2>1. {wait_flush, to_write, to_commit} \subseteq Seq(SUBSET Txn)
      BY DEF IInv, SlotInv, QueueOK
    <2>2. slot_filled \subseteq wait_conflict_ck /\ wait_conflict_ck \subseteq Txn
      BY DEF IInv, SlotInv
    <2> QED
      BY <2>1, <2>2 DEF IInv, TypeInv, MgrType, TxnType, LogType, TypeOK
  <1> QED
    BY <1>1, Invariance, PTL

(* The raw Txn pointers of wait_conflict_ck_, of committing_txns_ and of   *)
(* the flush thread's vectors are never used after CleanupTxn has erased   *)
(* the transaction from txn_map_.                                          *)
THEOREM PointersOwned == Spec => []NoDanglingTxn
  <1>1. IInv => NoDanglingTxn
    <2> SUFFICES ASSUME IInv PROVE NoDanglingTxn
      OBVIOUS
    <2>1. committing_txns \subseteq txn_map
      BY DEF IInv, TypeInv, MgrType, TxnType, LogType, TsInv, LocalInv, InPipeline, InCommit, PreSend
    <2>2. wait_conflict_ck \subseteq txn_map
      BY DEF IInv, SlotInv, LocalInv, PreSend
    <2>3. /\ Vectors(wait_flush) \subseteq Txn /\ Vectors(to_commit) \subseteq Txn
      BY InVectors DEF IInv, SlotInv
    <2>4. Vectors(wait_flush) \cup Vectors(to_write) \cup Vectors(to_commit)
             \subseteq txn_map
      BY <2>3 DEF IInv, SlotInv, LocalInv
    <2> QED
      BY <2>1, <2>2, <2>4 DEF NoDanglingTxn
  <1> QED
    BY <1>1, Invariance, PTL

(* max_committed_ts_ never goes back: only the critical section of         *)
(* CleanupTxn writes it, with the timestamp of a transaction that          *)
(* committing_txns_ held, which lies above the old value.                  *)
THEOREM MaxCommittedNeverBack == Spec => MaxCommittedMonotone
  <1>1. IInv /\ [Next]_vars => [max_committed_ts' >= max_committed_ts]_vars
    <2> SUFFICES ASSUME IInv, Next PROVE max_committed_ts' >= max_committed_ts
      OBVIOUS
    <2>1. max_committed_ts \in Nat
      BY DEF IInv, TypeInv, MgrType, TxnType, LogType
    <2>2. ASSUME NEW t \in Txn, CleanupTxn(t)
          PROVE  max_committed_ts' >= max_committed_ts
      <3>1. t \in committing_txns /\ commit_ts[t] = slot_ts[t]
        BY <2>2 DEF CleanupTxn, IInv, TsInv, LocalInv, InPipeline
      <3>2. max_committed_ts < slot_ts[t] /\ slot_ts[t] \in Nat
        BY <3>1 DEF IInv, TypeInv, MgrType, TxnType, LogType, TsInv
      <3> QED
        <4>1. \/ max_committed_ts' = commit_ts[t]
              \/ max_committed_ts' = max_committed_ts
          BY <2>2 DEF CleanupTxn
        <4> QED
          BY <2>1, <3>1, <3>2, <4>1
    <2>3. ASSUME NEW t \in Txn, Session(t), ~CleanupTxn(t)
          PROVE  max_committed_ts' = max_committed_ts
      BY <2>3 DEF Session, BeginTxn, Delete, AddCheckpointCmd, CommitReadOnly,
         GetWriteCommitTS, SetTxnCommitting, CollectCandidates, CheckCatalog,
         CheckCandidates, SendToWAL, PostCommit, Rollback, ReleaseCheckpoint,
         CleanupRead, CleanupState, SubmitDeltaEntry, mgr
    <2>4. ASSUME FlushThread \/ AddDeltaEntry \/ Quiescent
          PROVE  max_committed_ts' = max_committed_ts
      BY <2>4 DEF FlushThread, DequeueBulk, WriteEntry, FlushLog, CommitBottom,
         AddDeltaEntry, Quiescent, vars, mgr
    <2> QED
      BY <2>1, <2>2, <2>3, <2>4 DEF Next
  <1> QED
    BY <1>1, Invariance, PTL DEF Spec, MaxCommittedMonotone

=============================================================================
