---------------------------- MODULE TxnInvariant ----------------------------
(***************************************************************************)
(* The inductive invariant of TxnManager, the lemmas on the queues of the  *)
(* flush thread it needs, and the proof that every step keeps the types,   *)
(* the states and the timestamps.  The slots follow in TxnManagerProofs.   *)
(***************************************************************************)
EXTENDS TxnManager, TLAPS, FiniteSetTheorems, WellFoundedInduction

-----------------------------------------------------------------------------
(* Minima and queues of vectors                                            *)

(* A set of numbers that is not empty has a least element.                 *)
LEMMA NatMin ==
    ASSUME NEW S, S \subseteq Nat, S # {}
    PROVE  \E x \in S : \A y \in S : x <= y
  <1> DEFINE LT == {ss \in Nat \X Nat : ss[1] < ss[2]}
  <1>0. IsWellFoundedOn(LT, Nat)
    BY NatLessThanWellFounded DEF OpToRel
  <1> HIDE DEF LT
  <1>1. PICK x \in S : \A y \in S : ~(<<y, x>> \in LT)
    BY <1>0, WFMin
  <1>2. ASSUME NEW y \in S PROVE x <= y
    <2>1. <<y, x>> \notin LT
      BY <1>1
    <2> QED
      BY <2>1 DEF LT
  <1> QED
    BY <1>2

(* Min returns it.                                                         *)
LEMMA MinIn ==
    ASSUME NEW S, S \subseteq Nat, S # {}
    PROVE  Min(S) \in S /\ \A y \in S : Min(S) <= y
  BY NatMin DEF Min

(* The value CheckTxnConflict inserts into checking_ts_ is a timestamp.    *)
LEMMA MinBeginTs ==
    ASSUME begin_ts \in [Txn -> Nat], NEW cs, cs \subseteq Txn, cs # {}
    PROVE  Min({begin_ts[u] : u \in cs}) \in Nat
  <1> DEFINE S == {begin_ts[u] : u \in cs}
  <1>1. S \subseteq Nat /\ S # {}
    OBVIOUS
  <1> HIDE DEF S
  <1>2. Min(S) \in Nat
    BY <1>1, MinIn
  <1> QED
    BY <1>2 DEF S

(* The first transaction of a vector has its least commit timestamp.       *)
LEMMA FrontIn ==
    ASSUME slot_ts \in [Txn -> Nat], NEW vec, vec \subseteq Txn, vec # {}
    PROVE  Front(vec) \in vec /\ \A u \in vec : slot_ts[Front(vec)] <= slot_ts[u]
  <1> DEFINE S == {slot_ts[t] : t \in vec}
  <1>1. S \subseteq Nat /\ S # {}
    OBVIOUS
  <1>2. PICK x \in S : \A y \in S : x <= y
    BY <1>1, NatMin
  <1>3. PICK t \in vec : x = slot_ts[t]
    BY <1>2
  <1>4. \E f \in vec : \A u \in vec : slot_ts[f] <= slot_ts[u]
    BY <1>2, <1>3
  <1> HIDE DEF S
  <1> QED
    BY <1>4 DEF Front

(* A queue of vectors: none is empty, and none shares a transaction with   *)
(* another.                                                                *)
QueueOK(q) ==
    /\ q \in Seq(SUBSET Txn)
    /\ \A i \in DOMAIN q : q[i] # {}
    /\ \A i, j \in DOMAIN q : i # j => q[i] \cap q[j] = {}

(* The transactions of a queue are those of its vectors.                   *)
LEMMA InVectors ==
    ASSUME NEW q, QueueOK(q)
    PROVE  /\ Vectors(q) \subseteq Txn
           /\ \A t : t \in Vectors(q) <=> \E i \in DOMAIN q : t \in q[i]
  <1>1. DOMAIN q = 1..Len(q) /\ \A i \in DOMAIN q : q[i] \subseteq Txn
    BY DEF QueueOK
  <1> QED
    BY <1>1 DEF Vectors

(* A queue that DequeueBulk has emptied holds no transaction.              *)
LEMMA EmptyQueue == QueueOK(<<>>) /\ Vectors(<<>>) = {}
  <1>1. QueueOK(<<>>)
    BY DEF QueueOK
  <1> QED
    BY <1>1, InVectors

(* SubmitTxn adds a vector at the end.                                     *)
LEMMA AppendVector ==
    ASSUME NEW q, QueueOK(q), NEW vec, vec \subseteq Txn, vec # {},
           vec \cap Vectors(q) = {}
    PROVE  QueueOK(Append(q, vec)) /\ Vectors(Append(q, vec)) = Vectors(q) \cup vec
  <1> DEFINE a == Append(q, vec)  n == Len(q) + 1
  <1>1. /\ a \in Seq(SUBSET Txn)
        /\ n \in DOMAIN a /\ a[n] = vec /\ n \notin DOMAIN q
        /\ \A i \in DOMAIN a : i \in DOMAIN q \/ i = n
        /\ \A i \in DOMAIN q : i \in DOMAIN a /\ a[i] = q[i]
    BY DEF QueueOK
  <1> HIDE DEF a, n
  <1>2. \A i \in DOMAIN q : vec \cap q[i] = {}
    BY InVectors
  <1>3. QueueOK(a)
    BY <1>1, <1>2 DEF QueueOK
  <1>4. Vectors(a) = Vectors(q) \cup vec
    BY <1>1, <1>3, InVectors
  <1> QED
    BY <1>3, <1>4 DEF a

(* The loops of Flush take the first transaction of the first vector.      *)
LEMMA PopVector ==
    ASSUME slot_ts \in [Txn -> Nat], NEW q, QueueOK(q), q # <<>>
    PROVE  LET f == Front(Head(q))
           IN  /\ f \in Vectors(q) /\ f \in Head(q)
               /\ QueueOK(PopFront(q))
               /\ Vectors(PopFront(q)) = Vectors(q) \ {f}
  <1> DEFINE f == Front(Head(q))  rest == Head(q) \ {f}  p == PopFront(q)
  <1>1. /\ 1 \in DOMAIN q /\ Head(q) = q[1]
        /\ Head(q) \subseteq Txn /\ Head(q) # {}
    BY DEF QueueOK
  <1>2. f \in Head(q)
    BY <1>1, FrontIn
  <1>3. f \in Vectors(q)
    BY <1>1, <1>2, InVectors
  <1>4. \A i \in DOMAIN q : i # 1 => f \notin q[i]
    BY <1>1, <1>2 DEF QueueOK
  <1>5. CASE rest = {}
    <2>1. p = Tail(q)
      BY <1>5 DEF PopFront
    <2>2. /\ p \in Seq(SUBSET Txn)
          /\ \A i \in DOMAIN p : i + 1 \in DOMAIN q /\ i + 1 # 1 /\ p[i] = q[i + 1]
          /\ \A i, j \in DOMAIN p : i # j => i + 1 # j + 1
          /\ \A i \in DOMAIN q : i # 1 => i - 1 \in DOMAIN p /\ p[i - 1] = q[i]
      BY <2>1 DEF QueueOK
    <2> HIDE DEF p
    <2>3. QueueOK(p)
      BY <2>2 DEF QueueOK
    <2>4. \A t : t \in Vectors(p) <=> \E i \in DOMAIN q : i # 1 /\ t \in q[i]
      BY <2>2, <2>3, InVectors
    <2>5. Vectors(p) = Vectors(q) \ {f}
      BY <1>1, <1>4, <1>5, <2>4, InVectors
    <2> QED
      BY <1>2, <1>3, <2>3, <2>5 DEF p
  <1>6. CASE rest # {}
    <2>1. p = <<rest>> \o Tail(q)
      BY <1>6 DEF PopFront
    <2>2. /\ p \in Seq(SUBSET Txn) /\ DOMAIN p = DOMAIN q
          /\ p[1] = rest /\ \A i \in DOMAIN q : i # 1 => p[i] = q[i]
      BY <1>1, <2>1 DEF QueueOK
    <2> HIDE DEF p
    <2>3. QueueOK(p)
      <3>1. \A i \in DOMAIN q : p[i] # {} /\ p[i] \subseteq q[i]
        BY <1>1, <1>6, <2>2 DEF QueueOK
      <3> QED
        BY <1>1, <2>2, <3>1 DEF QueueOK
    <2>4. Vectors(p) = Vectors(q) \ {f}
      BY <1>1, <1>4, <2>2, <2>3, InVectors
    <2> QED
      BY <1>2, <1>3, <2>3, <2>4 DEF p
  <1> QED
    BY <1>5, <1>6

-----------------------------------------------------------------------------
(* The inductive invariant                                                 *)

(* From GetWriteCommitTS to SendToWAL, and to the end of Txn::Commit.      *)
PreSend == {"ts_taken", "committing", "collected", "catalog_ok", "passed",
            "conflict"}
InCommit == PreSend \cup {"waiting", "aborted"}

(* From GetWriteCommitTS to the critical section of CleanupTxn.            *)
InPipeline(t) ==
    \/ pc[t] \in InCommit \cup {"finished"}
    \/ pc[t] \in {"release", "cleanup"} /\ t \in is_write

(* What the state of a transaction says where its thread is.               *)
LocalInv ==
    \A t \in Txn :
      /\ pc[t] \in {"idle", "started"} => state[t] = "Started" /\ t \notin is_write
      /\ pc[t] = "ts_taken" => state[t] = "Started"
      /\ pc[t] \in InCommit \ {"ts_taken"} => state[t] = "Committing"
      /\ pc[t] \in InCommit \cup {"finished", "submit"} => t \in is_write
      /\ pc[t] \in InCommit \ {"waiting"} => t \notin bottom_done
      /\ pc[t] = "submit" => t \in bottom_done
      /\ pc[t] \in {"release", "cleanup"} /\ t \in is_write =>
            state[t] = IF t \in bottom_done THEN "Committing" ELSE "Rollbacking"
      /\ pc[t] \in {"finished", "submit", "done"} /\ t \in is_write =>
            state[t] = IF t \in bottom_done THEN "Committed" ELSE "Rollbacked"
      /\ t \in bottom_done => t \in is_write
      /\ t \in is_write <=> slot_ts[t] # 0
      /\ t \in is_write /\ pc[t] # "ts_taken" => commit_ts[t] = slot_ts[t]
      /\ t \in txn_map <=> pc[t] \notin {"idle", "submit", "done"}

(* committing_txns_ holds exactly the transactions of the pipeline, all    *)
(* with timestamps above max_committed_ts_, and timestamps are unique.     *)
TsInv ==
    /\ max_committed_ts <= current_ts
    /\ \A t \in Txn : t \in committing_txns <=> InPipeline(t)
    /\ \A t \in Txn : slot_ts[t] <= current_ts
    /\ \A t \in committing_txns : max_committed_ts < slot_ts[t]
    /\ \A t, u \in Txn : slot_ts[t] = slot_ts[u] /\ slot_ts[t] # 0 => t = u

(* A transaction whose slot is not filled has not reached SendToWAL; one   *)
(* with a filled slot or in a queue of the flush thread waits, in one      *)
(* place, for its CommitBottom.                                            *)
SlotInv ==
    /\ wait_conflict_ck \subseteq Txn /\ slot_filled \subseteq wait_conflict_ck
    /\ \A t \in Txn : t \in wait_conflict_ck \ slot_filled <=> pc[t] \in PreSend
    /\ QueueOK(wait_flush) /\ QueueOK(to_write) /\ QueueOK(to_commit)
    /\ Vectors(to_write) \subseteq Vectors(to_commit)
    /\ slot_filled \cap (Vectors(wait_flush) \cup Vectors(to_commit)) = {}
    /\ Vectors(wait_flush) \cap Vectors(to_commit) = {}
    /\ \A t \in slot_filled \cup Vectors(wait_flush) \cup Vectors(to_commit) :
          pc[t] = "waiting" /\ t \notin bottom_done

(* Types: of TxnManager, of the transactions, and of what commits leave    *)
(* behind; the slot and queue conjuncts of TypeOK are in SlotInv.          *)
MgrType ==
    /\ current_ts \in Nat /\ max_committed_ts \in Nat /\ ckp_begin_ts \in Nat
    /\ txn_map \subseteq Txn /\ committing_txns \subseteq Txn
    /\ checking_ts \subseteq Nat /\ beginned_txns \in Seq(Txn)

TxnType ==
    /\ pc \in [Txn -> PC] /\ state \in [Txn -> TxnState]
    /\ begin_ts \in [Txn -> Nat] /\ slot_ts \in [Txn -> Nat]
    /\ commit_ts \in [Txn -> Nat]
    /\ is_write \subseteq Txn /\ has_cmds \subseteq Txn /\ wal_entry \subseteq Txn
    /\ rows \in [Txn -> SUBSET Row] /\ candidates \in [Txn -> SUBSET Txn]

LogType ==
    /\ sequence \in Nat /\ delta_seq \in [Txn -> Nat]
    /\ bottom_done \subseteq Txn /\ deleted \in [Row -> Nat]
    /\ wal \in Seq(Nat) /\ flushed \in Nat /\ flushed <= Len(wal)
    /\ bg_queue \in Seq(Txn) /\ last_sequence \in Nat /\ merged \subseteq Txn
    /\ sequence_heap \subseteq Txn /\ IsFiniteSet(sequence_heap)

TypeInv == MgrType /\ TxnType /\ LogType

IInv == TypeInv /\ LocalInv /\ TsInv /\ SlotInv

(* The transaction that the commit loop is at waits for its CommitBottom,  *)
(* and is in the batch once.                                               *)
LEMMA CommitFront ==
    ASSUME IInv, to_commit # <<>>
    PROVE  LET f == Front(Head(to_commit))
           IN  /\ f \in Txn /\ f \in Vectors(to_commit)
               /\ pc[f] = "waiting" /\ f \notin bottom_done
               /\ QueueOK(PopFront(to_commit))
               /\ Vectors(PopFront(to_commit)) = Vectors(to_commit) \ {f}
  <1>1. slot_ts \in [Txn -> Nat] /\ QueueOK(to_commit)
    BY DEF IInv, TypeInv, TxnType, SlotInv
  <1>2. /\ Front(Head(to_commit)) \in Vectors(to_commit)
        /\ QueueOK(PopFront(to_commit))
        /\ Vectors(PopFront(to_commit)) = Vectors(to_commit) \ {Front(Head(to_commit))}
    BY <1>1, PopVector, Zenon
  <1>3. Vectors(to_commit) \subseteq Txn
    BY <1>1, InVectors
  <1>4. \A t \in Vectors(to_commit) : pc[t] = "waiting" /\ t \notin bottom_done
    BY DEF IInv, SlotInv
  <1> QED
    BY <1>2, <1>3, <1>4

(* The invariant holds when TxnManager is constructed.                     *)
LEMMA InitInv == Init => IInv
  <1> SUFFICES ASSUME Init PROVE IInv
    OBVIOUS
  <1>1. TypeInv
    <2>1. MgrType
      BY TsAssumption DEF Init, MgrType
    <2>2. TxnType
      BY DEF Init, TxnType, PC, TxnState
    <2>3. LogType
      BY FS_EmptySet DEF Init, LogType
    <2> QED
      BY <2>1, <2>2, <2>3 DEF TypeInv
  <1>2. LocalInv /\ TsInv
    BY TsAssumption DEF Init, LocalInv, TsInv, InPipeline, InCommit, PreSend
  <1>3. SlotInv
    BY EmptyQueue DEF Init, SlotInv, PreSend
  <1> QED
    BY <1>1, <1>2, <1>3 DEF IInv

(* Every step keeps state_, commit_ts_ and the membership in txn_map_ in    *)
(* line with the place of the session thread.                              *)
LEMMA NextLocal == IInv /\ [Next]_vars => LocalInv'
  <1> SUFFICES ASSUME IInv, [Next]_vars PROVE LocalInv'
    OBVIOUS
  <1>0. current_ts \in Nat /\ TxnType /\ LocalInv
    BY DEF IInv, TypeInv, MgrType
  <1> USE <1>0 DEF TxnType, LocalInv, InCommit, PreSend, PC, GoTo, mgr, txn, bot, log, bg
  <1>1. ASSUME NEW t \in Txn, BeginTxn(t) PROVE LocalInv'
    BY <1>1 DEF BeginTxn
  <1>2. ASSUME NEW t \in Txn, NEW r \in Row, Delete(t, r) PROVE LocalInv'
    BY <1>2 DEF Delete
  <1>3. ASSUME NEW t \in Txn, AddCheckpointCmd(t) PROVE LocalInv'
    BY <1>3 DEF AddCheckpointCmd
  <1>4. ASSUME NEW t \in Txn, CommitReadOnly(t) PROVE LocalInv'
    BY <1>4 DEF CommitReadOnly, AfterTop
  <1>5. ASSUME NEW t \in Txn, GetWriteCommitTS(t) PROVE LocalInv'
    BY <1>5 DEF GetWriteCommitTS
  <1>6. ASSUME NEW t \in Txn, SetTxnCommitting(t) PROVE LocalInv'
    BY <1>6 DEF SetTxnCommitting
  <1>7. ASSUME NEW t \in Txn, CollectCandidates(t) PROVE LocalInv'
    BY <1>7 DEF CollectCandidates
  <1>8. ASSUME NEW t \in Txn, CheckCatalog(t) PROVE LocalInv'
    BY <1>8 DEF CheckCatalog, EndCheck
  <1>9. ASSUME NEW t \in Txn, CheckCandidates(t) PROVE LocalInv'
    <2>1. PICK l \in {"conflict", "passed"} : pc' = [pc EXCEPT ![t] = l]
      BY <1>9 DEF CheckCandidates
    <2> QED
      BY <1>9, <2>1 DEF CheckCandidates
  <1>10. ASSUME NEW t \in Txn, SendToWAL(t) PROVE LocalInv'
    <2>1. PICK l \in {"waiting", "aborted"} : pc' = [pc EXCEPT ![t] = l]
      BY <1>10 DEF SendToWAL
    <2>2. /\ pc[t] \in {"passed", "conflict"}
          /\ UNCHANGED <<state, is_write, bottom_done, slot_ts, commit_ts, txn_map>>
      BY <1>10 DEF SendToWAL
    <2> QED
      BY <2>1, <2>2
  <1>11. ASSUME NEW t \in Txn, PostCommit(t) PROVE LocalInv'
    BY <1>11 DEF PostCommit, BottomDone, AfterTop
  <1>12. ASSUME NEW t \in Txn, Rollback(t) PROVE LocalInv'
    BY <1>12 DEF Rollback, AfterTop
  <1>13. ASSUME NEW t \in Txn, ReleaseCheckpoint(t) PROVE LocalInv'
    BY <1>13 DEF ReleaseCheckpoint
  <1>14. ASSUME NEW t \in Txn, CleanupRead(t) PROVE LocalInv'
    BY <1>14 DEF CleanupRead
  <1>15. ASSUME NEW t \in Txn, CleanupState(t) PROVE LocalInv'
    BY <1>15 DEF CleanupState
  <1>16. ASSUME NEW t \in Txn, CleanupTxn(t) PROVE LocalInv'
    BY <1>16 DEF CleanupTxn, NoneEarlier
  <1>17. ASSUME NEW t \in Txn, SubmitDeltaEntry(t) PROVE LocalInv'
    BY <1>17 DEF SubmitDeltaEntry
  <1>18. ASSUME DequeueBulk PROVE LocalInv'
    BY <1>18 DEF DequeueBulk
  <1>19. ASSUME WriteEntry PROVE LocalInv'
    BY <1>19 DEF WriteEntry
  <1>20. ASSUME FlushLog PROVE LocalInv'
    BY <1>20 DEF FlushLog
  <1>21. ASSUME CommitBottom PROVE LocalInv'
    <2> DEFINE t == Front(Head(to_commit))
    <2>2. t \in Txn /\ pc[t] = "waiting"
      BY <1>21, CommitFront DEF CommitBottom
    <2>3. bottom_done' = bottom_done \cup {t} /\ UNCHANGED <<mgr, pc, txn>>
      BY <1>21 DEF CommitBottom
    <2> HIDE DEF t
    <2> QED
      BY <2>2, <2>3
  <1>22. ASSUME AddDeltaEntry PROVE LocalInv'
    BY <1>22 DEF AddDeltaEntry
  <1>23. ASSUME UNCHANGED vars PROVE LocalInv'
    BY <1>23 DEF vars
  <1> QED
    BY <1>1, <1>2, <1>3, <1>4, <1>5, <1>6, <1>7, <1>8, <1>9, <1>10, <1>11,
       <1>12, <1>13, <1>14, <1>15, <1>16, <1>17, <1>18, <1>19, <1>20, <1>21,
       <1>22, <1>23
       DEF Next, Session, FlushThread, Quiescent

(* Every step keeps the timestamps of the pipeline above max_committed_ts_ *)
(* and apart from each other.                                              *)
LEMMA NextTs == IInv /\ [Next]_vars => TsInv'
  <1> SUFFICES ASSUME IInv, [Next]_vars PROVE TsInv'
    OBVIOUS
  <1>0. /\ current_ts \in Nat /\ max_committed_ts \in Nat /\ ckp_begin_ts \in Nat
        /\ committing_txns \subseteq Txn /\ TxnType /\ LocalInv /\ TsInv
    BY DEF IInv, TypeInv, MgrType
  <1> USE <1>0 DEF TxnType, LocalInv, TsInv, InPipeline, InCommit, PreSend, PC, GoTo, mgr, txn, bot, log, bg
  <1>1. ASSUME NEW t \in Txn, BeginTxn(t) PROVE TsInv'
    BY <1>1 DEF BeginTxn
  <1>2. ASSUME NEW t \in Txn, NEW r \in Row, Delete(t, r) PROVE TsInv'
    BY <1>2 DEF Delete
  <1>3. ASSUME NEW t \in Txn, AddCheckpointCmd(t) PROVE TsInv'
    BY <1>3 DEF AddCheckpointCmd
  <1>4. ASSUME NEW t \in Txn, CommitReadOnly(t) PROVE TsInv'
    BY <1>4 DEF CommitReadOnly, AfterTop
  <1>5. ASSUME NEW t \in Txn, GetWriteCommitTS(t) PROVE TsInv'
    <2>1. /\ pc[t] = "started" /\ pc' = [pc EXCEPT ![t] = "ts_taken"]
          /\ current_ts' = current_ts + 2 /\ UNCHANGED max_committed_ts
          /\ slot_ts' = [slot_ts EXCEPT ![t] = current_ts + 2]
          /\ committing_txns' = committing_txns \cup {t}
          /\ is_write' = is_write \cup {t}
      BY <1>5 DEF GetWriteCommitTS
    <2>2. \A u \in Txn : slot_ts'[u] <= current_ts' /\ (u # t => slot_ts'[u] < slot_ts'[t])
      BY <2>1
    <2>3. \A u \in committing_txns' : max_committed_ts' < slot_ts'[u]
      BY <2>1
    <2>4. \A u \in Txn : u \in committing_txns' <=> InPipeline(u)'
      BY <2>1
    <2>5. \A u, v \in Txn : slot_ts'[u] = slot_ts'[v] /\ slot_ts'[u] # 0 => u = v
      <3>1. /\ slot_ts \in [Txn -> Nat] /\ current_ts \in Nat
            /\ \A u, v \in Txn : slot_ts[u] = slot_ts[v] /\ slot_ts[u] # 0 => u = v
        OBVIOUS
      <3> HIDE <1>0
      <3> QED
        BY <2>1, <2>2, <3>1
    <2> QED
      BY <2>1, <2>2, <2>3, <2>4, <2>5
  <1>6. ASSUME NEW t \in Txn, SetTxnCommitting(t) PROVE TsInv'
    BY <1>6 DEF SetTxnCommitting
  <1>7. ASSUME NEW t \in Txn, CollectCandidates(t) PROVE TsInv'
    BY <1>7 DEF CollectCandidates
  <1>8. ASSUME NEW t \in Txn, CheckCatalog(t) PROVE TsInv'
    <2>1. PICK l \in {"conflict", "catalog_ok"} : pc' = [pc EXCEPT ![t] = l]
      BY <1>8 DEF CheckCatalog
    <2>2. /\ pc[t] = "collected"
          /\ UNCHANGED <<max_committed_ts, current_ts, committing_txns, slot_ts,
                         is_write>>
      BY <1>8 DEF CheckCatalog
    <2> QED
      BY <2>1, <2>2
  <1>9. ASSUME NEW t \in Txn, CheckCandidates(t) PROVE TsInv'
    BY <1>9 DEF CheckCandidates, EndCheck
  <1>10. ASSUME NEW t \in Txn, SendToWAL(t) PROVE TsInv'
    BY <1>10 DEF SendToWAL, SlotsAfter, Drained
  <1>11. ASSUME NEW t \in Txn, PostCommit(t) PROVE TsInv'
    BY <1>11 DEF PostCommit, BottomDone, AfterTop
  <1>12. ASSUME NEW t \in Txn, Rollback(t) PROVE TsInv'
    BY <1>12 DEF Rollback, AfterTop
  <1>13. ASSUME NEW t \in Txn, ReleaseCheckpoint(t) PROVE TsInv'
    BY <1>13 DEF ReleaseCheckpoint
  <1>14. ASSUME NEW t \in Txn, CleanupRead(t) PROVE TsInv'
    BY <1>14 DEF CleanupRead
  <1>15. ASSUME NEW t \in Txn, CleanupState(t) PROVE TsInv'
    BY <1>15 DEF CleanupState
  <1>16. ASSUME NEW t \in Txn, CleanupTxn(t) PROVE TsInv'
    BY <1>16 DEF CleanupTxn, NoneEarlier
  <1>17. ASSUME NEW t \in Txn, SubmitDeltaEntry(t) PROVE TsInv'
    BY <1>17 DEF SubmitDeltaEntry
  <1>18. ASSUME DequeueBulk PROVE TsInv'
    BY <1>18 DEF DequeueBulk
  <1>19. ASSUME WriteEntry PROVE TsInv'
    BY <1>19 DEF WriteEntry
  <1>20. ASSUME FlushLog PROVE TsInv'
    BY <1>20 DEF FlushLog
  <1>21. ASSUME CommitBottom PROVE TsInv'
    BY <1>21 DEF CommitBottom, TakesSequence
  <1>22. ASSUME AddDeltaEntry PROVE TsInv'
    BY <1>22 DEF AddDeltaEntry
  <1>23. ASSUME UNCHANGED vars PROVE TsInv'
    BY <1>23 DEF vars
  <1> QED
    BY <1>1, <1>2, <1>3, <1>4, <1>5, <1>6, <1>7, <1>8, <1>9, <1>10, <1>11,
       <1>12, <1>13, <1>14, <1>15, <1>16, <1>17, <1>18, <1>19, <1>20, <1>21,
       <1>22, <1>23
       DEF Next, Session, FlushThread, Quiescent

(* Every step keeps the types of TxnManager.                               *)
LEMMA NextMgrType == IInv /\ [Next]_vars => MgrType'
  <1> SUFFICES ASSUME IInv, [Next]_vars PROVE MgrType'
    OBVIOUS
  <1>a. MgrType /\ commit_ts \in [Txn -> Nat]
    BY DEF IInv, TypeInv, TxnType
  <1>b. UNCHANGED mgr => MgrType'
    BY <1>a DEF MgrType, mgr
  <1>1. ASSUME NEW t \in Txn, BeginTxn(t) PROVE MgrType'
    BY <1>1, <1>a DEF BeginTxn, MgrType, mgr
  <1>2. ASSUME NEW t \in Txn, NEW r \in Row, Delete(t, r) PROVE MgrType'
    BY <1>2, <1>b DEF Delete
  <1>3. ASSUME NEW t \in Txn, AddCheckpointCmd(t) PROVE MgrType'
    BY <1>3, <1>b DEF AddCheckpointCmd
  <1>4. ASSUME NEW t \in Txn, CommitReadOnly(t) PROVE MgrType'
    BY <1>4, <1>b DEF CommitReadOnly
  <1>5. ASSUME NEW t \in Txn, GetWriteCommitTS(t) PROVE MgrType'
    BY <1>5, <1>a DEF GetWriteCommitTS, MgrType, mgr
  <1>6. ASSUME NEW t \in Txn, SetTxnCommitting(t) PROVE MgrType'
    BY <1>6, <1>b DEF SetTxnCommitting
  <1>7. ASSUME NEW t \in Txn, CollectCandidates(t) PROVE MgrType'
    <2>1. Candidates(t) \subseteq Txn
      BY <1>a DEF Candidates, MgrType
    <2>2. Candidates(t) # {} => Min({begin_ts[u] : u \in Candidates(t)}) \in Nat
      BY <2>1, MinBeginTs DEF IInv, TypeInv, TxnType
    <2>3. checking_ts' \subseteq Nat
      BY <1>7, <2>2, <1>a DEF CollectCandidates, MgrType
    <2> QED
      BY <1>7, <2>3, <1>a DEF CollectCandidates, MgrType
  <1>8. ASSUME NEW t \in Txn, CheckCatalog(t) PROVE MgrType'
    BY <1>8, <1>a DEF CheckCatalog, EndCheck, MgrType, mgr
  <1>9. ASSUME NEW t \in Txn, CheckCandidates(t) PROVE MgrType'
    BY <1>9, <1>a DEF CheckCandidates, EndCheck, MgrType, mgr
  <1>10. ASSUME NEW t \in Txn, SendToWAL(t) PROVE MgrType'
    BY <1>10, <1>a DEF SendToWAL, MgrType, mgr
  <1>11. ASSUME NEW t \in Txn, PostCommit(t) PROVE MgrType'
    BY <1>11, <1>b DEF PostCommit
  <1>12. ASSUME NEW t \in Txn, Rollback(t) PROVE MgrType'
    BY <1>12, <1>b DEF Rollback
  <1>13. ASSUME NEW t \in Txn, ReleaseCheckpoint(t) PROVE MgrType'
    BY <1>13, <1>a, TsAssumption DEF ReleaseCheckpoint, MgrType
  <1>14. ASSUME NEW t \in Txn, CleanupRead(t) PROVE MgrType'
    BY <1>14, <1>a DEF CleanupRead, MgrType, mgr
  <1>15. ASSUME NEW t \in Txn, CleanupState(t) PROVE MgrType'
    BY <1>15, <1>b DEF CleanupState
  <1>16. ASSUME NEW t \in Txn, CleanupTxn(t) PROVE MgrType'
    BY <1>16, <1>a DEF CleanupTxn, MgrType, mgr
  <1>17. ASSUME NEW t \in Txn, SubmitDeltaEntry(t) PROVE MgrType'
    BY <1>17, <1>b DEF SubmitDeltaEntry
  <1>18. ASSUME DequeueBulk PROVE MgrType'
    BY <1>18, <1>b DEF DequeueBulk
  <1>19. ASSUME WriteEntry PROVE MgrType'
    BY <1>19, <1>b DEF WriteEntry
  <1>20. ASSUME FlushLog PROVE MgrType'
    BY <1>20, <1>b DEF FlushLog
  <1>21. ASSUME CommitBottom PROVE MgrType'
    BY <1>21, <1>b DEF CommitBottom
  <1>22. ASSUME AddDeltaEntry PROVE MgrType'
    BY <1>22, <1>b DEF AddDeltaEntry
  <1>23. ASSUME UNCHANGED vars PROVE MgrType'
    BY <1>23, <1>b DEF vars
  <1> QED
    BY <1>1, <1>2, <1>3, <1>4, <1>5, <1>6, <1>7, <1>8, <1>9, <1>10, <1>11,
       <1>12, <1>13, <1>14, <1>15, <1>16, <1>17, <1>18, <1>19, <1>20, <1>21,
       <1>22, <1>23
       DEF Next, Session, FlushThread, Quiescent

(* Every step keeps the types of the transactions.                         *)
LEMMA NextTxnType == IInv /\ [Next]_vars => TxnType'
  <1> SUFFICES ASSUME IInv, [Next]_vars PROVE TxnType'
    OBVIOUS
  <1>a. TxnType /\ current_ts \in Nat /\ committing_txns \subseteq Txn
    BY DEF IInv, TypeInv, MgrType
  <1>b. UNCHANGED <<pc, txn>> => TxnType'
    BY <1>a DEF TxnType, txn
  <1>1. ASSUME NEW t \in Txn, BeginTxn(t) PROVE TxnType'
    BY <1>1, <1>a DEF BeginTxn, TxnType, GoTo, PC, TxnState, txn
  <1>2. ASSUME NEW t \in Txn, NEW r \in Row, Delete(t, r) PROVE TxnType'
    BY <1>2, <1>a DEF Delete, TxnType, GoTo, PC, TxnState, txn
  <1>3. ASSUME NEW t \in Txn, AddCheckpointCmd(t) PROVE TxnType'
    BY <1>3, <1>a DEF AddCheckpointCmd, TxnType, GoTo, PC, TxnState, txn
  <1>4. ASSUME NEW t \in Txn, CommitReadOnly(t) PROVE TxnType'
    BY <1>4, <1>a DEF CommitReadOnly, AfterTop, TxnType, GoTo, PC, TxnState,
       txn
  <1>5. ASSUME NEW t \in Txn, GetWriteCommitTS(t) PROVE TxnType'
    BY <1>5, <1>a DEF GetWriteCommitTS, TxnType, GoTo, PC, TxnState, txn
  <1>6. ASSUME NEW t \in Txn, SetTxnCommitting(t) PROVE TxnType'
    BY <1>6, <1>a DEF SetTxnCommitting, TxnType, GoTo, PC, TxnState, txn
  <1>7. ASSUME NEW t \in Txn, CollectCandidates(t) PROVE TxnType'
    <2>1. Candidates(t) \in SUBSET Txn
      BY <1>a DEF Candidates
    <2> QED
      BY <1>7, <2>1, <1>a DEF CollectCandidates, TxnType, GoTo, PC
  <1>8. ASSUME NEW t \in Txn, CheckCatalog(t) PROVE TxnType'
    BY <1>8, <1>a DEF CheckCatalog, EndCheck, TxnType, GoTo, PC, TxnState,
       txn
  <1>9. ASSUME NEW t \in Txn, CheckCandidates(t) PROVE TxnType'
    BY <1>9, <1>a DEF CheckCandidates, EndCheck, TxnType, GoTo, PC,
       TxnState, txn
  <1>10. ASSUME NEW t \in Txn, SendToWAL(t) PROVE TxnType'
    BY <1>10, <1>a DEF SendToWAL, TxnType, GoTo, PC, TxnState, txn
  <1>11. ASSUME NEW t \in Txn, PostCommit(t) PROVE TxnType'
    BY <1>11, <1>a DEF PostCommit, AfterTop, TxnType, GoTo, PC, TxnState,
       txn
  <1>12. ASSUME NEW t \in Txn, Rollback(t) PROVE TxnType'
    <2>1. /\ pc' = [pc EXCEPT ![t] = AfterTop(t)] /\ AfterTop(t) \in PC
          /\ state' = [state EXCEPT ![t] = "Rollbacking"]
          /\ UNCHANGED <<begin_ts, slot_ts, rows, has_cmds, wal_entry, candidates>>
      BY <1>12 DEF Rollback, GoTo, AfterTop, PC
    <2>2. /\ is_write' \in {is_write, is_write \ {t}}
          /\ \/ commit_ts' = commit_ts
             \/ commit_ts' = [commit_ts EXCEPT ![t] = current_ts + 1]
      BY <1>12 DEF Rollback
    <2>3. current_ts + 1 \in Nat /\ "Rollbacking" \in TxnState
      BY <1>a DEF TxnState
    <2> QED
      BY <2>1, <2>2, <2>3, <1>a DEF TxnType
  <1>13. ASSUME NEW t \in Txn, ReleaseCheckpoint(t) PROVE TxnType'
    BY <1>13, <1>a DEF ReleaseCheckpoint, TxnType, GoTo, PC, TxnState, txn
  <1>14. ASSUME NEW t \in Txn, CleanupRead(t) PROVE TxnType'
    BY <1>14, <1>a DEF CleanupRead, TxnType, GoTo, PC, TxnState, txn
  <1>15. ASSUME NEW t \in Txn, CleanupState(t) PROVE TxnType'
    BY <1>15, <1>a DEF CleanupState, TxnType, GoTo, PC, TxnState, txn
  <1>16. ASSUME NEW t \in Txn, CleanupTxn(t) PROVE TxnType'
    BY <1>16, <1>a DEF CleanupTxn, TxnType, GoTo, PC, TxnState, txn
  <1>17. ASSUME NEW t \in Txn, SubmitDeltaEntry(t) PROVE TxnType'
    BY <1>17, <1>a DEF SubmitDeltaEntry, TxnType, GoTo, PC, TxnState, txn
  <1>18. ASSUME DequeueBulk PROVE TxnType'
    BY <1>18, <1>b DEF DequeueBulk
  <1>19. ASSUME WriteEntry PROVE TxnType'
    BY <1>19, <1>b DEF WriteEntry
  <1>20. ASSUME FlushLog PROVE TxnType'
    BY <1>20, <1>b DEF FlushLog
  <1>21. ASSUME CommitBottom PROVE TxnType'
    BY <1>21, <1>b DEF CommitBottom
  <1>22. ASSUME AddDeltaEntry PROVE TxnType'
    BY <1>22, <1>b DEF AddDeltaEntry
  <1>23. ASSUME UNCHANGED vars PROVE TxnType'
    BY <1>23, <1>b DEF vars
  <1> QED
    BY <1>1, <1>2, <1>3, <1>4, <1>5, <1>6, <1>7, <1>8, <1>9, <1>10, <1>11,
       <1>12, <1>13, <1>14, <1>15, <1>16, <1>17, <1>18, <1>19, <1>20, <1>21,
       <1>22, <1>23
       DEF Next, Session, FlushThread, Quiescent

(* Every step keeps the types of the log, of the block versions and of the *)
(* delta entries.                                                          *)
LEMMA NextLogType == IInv /\ [Next]_vars => LogType'
  <1> SUFFICES ASSUME IInv, [Next]_vars PROVE LogType'
    OBVIOUS
  <1>a. LogType
    BY DEF IInv, TypeInv
  <1>b. UNCHANGED <<bot, wal, flushed, bg>> => LogType'
    BY <1>a DEF LogType, bot, bg
  <1>1. ASSUME NEW t \in Txn, BeginTxn(t) PROVE LogType'
    BY <1>1, <1>b DEF BeginTxn, log
  <1>2. ASSUME NEW t \in Txn, NEW r \in Row, Delete(t, r) PROVE LogType'
    BY <1>2, <1>b DEF Delete, log
  <1>3. ASSUME NEW t \in Txn, AddCheckpointCmd(t) PROVE LogType'
    BY <1>3, <1>b DEF AddCheckpointCmd, log
  <1>4. ASSUME NEW t \in Txn, CommitReadOnly(t) PROVE LogType'
    BY <1>4, <1>b DEF CommitReadOnly, log
  <1>5. ASSUME NEW t \in Txn, GetWriteCommitTS(t) PROVE LogType'
    BY <1>5, <1>b DEF GetWriteCommitTS, log
  <1>6. ASSUME NEW t \in Txn, SetTxnCommitting(t) PROVE LogType'
    BY <1>6, <1>b DEF SetTxnCommitting, log
  <1>7. ASSUME NEW t \in Txn, CollectCandidates(t) PROVE LogType'
    BY <1>7, <1>b DEF CollectCandidates, log
  <1>8. ASSUME NEW t \in Txn, CheckCatalog(t) PROVE LogType'
    BY <1>8, <1>b DEF CheckCatalog, log
  <1>9. ASSUME NEW t \in Txn, CheckCandidates(t) PROVE LogType'
    BY <1>9, <1>b DEF CheckCandidates, log
  <1>10. ASSUME NEW t \in Txn, SendToWAL(t) PROVE LogType'
    BY <1>10, <1>b DEF SendToWAL
  <1>11. ASSUME NEW t \in Txn, PostCommit(t) PROVE LogType'
    BY <1>11, <1>b DEF PostCommit, log
  <1>12. ASSUME NEW t \in Txn, Rollback(t) PROVE LogType'
    BY <1>12, <1>b DEF Rollback, log
  <1>13. ASSUME NEW t \in Txn, ReleaseCheckpoint(t) PROVE LogType'
    BY <1>13, <1>b DEF ReleaseCheckpoint, log
  <1>14. ASSUME NEW t \in Txn, CleanupRead(t) PROVE LogType'
    BY <1>14, <1>b DEF CleanupRead, log
  <1>15. ASSUME NEW t \in Txn, CleanupState(t) PROVE LogType'
    BY <1>15, <1>b DEF CleanupState, log
  <1>16. ASSUME NEW t \in Txn, CleanupTxn(t) PROVE LogType'
    BY <1>16, <1>b DEF CleanupTxn, log
  <1>17. ASSUME NEW t \in Txn, SubmitDeltaEntry(t) PROVE LogType'
    <2>1. bg_queue' \in Seq(Txn)
      BY <1>17, <1>a DEF SubmitDeltaEntry, LogType
    <2> QED
      BY <1>17, <2>1, <1>a DEF SubmitDeltaEntry, LogType, bot, log, bg
  <1>18. ASSUME DequeueBulk PROVE LogType'
    BY <1>18, <1>b DEF DequeueBulk
  <1>19. ASSUME WriteEntry PROVE LogType'
    <2> DEFINE t == Front(Head(to_write))
    <2>1. slot_ts \in [Txn -> Nat] /\ commit_ts \in [Txn -> Nat] /\ QueueOK(to_write)
      BY DEF IInv, TypeInv, TxnType, SlotInv
    <2>2. t \in Txn
      BY <1>19, <2>1, PopVector, InVectors DEF WriteEntry
    <2>3. wal' = Append(wal, commit_ts[t]) /\ commit_ts[t] \in Nat
      BY <1>19, <2>1, <2>2 DEF WriteEntry
    <2> HIDE DEF t
    <2>4. wal' \in Seq(Nat) /\ flushed <= Len(wal')
      BY <2>3, <1>a DEF LogType
    <2> QED
      BY <1>19, <2>4, <1>a DEF WriteEntry, LogType, bot, bg
  <1>20. ASSUME FlushLog PROVE LogType'
    BY <1>20, <1>a DEF FlushLog, LogType, bot, log, bg
  <1>21. ASSUME CommitBottom PROVE LogType'
    <2> DEFINE t == Front(Head(to_commit))
    <2>1. t \in Txn /\ commit_ts \in [Txn -> Nat]
      BY <1>21, CommitFront DEF CommitBottom, IInv, TypeInv, TxnType
    <2>2. /\ deleted' = [r \in Row |-> IF r \in rows[t] THEN commit_ts[t] ELSE deleted[r]]
          /\ bottom_done' = bottom_done \cup {t}
          /\ sequence' \in {sequence, sequence + 1}
          /\ \/ delta_seq' = delta_seq
             \/ delta_seq' = [delta_seq EXCEPT ![t] = sequence + 1]
      BY <1>21 DEF CommitBottom
    <2> HIDE DEF t
    <2>3. deleted' \in [Row -> Nat]
      BY <2>1, <2>2, <1>a DEF LogType
    <2>4. sequence' \in Nat /\ sequence + 1 \in Nat
      BY <2>2, <1>a DEF LogType
    <2>5. delta_seq' \in [Txn -> Nat] /\ bottom_done' \subseteq Txn
      BY <2>1, <2>2, <2>4, <1>a DEF LogType
    <2> QED
      BY <1>21, <2>3, <2>4, <2>5, <1>a DEF CommitBottom, LogType, bg
  <1>22. ASSUME AddDeltaEntry PROVE LogType'
    <2> DEFINE es == sequence_heap \cup {Head(bg_queue)}  run == Continuous(es)
    <2>1. Head(bg_queue) \in Txn /\ Tail(bg_queue) \in Seq(Txn)
      BY <1>22, <1>a DEF AddDeltaEntry, LogType
    <2>2. IsFiniteSet(es) /\ run \subseteq es
      BY <1>a, FS_AddElement DEF Continuous, LogType
    <2>3. IsFiniteSet(run) /\ IsFiniteSet(es \ run)
      BY <2>2, FS_Subset
    <2>4. Cardinality(run) \in Nat
      BY <2>3, FS_CardinalityType
    <2>5. /\ sequence_heap' = es \ run /\ merged' = merged \cup run
          /\ last_sequence' = last_sequence + Cardinality(run)
          /\ bg_queue' = Tail(bg_queue) /\ UNCHANGED <<bot, wal, flushed>>
      BY <1>22 DEF AddDeltaEntry, log
    <2>6. es \subseteq Txn
      BY <2>1, <1>a DEF LogType
    <2> HIDE DEF es, run
    <2>7. sequence_heap' \subseteq Txn /\ IsFiniteSet(sequence_heap') /\ merged' \subseteq Txn
      BY <2>2, <2>3, <2>5, <2>6, <1>a DEF LogType
    <2>8. last_sequence' \in Nat /\ bg_queue' \in Seq(Txn)
      BY <2>1, <2>4, <2>5, <1>a DEF LogType
    <2> QED
      BY <2>5, <2>7, <2>8, <1>a DEF LogType, bot
  <1>23. ASSUME UNCHANGED vars PROVE LogType'
    BY <1>23, <1>b DEF vars, log
  <1> QED
    BY <1>1, <1>2, <1>3, <1>4, <1>5, <1>6, <1>7, <1>8, <1>9, <1>10, <1>11,
       <1>12, <1>13, <1>14, <1>15, <1>16, <1>17, <1>18, <1>19, <1>20, <1>21,
       <1>22, <1>23
       DEF Next, Session, FlushThread, Quiescent

(* Every step keeps the types.                                             *)
LEMMA NextType == IInv /\ [Next]_vars => TypeInv'
  BY NextMgrType, NextTxnType, NextLogType DEF TypeInv

=============================================================================
