--------------------------- MODULE TxnStoreProofs ---------------------------
(***************************************************************************)
(* Proofs of what the pipeline promises outwards: it implements RowStore,  *)
(* and the timestamp for clean-up is below every transaction that exists.  *)
(***************************************************************************)
EXTENDS TxnConflictProofs, TxnLogProofs

-----------------------------------------------------------------------------
(* Maxima                                                                  *)

(* Max returns the greatest element, if there is one.                      *)
LEMMA MaxIs ==
    ASSUME NEW S, S \subseteq Nat, NEW m \in S, \A y \in S : y <= m
    PROVE  Max(S) = m
  <1>1. Max(S) \in S /\ \A y \in S : Max(S) >= y
    BY DEF Max
  <1>2. Max(S) \in Nat /\ m \in Nat /\ Max(S) >= m /\ Max(S) <= m
    BY <1>1
  <1> HIDE DEF Max
  <1> QED
    BY <1>2

(* A set of timestamps has one when it has an upper bound.                 *)
LEMMA MaxIn ==
    ASSUME NEW S, S \subseteq Nat, S # {}, NEW b \in Nat, \A y \in S : y <= b
    PROVE  Max(S) \in S /\ \A y \in S : y <= Max(S)
  <1> DEFINE D == {b - y : y \in S}
  <1>1. D \subseteq Nat /\ D # {}
    <2>1. \A y \in S : b - y \in Nat
      OBVIOUS
    <2>2. PICK y \in S : TRUE
      OBVIOUS
    <2>3. b - y \in D
      OBVIOUS
    <2> QED
      BY <2>1, <2>3
  <1>2. PICK d \in D : \A e \in D : d <= e
    BY <1>1, NatMin
  <1>3. PICK m \in S : d = b - m
    BY <1>2
  <1>4. \A y \in S : y <= m
    <2> TAKE y \in S
    <2>1. b - m <= b - y
      BY <1>2, <1>3
    <2> QED
      BY <2>1
  <1> HIDE DEF D
  <1>5. Max(S) = m
    BY <1>4, MaxIs
  <1> QED
    BY <1>4, <1>5

-----------------------------------------------------------------------------
(* The refinement of RowStore                                              *)

(* The batch that CommitBottom works through is in commit order, after all *)
(* that is applied and before all that is not yet written; every deleted   *)
(* row was deleted by a transaction that is applied.                       *)
StoreInv ==
    /\ InOrder(to_commit)
    /\ Precedes(Vectors(to_commit), Vectors(wait_flush) \cup wait_conflict_ck)
    /\ Precedes(bottom_done,
                Vectors(to_commit) \cup Vectors(wait_flush) \cup wait_conflict_ck)
    /\ START_TS <= current_ts
    /\ \A t \in Txn : slot_ts[t] # 0 => START_TS < slot_ts[t]
    /\ \A r \in Row : deleted[r] # 0 => \E t \in bottom_done : r \in rows[t]

SInv == CInv /\ LInv /\ StoreInv

(* The invariant holds when TxnManager is constructed.                     *)
LEMMA InitStore == Init => SInv
  <1> SUFFICES ASSUME Init PROVE StoreInv
    BY InitConflict, InitLog DEF SInv
  <1>1. Vectors(<<>>) = {} /\ DOMAIN <<>> = {}
    BY EmptyQueue
  <1> QED
    BY <1>1, TsAssumption DEF Init, StoreInv, InOrder, Precedes

(* A step that hands out no timestamp, moves no transaction and applies    *)
(* none keeps it.                                                          *)
LEMMA StoreFrame ==
    ASSUME StoreInv, \A t \in Txn : rows[t] \subseteq rows'[t], bottom_done \subseteq Txn,
           UNCHANGED <<to_commit, wait_flush, wait_conflict_ck, bottom_done,
                       current_ts, slot_ts, deleted>>
    PROVE  StoreInv'
  <1>1. \A r \in Row : deleted[r] # 0 => \E t \in bottom_done : r \in rows'[t]
    BY DEF StoreInv
  <1> QED
    BY <1>1 DEF StoreInv, InOrder, Precedes, Vectors

(* Every step keeps it: SendToWAL moves slots behind the batch, and the    *)
(* loop of CommitBottom takes the transaction that precedes all others.    *)
LEMMA NextStore == SInv /\ [Next]_vars => StoreInv'
  <1> SUFFICES ASSUME SInv, [Next]_vars PROVE StoreInv'
    OBVIOUS
  <1>a. /\ bottom_done \subseteq Txn /\ wait_conflict_ck \subseteq Txn
        /\ rows \in [Txn -> SUBSET Row] /\ slot_ts \in [Txn -> Nat]
        /\ current_ts \in Nat /\ deleted \in [Row -> Nat]
        /\ \A u \in Txn : slot_ts[u] <= current_ts
        /\ START_TS \in Nat
    BY TsAssumption DEF SInv, CInv, IInv, TypeInv, MgrType, TxnType, LogType, TsInv, SlotInv
  <1>b. /\ QueueOK(wait_flush) /\ QueueOK(to_commit)
        /\ Vectors(wait_flush) \subseteq Txn /\ Vectors(to_commit) \subseteq Txn
    BY InVectors DEF SInv, CInv, IInv, SlotInv
  <1>c. StoreInv
    BY DEF SInv
  <1>1. ASSUME NEW t \in Txn, GetWriteCommitTS(t) PROVE StoreInv'
    <2>1. /\ pc[t] = "started" /\ current_ts' = current_ts + 2
          /\ slot_ts' = [slot_ts EXCEPT ![t] = current_ts + 2]
          /\ wait_conflict_ck' = wait_conflict_ck \cup {t}
          /\ UNCHANGED <<wait_flush, to_commit, bottom_done, rows, deleted>>
      BY <1>1 DEF GetWriteCommitTS, bot, log
    <2>2. /\ t \notin wait_conflict_ck /\ t \notin Vectors(wait_flush)
          /\ t \notin Vectors(to_commit) /\ t \notin bottom_done
      BY <2>1 DEF SInv, CInv, IInv, SlotInv, LocalInv, PreSend
    <2>3. /\ slot_ts'[t] = current_ts + 2
          /\ \A u \in Txn \ {t} : slot_ts'[u] = slot_ts[u] /\ slot_ts[u] < current_ts + 2
      BY <1>a, <2>1
    <2>4. \A i \in DOMAIN to_commit : to_commit[i] \subseteq Txn \ {t}
      BY <1>b, <2>2, InVectors
    <2>5. InOrder(to_commit)'
      BY <1>c, <2>1, <2>3, <2>4 DEF StoreInv, InOrder, Precedes
    <2>6. Vectors(to_commit)' = Vectors(to_commit) /\ Vectors(wait_flush)' = Vectors(wait_flush)
      BY <2>1
    <2>7. Precedes(Vectors(to_commit), Vectors(wait_flush) \cup wait_conflict_ck)'
      BY <1>a, <1>b, <1>c, <2>1, <2>2, <2>3, <2>6 DEF StoreInv, Precedes
    <2>8. Precedes(bottom_done,
                   Vectors(to_commit) \cup Vectors(wait_flush) \cup wait_conflict_ck)'
      BY <1>a, <1>b, <1>c, <2>1, <2>2, <2>3, <2>6 DEF StoreInv, Precedes
    <2>9. /\ START_TS <= current_ts'
          /\ \A u \in Txn : slot_ts'[u] # 0 => START_TS < slot_ts'[u]
      BY <1>a, <1>c, <2>1, <2>3 DEF StoreInv
    <2> QED
      BY <1>c, <2>1, <2>5, <2>7, <2>8, <2>9 DEF StoreInv
  <1>2. ASSUME NEW t \in Txn, SendToWAL(t) PROVE StoreInv'
    <2>1. PICK vec : /\ vec \subseteq wait_conflict_ck
                     /\ wait_conflict_ck' \subseteq wait_conflict_ck
                     /\ wait_flush' = IF vec = {} THEN wait_flush ELSE Append(wait_flush, vec)
      <3>1. SlotsAfter(t) \subseteq wait_conflict_ck
        BY DEF SlotsAfter
      <3> QED
        BY <1>2, <3>1 DEF SendToWAL, Drained
    <2>2. UNCHANGED <<to_commit, bottom_done, current_ts, slot_ts, rows, deleted>>
      BY <1>2 DEF SendToWAL, bot
    <2>3. vec \cap Vectors(wait_flush) = {}
      <3> SUFFICES ASSUME NEW u \in vec, u \in Vectors(wait_flush) PROVE FALSE
        OBVIOUS
      <3>1. u \in Txn /\ slot_ts[u] < slot_ts[u]
        BY <1>a, <2>1 DEF SInv, LInv, LogInv, Precedes
      <3> QED
        BY <1>a, <3>1
    <2>4. Vectors(wait_flush)' = Vectors(wait_flush) \cup vec
      BY <1>a, <1>b, <2>1, <2>3, AppendVector
    <2>5. Vectors(wait_flush)' \cup wait_conflict_ck'
             \subseteq Vectors(wait_flush) \cup wait_conflict_ck
      BY <2>1, <2>4
    <2>6. Vectors(to_commit)' = Vectors(to_commit)
      BY <2>2
    <2> QED
      BY <1>c, <2>2, <2>5, <2>6 DEF StoreInv, InOrder, Precedes
  <1>3. ASSUME DequeueBulk PROVE StoreInv'
    <2>1. /\ to_commit' = wait_flush /\ wait_flush' = <<>>
          /\ UNCHANGED <<wait_conflict_ck, bottom_done, current_ts, slot_ts, rows, deleted>>
      BY <1>3 DEF DequeueBulk, mgr, txn, bot
    <2>2. Vectors(wait_flush') = {} /\ Vectors(to_commit') = Vectors(wait_flush)
      BY <2>1, EmptyQueue
    <2>3. InOrder(wait_flush) /\ Precedes(Vectors(wait_flush), wait_conflict_ck)
      BY DEF SInv, LInv, LogInv, Precedes
    <2> QED
      BY <1>c, <2>1, <2>2, <2>3 DEF StoreInv, InOrder, Precedes
  <1>4. ASSUME CommitBottom PROVE StoreInv'
    <2> DEFINE f == Front(Head(to_commit))
    <2>1. /\ f \in Vectors(to_commit) /\ f \in Txn /\ commit_ts[f] = slot_ts[f]
          /\ Vectors(to_commit') = Vectors(to_commit) \ {f}
      BY <1>4, CommitFront DEF CommitBottom, SInv, CInv, IInv, LocalInv, InCommit
    <2>2. /\ to_commit' = PopFront(to_commit) /\ to_commit # <<>>
          /\ bottom_done' = bottom_done \cup {f}
          /\ deleted' = [r \in Row |-> IF r \in rows[f] THEN commit_ts[f] ELSE deleted[r]]
          /\ UNCHANGED <<wait_flush, wait_conflict_ck, current_ts, slot_ts, rows>>
      BY <1>4 DEF CommitBottom, mgr, txn
    <2>3. \A t, u \in Vectors(to_commit) : slot_ts[t] = slot_ts[u] => t = u
      <3>1. \A t \in Vectors(to_commit) : t \in Txn /\ slot_ts[t] # 0
        BY <1>b DEF SInv, CInv, IInv, SlotInv, LocalInv, InCommit
      <3> QED
        BY <3>1 DEF SInv, CInv, IInv, TsInv
    <2>4. InOrder(to_commit') /\ Precedes({f}, Vectors(to_commit'))
      BY <1>a, <1>b, <1>c, <2>2, <2>3, PopInOrder DEF StoreInv
    <2> HIDE DEF f
    <2>5. Vectors(wait_flush)' = Vectors(wait_flush)
      BY <2>2
    <2>6. Precedes(Vectors(to_commit), Vectors(wait_flush) \cup wait_conflict_ck)'
      BY <1>c, <2>1, <2>2, <2>5 DEF StoreInv, Precedes
    <2>7. Precedes(bottom_done,
                   Vectors(to_commit) \cup Vectors(wait_flush) \cup wait_conflict_ck)'
      BY <1>c, <2>1, <2>2, <2>4, <2>5 DEF StoreInv, Precedes
    <2>8. \A r \in Row : deleted'[r] # 0 => \E t \in bottom_done' : r \in rows'[t]
      BY <1>c, <2>2 DEF StoreInv
    <2>9. InOrder(to_commit)'
      BY <2>2, <2>4 DEF InOrder, Precedes
    <2> QED
      BY <1>c, <2>2, <2>6, <2>7, <2>8, <2>9 DEF StoreInv
  <1>5. ASSUME NEW t \in Txn, NEW r \in Row, Delete(t, r) PROVE StoreInv'
    <2>1. \A u \in Txn : rows[u] \subseteq rows'[u]
      BY <1>5, <1>a DEF Delete
    <2> QED
      BY <1>5, <1>a, <1>c, <2>1, StoreFrame DEF Delete, mgr, bot, log
  <1>6. ASSUME NEW t \in Txn, Session(t), ~(\E r \in Row : Delete(t, r)),
               ~GetWriteCommitTS(t), ~SendToWAL(t)
        PROVE  StoreInv'
    <2>1. UNCHANGED <<to_commit, wait_flush, wait_conflict_ck, bottom_done,
                      current_ts, slot_ts, deleted, rows>>
      BY <1>6 DEF Session, BeginTxn, AddCheckpointCmd, CommitReadOnly,
         SetTxnCommitting, CollectCandidates, CheckCatalog, CheckCandidates,
         PostCommit, Rollback, ReleaseCheckpoint, CleanupRead, CleanupState,
         CleanupTxn, SubmitDeltaEntry, mgr, txn, bot, log
    <2> QED
      BY <1>a, <1>c, <2>1, StoreFrame
  <1>7. ASSUME WriteEntry \/ FlushLog \/ AddDeltaEntry \/ Quiescent \/ UNCHANGED vars
        PROVE  StoreInv'
    <2>1. UNCHANGED <<to_commit, wait_flush, wait_conflict_ck, bottom_done,
                      current_ts, slot_ts, deleted, rows>>
      BY <1>7 DEF WriteEntry, FlushLog, AddDeltaEntry, Quiescent, vars, mgr, txn, bot, log
    <2> QED
      BY <1>a, <1>c, <2>1, StoreFrame
  <1> QED
    BY <1>1, <1>2, <1>3, <1>4, <1>5, <1>6, <1>7 DEF Next, FlushThread

(* The invariant holds in every state the pipeline reaches.                *)
LEMMA StoreInvariance == Spec => []SInv
  <1>1. SInv /\ [Next]_vars => SInv'
    BY NextLocal, NextTs, NextType, NextSlot, NextConflict, NextApplied, NextLog,
       NextDurable, NextStore DEF SInv, CInv, LInv, IInv
  <1> QED
    BY InitStore, <1>1, PTL DEF Spec

(* Only CommitBottom deletes rows or moves the last commit: a timestamp is *)
(* assigned before its transaction is applied and never again.             *)
LEMMA OthersStutter ==
    SInv /\ [Next]_vars /\ ~CommitBottom => UNCHANGED Store!storeVars
  <1> SUFFICES ASSUME SInv, [Next]_vars, ~CommitBottom
               PROVE  deleted' = deleted /\ LastApplied' = LastApplied
    BY DEF Store!storeVars
  <1>1. /\ \A t \in Txn : pc[t] \in {"started", "ts_taken"} => t \notin bottom_done
        /\ bottom_done \subseteq Txn /\ commit_ts \in [Txn -> Nat]
    BY DEF SInv, CInv, IInv, TypeInv, TxnType, LogType, LocalInv, InCommit, PreSend
  <1>2. ASSUME UNCHANGED <<deleted, bottom_done>>,
               \A t \in bottom_done : commit_ts'[t] = commit_ts[t]
        PROVE  deleted' = deleted /\ LastApplied' = LastApplied
    <2>1. {commit_ts'[t] : t \in bottom_done'} = {commit_ts[t] : t \in bottom_done}
      BY <1>2
    <2> QED
      BY <1>2, <2>1 DEF LastApplied
  <1>3. ASSUME NEW t \in Txn, CommitReadOnly(t) \/ SetTxnCommitting(t) \/ Rollback(t)
        PROVE  deleted' = deleted /\ LastApplied' = LastApplied
    <2>1. \/ pc[t] \in {"started", "ts_taken"} /\ \E x : commit_ts' = [commit_ts EXCEPT ![t] = x]
          \/ UNCHANGED commit_ts
      BY <1>3 DEF CommitReadOnly, SetTxnCommitting, Rollback
    <2>2. UNCHANGED <<deleted, bottom_done>>
      BY <1>3 DEF CommitReadOnly, SetTxnCommitting, Rollback, bot
    <2>3. \A u \in bottom_done : commit_ts'[u] = commit_ts[u]
      BY <1>1, <2>1
    <2> QED
      BY <1>2, <2>2, <2>3
  <1>4. ASSUME NEW t \in Txn, Session(t), ~CommitReadOnly(t), ~SetTxnCommitting(t),
               ~Rollback(t)
        PROVE  deleted' = deleted /\ LastApplied' = LastApplied
    <2>1. UNCHANGED <<deleted, bottom_done, commit_ts>>
      BY <1>4 DEF Session, BeginTxn, Delete, AddCheckpointCmd, GetWriteCommitTS,
         CollectCandidates, CheckCatalog, CheckCandidates, SendToWAL, PostCommit,
         ReleaseCheckpoint, CleanupRead, CleanupState, CleanupTxn,
         SubmitDeltaEntry, txn, bot
    <2> QED
      BY <1>2, <2>1
  <1>5. ASSUME DequeueBulk \/ WriteEntry \/ FlushLog \/ AddDeltaEntry \/ UNCHANGED vars
        PROVE  deleted' = deleted /\ LastApplied' = LastApplied
    <2>1. UNCHANGED <<deleted, bottom_done, commit_ts>>
      BY <1>5 DEF DequeueBulk, WriteEntry, FlushLog, AddDeltaEntry, vars, txn, bot
    <2> QED
      BY <1>2, <2>1
  <1> QED
    BY <1>3, <1>4, <1>5 DEF Next, FlushThread, Quiescent

(* CommitBottom is a commit of RowStore: its timestamp is above those that *)
(* are applied, and nobody deleted its rows before.                        *)
LEMMA BottomCommits == SInv /\ CommitBottom => Store!Commit
  <1> SUFFICES ASSUME SInv, CommitBottom PROVE Store!Commit
    OBVIOUS
  <1> DEFINE f  == Front(Head(to_commit))
             S  == {START_TS} \cup {commit_ts[t] : t \in bottom_done}
             S1 == {START_TS} \cup {commit_ts[t] : t \in bottom_done \cup {f}}
  <1>1. f \in Txn /\ f \in Vectors(to_commit) /\ pc[f] = "waiting" /\ f \notin bottom_done
    BY CommitFront DEF CommitBottom, SInv, CInv
  <1>2. /\ bottom_done' = bottom_done \cup {f} /\ UNCHANGED <<rows, commit_ts>>
        /\ deleted' = [r \in Row |-> IF r \in rows[f] THEN commit_ts[f] ELSE deleted[r]]
    BY DEF CommitBottom, txn
  <1> HIDE DEF f
  <1>3. /\ bottom_done \subseteq Txn /\ rows \in [Txn -> SUBSET Row]
        /\ slot_ts \in [Txn -> Nat] /\ deleted \in [Row -> Nat] /\ START_TS \in Nat
        /\ current_ts \in Nat /\ START_TS <= current_ts
        /\ \A t \in Txn : slot_ts[t] <= current_ts
    BY TsAssumption DEF SInv, CInv, IInv, TypeInv, MgrType, TxnType, LogType, TsInv, StoreInv
  <1>4. /\ commit_ts[f] = slot_ts[f] /\ slot_ts[f] # 0
        /\ \A t \in bottom_done : commit_ts[t] = slot_ts[t]
    BY <1>1, <1>3 DEF SInv, CInv, IInv, LocalInv, InCommit, PreSend
  <1>5. S \subseteq Nat /\ S # {} /\ \A y \in S : y <= current_ts /\ y < slot_ts[f]
    <2>1. START_TS < slot_ts[f]
      BY <1>1, <1>4 DEF SInv, StoreInv
    <2>2. \A t \in bottom_done : slot_ts[t] < slot_ts[f]
      BY <1>1 DEF SInv, StoreInv, Precedes
    <2> QED
      BY <1>3, <1>4, <2>1, <2>2
  <1>6. S1 = S \cup {slot_ts[f]}
    BY <1>4
  <1>7. LastApplied = Max(S) /\ LastApplied' = Max(S1)
    BY <1>2 DEF LastApplied
  <1> HIDE DEF S, S1
  <1>8. Max(S) \in S
    BY <1>3, <1>5, MaxIn
  <1>9. Max(S1) = slot_ts[f]
    <2>1. slot_ts[f] \in Nat /\ slot_ts[f] \in S1 /\ S1 \subseteq Nat
      BY <1>1, <1>3, <1>5, <1>6
    <2>2. \A y \in S1 : y <= slot_ts[f]
      BY <1>5, <1>6, <2>1
    <2> QED
      BY <2>1, <2>2, MaxIs
  <1>10. LastApplied' > LastApplied /\ LastApplied' = commit_ts[f]
    BY <1>1, <1>3, <1>4, <1>5, <1>7, <1>8, <1>9
  <1>11. \A r \in rows[f] : deleted[r] = 0
    <2>1. \A t \in bottom_done : rows[t] \cap rows[f] = {}
      <3>1. Accepted(f)
        BY <1>1 DEF Accepted
      <3> QED
        BY <1>1, <1>3, <3>1, AcceptedDisjoint, AcceptedNotRefused DEF SInv, CInv
    <2> QED
      BY <1>1, <1>3, <2>1 DEF SInv, StoreInv
  <1>12. deleted' \in [Row -> {deleted[r] : r \in Row} \cup {LastApplied'}]
    BY <1>2, <1>10
  <1>13. \A r \in Row : deleted'[r] # deleted[r] =>
                            deleted[r] = 0 /\ deleted'[r] = LastApplied'
    BY <1>2, <1>10, <1>11
  <1> QED
    BY <1>10, <1>12, <1>13 DEF Store!Commit

(* The commit pipeline implements RowStore: Txn::CommitBottom applies the  *)
(* commits one at a time in the order of their timestamps, and no row is   *)
(* deleted twice.                                                          *)
THEOREM PipelineImplementsRowStore == Spec => ImplementsRowStore
  <1>1. Init => Store!StoreInit
    <2> SUFFICES ASSUME Init PROVE LastApplied = START_TS
      BY DEF Init, Store!StoreInit
    <2>1. {START_TS} \cup {commit_ts[t] : t \in bottom_done} = {START_TS}
      BY DEF Init
    <2>2. Max({START_TS}) = START_TS
      BY TsAssumption, MaxIs
    <2> QED
      BY <2>1, <2>2 DEF LastApplied
  <1>2. SInv /\ [Next]_vars => [Store!Commit]_(Store!storeVars)
    BY OthersStutter, BottomCommits
  <1> QED
    BY <1>1, <1>2, StoreInvariance, PTL DEF Spec, ImplementsRowStore, Store!StoreSpec

-----------------------------------------------------------------------------
(* The timestamp for clean-up                                              *)

(* beginned_txns_ has a reference to every transaction that began, in the  *)
(* order of the begin timestamps, and only such transactions have owners.  *)
BeginInv ==
    /\ \A t \in Txn : pc[t] # "idle" =>
          \E i \in DOMAIN beginned_txns : beginned_txns[i] = t
    /\ \A i \in DOMAIN beginned_txns : pc[beginned_txns[i]] # "idle"
    /\ \A i, j \in DOMAIN beginned_txns :
          i <= j => begin_ts[beginned_txns[i]] <= begin_ts[beginned_txns[j]]
    /\ \A i \in DOMAIN beginned_txns : begin_ts[beginned_txns[i]] <= current_ts + 1
    /\ \A t \in Txn : \A u \in candidates[t] : pc[u] # "idle"

(* A step that begins no transaction keeps it.                             *)
LEMMA BeginFrame ==
    ASSUME IInv, BeginInv, UNCHANGED <<beginned_txns, begin_ts>>,
           \A t \in Txn : pc'[t] = "idle" <=> pc[t] = "idle",
           current_ts' \in Nat, current_ts <= current_ts',
           \A t \in Txn : candidates'[t] \subseteq candidates[t] \cup committing_txns
    PROVE  BeginInv'
  <1>1. /\ beginned_txns \in Seq(Txn) /\ begin_ts \in [Txn -> Nat] /\ current_ts \in Nat
        /\ candidates \in [Txn -> SUBSET Txn] /\ committing_txns \subseteq Txn
        /\ \A u \in committing_txns : pc[u] # "idle"
    BY DEF IInv, TypeInv, MgrType, TxnType, TsInv, InPipeline, InCommit, PreSend
  <1>2. \A i \in DOMAIN beginned_txns : beginned_txns[i] \in Txn
    BY <1>1
  <1>3. \A t \in Txn : \A u \in candidates'[t] : pc'[u] # "idle"
    BY <1>1 DEF BeginInv
  <1>4. \A i \in DOMAIN beginned_txns : begin_ts[beginned_txns[i]] <= current_ts' + 1
    BY <1>1, <1>2 DEF BeginInv
  <1> QED
    BY <1>2, <1>3, <1>4 DEF BeginInv

(* Every step keeps it: BeginTxn adds the reference and takes the          *)
(* timestamp, the greatest so far, in one critical section.                *)
LEMMA NextBegin == IInv /\ BeginInv /\ [Next]_vars => BeginInv'
  <1> SUFFICES ASSUME IInv, BeginInv, [Next]_vars PROVE BeginInv'
    OBVIOUS
  <1>a. /\ beginned_txns \in Seq(Txn) /\ begin_ts \in [Txn -> Nat] /\ current_ts \in Nat
        /\ candidates \in [Txn -> SUBSET Txn] /\ pc \in [Txn -> PC]
    BY DEF IInv, TypeInv, MgrType, TxnType
  <1>1. ASSUME NEW t \in Txn, BeginTxn(t) PROVE BeginInv'
    <2> DEFINE b == beginned_txns
               n == Len(beginned_txns)
    <2>1. /\ pc[t] = "idle" /\ pc' = [pc EXCEPT ![t] = "started"]
          /\ b' = Append(b, t) /\ begin_ts' = [begin_ts EXCEPT ![t] = current_ts + 1]
          /\ UNCHANGED <<current_ts, candidates>>
      BY <1>1 DEF BeginTxn, GoTo
    <2>2. /\ n \in Nat /\ DOMAIN b = 1..n /\ DOMAIN b' = 1..(n + 1) /\ b'[n + 1] = t
          /\ \A i \in 1..n : b'[i] = b[i] /\ b[i] \in Txn /\ b[i] # t
      BY <1>a, <2>1 DEF BeginInv
    <2> HIDE DEF b, n
    <2>3. /\ begin_ts'[t] = current_ts + 1 /\ pc'[t] = "started"
          /\ \A u \in Txn \ {t} : begin_ts'[u] = begin_ts[u] /\ pc'[u] = pc[u]
      BY <1>a, <2>1
    <2>4. \A u \in Txn : pc'[u] # "idle" => \E i \in DOMAIN b' : b'[i] = u
      <3> SUFFICES ASSUME NEW u \in Txn, u # t, pc'[u] # "idle"
                   PROVE  \E i \in DOMAIN b' : b'[i] = u
        BY <2>2
      <3>1. PICK i \in DOMAIN b : b[i] = u
        BY <2>3 DEF BeginInv, b
      <3> QED
        BY <2>2, <3>1
    <2>5. /\ \A i \in 1..n : begin_ts'[b'[i]] = begin_ts[b[i]] /\ pc'[b'[i]] = pc[b[i]]
          /\ \A i \in 1..n : begin_ts[b[i]] \in Nat
      BY <1>a, <2>2, <2>3
    <2>6. /\ \A i \in 1..n : pc[b[i]] # "idle" /\ begin_ts[b[i]] <= current_ts + 1
          /\ \A i, j \in 1..n : i <= j => begin_ts[b[i]] <= begin_ts[b[j]]
      BY <2>2 DEF BeginInv, b
    <2>7. \A i \in 1..(n + 1) : i \in 1..n \/ i = n + 1
      BY <2>2
    <2>8. \A i \in DOMAIN b' : pc'[b'[i]] # "idle" /\ begin_ts'[b'[i]] <= current_ts + 1
      BY <1>a, <2>2, <2>3, <2>5, <2>6, <2>7
    <2>9. \A i, j \in DOMAIN b' : i <= j => begin_ts'[b'[i]] <= begin_ts'[b'[j]]
      BY <1>a, <2>2, <2>3, <2>5, <2>6, <2>7
    <2>10. \A u \in Txn : \A v \in candidates'[u] : pc'[v] # "idle"
      BY <1>a, <2>1, <2>3 DEF BeginInv
    <2> QED
      BY <2>1, <2>4, <2>8, <2>9, <2>10 DEF BeginInv, b
  <1>2. ASSUME NEW t \in Txn, Session(t), ~BeginTxn(t) PROVE BeginInv'
    <2>1. UNCHANGED <<beginned_txns, begin_ts>>
      BY <1>2 DEF Session, Delete, AddCheckpointCmd, CommitReadOnly,
         GetWriteCommitTS, SetTxnCommitting, CollectCandidates, CheckCatalog,
         CheckCandidates, SendToWAL, PostCommit, Rollback, ReleaseCheckpoint,
         CleanupRead, CleanupState, CleanupTxn, SubmitDeltaEntry, mgr, txn
    <2>2. \A u \in Txn : pc'[u] = "idle" <=> pc[u] = "idle"
      BY <1>2, <1>a DEF Session, Delete, AddCheckpointCmd, CommitReadOnly,
         GetWriteCommitTS, SetTxnCommitting, CollectCandidates, CheckCatalog,
         CheckCandidates, SendToWAL, PostCommit, Rollback, ReleaseCheckpoint,
         CleanupRead, CleanupState, CleanupTxn, SubmitDeltaEntry, GoTo, AfterTop
    <2>3. current_ts' = current_ts \/ current_ts' = current_ts + 2
      BY <1>2 DEF Session, Delete, AddCheckpointCmd, CommitReadOnly,
         GetWriteCommitTS, SetTxnCommitting, CollectCandidates, CheckCatalog,
         CheckCandidates, SendToWAL, PostCommit, Rollback, ReleaseCheckpoint,
         CleanupRead, CleanupState, CleanupTxn, SubmitDeltaEntry, mgr
    <2>4. \/ UNCHANGED candidates
          \/ \E cs \in {{}, Candidates(t)} : candidates' = [candidates EXCEPT ![t] = cs]
      BY <1>2 DEF Session, Delete, AddCheckpointCmd, CommitReadOnly,
         GetWriteCommitTS, SetTxnCommitting, CollectCandidates, CheckCatalog,
         CheckCandidates, SendToWAL, PostCommit, Rollback, ReleaseCheckpoint,
         CleanupRead, CleanupState, CleanupTxn, SubmitDeltaEntry, EndCheck, txn
    <2>5. Candidates(t) \subseteq committing_txns
      BY DEF Candidates
    <2>6. \A u \in Txn : candidates'[u] \subseteq candidates[u] \cup committing_txns
      BY <1>a, <2>4, <2>5
    <2>7. current_ts' \in Nat /\ current_ts <= current_ts'
      BY <1>a, <2>3
    <2> QED
      BY <2>1, <2>2, <2>6, <2>7, BeginFrame
  <1>3. ASSUME FlushThread \/ AddDeltaEntry \/ Quiescent \/ UNCHANGED vars PROVE BeginInv'
    <2>1. UNCHANGED <<beginned_txns, begin_ts, pc, current_ts, candidates>>
      BY <1>3 DEF FlushThread, DequeueBulk, WriteEntry, FlushLog, CommitBottom,
         AddDeltaEntry, Quiescent, vars, mgr, txn
    <2> QED
      BY <1>a, <2>1, BeginFrame
  <1> QED
    BY <1>1, <1>2, <1>3 DEF Next

(* GetCleanupScanTS never passes the begin timestamp of a transaction that *)
(* still exists, although it looks only at the first reference of          *)
(* beginned_txns_ that has not expired.                                    *)
THEOREM CleanupBelowAll == Spec => []CleanupScanSafe
  <1>1. Init => BeginInv
    BY DEF Init, BeginInv
  <1>2. ASSUME IInv, BeginInv PROVE CleanupScanSafe
    <2> SUFFICES ASSUME NEW t \in Txn, Alive(t)
                 PROVE  GetCleanupScanTS(current_ts) <= begin_ts[t]
      BY DEF CleanupScanSafe
    <2> DEFINE live == {i \in 1..Len(beginned_txns) : Alive(beginned_txns[i])}
               S == {FirstUncommitted, current_ts} \cup checking_ts
    <2>1. /\ beginned_txns \in Seq(Txn) /\ begin_ts \in [Txn -> Nat] /\ current_ts \in Nat
          /\ checking_ts \subseteq Nat
          /\ DOMAIN beginned_txns = 1..Len(beginned_txns)
          /\ \A i \in DOMAIN beginned_txns : beginned_txns[i] \in Txn
      BY <1>2 DEF IInv, TypeInv, MgrType, TxnType
    <2>2. pc[t] # "idle"
      BY <1>2 DEF Alive, IInv, LocalInv, BeginInv
    <2>3. PICK i \in DOMAIN beginned_txns : beginned_txns[i] = t
      BY <1>2, <2>2 DEF BeginInv
    <2>4. i \in live /\ live \subseteq Nat /\ live \subseteq DOMAIN beginned_txns
      BY <2>1, <2>3
    <2>5. FirstUncommitted = begin_ts[beginned_txns[Min(live)]]
      BY <2>4 DEF FirstUncommitted
    <2> HIDE DEF live
    <2>6. Min(live) \in live /\ Min(live) <= i
      BY <2>4, MinIn
    <2>7. FirstUncommitted <= begin_ts[t] /\ FirstUncommitted \in Nat
      BY <1>2, <2>1, <2>3, <2>4, <2>5, <2>6 DEF BeginInv
    <2>8. S \subseteq Nat /\ FirstUncommitted \in S
      BY <2>1, <2>7
    <2>9. GetCleanupScanTS(current_ts) = Min(S)
      BY DEF GetCleanupScanTS
    <2> HIDE DEF S
    <2>10. Min(S) \in Nat /\ Min(S) <= FirstUncommitted
      BY <2>8, MinIn
    <2> QED
      BY <2>1, <2>7, <2>9, <2>10
  <1> QED
    BY <1>1, <1>2, Invariance, NextBegin, PTL DEF Spec

=============================================================================
