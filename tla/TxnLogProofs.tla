---------------------------- MODULE TxnLogProofs ----------------------------
(***************************************************************************)
(* Proofs about the order and the durability of the log: the slots of      *)
(* wait_conflict_ck_, the vectors of wait_flush_, the batch of the flush   *)
(* thread and the file form one sequence in commit order.                  *)
(***************************************************************************)
EXTENDS TxnManagerProofs

-----------------------------------------------------------------------------
(* Order of vectors                                                        *)

Precedes(S, T) == \A t \in S, u \in T : slot_ts[t] < slot_ts[u]
InOrder(q) == \A i, j \in DOMAIN q : i < j => Precedes(q[i], q[j])

(* SubmitTxn keeps the order when the new vector follows all the others.   *)
LEMMA AppendInOrder ==
    ASSUME NEW q, QueueOK(q), InOrder(q), NEW vec, vec \subseteq Txn,
           Precedes(Vectors(q), vec)
    PROVE  InOrder(Append(q, vec))
  <1> DEFINE a == Append(q, vec)  n == Len(q) + 1
  <1>1. /\ n \in DOMAIN a /\ a[n] = vec /\ ~(n < n)
        /\ \A i \in DOMAIN a : i \in DOMAIN q \/ i = n
        /\ \A i \in DOMAIN q : a[i] = q[i] /\ ~(n < i)
    BY DEF QueueOK
  <1>2. \A i \in DOMAIN q : Precedes(q[i], vec)
    BY InVectors DEF Precedes
  <1> HIDE DEF a, n
  <1>3. ASSUME NEW i \in DOMAIN a, NEW j \in DOMAIN a, i < j
        PROVE  Precedes(a[i], a[j])
    <2>1. CASE i \in DOMAIN q /\ j \in DOMAIN q
      BY <1>1, <1>3, <2>1 DEF InOrder
    <2>2. CASE i \in DOMAIN q /\ j = n
      BY <1>1, <1>2, <2>2
    <2> QED
      BY <1>1, <1>3, <2>1, <2>2
  <1> QED
    BY <1>3 DEF InOrder, a

(* The loops of Flush take the transaction that precedes all the others.   *)
LEMMA PopInOrder ==
    ASSUME slot_ts \in [Txn -> Nat], NEW q, QueueOK(q), q # <<>>, InOrder(q),
           \A t, u \in Vectors(q) : slot_ts[t] = slot_ts[u] => t = u
    PROVE  /\ InOrder(PopFront(q))
           /\ Precedes({Front(Head(q))}, Vectors(PopFront(q)))
  <1> DEFINE f == Front(Head(q))  rest == Head(q) \ {f}  p == PopFront(q)
  <1>1. /\ 1 \in DOMAIN q /\ Head(q) = q[1]
        /\ Head(q) \subseteq Txn /\ Head(q) # {}
        /\ \A i \in DOMAIN q : i # 1 => 1 < i /\ ~(i < 1)
    BY DEF QueueOK
  <1>2. f \in Head(q) /\ \A u \in Head(q) : slot_ts[f] <= slot_ts[u]
    BY <1>1, FrontIn
  <1>3. \A u \in Head(q) \ {f} : slot_ts[f] < slot_ts[u]
    <2> TAKE u \in Head(q) \ {f}
    <2>1. f \in Vectors(q) /\ u \in Vectors(q) /\ f # u /\ f \in Txn /\ u \in Txn
      BY <1>1, <1>2, InVectors
    <2>2. slot_ts[f] # slot_ts[u] /\ slot_ts[f] \in Nat /\ slot_ts[u] \in Nat
      BY <2>1
    <2>3. slot_ts[f] <= slot_ts[u]
      BY <1>2
    <2> HIDE DEF f
    <2> QED
      BY <2>2, <2>3
  <1>4. \A i \in DOMAIN q : i # 1 => Precedes(q[1], q[i])
    BY <1>1 DEF InOrder
  <1>5. \A u \in Vectors(q) \ {f} : slot_ts[f] < slot_ts[u]
    <2> TAKE u \in Vectors(q) \ {f}
    <2>1. PICK i \in DOMAIN q : u \in q[i]
      BY InVectors
    <2> QED
      BY <1>1, <1>2, <1>3, <1>4, <2>1 DEF Precedes
  <1>6. Vectors(p) = Vectors(q) \ {f}
    BY PopVector
  <1>7. InOrder(p)
    <2>1. CASE rest = {}
      <3>1. p = Tail(q)
        BY <2>1 DEF PopFront
      <3>2. /\ \A i \in DOMAIN p : i + 1 \in DOMAIN q /\ p[i] = q[i + 1]
            /\ \A i, j \in DOMAIN p : i < j => i + 1 < j + 1
        BY <3>1 DEF QueueOK
      <3> HIDE DEF p
      <3> QED
        BY <3>2 DEF InOrder
    <2>2. CASE rest # {}
      <3>1. p = <<rest>> \o Tail(q)
        BY <2>2 DEF PopFront
      <3>2. /\ DOMAIN p = DOMAIN q
            /\ p[1] = rest /\ \A i \in DOMAIN q : i # 1 => p[i] = q[i]
        BY <1>1, <3>1 DEF QueueOK
      <3>3. rest \subseteq q[1]
        BY <1>1
      <3> HIDE DEF p, rest
      <3>4. \A i \in DOMAIN q : p[i] \subseteq q[i]
        BY <3>2, <3>3
      <3> QED
        BY <3>2, <3>4 DEF InOrder, Precedes
    <2> QED
      BY <2>1, <2>2
  <1> HIDE DEF f, p
  <1> QED
    BY <1>5, <1>6, <1>7 DEF Precedes, f, p

-----------------------------------------------------------------------------
(* The inductive invariant                                                 *)

(* From the file to the slots, timestamps only grow.                       *)
LogInv ==
    /\ InOrder(wait_flush) /\ InOrder(to_write)
    /\ Precedes(Vectors(to_write), Vectors(wait_flush))
    /\ Precedes(Vectors(to_write) \cup Vectors(wait_flush), wait_conflict_ck)
    /\ \A i \in DOMAIN wal : wal[i] <= current_ts
    /\ \A i \in DOMAIN wal :
          \A t \in Vectors(to_write) \cup Vectors(wait_flush) \cup wait_conflict_ck :
              wal[i] < slot_ts[t]
    /\ WalInCommitOrder

(* What CommitBottom is still to apply is in the file or about to be       *)
(* written, and what it has applied is flushed.                            *)
DurableInv ==
    /\ \A t \in Vectors(to_commit) \ Vectors(to_write) :
          \E i \in DOMAIN wal : wal[i] = slot_ts[t]
    /\ AppliedIsDurable

LInv == IInv /\ LogInv /\ DurableInv

(* The invariant holds when TxnManager is constructed.                     *)
LEMMA InitLog == Init => LInv
  <1> SUFFICES ASSUME Init PROVE LogInv /\ DurableInv
    BY InitInv DEF LInv
  <1>1. Vectors(<<>>) = {} /\ DOMAIN <<>> = {} /\ Len(<<>>) = 0
    BY EmptyQueue
  <1>2. DurableInv
    BY <1>1 DEF Init, DurableInv, AppliedIsDurable
  <1>3. WalInCommitOrder
    BY <1>1 DEF Init, WalInCommitOrder
  <1> QED
    BY <1>1, <1>2, <1>3 DEF Init, LogInv, InOrder, Precedes

(* Every step keeps the order: a new timestamp is above all others, and    *)
(* SendToWAL submits a run of slots that ends before the first open one.   *)
LEMMA NextLog == LInv /\ [Next]_vars => LogInv'
  <1> SUFFICES ASSUME LInv, [Next]_vars PROVE LogInv'
    OBVIOUS
  <1> USE DEF LInv, LogInv, WalInCommitOrder, InOrder, Precedes, mgr, txn, bot, log, bg
  <1>1. ASSUME NEW t \in Txn, BeginTxn(t) PROVE LogInv'
    BY <1>1 DEF BeginTxn
  <1>2. ASSUME NEW t \in Txn, NEW r \in Row, Delete(t, r) PROVE LogInv'
    BY <1>2 DEF Delete
  <1>3. ASSUME NEW t \in Txn, AddCheckpointCmd(t) PROVE LogInv'
    BY <1>3 DEF AddCheckpointCmd
  <1>4. ASSUME NEW t \in Txn, CommitReadOnly(t) PROVE LogInv'
    BY <1>4 DEF CommitReadOnly, AfterTop
  <1>5. ASSUME NEW t \in Txn, GetWriteCommitTS(t) PROVE LogInv'
    <2>1. /\ pc[t] = "started" /\ current_ts' = current_ts + 2
          /\ slot_ts' = [slot_ts EXCEPT ![t] = current_ts + 2]
          /\ wait_conflict_ck' = wait_conflict_ck \cup {t}
          /\ UNCHANGED <<wait_flush, to_write, wal>>
      BY <1>5 DEF GetWriteCommitTS
    <2>2. /\ slot_ts \in [Txn -> Nat] /\ current_ts \in Nat /\ wal \in Seq(Nat)
          /\ \A u \in Txn : slot_ts[u] <= current_ts
      BY DEF IInv, TypeInv, MgrType, TxnType, LogType, TsInv
    <2>3. /\ t \notin wait_conflict_ck /\ wait_conflict_ck \subseteq Txn
          /\ QueueOK(wait_flush) /\ QueueOK(to_write)
          /\ t \notin Vectors(wait_flush) /\ t \notin Vectors(to_write)
      BY <2>1 DEF IInv, SlotInv, PreSend
    <2>4. /\ \A i \in DOMAIN wait_flush : wait_flush[i] \subseteq Txn \ {t}
          /\ \A i \in DOMAIN to_write : to_write[i] \subseteq Txn \ {t}
          /\ Vectors(wait_flush) \cup Vectors(to_write) \subseteq Txn \ {t}
      BY <2>3, InVectors
    <2>5. /\ slot_ts'[t] = current_ts + 2
          /\ \A u \in Txn \ {t} : slot_ts'[u] = slot_ts[u] /\ slot_ts[u] < current_ts + 2
      BY <2>1, <2>2
    <2>6. \A i \in DOMAIN wal : wal[i] <= current_ts' /\ wal[i] < current_ts + 2
      BY <2>1, <2>2
    <2>7. /\ InOrder(wait_flush)' /\ InOrder(to_write)'
          /\ Precedes(Vectors(to_write), Vectors(wait_flush))'
      BY <2>1, <2>4, <2>5
    <2>8. Precedes(Vectors(to_write) \cup Vectors(wait_flush), wait_conflict_ck)'
      BY <2>1, <2>3, <2>4, <2>5
    <2>9. \A i \in DOMAIN wal :
             \A u \in Vectors(to_write) \cup Vectors(wait_flush) \cup wait_conflict_ck' :
                 wal[i] < slot_ts'[u]
      BY <2>1, <2>3, <2>4, <2>5, <2>6
    <2> QED
      BY <2>1, <2>6, <2>7, <2>8, <2>9
  <1>6. ASSUME NEW t \in Txn, SetTxnCommitting(t) PROVE LogInv'
    BY <1>6 DEF SetTxnCommitting
  <1>7. ASSUME NEW t \in Txn, CollectCandidates(t) PROVE LogInv'
    BY <1>7 DEF CollectCandidates
  <1>8. ASSUME NEW t \in Txn, CheckCatalog(t) PROVE LogInv'
    BY <1>8 DEF CheckCatalog, EndCheck
  <1>9. ASSUME NEW t \in Txn, CheckCandidates(t) PROVE LogInv'
    BY <1>9 DEF CheckCandidates, EndCheck
  <1>10. ASSUME NEW t \in Txn, SendToWAL(t) PROVE LogInv'
    <2> DEFINE keep   == pc[t] = "passed"
               slots  == SlotsAfter(t)
               filled == IF keep THEN slot_filled \cup {t} ELSE slot_filled
               vec    == Drained(slots, filled)
    <2>1. /\ wait_conflict_ck' = slots \ vec
          /\ wait_flush' = IF vec = {} THEN wait_flush ELSE Append(wait_flush, vec)
          /\ UNCHANGED <<to_write, slot_ts, wal, current_ts>>
      BY <1>10 DEF SendToWAL
    <2>2. /\ QueueOK(wait_flush) /\ slot_ts \in [Txn -> Nat]
          /\ wait_conflict_ck \subseteq Txn
          /\ slot_filled \cap Vectors(wait_flush) = {}
      BY DEF IInv, SlotInv, TypeInv, MgrType, TxnType, LogType
    <2>3. slots \subseteq wait_conflict_ck /\ vec \subseteq slots
      BY DEF SlotsAfter, Drained
    <2>4. Precedes(vec, slots \ vec)
      <3> SUFFICES ASSUME NEW u \in vec, NEW w \in slots \ vec
                   PROVE  slot_ts[u] < slot_ts[w]
        OBVIOUS
      <3>1. PICK v \in slots : slot_ts[v] <= slot_ts[w] /\ v \notin filled
        BY DEF Drained
      <3>2. ~(slot_ts[v] <= slot_ts[u])
        BY <3>1 DEF Drained
      <3>3. slot_ts[u] \in Nat /\ slot_ts[v] \in Nat /\ slot_ts[w] \in Nat
        BY <2>2, <2>3
      <3> HIDE DEF vec, slots, filled
      <3> QED
        BY <3>1, <3>2, <3>3
    <2>5. vec \cap Vectors(wait_flush) = {}
      <3> SUFFICES ASSUME NEW u \in vec, u \in Vectors(wait_flush) PROVE FALSE
        OBVIOUS
      <3>1. slot_ts[u] \in Nat /\ slot_ts[u] < slot_ts[u]
        BY <2>2, <2>3
      <3> QED
        BY <3>1
    <2> HIDE DEF keep, slots, filled, vec
    <2>6. InOrder(wait_flush')
      BY <2>1, <2>2, <2>3, AppendInOrder
    <2>7. Vectors(wait_flush') = Vectors(wait_flush) \cup vec
      BY <2>1, <2>2, <2>3, <2>5, AppendVector
    <2> QED
      BY <2>1, <2>3, <2>4, <2>6, <2>7
  <1>11. ASSUME NEW t \in Txn, PostCommit(t) PROVE LogInv'
    BY <1>11 DEF PostCommit, BottomDone, AfterTop
  <1>12. ASSUME NEW t \in Txn, Rollback(t) PROVE LogInv'
    BY <1>12 DEF Rollback, AfterTop
  <1>13. ASSUME NEW t \in Txn, ReleaseCheckpoint(t) PROVE LogInv'
    BY <1>13 DEF ReleaseCheckpoint
  <1>14. ASSUME NEW t \in Txn, CleanupRead(t) PROVE LogInv'
    BY <1>14 DEF CleanupRead
  <1>15. ASSUME NEW t \in Txn, CleanupState(t) PROVE LogInv'
    BY <1>15 DEF CleanupState
  <1>16. ASSUME NEW t \in Txn, CleanupTxn(t) PROVE LogInv'
    BY <1>16 DEF CleanupTxn, NoneEarlier
  <1>17. ASSUME NEW t \in Txn, SubmitDeltaEntry(t) PROVE LogInv'
    BY <1>17 DEF SubmitDeltaEntry
  <1>18. ASSUME DequeueBulk PROVE LogInv'
    BY <1>18, EmptyQueue DEF DequeueBulk
  <1>19. ASSUME WriteEntry PROVE LogInv'
    <2> DEFINE f == Front(Head(to_write))  n == Len(wal) + 1
    <2>1. /\ QueueOK(to_write) /\ to_write # <<>> /\ slot_ts \in [Txn -> Nat]
          /\ wal \in Seq(Nat) /\ current_ts \in Nat
      BY <1>19 DEF WriteEntry, IInv, SlotInv, TypeInv, MgrType, TxnType, LogType
    <2>2. /\ f \in Vectors(to_write)
          /\ Vectors(PopFront(to_write)) = Vectors(to_write) \ {f}
      BY <2>1, PopVector
    <2>3. /\ f \in Txn /\ slot_ts[f] \in Nat /\ commit_ts[f] = slot_ts[f]
          /\ slot_ts[f] <= current_ts
      <3>1. f \in Txn /\ pc[f] = "waiting"
        BY <2>1, <2>2, InVectors DEF IInv, SlotInv
      <3> QED
        BY <3>1 DEF IInv, TypeInv, MgrType, TxnType, LogType, LocalInv, TsInv, InCommit
    <2>4. \A t, u \in Vectors(to_write) : slot_ts[t] = slot_ts[u] => t = u
      <3>1. \A t \in Vectors(to_write) : t \in Txn /\ slot_ts[t] # 0
        BY <2>1, InVectors DEF IInv, SlotInv, LocalInv, InCommit
      <3> QED
        BY <3>1 DEF IInv, TsInv
    <2>5. InOrder(PopFront(to_write)) /\ Precedes({f}, Vectors(PopFront(to_write)))
      BY <2>1, <2>4, PopInOrder
    <2>6. /\ to_write' = PopFront(to_write) /\ wal' = Append(wal, slot_ts[f])
          /\ UNCHANGED <<wait_flush, wait_conflict_ck, slot_ts, current_ts>>
      BY <1>19, <2>3 DEF WriteEntry
    <2> HIDE DEF f
    <2>7. /\ n \in DOMAIN wal' /\ wal'[n] = slot_ts[f]
          /\ \A i \in DOMAIN wal' : i \in DOMAIN wal \/ i = n
          /\ \A i \in DOMAIN wal : wal'[i] = wal[i] /\ i < n
          /\ 1..Len(wal) = DOMAIN wal /\ 1..Len(wal') = DOMAIN wal'
          /\ n \in Nat
      BY <2>1, <2>3, <2>6
    <2> HIDE DEF n
    <2>8. \A i \in DOMAIN wal : wal[i] < slot_ts[f]
      BY <2>2
    <2>9. WalInCommitOrder'
      <3> SUFFICES ASSUME NEW i \in DOMAIN wal', NEW j \in DOMAIN wal', i < j
                   PROVE  wal'[i] < wal'[j]
        BY <2>7
      <3>1. i \in DOMAIN wal
        BY <2>1, <2>7
      <3>2. CASE j = n
        BY <2>7, <2>8, <3>1, <3>2
      <3>3. CASE j \in DOMAIN wal
        BY <2>7, <3>1, <3>3
      <3> QED
        BY <2>7, <3>2, <3>3
    <2>10. \A i \in DOMAIN wal' :
             \A u \in Vectors(to_write') \cup Vectors(wait_flush) \cup wait_conflict_ck :
                 wal'[i] < slot_ts[u]
      BY <2>2, <2>5, <2>6, <2>7
    <2> QED
      BY <2>2, <2>3, <2>5, <2>6, <2>7, <2>9, <2>10
  <1>20. ASSUME FlushLog PROVE LogInv'
    BY <1>20 DEF FlushLog
  <1>21. ASSUME CommitBottom PROVE LogInv'
    BY <1>21 DEF CommitBottom, TakesSequence
  <1>22. ASSUME AddDeltaEntry PROVE LogInv'
    <2>1. UNCHANGED <<wait_flush, to_write, wait_conflict_ck, wal, current_ts, slot_ts>>
      BY <1>22 DEF AddDeltaEntry
    <2> QED
      BY <2>1 DEF Vectors
  <1>23. ASSUME UNCHANGED vars PROVE LogInv'
    <2>1. UNCHANGED <<wait_flush, to_write, wait_conflict_ck, wal, current_ts, slot_ts>>
      BY <1>23 DEF vars
    <2> QED
      BY <2>1 DEF Vectors
  <1> QED
    BY <1>1, <1>2, <1>3, <1>4, <1>5, <1>6, <1>7, <1>8, <1>9, <1>10, <1>11,
       <1>12, <1>13, <1>14, <1>15, <1>16, <1>17, <1>18, <1>19, <1>20, <1>21,
       <1>22, <1>23
       DEF Next, Session, FlushThread, Quiescent

(* Every step keeps the log ahead of the block versions.                   *)
LEMMA NextDurable == LInv /\ [Next]_vars => DurableInv'
  <1> SUFFICES ASSUME LInv, [Next]_vars PROVE DurableInv'
    OBVIOUS
  <1> USE DEF LInv, IInv, TypeInv, MgrType, TxnType, LogType, DurableInv, AppliedIsDurable, mgr, txn, bot, log, bg
  <1>1. ASSUME NEW t \in Txn, BeginTxn(t) PROVE DurableInv'
    BY <1>1 DEF BeginTxn
  <1>2. ASSUME NEW t \in Txn, NEW r \in Row, Delete(t, r) PROVE DurableInv'
    BY <1>2 DEF Delete
  <1>3. ASSUME NEW t \in Txn, AddCheckpointCmd(t) PROVE DurableInv'
    BY <1>3 DEF AddCheckpointCmd
  <1>4. ASSUME NEW t \in Txn, CommitReadOnly(t) PROVE DurableInv'
    BY <1>4 DEF CommitReadOnly, AfterTop
  <1>5. ASSUME NEW t \in Txn, GetWriteCommitTS(t) PROVE DurableInv'
    <2>1. t \notin Vectors(to_commit)
      BY <1>5 DEF GetWriteCommitTS, SlotInv
    <2>2. \A u \in Vectors(to_commit) : slot_ts'[u] = slot_ts[u]
      BY <1>5, <2>1, InVectors DEF GetWriteCommitTS, SlotInv
    <2>3. UNCHANGED <<to_commit, to_write, wal, flushed, deleted>>
      BY <1>5 DEF GetWriteCommitTS
    <2>4. AppliedIsDurable'
      BY <2>3
    <2>5. \A u \in Vectors(to_commit) \ Vectors(to_write) :
             \E i \in DOMAIN wal : wal[i] = slot_ts'[u]
      BY <2>2
    <2> QED
      BY <2>3, <2>4, <2>5
  <1>6. ASSUME NEW t \in Txn, SetTxnCommitting(t) PROVE DurableInv'
    BY <1>6 DEF SetTxnCommitting
  <1>7. ASSUME NEW t \in Txn, CollectCandidates(t) PROVE DurableInv'
    BY <1>7 DEF CollectCandidates
  <1>8. ASSUME NEW t \in Txn, CheckCatalog(t) PROVE DurableInv'
    BY <1>8 DEF CheckCatalog, EndCheck
  <1>9. ASSUME NEW t \in Txn, CheckCandidates(t) PROVE DurableInv'
    BY <1>9 DEF CheckCandidates, EndCheck
  <1>10. ASSUME NEW t \in Txn, SendToWAL(t) PROVE DurableInv'
    BY <1>10 DEF SendToWAL, SlotsAfter, Drained
  <1>11. ASSUME NEW t \in Txn, PostCommit(t) PROVE DurableInv'
    BY <1>11 DEF PostCommit, BottomDone, AfterTop
  <1>12. ASSUME NEW t \in Txn, Rollback(t) PROVE DurableInv'
    BY <1>12 DEF Rollback, AfterTop
  <1>13. ASSUME NEW t \in Txn, ReleaseCheckpoint(t) PROVE DurableInv'
    BY <1>13 DEF ReleaseCheckpoint
  <1>14. ASSUME NEW t \in Txn, CleanupRead(t) PROVE DurableInv'
    BY <1>14 DEF CleanupRead
  <1>15. ASSUME NEW t \in Txn, CleanupState(t) PROVE DurableInv'
    BY <1>15 DEF CleanupState
  <1>16. ASSUME NEW t \in Txn, CleanupTxn(t) PROVE DurableInv'
    BY <1>16 DEF CleanupTxn, NoneEarlier
  <1>17. ASSUME NEW t \in Txn, SubmitDeltaEntry(t) PROVE DurableInv'
    BY <1>17 DEF SubmitDeltaEntry
  <1>18. ASSUME DequeueBulk PROVE DurableInv'
    BY <1>18 DEF DequeueBulk
  <1>19. ASSUME WriteEntry PROVE DurableInv'
    <2> DEFINE f == Front(Head(to_write))  n == Len(wal) + 1
    <2>1. /\ f \in Vectors(to_write)
          /\ Vectors(to_write') = Vectors(to_write) \ {f}
      BY <1>19, PopVector DEF WriteEntry, SlotInv
    <2>2. f \in Txn /\ slot_ts[f] \in Nat /\ commit_ts[f] = slot_ts[f]
      BY <2>1, InVectors DEF SlotInv, LocalInv, InCommit
    <2>3. /\ wal' = Append(wal, slot_ts[f])
          /\ UNCHANGED <<to_commit, slot_ts, flushed, deleted>>
      BY <1>19, <2>2 DEF WriteEntry
    <2> HIDE DEF f
    <2>4. /\ n \in DOMAIN wal' /\ wal'[n] = slot_ts[f]
          /\ \A i \in DOMAIN wal : i \in DOMAIN wal' /\ wal'[i] = wal[i]
          /\ 1..flushed \subseteq DOMAIN wal
      BY <2>2, <2>3
    <2> HIDE DEF n
    <2>5. \A t \in Vectors(to_commit) \ Vectors(to_write') :
             \E i \in DOMAIN wal' : wal'[i] = slot_ts[t]
      BY <2>1, <2>4
    <2>6. AppliedIsDurable'
      BY <2>3, <2>4
    <2> QED
      BY <2>3, <2>5, <2>6
  <1>20. ASSUME FlushLog PROVE DurableInv'
    <2>1. 1..flushed \subseteq 1..flushed'
      BY <1>20 DEF FlushLog
    <2> QED
      BY <1>20, <2>1 DEF FlushLog
  <1>21. ASSUME CommitBottom PROVE DurableInv'
    <2> DEFINE f == Front(Head(to_commit))
    <2>1. /\ f \in Vectors(to_commit)
          /\ Vectors(to_commit') = Vectors(to_commit) \ {f}
      BY <1>21, CommitFront DEF CommitBottom
    <2>2. f \in Txn /\ commit_ts[f] = slot_ts[f]
      BY <1>21, CommitFront DEF CommitBottom, LocalInv, InCommit
    <2>3. /\ deleted' = [r \in Row |-> IF r \in rows[f] THEN commit_ts[f] ELSE deleted[r]]
          /\ to_write = <<>> /\ flushed = Len(wal)
          /\ UNCHANGED <<to_write, wal, flushed, slot_ts>>
      BY <1>21 DEF CommitBottom, BatchFlushed
    <2>4. Vectors(to_write) = {} /\ DOMAIN wal = 1..flushed
      BY <2>3, EmptyQueue
    <2> HIDE DEF f
    <2>5. \E i \in 1..flushed : wal[i] = slot_ts[f]
      BY <2>1, <2>4
    <2> QED
      BY <2>1, <2>2, <2>3, <2>4, <2>5
  <1>22. ASSUME AddDeltaEntry PROVE DurableInv'
    BY <1>22 DEF AddDeltaEntry
  <1>23. ASSUME UNCHANGED vars PROVE DurableInv'
    BY <1>23 DEF vars
  <1> QED
    BY <1>1, <1>2, <1>3, <1>4, <1>5, <1>6, <1>7, <1>8, <1>9, <1>10, <1>11,
       <1>12, <1>13, <1>14, <1>15, <1>16, <1>17, <1>18, <1>19, <1>20, <1>21,
       <1>22, <1>23
       DEF Next, Session, FlushThread, Quiescent

-----------------------------------------------------------------------------
(* Theorems                                                                *)

(* The invariant holds in every state the pipeline reaches.                *)
LEMMA LogInvariance == Spec => []LInv
  <1>1. LInv /\ [Next]_vars => LInv'
    BY NextLocal, NextTs, NextType, NextSlot, NextLog, NextDurable DEF LInv, IInv
  <1> QED
    BY InitLog, <1>1, PTL DEF Spec

(* wal.log is written in strictly increasing commit order, in whatever     *)
(* order any number of sessions leave their conflict checks: the assertion *)
(* of WalManager::UpdateCommitState never fails.                           *)
THEOREM LogInCommitOrder == Spec => []WalInCommitOrder
  BY LogInvariance, PTL DEF LInv, LogInv

(* Write-ahead rule: CommitBottom makes a delete visible only after the    *)
(* flush that covers its log entry.                                        *)
THEOREM LogWrittenAhead == Spec => []AppliedIsDurable
  BY LogInvariance, PTL DEF LInv, DurableInv

=============================================================================
