------------------------- MODULE TxnConflictProofs --------------------------
(***************************************************************************)
(* Proofs that the conflict check, the log and CommitBottom work together: *)
(* first committer wins, max_committed_ts_ is a safe cut, the log is in    *)
(* commit order and is written ahead.                                      *)
(***************************************************************************)
EXTENDS TxnManagerProofs

-----------------------------------------------------------------------------
(* Conflicts                                                               *)

(* The conflict check has refused u, or is about to have it refused.       *)
Refused(u) ==
    \/ pc[u] \in {"conflict", "aborted"}
    \/ u \in is_write /\ state[u] \in {"Rollbacking", "Rollbacked"}

(* u took its commit timestamp before t.                                   *)
Earlier(u, t) == slot_ts[u] # 0 /\ slot_ts[u] < slot_ts[t]

(* What t knows of a u that commits before it: u is a candidate, has given *)
(* up, or is in the block versions when the candidates are collected; the  *)
(* check of the block versions settles the last case, the loop over the    *)
(* candidates the first.                                                   *)
ConflictInv ==
    \A t, u \in Txn : Earlier(u, t) =>
      /\ pc[t] \in {"collected", "catalog_ok"} =>
            u \in candidates[t] \/ Refused(u) \/ u \in bottom_done
      /\ pc[t] = "catalog_ok" =>
            u \in candidates[t] \/ Refused(u) \/ rows[t] \cap rows[u] = {}
      /\ Accepted(t) => Refused(u) \/ rows[t] \cap rows[u] = {}

(* The deletes of an applied transaction are in the block versions.        *)
AppliedInv == \A t \in bottom_done : \A r \in rows[t] : deleted[r] = slot_ts[t]

CInv == IInv /\ ConflictInv /\ AppliedInv

(* No transaction is both let into the log and refused, and one that       *)
(* CommitBottom has applied was let in.                                    *)
LEMMA AcceptedNotRefused ==
    ASSUME IInv
    PROVE  \A t \in Txn : /\ Accepted(t) => ~Refused(t) /\ slot_ts[t] # 0
                          /\ t \in bottom_done => Accepted(t)
  BY DEF IInv, TypeInv, MgrType, TxnType, LogType, LocalInv, InCommit, PreSend, PC, Accepted, Refused

(* Two accepted transactions delete different rows.                        *)
LEMMA AcceptedDisjoint ==
    ASSUME CInv
    PROVE  \A t, u \in Txn : t # u /\ Accepted(t) /\ Accepted(u)
                               => rows[t] \cap rows[u] = {}
  <1> SUFFICES ASSUME NEW t \in Txn, NEW u \in Txn, t # u, Accepted(t), Accepted(u)
               PROVE  rows[t] \cap rows[u] = {}
    OBVIOUS
  <1>1. /\ slot_ts[t] # 0 /\ slot_ts[u] # 0 /\ ~Refused(t) /\ ~Refused(u)
    BY AcceptedNotRefused DEF CInv
  <1>2. slot_ts[t] \in Nat /\ slot_ts[u] \in Nat /\ slot_ts[t] # slot_ts[u]
    BY <1>1 DEF CInv, IInv, TypeInv, MgrType, TxnType, LogType, TsInv
  <1>3. Earlier(u, t) \/ Earlier(t, u)
    BY <1>1, <1>2 DEF Earlier
  <1> QED
    BY <1>1, <1>3 DEF CInv, ConflictInv

(* The invariant holds when TxnManager is constructed.                     *)
LEMMA InitConflict == Init => CInv
  <1>1. Init => ConflictInv /\ AppliedInv
    BY DEF Init, ConflictInv, AppliedInv, Earlier
  <1> QED
    BY <1>1, InitInv DEF CInv

(* A refusal is final.                                                     *)
LEMMA RefusedStays == CInv /\ [Next]_vars => \A u \in Txn : Refused(u) => Refused(u)'
  <1> SUFFICES ASSUME CInv, [Next]_vars PROVE \A u \in Txn : Refused(u) => Refused(u)'
    OBVIOUS
  <1> USE DEF CInv, IInv, TypeInv, MgrType, TxnType, LogType, LocalInv, InCommit, PreSend, Refused, GoTo, mgr, txn, bot, log, bg
  <1>1. ASSUME NEW t \in Txn, BeginTxn(t) PROVE \A u \in Txn : Refused(u) => Refused(u)'
    BY <1>1 DEF BeginTxn
  <1>2. ASSUME NEW t \in Txn, NEW r \in Row, Delete(t, r) PROVE \A u \in Txn : Refused(u) => Refused(u)'
    BY <1>2 DEF Delete
  <1>3. ASSUME NEW t \in Txn, AddCheckpointCmd(t) PROVE \A u \in Txn : Refused(u) => Refused(u)'
    BY <1>3 DEF AddCheckpointCmd
  <1>4. ASSUME NEW t \in Txn, CommitReadOnly(t) PROVE \A u \in Txn : Refused(u) => Refused(u)'
    BY <1>4 DEF CommitReadOnly, AfterTop
  <1>5. ASSUME NEW t \in Txn, GetWriteCommitTS(t) PROVE \A u \in Txn : Refused(u) => Refused(u)'
    BY <1>5 DEF GetWriteCommitTS
  <1>6. ASSUME NEW t \in Txn, SetTxnCommitting(t) PROVE \A u \in Txn : Refused(u) => Refused(u)'
    BY <1>6 DEF SetTxnCommitting
  <1>7. ASSUME NEW t \in Txn, CollectCandidates(t) PROVE \A u \in Txn : Refused(u) => Refused(u)'
    BY <1>7 DEF CollectCandidates
  <1>8. ASSUME NEW t \in Txn, CheckCatalog(t) PROVE \A u \in Txn : Refused(u) => Refused(u)'
    BY <1>8 DEF CheckCatalog, EndCheck
  <1>9. ASSUME NEW t \in Txn, CheckCandidates(t) PROVE \A u \in Txn : Refused(u) => Refused(u)'
    BY <1>9 DEF CheckCandidates, EndCheck
  <1>10. ASSUME NEW t \in Txn, SendToWAL(t) PROVE \A u \in Txn : Refused(u) => Refused(u)'
    BY <1>10 DEF SendToWAL, SlotsAfter, Drained
  <1>11. ASSUME NEW t \in Txn, PostCommit(t) PROVE \A u \in Txn : Refused(u) => Refused(u)'
    BY <1>11 DEF PostCommit, BottomDone, AfterTop
  <1>12. ASSUME NEW t \in Txn, Rollback(t) PROVE \A u \in Txn : Refused(u) => Refused(u)'
    BY <1>12 DEF Rollback, AfterTop
  <1>13. ASSUME NEW t \in Txn, ReleaseCheckpoint(t) PROVE \A u \in Txn : Refused(u) => Refused(u)'
    BY <1>13 DEF ReleaseCheckpoint
  <1>14. ASSUME NEW t \in Txn, CleanupRead(t) PROVE \A u \in Txn : Refused(u) => Refused(u)'
    BY <1>14 DEF CleanupRead
  <1>15. ASSUME NEW t \in Txn, CleanupState(t) PROVE \A u \in Txn : Refused(u) => Refused(u)'
    BY <1>15 DEF CleanupState
  <1>16. ASSUME NEW t \in Txn, CleanupTxn(t) PROVE \A u \in Txn : Refused(u) => Refused(u)'
    BY <1>16 DEF CleanupTxn, NoneEarlier
  <1>17. ASSUME NEW t \in Txn, SubmitDeltaEntry(t) PROVE \A u \in Txn : Refused(u) => Refused(u)'
    BY <1>17 DEF SubmitDeltaEntry
  <1>18. ASSUME DequeueBulk PROVE \A u \in Txn : Refused(u) => Refused(u)'
    BY <1>18 DEF DequeueBulk
  <1>19. ASSUME WriteEntry PROVE \A u \in Txn : Refused(u) => Refused(u)'
    BY <1>19 DEF WriteEntry
  <1>20. ASSUME FlushLog PROVE \A u \in Txn : Refused(u) => Refused(u)'
    BY <1>20 DEF FlushLog
  <1>21. ASSUME CommitBottom PROVE \A u \in Txn : Refused(u) => Refused(u)'
    BY <1>21 DEF CommitBottom, TakesSequence
  <1>22. ASSUME AddDeltaEntry PROVE \A u \in Txn : Refused(u) => Refused(u)'
    BY <1>22 DEF AddDeltaEntry
  <1>23. ASSUME UNCHANGED vars PROVE \A u \in Txn : Refused(u) => Refused(u)'
    BY <1>23 DEF vars
  <1> QED
    BY <1>1, <1>2, <1>3, <1>4, <1>5, <1>6, <1>7, <1>8, <1>9, <1>10, <1>11,
       <1>12, <1>13, <1>14, <1>15, <1>16, <1>17, <1>18, <1>19, <1>20, <1>21,
       <1>22, <1>23
       DEF Next, Session, FlushThread, Quiescent

(* A step after which no transaction relies on more than it did before.    *)
ReliesOnNoMore ==
    /\ UNCHANGED <<slot_ts, rows>> /\ bottom_done \subseteq bottom_done'
    /\ \A v \in Txn :
          /\ pc'[v] \in {"collected", "catalog_ok"} =>
                pc'[v] = pc[v] /\ candidates'[v] = candidates[v]
          /\ Accepted(v)' => Accepted(v)

(* Such a step keeps what the conflict check knows.                        *)
LEMMA ConflictFrame ==
    ASSUME ConflictInv, \A u \in Txn : Refused(u) => Refused(u)', ReliesOnNoMore
    PROVE  ConflictInv'
  <1> SUFFICES ASSUME NEW t \in Txn, NEW u \in Txn, Earlier(u, t)'
               PROVE  /\ pc'[t] \in {"collected", "catalog_ok"} =>
                            u \in candidates'[t] \/ Refused(u)' \/ u \in bottom_done'
                      /\ pc'[t] = "catalog_ok" =>
                            u \in candidates'[t] \/ Refused(u)' \/ rows'[t] \cap rows'[u] = {}
                      /\ Accepted(t)' => Refused(u)' \/ rows'[t] \cap rows'[u] = {}
    BY Zenon DEF ConflictInv
  <1>1. Earlier(u, t)
    BY DEF ReliesOnNoMore, Earlier
  <1> QED
    BY <1>1 DEF ReliesOnNoMore, ConflictInv

(* Every step keeps what the conflict check knows.                         *)
LEMMA NextConflict == CInv /\ [Next]_vars => ConflictInv'
  <1> SUFFICES ASSUME CInv, [Next]_vars PROVE ConflictInv'
    OBVIOUS
  <1>a. ConflictInv /\ \A u \in Txn : Refused(u) => Refused(u)'
    BY RefusedStays DEF CInv
  <1>b. ReliesOnNoMore => ConflictInv'
    BY <1>a, ConflictFrame
  <1>c. /\ pc \in [Txn -> PC] /\ state \in [Txn -> TxnState]
        /\ candidates \in [Txn -> SUBSET Txn] /\ rows \in [Txn -> SUBSET Row]
        /\ current_ts \in Nat /\ slot_ts \in [Txn -> Nat]
    BY DEF CInv, IInv, TypeInv, MgrType, TxnType, LogType
  <1>d. \A t \in Txn :
          /\ pc[t] \in {"started"} \cup PreSend => t \notin bottom_done
          /\ pc[t] = "started" => slot_ts[t] = 0
    BY DEF CInv, IInv, LocalInv, InCommit, PreSend
  <1>1. ASSUME NEW t \in Txn, BeginTxn(t) PROVE ConflictInv'
    <2>1. ReliesOnNoMore
      BY <1>1, <1>c, <1>d DEF BeginTxn, GoTo, PreSend, ReliesOnNoMore,
         Accepted, txn, bot
    <2> QED
      BY <2>1, <1>b
  <1>2. ASSUME NEW t \in Txn, NEW r \in Row, Delete(t, r) PROVE ConflictInv'
    <2> SUFFICES ASSUME NEW v \in Txn, NEW u \in Txn, Earlier(u, v)'
                 PROVE  /\ pc'[v] \in {"collected", "catalog_ok"} =>
                              u \in candidates'[v] \/ Refused(u)' \/ u \in bottom_done'
                        /\ pc'[v] = "catalog_ok" =>
                              u \in candidates'[v] \/ Refused(u)' \/ rows'[v] \cap rows'[u] = {}
                        /\ Accepted(v)' => Refused(u)' \/ rows'[v] \cap rows'[u] = {}
      BY Zenon DEF ConflictInv
    <2>1. /\ pc[t] = "started" /\ rows' = [rows EXCEPT ![t] = @ \cup {r}]
          /\ UNCHANGED <<pc, state, slot_ts, candidates, bottom_done>>
      BY <1>2 DEF Delete, bot
    <2>2. Earlier(u, v) /\ u # t /\ v # t
      BY <2>1, <1>c, <1>d DEF Earlier
    <2>3. rows'[u] = rows[u] /\ rows'[v] = rows[v] /\ (Accepted(v)' => Accepted(v))
      BY <2>1, <2>2, <1>c DEF Accepted
    <2> QED
      BY <2>1, <2>2, <2>3, <1>a DEF ConflictInv
  <1>3. ASSUME NEW t \in Txn, AddCheckpointCmd(t) PROVE ConflictInv'
    <2>1. ReliesOnNoMore
      BY <1>3, <1>c, <1>d DEF AddCheckpointCmd, GoTo, PreSend,
         ReliesOnNoMore, Accepted, txn, bot
    <2> QED
      BY <2>1, <1>b
  <1>4. ASSUME NEW t \in Txn, CommitReadOnly(t) PROVE ConflictInv'
    <2>1. ReliesOnNoMore
      BY <1>4, <1>c, <1>d DEF CommitReadOnly, GoTo, PreSend, AfterTop,
         ReliesOnNoMore, Accepted, txn, bot
    <2> QED
      BY <2>1, <1>b
  <1>5. ASSUME NEW t \in Txn, GetWriteCommitTS(t) PROVE ConflictInv'
    <2> SUFFICES ASSUME NEW v \in Txn, NEW u \in Txn, Earlier(u, v)'
                 PROVE  /\ pc'[v] \in {"collected", "catalog_ok"} =>
                              u \in candidates'[v] \/ Refused(u)' \/ u \in bottom_done'
                        /\ pc'[v] = "catalog_ok" =>
                              u \in candidates'[v] \/ Refused(u)' \/ rows'[v] \cap rows'[u] = {}
                        /\ Accepted(v)' => Refused(u)' \/ rows'[v] \cap rows'[u] = {}
      BY Zenon DEF ConflictInv
    <2>1. /\ pc[t] = "started" /\ pc' = [pc EXCEPT ![t] = "ts_taken"]
          /\ slot_ts' = [slot_ts EXCEPT ![t] = current_ts + 2]
          /\ UNCHANGED <<rows, state, candidates, bottom_done>>
      BY <1>5 DEF GetWriteCommitTS, GoTo, bot
    <2>2. t \notin bottom_done /\ \A w \in Txn : slot_ts[w] <= current_ts
      BY <2>1, <1>d DEF CInv, IInv, TsInv
    <2>3. CASE v = t
      BY <2>1, <2>2, <2>3, <1>c DEF Accepted
    <2>4. CASE v # t
      <3>1. slot_ts'[v] = slot_ts[v] /\ slot_ts[v] <= current_ts /\ slot_ts[v] \in Nat
        BY <2>1, <2>2, <2>4, <1>c
      <3>2. slot_ts'[u] = current_ts + 2 \/ slot_ts'[u] = slot_ts[u]
        BY <2>1, <1>c
      <3>3. Earlier(u, v)
        BY <3>1, <3>2, <1>c DEF Earlier
      <3>4. pc'[v] = pc[v] /\ (Accepted(v)' => Accepted(v))
        BY <2>1, <2>4, <1>c DEF Accepted
      <3> QED
        BY <2>1, <3>3, <3>4, <1>a DEF ConflictInv
    <2> QED
      BY <2>3, <2>4
  <1>6. ASSUME NEW t \in Txn, SetTxnCommitting(t) PROVE ConflictInv'
    <2>1. ReliesOnNoMore
      BY <1>6, <1>c, <1>d DEF SetTxnCommitting, GoTo, PreSend,
         ReliesOnNoMore, Accepted, txn, bot
    <2> QED
      BY <2>1, <1>b
  <1>7. ASSUME NEW t \in Txn, CollectCandidates(t) PROVE ConflictInv'
    <2> SUFFICES ASSUME NEW v \in Txn, NEW u \in Txn, Earlier(u, v)'
                 PROVE  /\ pc'[v] \in {"collected", "catalog_ok"} =>
                              u \in candidates'[v] \/ Refused(u)' \/ u \in bottom_done'
                        /\ pc'[v] = "catalog_ok" =>
                              u \in candidates'[v] \/ Refused(u)' \/ rows'[v] \cap rows'[u] = {}
                        /\ Accepted(v)' => Refused(u)' \/ rows'[v] \cap rows'[u] = {}
      BY Zenon DEF ConflictInv
    <2>1. /\ pc[t] = "committing" /\ pc' = [pc EXCEPT ![t] = "collected"]
          /\ candidates' = [candidates EXCEPT ![t] = Candidates(t)]
          /\ UNCHANGED <<rows, state, slot_ts, bottom_done>>
      BY <1>7 DEF CollectCandidates, GoTo, bot
    <2>2. Earlier(u, v)
      BY <2>1 DEF Earlier
    <2>3. CASE v = t
      <3>1. commit_ts[t] = slot_ts[t]
        BY <2>1 DEF CInv, IInv, LocalInv, InCommit, PreSend
      <3>2. u \in committing_txns => u \in Candidates(t)
        BY <2>2, <2>3, <3>1 DEF Candidates, Earlier
      <3>3. u \notin committing_txns => Refused(u) \/ u \in bottom_done
        <4> SUFFICES ASSUME u \notin committing_txns, u \notin bottom_done
                     PROVE  Refused(u)
          OBVIOUS
        <4>1. u \in is_write /\ ~InPipeline(u)
          BY <2>2 DEF CInv, IInv, TsInv, LocalInv, Earlier
        <4>2. pc[u] \in {"submit", "done"}
          BY <4>1, <1>c DEF CInv, IInv, LocalInv, InPipeline, InCommit, PreSend, PC
        <4> QED
          BY <4>1, <4>2 DEF CInv, IInv, LocalInv, Refused
      <3>4. ~Accepted(t)' /\ pc'[t] = "collected" /\ candidates'[t] = Candidates(t)
        BY <2>1, <1>c, <1>d DEF Accepted, PreSend
      <3> QED
        BY <2>1, <2>3, <3>2, <3>3, <3>4, <1>a
    <2>4. CASE v # t
      <3>1. /\ pc'[v] = pc[v] /\ candidates'[v] = candidates[v]
            /\ Accepted(v)' => Accepted(v)
        BY <2>1, <2>4, <1>c DEF Accepted
      <3> QED
        BY <2>1, <2>2, <3>1, <1>a DEF ConflictInv
    <2> QED
      BY <2>3, <2>4
  <1>8. ASSUME NEW t \in Txn, CheckCatalog(t) PROVE ConflictInv'
    <2> SUFFICES ASSUME NEW v \in Txn, NEW u \in Txn, Earlier(u, v)'
                 PROVE  /\ pc'[v] \in {"collected", "catalog_ok"} =>
                              u \in candidates'[v] \/ Refused(u)' \/ u \in bottom_done'
                        /\ pc'[v] = "catalog_ok" =>
                              u \in candidates'[v] \/ Refused(u)' \/ rows'[v] \cap rows'[u] = {}
                        /\ Accepted(v)' => Refused(u)' \/ rows'[v] \cap rows'[u] = {}
      BY Zenon DEF ConflictInv
    <2>1. /\ pc[t] = "collected" /\ UNCHANGED <<rows, state, slot_ts, bottom_done>>
          /\ \A w \in Txn : w # t => pc'[w] = pc[w] /\ candidates'[w] = candidates[w]
      BY <1>8, <1>c DEF CheckCatalog, EndCheck, GoTo, bot
    <2>2. Earlier(u, v)
      BY <2>1 DEF Earlier
    <2>3. CASE v = t /\ \E r \in rows[t] : CheckDelete(r, commit_ts[t])
      <3>1. pc'[t] = "conflict" /\ ~Accepted(t)'
        BY <1>8, <2>1, <2>3, <1>c, <1>d DEF CheckCatalog, GoTo, Accepted, PreSend
      <3> QED
        BY <2>3, <3>1
    <2>4. CASE v = t /\ ~\E r \in rows[t] : CheckDelete(r, commit_ts[t])
      <3>1. pc'[t] = "catalog_ok" /\ candidates' = candidates
        BY <1>8, <2>4, <1>c DEF CheckCatalog, GoTo
      <3>2. ~Accepted(t)'
        BY <2>1, <3>1, <1>d DEF Accepted, PreSend
      <3>3. u \in bottom_done => rows[t] \cap rows[u] = {}
        <4> SUFFICES ASSUME u \in bottom_done, NEW r \in rows[t] \cap rows[u] PROVE FALSE
          OBVIOUS
        <4>1. commit_ts[t] = slot_ts[t] /\ deleted[r] = slot_ts[u]
          BY <2>1 DEF CInv, IInv, LocalInv, InCommit, PreSend, AppliedInv
        <4> QED
          BY <2>2, <2>4, <4>1, <1>c DEF CheckDelete, Earlier
      <3> QED
        BY <2>1, <2>2, <2>4, <3>1, <3>2, <3>3, <1>a DEF ConflictInv
    <2>5. CASE v # t
      <3>1. /\ pc'[v] = pc[v] /\ candidates'[v] = candidates[v]
            /\ Accepted(v)' => Accepted(v)
        BY <2>1, <2>5 DEF Accepted
      <3> QED
        BY <2>1, <2>2, <3>1, <1>a DEF ConflictInv
    <2> QED
      BY <2>3, <2>4, <2>5
  <1>9. ASSUME NEW t \in Txn, CheckCandidates(t) PROVE ConflictInv'
    <2> SUFFICES ASSUME NEW v \in Txn, NEW u \in Txn, Earlier(u, v)'
                 PROVE  /\ pc'[v] \in {"collected", "catalog_ok"} =>
                              u \in candidates'[v] \/ Refused(u)' \/ u \in bottom_done'
                        /\ pc'[v] = "catalog_ok" =>
                              u \in candidates'[v] \/ Refused(u)' \/ rows'[v] \cap rows'[u] = {}
                        /\ Accepted(v)' => Refused(u)' \/ rows'[v] \cap rows'[u] = {}
      BY Zenon DEF ConflictInv
    <2>1. /\ pc[t] = "catalog_ok" /\ UNCHANGED <<rows, state, slot_ts, bottom_done>>
          /\ \A w \in Txn : w # t => pc'[w] = pc[w] /\ candidates'[w] = candidates[w]
          /\ pc'[t] = IF \E w \in candidates[t] : rows[w] \cap rows[t] # {}
                      THEN "conflict" ELSE "passed"
      BY <1>9, <1>c DEF CheckCandidates, EndCheck, GoTo, bot
    <2>2. Earlier(u, v)
      BY <2>1 DEF Earlier
    <2>3. CASE v = t
      <3>1. u \in candidates[t] \/ Refused(u) \/ rows[t] \cap rows[u] = {}
        BY <2>1, <2>2, <2>3, <1>a DEF ConflictInv
      <3>2. Accepted(t)' => pc'[t] = "passed"
        BY <2>1, <1>d DEF Accepted, PreSend
      <3>3. Accepted(t)' => Refused(u)' \/ rows'[t] \cap rows'[u] = {}
        BY <2>1, <3>1, <3>2, <1>a
      <3> QED
        BY <2>1, <2>3, <3>3
    <2>4. CASE v # t
      <3>1. /\ pc'[v] = pc[v] /\ candidates'[v] = candidates[v]
            /\ Accepted(v)' => Accepted(v)
        BY <2>1, <2>4 DEF Accepted
      <3> QED
        BY <2>1, <2>2, <3>1, <1>a DEF ConflictInv
    <2> QED
      BY <2>3, <2>4
  <1>10. ASSUME NEW t \in Txn, SendToWAL(t) PROVE ConflictInv'
    <2>1. ReliesOnNoMore
      BY <1>10, <1>c, <1>d DEF SendToWAL, GoTo, PreSend, ReliesOnNoMore,
         Accepted, txn, bot
    <2> QED
      BY <2>1, <1>b
  <1>11. ASSUME NEW t \in Txn, PostCommit(t) PROVE ConflictInv'
    <2>1. ReliesOnNoMore
      BY <1>11, <1>c, <1>d DEF PostCommit, GoTo, PreSend, AfterTop,
         ReliesOnNoMore, Accepted, txn, bot
    <2> QED
      BY <2>1, <1>b
  <1>12. ASSUME NEW t \in Txn, Rollback(t) PROVE ConflictInv'
    <2>1. ReliesOnNoMore
      BY <1>12, <1>c, <1>d DEF Rollback, GoTo, PreSend, AfterTop,
         ReliesOnNoMore, Accepted, txn, bot
    <2> QED
      BY <2>1, <1>b
  <1>13. ASSUME NEW t \in Txn, ReleaseCheckpoint(t) PROVE ConflictInv'
    <2>1. ReliesOnNoMore
      BY <1>13, <1>c, <1>d DEF ReleaseCheckpoint, GoTo, PreSend,
         ReliesOnNoMore, Accepted, txn, bot
    <2> QED
      BY <2>1, <1>b
  <1>14. ASSUME NEW t \in Txn, CleanupRead(t) PROVE ConflictInv'
    <2>1. ReliesOnNoMore
      BY <1>14, <1>c, <1>d DEF CleanupRead, GoTo, PreSend, ReliesOnNoMore,
         Accepted, txn, bot
    <2> QED
      BY <2>1, <1>b
  <1>15. ASSUME NEW t \in Txn, CleanupState(t) PROVE ConflictInv'
    <2>1. ReliesOnNoMore
      BY <1>15, <1>c, <1>d DEF CleanupState, GoTo, PreSend, ReliesOnNoMore,
         Accepted, txn, bot
    <2> QED
      BY <2>1, <1>b
  <1>16. ASSUME NEW t \in Txn, CleanupTxn(t) PROVE ConflictInv'
    <2>1. ReliesOnNoMore
      BY <1>16, <1>c, <1>d DEF CleanupTxn, GoTo, PreSend, ReliesOnNoMore,
         Accepted, txn, bot
    <2> QED
      BY <2>1, <1>b
  <1>17. ASSUME NEW t \in Txn, SubmitDeltaEntry(t) PROVE ConflictInv'
    <2>1. ReliesOnNoMore
      BY <1>17, <1>c, <1>d DEF SubmitDeltaEntry, GoTo, PreSend,
         ReliesOnNoMore, Accepted, txn, bot
    <2> QED
      BY <2>1, <1>b
  <1>18. ASSUME DequeueBulk PROVE ConflictInv'
    <2>1. ReliesOnNoMore
      BY <1>18, <1>c, <1>d DEF DequeueBulk, ReliesOnNoMore, Accepted, txn,
         bot
    <2> QED
      BY <2>1, <1>b
  <1>19. ASSUME WriteEntry PROVE ConflictInv'
    <2>1. ReliesOnNoMore
      BY <1>19, <1>c, <1>d DEF WriteEntry, ReliesOnNoMore, Accepted, txn,
         bot
    <2> QED
      BY <2>1, <1>b
  <1>20. ASSUME FlushLog PROVE ConflictInv'
    <2>1. ReliesOnNoMore
      BY <1>20, <1>c, <1>d DEF FlushLog, ReliesOnNoMore, Accepted, txn, bot
    <2> QED
      BY <2>1, <1>b
  <1>21. ASSUME CommitBottom PROVE ConflictInv'
    <2> DEFINE f == Front(Head(to_commit))
    <2>2. f \in Txn /\ pc[f] = "waiting"
      BY <1>21, CommitFront DEF CommitBottom, CInv
    <2>3. bottom_done' = bottom_done \cup {f} /\ UNCHANGED <<mgr, pc, txn>>
      BY <1>21 DEF CommitBottom
    <2> HIDE DEF f
    <2>4. ReliesOnNoMore
      BY <2>2, <2>3 DEF ReliesOnNoMore, Accepted, txn
    <2> QED
      BY <2>4, <1>b
  <1>22. ASSUME AddDeltaEntry PROVE ConflictInv'
    <2>1. ReliesOnNoMore
      BY <1>22, <1>c, <1>d DEF AddDeltaEntry, ReliesOnNoMore, Accepted, txn,
         bot
    <2> QED
      BY <2>1, <1>b
  <1>23. ASSUME UNCHANGED vars PROVE ConflictInv'
    <2>1. ReliesOnNoMore
      BY <1>23 DEF vars, ReliesOnNoMore, Accepted, txn, bot
    <2> QED
      BY <2>1, <1>b
  <1> QED
    BY <1>1, <1>2, <1>3, <1>4, <1>5, <1>6, <1>7, <1>8, <1>9, <1>10, <1>11,
       <1>12, <1>13, <1>14, <1>15, <1>16, <1>17, <1>18, <1>19, <1>20, <1>21,
       <1>22, <1>23
       DEF Next, Session, FlushThread, Quiescent

(* Every step keeps the applied deletes: CommitBottom overwrites none.     *)
LEMMA NextApplied == CInv /\ [Next]_vars => AppliedInv'
  <1> SUFFICES ASSUME CInv, [Next]_vars PROVE AppliedInv'
    OBVIOUS
  <1>a. UNCHANGED <<bottom_done, deleted, rows, slot_ts>> => AppliedInv'
    BY DEF CInv, AppliedInv
  <1>b. /\ \A t \in Txn : pc[t] = "started" => t \notin bottom_done
        /\ rows \in [Txn -> SUBSET Row] /\ slot_ts \in [Txn -> Nat]
        /\ bottom_done \subseteq Txn
    BY DEF CInv, IInv, TypeInv, MgrType, TxnType, LogType, LocalInv, InCommit
  <1>1. ASSUME NEW t \in Txn, BeginTxn(t) PROVE AppliedInv'
    BY <1>1, <1>a DEF BeginTxn, txn, bot
  <1>2. ASSUME NEW t \in Txn, NEW r \in Row, Delete(t, r) PROVE AppliedInv'
    <2>1. t \notin bottom_done /\ rows' = [rows EXCEPT ![t] = @ \cup {r}]
      BY <1>2, <1>b DEF Delete
    <2>2. UNCHANGED <<bottom_done, deleted, slot_ts>>
      BY <1>2 DEF Delete, bot
    <2> QED
      BY <2>1, <2>2, <1>b DEF CInv, AppliedInv
  <1>3. ASSUME NEW t \in Txn, AddCheckpointCmd(t) PROVE AppliedInv'
    BY <1>3, <1>a DEF AddCheckpointCmd, txn, bot
  <1>4. ASSUME NEW t \in Txn, CommitReadOnly(t) PROVE AppliedInv'
    BY <1>4, <1>a DEF CommitReadOnly, txn, bot
  <1>5. ASSUME NEW t \in Txn, GetWriteCommitTS(t) PROVE AppliedInv'
    <2>1. t \notin bottom_done /\ slot_ts' = [slot_ts EXCEPT ![t] = current_ts + 2]
      BY <1>5, <1>b DEF GetWriteCommitTS
    <2>2. UNCHANGED <<bottom_done, deleted, rows>>
      BY <1>5 DEF GetWriteCommitTS, bot
    <2> QED
      BY <2>1, <2>2, <1>b DEF CInv, AppliedInv
  <1>6. ASSUME NEW t \in Txn, SetTxnCommitting(t) PROVE AppliedInv'
    BY <1>6, <1>a DEF SetTxnCommitting, txn, bot
  <1>7. ASSUME NEW t \in Txn, CollectCandidates(t) PROVE AppliedInv'
    BY <1>7, <1>a DEF CollectCandidates, txn, bot
  <1>8. ASSUME NEW t \in Txn, CheckCatalog(t) PROVE AppliedInv'
    BY <1>8, <1>a DEF CheckCatalog, txn, bot
  <1>9. ASSUME NEW t \in Txn, CheckCandidates(t) PROVE AppliedInv'
    BY <1>9, <1>a DEF CheckCandidates, txn, bot
  <1>10. ASSUME NEW t \in Txn, SendToWAL(t) PROVE AppliedInv'
    BY <1>10, <1>a DEF SendToWAL, txn, bot
  <1>11. ASSUME NEW t \in Txn, PostCommit(t) PROVE AppliedInv'
    BY <1>11, <1>a DEF PostCommit, txn, bot
  <1>12. ASSUME NEW t \in Txn, Rollback(t) PROVE AppliedInv'
    BY <1>12, <1>a DEF Rollback, txn, bot
  <1>13. ASSUME NEW t \in Txn, ReleaseCheckpoint(t) PROVE AppliedInv'
    BY <1>13, <1>a DEF ReleaseCheckpoint, txn, bot
  <1>14. ASSUME NEW t \in Txn, CleanupRead(t) PROVE AppliedInv'
    BY <1>14, <1>a DEF CleanupRead, txn, bot
  <1>15. ASSUME NEW t \in Txn, CleanupState(t) PROVE AppliedInv'
    BY <1>15, <1>a DEF CleanupState, txn, bot
  <1>16. ASSUME NEW t \in Txn, CleanupTxn(t) PROVE AppliedInv'
    BY <1>16, <1>a DEF CleanupTxn, txn, bot
  <1>17. ASSUME NEW t \in Txn, SubmitDeltaEntry(t) PROVE AppliedInv'
    BY <1>17, <1>a DEF SubmitDeltaEntry, txn, bot
  <1>18. ASSUME DequeueBulk PROVE AppliedInv'
    BY <1>18, <1>a DEF DequeueBulk, txn, bot
  <1>19. ASSUME WriteEntry PROVE AppliedInv'
    BY <1>19, <1>a DEF WriteEntry, txn, bot
  <1>20. ASSUME FlushLog PROVE AppliedInv'
    BY <1>20, <1>a DEF FlushLog, txn, bot
  <1>21. ASSUME CommitBottom PROVE AppliedInv'
    <2> DEFINE f == Front(Head(to_commit))
    <2>2. f \in Txn /\ pc[f] = "waiting" /\ f \notin bottom_done
      BY <1>21, CommitFront DEF CommitBottom, CInv
    <2>3. /\ bottom_done' = bottom_done \cup {f} /\ UNCHANGED <<rows, slot_ts>>
          /\ deleted' = [r \in Row |-> IF r \in rows[f] THEN commit_ts[f] ELSE deleted[r]]
      BY <1>21 DEF CommitBottom, txn
    <2> HIDE DEF f
    <2>4. Accepted(f) /\ commit_ts[f] = slot_ts[f]
      BY <2>2 DEF Accepted, CInv, IInv, LocalInv, InCommit
    <2>5. \A u \in bottom_done : rows[u] \cap rows[f] = {}
      BY <2>2, <2>4, <1>b, AcceptedDisjoint, AcceptedNotRefused DEF CInv
    <2> SUFFICES ASSUME NEW u \in bottom_done \cup {f}, NEW r \in rows[u]
                 PROVE  deleted'[r] = slot_ts[u]
      BY <2>3 DEF AppliedInv
    <2>6. u \in Txn /\ r \in Row
      BY <2>2, <1>b
    <2>7. CASE u = f
      BY <2>3, <2>4, <2>6, <2>7
    <2>8. CASE u # f
      <3>1. r \notin rows[f] /\ deleted[r] = slot_ts[u]
        BY <2>5, <2>8 DEF CInv, AppliedInv
      <3> QED
        BY <2>3, <2>6, <3>1
    <2> QED
      BY <2>7, <2>8
  <1>22. ASSUME AddDeltaEntry PROVE AppliedInv'
    BY <1>22, <1>a DEF AddDeltaEntry, txn, bot
  <1>23. ASSUME UNCHANGED vars PROVE AppliedInv'
    BY <1>23, <1>a DEF vars, txn, bot
  <1> QED
    BY <1>1, <1>2, <1>3, <1>4, <1>5, <1>6, <1>7, <1>8, <1>9, <1>10, <1>11,
       <1>12, <1>13, <1>14, <1>15, <1>16, <1>17, <1>18, <1>19, <1>20, <1>21,
       <1>22, <1>23
       DEF Next, Session, FlushThread, Quiescent

(* The invariant holds in every state the pipeline reaches.                *)
LEMMA ConflictInvariance == Spec => []CInv
  <1>1. CInv /\ [Next]_vars => CInv'
    BY NextLocal, NextTs, NextType, NextSlot, NextConflict, NextApplied
       DEF CInv, IInv
  <1> QED
    BY InitConflict, <1>1, PTL DEF Spec

(* Two transactions the conflict check lets into the log never delete the  *)
(* same row, for any number of transactions that check at the same time:   *)
(* what CheckTxnConflict collects under the lock and what it finds in the  *)
(* block versions afterwards leave no gap between them.                    *)
THEOREM FirstCommitterWinsAlways == Spec => []FirstCommitterWins
  <1>1. CInv => FirstCommitterWins
    BY AcceptedDisjoint DEF FirstCommitterWins
  <1> QED
    BY <1>1, ConflictInvariance, PTL

(* max_committed_ts_ is a safe cut: whoever committed at or before it has  *)
(* left the pipeline, and all its deletes are in the block versions.       *)
THEOREM MaxCommittedIsSafe == Spec => []MaxCommittedIsCut
  <1>1. CInv => MaxCommittedIsCut
    <2> SUFFICES ASSUME CInv, NEW t \in Txn,
                        slot_ts[t] # 0, slot_ts[t] <= max_committed_ts
                 PROVE  /\ pc[t] \in {"submit", "done"}
                        /\ state[t] = "Committed" =>
                              \A r \in rows[t] : deleted[r] = commit_ts[t]
      BY DEF MaxCommittedIsCut
    <2> USE DEF CInv, IInv, TypeInv, MgrType, TxnType, LogType, LocalInv, InCommit, PreSend
    <2>1. t \notin committing_txns
      BY DEF TsInv
    <2>2. pc[t] \in {"submit", "done"}
      BY <2>1 DEF TsInv, InPipeline, PC
    <2>3. state[t] = "Committed" => t \in bottom_done /\ commit_ts[t] = slot_ts[t]
      BY <2>2
    <2> QED
      BY <2>2, <2>3 DEF AppliedInv
  <1> QED
    BY <1>1, ConflictInvariance, PTL

=============================================================================
