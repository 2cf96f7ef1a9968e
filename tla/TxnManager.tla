----------------------------- MODULE TxnManager -----------------------------
(***************************************************************************)
(* The commit pipeline of the storage engine: TxnManager and Txn           *)
(* (src/storage/txn), the flush thread of WalManager (src/storage/wal) and *)
(* the catalog delta entries in sequence order (GlobalCatalogDeltaEntry).  *)
(*                                                                         *)
(* Every transaction runs in a session thread of its own; pc[t] is the     *)
(* point its thread has reached.  A step is what the thread does under one *)
(* acquisition of TxnManager::locker_ (or of the transaction's own lock).  *)
(* The flush thread writes the log, applies the transactions in the order  *)
(* of the queue and wakes their sessions.  The background thread merges    *)
(* the delta entries.                                                      *)
(*                                                                         *)
(* A write transaction is the set of rows it deletes, the only row         *)
(* operation two transactions can conflict on.  A checkpoint transaction   *)
(* carries one log command and no rows.                                    *)
(***************************************************************************)
EXTENDS Integers, Sequences, FiniteSets

CONSTANTS Txn,         \* transactions (each id is begun at most once)
          CkpTxn,      \* those begun with TransactionType::kCheckpoint
          Row,         \* rows of committed blocks
          START_TS,    \* TxnManager's start_ts: 0, or last replayed ts + 1
          UNCOMMIT_TS  \* the maximum timestamp: "no timestamp"

ASSUME TxnAssumption == CkpTxn \subseteq Txn
ASSUME TsAssumption == START_TS \in Nat /\ UNCOMMIT_TS \in Nat

VARIABLES
    \* ---- TxnManager (guarded by locker_)
    current_ts,         \* current_ts_
    max_committed_ts,   \* max_committed_ts_
    ckp_begin_ts,       \* ckp_begin_ts_
    txn_map,            \* transactions txn_map_ owns
    beginned_txns,      \* beginned_txns_, weak references in begin order
    committing_txns,    \* committing_txns_, keyed by slot_ts
    wait_conflict_ck,   \* transactions with a slot in wait_conflict_ck_
    slot_filled,        \* those whose slot holds the transaction, not nullptr
    checking_ts,        \* checking_ts_
    sequence,           \* sequence_
    \* ---- Txn
    pc,                 \* where the session thread is
    state,              \* TxnContext::state_
    begin_ts,           \* TxnContext::begin_ts_
    slot_ts,            \* the timestamp GetWriteCommitTS returned (0: none)
    commit_ts,          \* TxnContext::commit_ts_
    is_write,           \* transactions with TxnContext::is_write_transaction_
    rows,               \* TxnTableStore::delete_state_
    has_cmds,           \* transactions whose wal_entry_->cmds_ is not empty
    wal_entry,          \* transactions with wal_entry_ # nullptr
    candidates,         \* candidate_txns of a running CheckTxnConflict
    bottom_done,        \* transactions with commit_bottom_done_
    delta_seq,          \* sequence_ of txn_delta_ops_entry_ (0: no operations)
    \* ---- WalManager's flush thread
    wait_flush,         \* wait_flush_: one vector of transactions per SubmitTxn
    to_write,           \* what is left to write of txn_batch
    to_commit,          \* what is left of txn_batch for the CommitBottom loop
    wal,                \* commit_ts of the entries written to wal.log
    flushed,            \* how many of them ofs_.flush() covers
    \* ---- storage
    deleted,            \* BlockVersion::deleted_ (0: not deleted)
    \* ---- background thread, GlobalCatalogDeltaEntry
    bg_queue,           \* AddDeltaEntryTasks
    sequence_heap,      \* entries that arrived before their predecessor
    last_sequence,      \* last_sequence_
    merged              \* transactions whose delta operations are merged

mgr  == <<current_ts, max_committed_ts, ckp_begin_ts, txn_map, beginned_txns,
          committing_txns, wait_conflict_ck, slot_filled, checking_ts>>
txn  == <<state, begin_ts, slot_ts, commit_ts, is_write, rows, has_cmds,
          wal_entry, candidates>>
bot  == <<sequence, bottom_done, delta_seq, deleted>>
log  == <<wait_flush, to_write, to_commit, wal, flushed>>
bg   == <<bg_queue, sequence_heap, last_sequence, merged>>
vars == <<mgr, pc, txn, bot, log, bg>>

-----------------------------------------------------------------------------
TxnState == {"Started", "Committing", "Committed", "Rollbacking", "Rollbacked"}

(* Where a session thread can be.                                          *)
PC == {"idle",        \* BeginTxn has not been called
       "started",     \* executing statements
       "ts_taken",    \* Commit: GetWriteCommitTS returned
       "committing",  \* Commit: SetTxnCommitting and PrepareCommit1 done
       "collected",   \* CheckTxnConflict: candidates collected
       "catalog_ok",  \* CheckTxnConflict: no conflict with committed rows
       "passed",      \* CheckTxnConflict returned no conflict
       "conflict",    \* CheckTxnConflict returned a conflict
       "waiting",     \* Commit: waiting for commit_bottom_done_
       "aborted",     \* Commit threw TxnConflict
       "release",     \* Commit or Rollback of a checkpoint returned
       "cleanup",     \* about to call CleanupTxn
       "finished",    \* CleanupTxn: final state set
       "submit",      \* CleanupTxn: lock released, delta entry to submit
       "done"}

Min(S) == CHOOSE x \in S : \A y \in S : x <= y
Max(S) == CHOOSE x \in S : \A y \in S : x >= y

(* A vector drained from wait_conflict_ck_, a map sorted by commit         *)
(* timestamp, is the set of its transactions, consumed in that order.      *)
Front(vec) == CHOOSE t \in vec : \A u \in vec : slot_ts[t] <= slot_ts[u]

PopFront(q) ==
    LET rest == Head(q) \ {Front(Head(q))}
    IN  IF rest = {} THEN Tail(q) ELSE <<rest>> \o Tail(q)

(* BlockVersion::CheckDelete                                               *)
CheckDelete(r, check_ts) == deleted[r] # 0 /\ deleted[r] <= check_ts

(* The Txn object exists while txn_map_ or a candidate vector owns it.     *)
Alive(t) == t \in txn_map \/ \E u \in Txn : t \in candidates[u]

GoTo(t, l) == pc' = [pc EXCEPT ![t] = l]

(* CommitTxn and RollBackTxn release ckp_begin_ts_ before CleanupTxn.      *)
AfterTop(t) == IF t \in CkpTxn THEN "release" ELSE "cleanup"

-----------------------------------------------------------------------------
Init ==
    /\ current_ts = START_TS
    /\ max_committed_ts = START_TS
    /\ ckp_begin_ts = UNCOMMIT_TS
    /\ txn_map = {} /\ beginned_txns = <<>> /\ committing_txns = {}
    /\ wait_conflict_ck = {} /\ slot_filled = {} /\ checking_ts = {}
    /\ sequence = 0
    /\ pc = [t \in Txn |-> "idle"]
    /\ state = [t \in Txn |-> "Started"]
    /\ begin_ts = [t \in Txn |-> 0]
    /\ slot_ts = [t \in Txn |-> 0]
    /\ commit_ts = [t \in Txn |-> 0]
    /\ is_write = {} /\ has_cmds = {} /\ wal_entry = Txn /\ bottom_done = {}
    /\ rows = [t \in Txn |-> {}]
    /\ candidates = [t \in Txn |-> {}]
    /\ delta_seq = [t \in Txn |-> 0]
    /\ wait_flush = <<>> /\ to_write = <<>> /\ to_commit = <<>>
    /\ wal = <<>> /\ flushed = 0
    /\ deleted = [r \in Row |-> 0]
    /\ bg_queue = <<>> /\ sequence_heap = {} /\ last_sequence = 0
    /\ merged = {}

-----------------------------------------------------------------------------
(* Session threads                                                         *)

(* A second checkpoint gets nullptr while one is running: no step.         *)
BeginTxn(t) ==
    /\ pc[t] = "idle"
    /\ t \in CkpTxn => ckp_begin_ts = UNCOMMIT_TS
    /\ begin_ts' = [begin_ts EXCEPT ![t] = current_ts + 1]
    /\ ckp_begin_ts' = IF t \in CkpTxn THEN current_ts + 1 ELSE ckp_begin_ts
    /\ txn_map' = txn_map \cup {t}
    /\ beginned_txns' = Append(beginned_txns, t)
    /\ GoTo(t, "started")
    /\ UNCHANGED <<current_ts, max_committed_ts, committing_txns,
                   wait_conflict_ck, slot_filled, checking_ts, state, slot_ts,
                   commit_ts, is_write, rows, has_cmds, wal_entry, candidates,
                   bot, log, bg>>

(* A DELETE statement: the scan finds the row at begin_ts, Txn::Delete     *)
(* records it and adds a log command.                                      *)
Delete(t, r) ==
    /\ pc[t] = "started" /\ t \notin CkpTxn
    /\ r \notin rows[t]
    /\ ~CheckDelete(r, begin_ts[t])
    /\ rows' = [rows EXCEPT ![t] = @ \cup {r}]
    /\ has_cmds' = has_cmds \cup {t}
    /\ UNCHANGED <<mgr, pc, state, begin_ts, slot_ts, commit_ts, is_write,
                   wal_entry, candidates, bot, log, bg>>

(* Txn::FullCheckpoint and Txn::DeltaCheckpoint add a checkpoint command.  *)
AddCheckpointCmd(t) ==
    /\ pc[t] = "started" /\ t \in CkpTxn /\ t \notin has_cmds
    /\ has_cmds' = has_cmds \cup {t}
    /\ UNCHANGED <<mgr, pc, state, begin_ts, slot_ts, commit_ts, is_write,
                   rows, wal_entry, candidates, bot, log, bg>>

(* Txn::Commit of a transaction without commands.                          *)
CommitReadOnly(t) ==
    /\ pc[t] = "started" /\ t \notin has_cmds
    /\ is_write' = is_write \ {t}
    /\ commit_ts' = [commit_ts EXCEPT ![t] = current_ts + 1]
    /\ state' = [state EXCEPT ![t] = "Committed"]
    /\ GoTo(t, AfterTop(t))
    /\ UNCHANGED <<mgr, begin_ts, slot_ts, rows, has_cmds, wal_entry,
                   candidates, bot, log, bg>>

(* Reserve a commit timestamp, its slot in the log order and its place     *)
(* among the committing transactions.                                      *)
GetWriteCommitTS(t) ==
    /\ pc[t] = "started" /\ t \in has_cmds
    /\ current_ts' = current_ts + 2
    /\ slot_ts' = [slot_ts EXCEPT ![t] = current_ts + 2]
    /\ wait_conflict_ck' = wait_conflict_ck \cup {t}
    /\ committing_txns' = committing_txns \cup {t}
    /\ is_write' = is_write \cup {t}
    /\ GoTo(t, "ts_taken")
    /\ UNCHANGED <<max_committed_ts, ckp_begin_ts, txn_map, beginned_txns,
                   slot_filled, checking_ts, state, begin_ts, commit_ts, rows,
                   has_cmds, wal_entry, candidates, bot, log, bg>>

SetTxnCommitting(t) ==
    /\ pc[t] = "ts_taken"
    /\ state' = [state EXCEPT ![t] = "Committing"]
    /\ commit_ts' = [commit_ts EXCEPT ![t] = slot_ts[t]]
    /\ GoTo(t, "committing")
    /\ UNCHANGED <<mgr, begin_ts, slot_ts, is_write, rows, has_cmds,
                   wal_entry, candidates, bot, log, bg>>

(* The committing transactions with an earlier commit timestamp.           *)
Mut_Candidates(t) ==
    {u \in committing_txns : state[u] = "Committing" /\ slot_ts[u] < commit_ts[t]}
Candidates(t) == {u \in committing_txns : slot_ts[u] < commit_ts[t]}

(* CheckTxnConflict, first critical section: take shared ownership of the  *)
(* transactions that commit before this one.                               *)
CollectCandidates(t) ==
    LET cs == Candidates(t)
    IN  /\ pc[t] = "committing"
        /\ candidates' = [candidates EXCEPT ![t] = cs]
        /\ checking_ts' = IF cs = {} THEN checking_ts
                          ELSE checking_ts \cup {Min({begin_ts[u] : u \in cs})}
        /\ GoTo(t, "collected")
        /\ UNCHANGED <<current_ts, max_committed_ts, ckp_begin_ts, txn_map,
                       beginned_txns, committing_txns, wait_conflict_ck,
                       slot_filled, state, begin_ts, slot_ts, commit_ts,
                       is_write, rows, has_cmds, wal_entry, bot, log, bg>>

(* The DeferFn of CheckTxnConflict and the end of candidate_txns.          *)
EndCheck(t) ==
    /\ checking_ts' = IF candidates[t] = {} THEN checking_ts
                      ELSE checking_ts \ {Min({begin_ts[u] : u \in candidates[t]})}
    /\ candidates' = [candidates EXCEPT ![t] = {}]

(* txn->CheckConflict(): were the rows deleted by a finished commit?       *)
CheckCatalog(t) ==
    /\ pc[t] = "collected"
    /\ IF \E r \in rows[t] : CheckDelete(r, commit_ts[t])
       THEN GoTo(t, "conflict") /\ EndCheck(t)
       ELSE GoTo(t, "catalog_ok") /\ UNCHANGED <<checking_ts, candidates>>
    /\ UNCHANGED <<current_ts, max_committed_ts, ckp_begin_ts, txn_map,
                   beginned_txns, committing_txns, wait_conflict_ck,
                   slot_filled, state, begin_ts, slot_ts, commit_ts, is_write,
                   rows, has_cmds, wal_entry, bot, log, bg>>

(* The loop over candidate_txns.                                           *)
CheckCandidates(t) ==
    /\ pc[t] = "catalog_ok"
    /\ GoTo(t, IF \E u \in candidates[t] : rows[u] \cap rows[t] # {}
               THEN "conflict" ELSE "passed")
    /\ EndCheck(t)
    /\ UNCHANGED <<current_ts, max_committed_ts, ckp_begin_ts, txn_map,
                   beginned_txns, committing_txns, wait_conflict_ck,
                   slot_filled, state, begin_ts, slot_ts, commit_ts, is_write,
                   rows, has_cmds, wal_entry, bot, log, bg>>

(* The slots after the conflict check: a refused transaction gives its up. *)
Mut_SlotsLeak(t) == wait_conflict_ck
Mut_SlotsErase(t) == wait_conflict_ck \ {t}
SlotsAfter(t) ==
    IF pc[t] = "passed" THEN wait_conflict_ck ELSE wait_conflict_ck \ {t}

(* The longest run of filled slots at the front of a slot map.             *)
Mut_Drained(slots, filled) == slots \cap filled
Drained(slots, filled) ==
    {u \in slots : \A v \in slots : slot_ts[v] <= slot_ts[u] => v \in filled}

(* Fill the slot (or give it up after a conflict) and submit the run of    *)
(* filled slots at the front, all under locker_.                           *)
SendToWAL(t) ==
    /\ pc[t] \in {"passed", "conflict"}
    /\ LET keep   == pc[t] = "passed"
           slots  == SlotsAfter(t)
           filled == IF keep THEN slot_filled \cup {t} ELSE slot_filled
           vec    == Drained(slots, filled)
       IN  /\ wal_entry' = IF keep THEN wal_entry ELSE wal_entry \ {t}
           /\ wait_conflict_ck' = slots \ vec
           /\ slot_filled' = filled \ vec
           /\ wait_flush' = IF vec = {} THEN wait_flush
                            ELSE Append(wait_flush, vec)
           /\ GoTo(t, IF keep THEN "waiting" ELSE "aborted")
    /\ UNCHANGED <<current_ts, max_committed_ts, ckp_begin_ts, txn_map,
                   beginned_txns, committing_txns, checking_ts, state,
                   begin_ts, slot_ts, commit_ts, is_write, rows, has_cmds,
                   candidates, bot, to_write, to_commit, wal, flushed, bg>>

(* The predicate of commit_cv_.wait.                                       *)
Mut_BottomDone(t) == t \notin wait_conflict_ck
BottomDone(t) == t \in bottom_done

(* commit_bottom_done_ is seen: Txn::Commit returns after PostCommit.      *)
PostCommit(t) ==
    /\ pc[t] = "waiting" /\ BottomDone(t)
    /\ GoTo(t, AfterTop(t))
    /\ UNCHANGED <<mgr, txn, bot, log, bg>>

(* Txn::Rollback of a running or of a conflicting transaction.             *)
Rollback(t) ==
    /\ \/ /\ pc[t] = "started"
          /\ is_write' = is_write \ {t}
          /\ commit_ts' = [commit_ts EXCEPT ![t] = current_ts + 1]
       \/ /\ pc[t] = "aborted"
          /\ UNCHANGED <<is_write, commit_ts>>
    /\ state' = [state EXCEPT ![t] = "Rollbacking"]
    /\ GoTo(t, AfterTop(t))
    /\ UNCHANGED <<mgr, begin_ts, slot_ts, rows, has_cmds, wal_entry,
                   candidates, bot, log, bg>>

ReleaseCheckpoint(t) ==
    /\ pc[t] = "release"
    /\ ckp_begin_ts' = UNCOMMIT_TS
    /\ GoTo(t, "cleanup")
    /\ UNCHANGED <<current_ts, max_committed_ts, txn_map, beginned_txns,
                   committing_txns, wait_conflict_ck, slot_filled,
                   checking_ts, txn, bot, log, bg>>

(* CleanupTxn of a read-only transaction.                                  *)
CleanupRead(t) ==
    /\ pc[t] = "cleanup" /\ t \notin is_write
    /\ txn_map' = txn_map \ {t}
    /\ GoTo(t, "done")
    /\ UNCHANGED <<current_ts, max_committed_ts, ckp_begin_ts, beginned_txns,
                   committing_txns, wait_conflict_ck, slot_filled,
                   checking_ts, txn, bot, log, bg>>

(* CleanupTxn of a write transaction: the final state, before the lock.    *)
CleanupState(t) ==
    /\ pc[t] = "cleanup" /\ t \in is_write
    /\ state' = [state EXCEPT ![t] = IF @ = "Committing" THEN "Committed"
                                     ELSE "Rollbacked"]
    /\ GoTo(t, "finished")
    /\ UNCHANGED <<mgr, begin_ts, slot_ts, commit_ts, is_write, rows,
                   has_cmds, wal_entry, candidates, bot, log, bg>>

(* CleanupTxn: does t end the oldest commit that was still going on?       *)
Mut_NoneEarlier(t) == commit_ts[t] > max_committed_ts
NoneEarlier(t) == \A u \in committing_txns \ {t} : slot_ts[u] > commit_ts[t]

(* CleanupTxn of a write transaction: the critical section.                *)
CleanupTxn(t) ==
    /\ pc[t] = "finished"
    /\ committing_txns' = committing_txns \ {t}
    /\ txn_map' = txn_map \ {t}
    /\ max_committed_ts' = IF NoneEarlier(t) THEN commit_ts[t]
                           ELSE max_committed_ts
    /\ GoTo(t, IF state[t] = "Committed" /\ rows[t] # {}
               THEN "submit" ELSE "done")
    /\ UNCHANGED <<current_ts, ckp_begin_ts, beginned_txns, wait_conflict_ck,
                   slot_filled, checking_ts, txn, bot, log, bg>>

SubmitDeltaEntry(t) ==
    /\ pc[t] = "submit"
    /\ bg_queue' = Append(bg_queue, t)
    /\ GoTo(t, "done")
    /\ UNCHANGED <<mgr, txn, bot, log, sequence_heap, last_sequence, merged>>

-----------------------------------------------------------------------------
(* The flush thread: WalManager::Flush                                     *)

FlushIdle == to_write = <<>> /\ to_commit = <<>>

DequeueBulk ==
    /\ FlushIdle /\ wait_flush # <<>>
    /\ to_write' = wait_flush
    /\ to_commit' = wait_flush
    /\ wait_flush' = <<>>
    /\ UNCHANGED <<mgr, pc, txn, bot, wal, flushed, bg>>

WriteEntry ==
    /\ to_write # <<>>
    /\ wal' = Append(wal, commit_ts[Front(Head(to_write))])
    /\ to_write' = PopFront(to_write)
    /\ UNCHANGED <<mgr, pc, txn, bot, wait_flush, to_commit, flushed, bg>>

FlushLog ==
    /\ to_write = <<>> /\ flushed < Len(wal)
    /\ flushed' = Len(wal)
    /\ UNCHANGED <<mgr, pc, txn, bot, wait_flush, to_write, to_commit, wal, bg>>

(* The commit loop starts when the whole batch is written and flushed.     *)
Mut_BatchFlushed == to_write = <<>>
BatchFlushed == to_write = <<>> /\ flushed = Len(wal)

(* NextSequence() is called only for a delta entry with operations.        *)
Mut_TakesSequence(t) == TRUE
TakesSequence(t) == rows[t] # {}

(* Txn::CommitBottom: apply the deletes, number the delta entry, wake the  *)
(* session.                                                                *)
CommitBottom ==
    /\ BatchFlushed /\ to_commit # <<>>
    /\ LET t == Front(Head(to_commit))
       IN  /\ deleted' = [r \in Row |-> IF r \in rows[t] THEN commit_ts[t]
                                        ELSE deleted[r]]
           /\ IF TakesSequence(t)
              THEN /\ sequence' = sequence + 1
                   /\ delta_seq' = [delta_seq EXCEPT ![t] = sequence + 1]
              ELSE UNCHANGED <<sequence, delta_seq>>
           /\ bottom_done' = bottom_done \cup {t}
    /\ to_commit' = PopFront(to_commit)
    /\ UNCHANGED <<mgr, pc, txn, wait_flush, to_write, wal, flushed, bg>>

-----------------------------------------------------------------------------
(* The background thread: GlobalCatalogDeltaEntry::AddDeltaEntry           *)

(* The entries that continue last_sequence without a gap.                  *)
Mut_Continuous(es) == es
Continuous(es) ==
    {u \in es : \A n \in (last_sequence + 1)..delta_seq[u] :
                    \E v \in es : delta_seq[v] = n}

(* An entry out of turn waits in the heap; the next one in turn is merged  *)
(* with those of the heap that follow it.                                  *)
AddDeltaEntry ==
    /\ bg_queue # <<>>
    /\ LET es   == sequence_heap \cup {Head(bg_queue)}
           run  == Continuous(es)
       IN  /\ sequence_heap' = es \ run
           /\ merged' = merged \cup run
           /\ last_sequence' = last_sequence + Cardinality(run)
    /\ bg_queue' = Tail(bg_queue)
    /\ UNCHANGED <<mgr, pc, txn, bot, log>>

-----------------------------------------------------------------------------
(* TxnManager::GetCleanupScanTS                                            *)

(* Begin timestamp of the first transaction of beginned_txns that exists;  *)
(* the expired references before it are dropped.                           *)
Mut_FirstUncommitted ==
    LET live == {i \in 1..Len(beginned_txns) : Alive(beginned_txns[i])}
    IN  IF live = {} THEN current_ts ELSE begin_ts[beginned_txns[Max(live)]]
FirstUncommitted ==
    LET live == {i \in 1..Len(beginned_txns) : Alive(beginned_txns[i])}
    IN  IF live = {} THEN current_ts ELSE begin_ts[beginned_txns[Min(live)]]

GetCleanupScanTS(last_checkpoint_ts) ==
    Min({FirstUncommitted, last_checkpoint_ts} \cup checking_ts)

-----------------------------------------------------------------------------
Session(t) ==
    \/ BeginTxn(t)
    \/ \E r \in Row : Delete(t, r)
    \/ AddCheckpointCmd(t)
    \/ CommitReadOnly(t)
    \/ GetWriteCommitTS(t)
    \/ SetTxnCommitting(t)
    \/ CollectCandidates(t)
    \/ CheckCatalog(t)
    \/ CheckCandidates(t)
    \/ SendToWAL(t)
    \/ PostCommit(t)
    \/ Rollback(t)
    \/ ReleaseCheckpoint(t)
    \/ CleanupRead(t)
    \/ CleanupState(t)
    \/ CleanupTxn(t)
    \/ SubmitDeltaEntry(t)

FlushThread == DequeueBulk \/ WriteEntry \/ FlushLog \/ CommitBottom

(* Every transaction has ended and all queues are empty.                   *)
Quiescent ==
    /\ \A t \in Txn : pc[t] = "done"
    /\ FlushIdle /\ wait_flush = <<>> /\ bg_queue = <<>>
    /\ UNCHANGED vars

Next == (\E t \in Txn : Session(t)) \/ FlushThread \/ AddDeltaEntry \/ Quiescent

Spec == Init /\ [][Next]_vars

(* What a session thread does by itself once Commit or Rollback is called. *)
Top(t) ==
    \/ SetTxnCommitting(t) \/ CollectCandidates(t) \/ CheckCatalog(t)
    \/ CheckCandidates(t) \/ SendToWAL(t) \/ PostCommit(t)
    \/ (pc[t] = "aborted" /\ Rollback(t))
    \/ ReleaseCheckpoint(t) \/ CleanupRead(t) \/ CleanupState(t)
    \/ CleanupTxn(t) \/ SubmitDeltaEntry(t)

(* Some thread that can run runs: the machine is not idle while a session  *)
(* inside Commit, the flush thread or the background thread has work.      *)
(* Nothing makes a session begin or end its transaction.                   *)
FairSpec ==
    Spec /\ WF_vars((\E t \in Txn : Top(t)) \/ FlushThread \/ AddDeltaEntry)

-----------------------------------------------------------------------------
(* Properties                                                              *)

Vectors(q) == UNION {q[i] : i \in 1..Len(q)}

(* Every variable keeps its type, a filled slot is a slot, and no more of  *)
(* wal.log is flushed than was written.                                    *)
TypeOK ==
    /\ {current_ts, max_committed_ts, ckp_begin_ts, sequence, last_sequence,
        flushed} \subseteq Nat
    /\ {txn_map, committing_txns, wait_conflict_ck, slot_filled, is_write,
        has_cmds, wal_entry, bottom_done, sequence_heap, merged}
          \subseteq SUBSET Txn
    /\ slot_filled \subseteq wait_conflict_ck /\ flushed <= Len(wal)
    /\ checking_ts \subseteq Nat
    /\ beginned_txns \in Seq(Txn) /\ bg_queue \in Seq(Txn)
    /\ pc \in [Txn -> PC] /\ state \in [Txn -> TxnState]
    /\ begin_ts \in [Txn -> Nat] /\ slot_ts \in [Txn -> Nat]
    /\ commit_ts \in [Txn -> Nat] /\ delta_seq \in [Txn -> Nat]
    /\ rows \in [Txn -> SUBSET Row] /\ deleted \in [Row -> Nat]
    /\ candidates \in [Txn -> SUBSET Txn]
    /\ {wait_flush, to_write, to_commit} \subseteq Seq(SUBSET Txn)
    /\ wal \in Seq(Nat)

(* The log is written in strictly increasing commit order, whatever the    *)
(* order in which the sessions finish their conflict checks (the assertion *)
(* of WalManager::UpdateCommitState).                                      *)
WalInCommitOrder ==
    \A i, j \in 1..Len(wal) : i < j => wal[i] < wal[j]

(* The conflict check has let the transaction into the log.                *)
Accepted(t) ==
    \/ pc[t] \in {"passed", "waiting"}
    \/ t \in bottom_done /\ state[t] \in {"Committing", "Committed"}

(* Two transactions the conflict check lets into the log never delete the  *)
(* same row: one of two concurrent deletes is refused, although the check  *)
(* of committed rows and the check of committing transactions are separate *)
(* steps (otherwise BlockVersion::Delete meets "Delete twice").            *)
FirstCommitterWins ==
    \A t, u \in Txn : t # u /\ Accepted(t) /\ Accepted(u)
                        => rows[t] \cap rows[u] = {}

(* Write-ahead rule: a delete is visible in the block version only after   *)
(* its log entry has been flushed (CommitBottom runs after ofs_.flush()).  *)
AppliedIsDurable ==
    \A r \in Row : deleted[r] # 0 => \E i \in 1..flushed : wal[i] = deleted[r]

(* max_committed_ts_, the timestamp a full checkpoint snapshots at, is a   *)
(* safe cut: every transaction that committed at or before it has left the *)
(* pipeline and all its deletes are in the block versions.                 *)
MaxCommittedIsCut ==
    \A t \in Txn : slot_ts[t] # 0 /\ slot_ts[t] <= max_committed_ts =>
        /\ pc[t] \in {"submit", "done"}
        /\ state[t] = "Committed" => \A r \in rows[t] : deleted[r] = commit_ts[t]

(* max_committed_ts_ never goes back, although transactions are cleaned up *)
(* in any order and a rolled back one can set it.                          *)
MaxCommittedMonotone == [][max_committed_ts' >= max_committed_ts]_vars

(* The merged delta entries are a prefix of the commit order, although the *)
(* sessions submit them in any order: a delta checkpoint at the timestamp  *)
(* of one of them contains every earlier commit.                           *)
MergedIsPrefix ==
    \A t \in merged, u \in Txn :
        slot_ts[u] # 0 /\ slot_ts[u] < slot_ts[t] /\ u \in wal_entry
        => u \in merged \/ rows[u] = {}

(* Every raw Txn pointer of the slot map, of committing_txns_ and of the   *)
(* flush thread is to a transaction that txn_map_ still owns.              *)
NoDanglingTxn ==
    /\ committing_txns \cup wait_conflict_ck \subseteq txn_map
    /\ Vectors(wait_flush) \cup Vectors(to_write) \cup Vectors(to_commit)
          \subseteq txn_map

(* The timestamp up to which dropped entries may be removed is at most the *)
(* begin timestamp of every transaction that still exists, one held only   *)
(* by a running conflict check included, even when everything is           *)
(* checkpointed.                                                           *)
CleanupScanSafe ==
    \A t \in Txn : Alive(t) => GetCleanupScanTS(current_ts) <= begin_ts[t]

(* The refinement mapping to RowStore: the last commit that was applied.   *)
LastApplied == Max({START_TS} \cup {commit_ts[t] : t \in bottom_done})
Store == INSTANCE RowStore WITH last <- LastApplied

(* The pipeline implements RowStore: commits take effect in the order of   *)
(* their timestamps and no row is deleted twice, although the timestamps   *)
(* are handed out before the conflict checks run.                          *)
ImplementsRowStore == Store!StoreSpec

(* Every transaction that starts to commit ends: neither a conflict nor    *)
(* any interleaving leaves a session waiting for a slot that nobody fills. *)
CommitEnds == <>[](\A t \in Txn : pc[t] \in {"idle", "started", "done"})

(* The delta operations of every commit are merged in the end: no entry    *)
(* waits forever in the heap for a sequence number nobody holds.           *)
DeltaMerged ==
    <>[](\A t \in Txn : t \in bottom_done => t \in merged \/ rows[t] = {})

=============================================================================
