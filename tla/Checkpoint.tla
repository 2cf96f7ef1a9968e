----------------------------- MODULE Checkpoint -----------------------------
(***************************************************************************)
(* Checkpoints, log files and recovery: WalManager (src/storage/wal), the  *)
(* catalog files of Catalog::SaveFullCatalog and SaveDeltaCatalog, and the *)
(* start of a writable node (Storage::AdminToWriter).                      *)
(*                                                                         *)
(* A transaction is its commit timestamp.  The commit pipeline, modelled   *)
(* step by step in TxnManager, is reduced here to what the disk depends    *)
(* on: timestamps are taken in order, some are given up after a conflict,  *)
(* the others reach the log in order, transactions are cleaned up in any   *)
(* order and their delta operations are merged in order.                   *)
(*                                                                         *)
(* The process may crash between any two steps.  A crash loses everything  *)
(* in memory and any number of the log entries that ofs_ has not flushed;  *)
(* what was flushed, and every file created, renamed or deleted, stays (a  *)
(* crash of the process, not of the machine).  An UnrecoverableError ends  *)
(* the process in the same way.                                            *)
(***************************************************************************)
EXTENDS Integers, Sequences, FiniteSets, SequencesExt

CONSTANTS CkpId,        \* checkpoint transactions that may be going on at once
          Kind,         \* what starts checkpoints, a subset of AllKinds
          MaxInFlight,  \* bound: transactions in the commit pipeline
          MaxConflict,  \* bound: transactions refused by the conflict check
          MaxTs,        \* bound: the last timestamp handed out
          CanCrash,     \* bound: FALSE leaves out crashes (errors stay)
          UNCOMMIT_TS   \* the maximum timestamp: "no timestamp"

(* "flush": the FLUSH statement; "periodic": CheckpointPeriodicTrigger and *)
(* the size trigger of WalManager::Flush; "cleanup" and "snapshot": the    *)
(* commands, which make a delta and a full checkpoint inside an ordinary   *)
(* transaction, as the start of the node does.                             *)
AllKinds == {"flush", "periodic", "cleanup", "snapshot"}
KCheckpoint == {"flush", "periodic"}  \* TransactionType::kCheckpoint

ASSUME KindAssumption == Kind \subseteq AllKinds
ASSUME BoundAssumption ==
    /\ MaxTs \in Nat /\ UNCOMMIT_TS \in Nat /\ UNCOMMIT_TS > MaxTs
    /\ MaxInFlight \in Nat /\ MaxConflict \in Nat /\ CanCrash \in BOOLEAN

VARIABLES
    \* ---- files
    wal_log,           \* entries of wal.log
    flushed,           \* how many of them ofs_ has flushed
    wal_opened,        \* wal.log has been created
    wal_files,         \* name ts -> entries of wal.log.ts
    full_files,        \* name ts -> commits in FULL.ts.json
    delta_files,       \* name ts -> commits with operations in DELTA.ts
    \* ---- TxnManager
    current_ts, max_committed_ts,
    txns,              \* commit timestamp -> stage of a committing transaction
    ckp_begin_ts,      \* the checkpoint that holds ckp_begin_ts_, or NoCkp
    \* ---- WalManager
    max_commit_ts, last_swap_wal_ts, last_ckp_ts, last_full_ckp_ts,
    batch_done,        \* Flush has applied a batch and not begun the next
    \* ---- Catalog and GlobalCatalogDeltaEntry
    catalog,           \* commits visible in memory
    submitted,         \* commits whose AddDeltaEntryTask has been submitted
    delta_ops,         \* commits with operations in delta_ops_
    delta_max,         \* GlobalCatalogDeltaEntry::max_commit_ts_
    \* ---- checkpoint transactions and the process
    ckp,
    phase,             \* "down", "starting", "running" or "failed"
    \* ---- history
    acked,             \* commits a session was told of or could have read
    started,           \* the first start has been completed
    conflicts,         \* how many transactions were refused
    reused             \* a restart went on from a timestamp below one in the log

disk  == <<wal_log, flushed, wal_opened, wal_files, full_files, delta_files>>
mgr   == <<current_ts, max_committed_ts, txns, ckp_begin_ts>>
walst == <<max_commit_ts, last_swap_wal_ts, last_ckp_ts, last_full_ckp_ts,
           batch_done>>
cat   == <<catalog, submitted, delta_ops, delta_max>>
hist  == <<acked, started, conflicts, reused>>
vars  == <<disk, mgr, walst, cat, ckp, phase, hist>>

-----------------------------------------------------------------------------
Stage == {"check",    \* has its timestamp and slot
          "refused",  \* conflict: slot given up, to be cleaned up
          "queued",   \* slot filled
          "written",  \* entry written to ofs_
          "applied"}  \* flushed and CommitBottom done

NoCkp == "no checkpoint"
Idle == [pc |-> "idle", kind |-> "flush", full |-> FALSE, begin_ts |-> 0,
         max_commit_ts |-> 0, commit_ts |-> 0, found |-> FALSE]
CkpPC == {"idle", "begun", "saved", "commit", "recycle", "release", "cleanup"}

(* A log entry; ckp_ts is max_commit_ts_ of its checkpoint command, 0 in   *)
(* the entry of any other transaction.                                     *)
Entry(ts, ckp_ts) == [commit_ts |-> ts, ckp_ts |-> ckp_ts]

Commits(S) == {ts \in S : \A k \in CkpId : ckp[k].commit_ts # ts}
Alive == phase \in {"starting", "running"}
Put(f, ts, v) == [x \in DOMAIN f \cup {ts} |-> IF x = ts THEN v ELSE f[x]]
Drop(f, ts) == [x \in DOMAIN f \ {ts} |-> f[x]]
Stages(S, stage) == [ts \in DOMAIN txns |-> IF ts \in S THEN stage ELSE txns[ts]]
GoTo(k, l) == ckp' = [ckp EXCEPT ![k].pc = l]

(* The background thread runs a periodic checkpoint from BeginTxn to the   *)
(* end of CommitTxn; of the others it only runs the checkpoint task.       *)
BgIdle == \A k \in CkpId : ckp[k].kind = "periodic" => ckp[k].pc = "idle"

-----------------------------------------------------------------------------
(* Reading the files back: WalListIterator and WalManager::ReplayWalFile   *)

(* All entries, the newest first: wal.log, then wal.log.* by falling name. *)
NewestFirst(files, log) ==
    LET names == SetToSortSeq(DOMAIN files, <)
    IN  Reverse(FlattenSeq([i \in DOMAIN names |-> files[names[i]]]) \o log)

(* Phase 1: the newest checkpoint entry (0: none).                         *)
LatestCheckpoint(es) ==
    LET at == {i \in DOMAIN es : es[i].ckp_ts # 0}
    IN  IF at = {} THEN 0 ELSE Min(at)

(* Phase 2: the entries to replay are those before it, and those after it  *)
(* down to the first that the checkpoint contains.                         *)
ReplayEntries(es) ==
    LET k    == LatestCheckpoint(es)
        old  == {i \in DOMAIN es : i > k /\ es[i].commit_ts <= es[k].ckp_ts}
        stop == IF old = {} THEN Len(es) + 1 ELSE Min(old)
    IN  {i \in 1..(stop - 1) : i # k}

(* Phase 3 replays them from the oldest to the newest and keeps the last   *)
(* timestamp; the one of the checkpoint entry counts only if there is none.*)
Mut_LastCommitTs(es) == es[LatestCheckpoint(es)].commit_ts
LastCommitTs(es) ==
    LET idx == ReplayEntries(es)
    IN  IF idx = {} THEN es[LatestCheckpoint(es)].commit_ts
        ELSE es[Min(idx)].commit_ts

(* CatalogFile::ParseValidCheckpointFilenames: the newest full catalog up  *)
(* to ckp_ts and the delta files after it, up to ckp_ts.                   *)
ValidFull(ckp_ts) == {ts \in DOMAIN full_files : ts <= ckp_ts}
ValidDelta(full_ts, ckp_ts) ==
    {ts \in DOMAIN delta_files : full_ts < ts /\ ts <= ckp_ts}

(* Catalog::LoadFromFiles; LoadFromEntryDelta skips the operations that    *)
(* the full catalog contains.                                              *)
LoadedCatalog(ckp_ts) ==
    LET full == Max(ValidFull(ckp_ts))
    IN  full_files[full] \cup
        UNION {{ts \in delta_files[d] : ts > full} : d \in ValidDelta(full, ckp_ts)}

(* A delta file is written in place: this one was cut short by a crash.    *)
Torn == {0}

(* ReplayWalFile can be completed.                                         *)
CanReplay(es) ==
    LET k == LatestCheckpoint(es)
    IN  /\ k # 0
        /\ ValidFull(es[k].ckp_ts) # {}
        /\ \A d \in ValidDelta(Max(ValidFull(es[k].ckp_ts)), es[k].ckp_ts) :
              delta_files[d] # Torn
        /\ \A i \in ReplayEntries(es) : es[i].commit_ts >= es[k].ckp_ts

(* The commits in memory after it; a checkpoint entry is jumped over.      *)
Replayed(es) ==
    LoadedCatalog(es[LatestCheckpoint(es)].ckp_ts) \cup
    {es[i].commit_ts : i \in {j \in ReplayEntries(es) : es[j].ckp_ts = 0}}

-----------------------------------------------------------------------------
EmptyFiles == [ts \in {} |-> {}]

Init ==
    /\ wal_log = <<>> /\ flushed = 0 /\ wal_opened = FALSE
    /\ wal_files = EmptyFiles /\ full_files = EmptyFiles /\ delta_files = EmptyFiles
    /\ current_ts = 0 /\ max_committed_ts = 0 /\ txns = EmptyFiles
    /\ ckp_begin_ts = NoCkp
    /\ max_commit_ts = 0 /\ last_swap_wal_ts = 0
    /\ last_ckp_ts = UNCOMMIT_TS /\ last_full_ckp_ts = UNCOMMIT_TS
    /\ batch_done = FALSE
    /\ catalog = {} /\ submitted = {} /\ delta_ops = {} /\ delta_max = 0
    /\ ckp = [k \in CkpId |-> Idle]
    /\ phase = "down"
    /\ acked = {} /\ started = FALSE /\ conflicts = 0
    /\ reused = FALSE

-----------------------------------------------------------------------------
(* Crash and restart                                                       *)

(* What is lost with the process.                                          *)
LoseMemory ==
    /\ current_ts' = 0 /\ max_committed_ts' = 0 /\ txns' = EmptyFiles
    /\ ckp_begin_ts' = NoCkp
    /\ max_commit_ts' = 0 /\ last_swap_wal_ts' = 0
    /\ last_ckp_ts' = UNCOMMIT_TS /\ last_full_ckp_ts' = UNCOMMIT_TS
    /\ batch_done' = FALSE
    /\ catalog' = {} /\ submitted' = {} /\ delta_ops' = {} /\ delta_max' = 0
    /\ ckp' = [k \in CkpId |-> Idle]
    /\ phase' = "down"

LoseUnflushed ==
    \E n \in flushed..Len(wal_log) :
        wal_log' = SubSeq(wal_log, 1, n) /\ flushed' = n

ProcessEnds ==
    /\ LoseMemory /\ LoseUnflushed
    /\ UNCHANGED <<wal_opened, wal_files, full_files, delta_files, hist>>

Crash == CanCrash /\ Alive /\ ProcessEnds

(* AdminToWriter up to WalManager::Start: replay, or a new catalog when    *)
(* there is no log file.                                                   *)
Recover ==
    LET es    == NewestFirst(wal_files, wal_log)
        fresh == ~wal_opened
        start == IF fresh THEN 0 ELSE LastCommitTs(es) + 1
    IN  /\ phase \in {"down", "failed"}
        /\ IF fresh \/ CanReplay(es)
           THEN /\ phase' = "starting"
                /\ wal_opened' = TRUE
                /\ catalog' = IF fresh THEN {} ELSE Replayed(es)
                /\ acked' = acked \cup catalog'
                /\ max_commit_ts' = IF fresh THEN 0 ELSE LastCommitTs(es)
                /\ current_ts' = start
                /\ max_committed_ts' = start
                /\ reused' = (reused \/ \E i \in DOMAIN es : start + 2 <= es[i].commit_ts)
           ELSE /\ phase' = "failed"
                /\ UNCHANGED <<wal_opened, catalog, acked, max_commit_ts,
                               current_ts, max_committed_ts, reused>>
        /\ UNCHANGED <<wal_log, flushed, wal_files, full_files, delta_files,
                       txns, ckp_begin_ts, last_swap_wal_ts, last_ckp_ts,
                       last_full_ckp_ts, batch_done, submitted, delta_ops,
                       delta_max, ckp, started, conflicts>>

-----------------------------------------------------------------------------
(* The commit pipeline                                                     *)

(* GetWriteCommitTS.  Before the node is running the only transaction is   *)
(* the one of CreateDefaultDB, when the catalog is new.                    *)
GetWriteCommitTS ==
    /\ phase = "running" \/ (phase = "starting" /\ current_ts = 0)
    /\ Cardinality(DOMAIN txns) < MaxInFlight /\ current_ts + 2 <= MaxTs
    /\ current_ts' = current_ts + 2
    /\ txns' = Put(txns, current_ts + 2, "check")
    /\ UNCHANGED <<disk, max_committed_ts, ckp_begin_ts, walst, cat, ckp, phase,
                   hist>>

(* SendToWAL with a log entry, or without one after a conflict.            *)
SendToWAL(ts, stage) ==
    /\ txns[ts] = "check"
    /\ stage = "refused" => phase = "running" /\ conflicts < MaxConflict
    /\ txns' = Stages({ts}, stage)
    /\ conflicts' = IF stage = "refused" THEN conflicts + 1 ELSE conflicts
    /\ UNCHANGED <<disk, current_ts, max_committed_ts, ckp_begin_ts, walst, cat,
                   ckp, phase, acked, started, reused>>

(* SwapWalFile(max_commit_ts_, true): unless the name would not grow,      *)
(* close ofs_ (which flushes it), rename wal.log and open a new one.       *)
SwapsWalFile == max_commit_ts > last_swap_wal_ts
SwapWalFile(log) ==
    /\ wal_files' = Put(wal_files, max_commit_ts, wal_log)
    /\ wal_log' = log /\ flushed' = 0
    /\ last_swap_wal_ts' = max_commit_ts

(* The condition of its UnrecoverableError "File: {}, exists!".            *)
DuplicateWalFile == SwapsWalFile /\ max_commit_ts \in DOMAIN wal_files

(* One round of the first loop of WalManager::Flush, for the transaction   *)
(* whose turn it is.                                                       *)
WriteEntry(ts) ==
    LET own   == {k \in CkpId : ckp[k].commit_ts = ts}
        entry == Entry(ts, IF own = {} THEN 0
                           ELSE ckp[CHOOSE k \in own : TRUE].max_commit_ts)
        swap  == \E k \in own : ckp[k].kind \in KCheckpoint
    IN  /\ txns[ts] = "queued"
        /\ \A u \in DOMAIN txns : u < ts => txns[u] \notin {"check", "queued"}
        /\ IF swap /\ DuplicateWalFile
           THEN ProcessEnds
           ELSE /\ IF swap /\ SwapsWalFile
                   THEN SwapWalFile(<<entry>>)
                   ELSE /\ wal_log' = Append(wal_log, entry)
                        /\ UNCHANGED <<flushed, wal_files, last_swap_wal_ts>>
                /\ max_commit_ts' = ts
                /\ txns' = Stages({ts}, "written")
                /\ batch_done' = FALSE
                /\ UNCHANGED <<wal_opened, full_files, delta_files, current_ts,
                               max_committed_ts, ckp_begin_ts, last_ckp_ts,
                               last_full_ckp_ts, cat, ckp, phase, hist>>

(* ofs_.flush() and the CommitBottom loop over the batch.                  *)
FlushBatch ==
    LET batch == {ts \in DOMAIN txns : txns[ts] = "written"}
    IN  /\ batch # {}
        /\ flushed' = Len(wal_log)
        /\ txns' = Stages(batch, "applied")
        /\ catalog' = catalog \cup Commits(batch)
        /\ acked' = acked \cup Commits(batch)
        /\ batch_done' = TRUE
        /\ UNCHANGED <<wal_log, wal_opened, wal_files, full_files, delta_files,
                       current_ts, max_committed_ts, ckp_begin_ts, max_commit_ts,
                       last_swap_wal_ts, last_ckp_ts, last_full_ckp_ts, submitted,
                       delta_ops, delta_max, ckp, phase, started, conflicts, reused>>

(* The end of the loop of WalManager::Flush: wal.log is too large.         *)
SizeSwap ==
    /\ batch_done /\ SwapsWalFile
    /\ IF DuplicateWalFile
       THEN ProcessEnds
       ELSE /\ SwapWalFile(<<>>)
            /\ batch_done' = FALSE
            /\ UNCHANGED <<wal_opened, full_files, delta_files, mgr, max_commit_ts,
                           last_ckp_ts, last_full_ckp_ts, cat, ckp, phase, hist>>

(* No slot before this one: max_committed_ts_ may advance to it.           *)
Mut_NoneEarlier(ts) == TRUE
NoneEarlier(ts) == \A u \in DOMAIN txns \ {ts} : u > ts

(* CleanupTxn and the submission of the delta entry.                       *)
CleanupTxn(ts) ==
    LET own == {k \in CkpId : ckp[k].commit_ts = ts}
    IN  /\ txns[ts] \in {"applied", "refused"}
        /\ \A k \in own : ckp[k].pc = "cleanup"
        /\ txns' = Drop(txns, ts)
        /\ max_committed_ts' = IF NoneEarlier(ts) THEN ts ELSE max_committed_ts
        /\ submitted' = IF txns[ts] = "applied" THEN submitted \cup Commits({ts})
                        ELSE submitted
        /\ ckp' = [k \in CkpId |-> IF k \in own THEN Idle ELSE ckp[k]]
        /\ IF phase = "starting" /\ own # {}
           THEN phase' = "running" /\ started' = TRUE
           ELSE UNCHANGED <<phase, started>>
        /\ UNCHANGED <<disk, current_ts, ckp_begin_ts, walst, catalog, delta_ops,
                       delta_max, acked, conflicts, reused>>

(* AddDeltaEntry: the next entry in the order of the commits.              *)
AddDeltaEntry ==
    LET unmerged == submitted \cup
                    Commits({ts \in DOMAIN txns : txns[ts] = "applied"})
    IN  /\ Alive /\ BgIdle
        /\ submitted # {} /\ Min(submitted) = Min(unmerged)
        /\ delta_ops' = delta_ops \cup {Min(submitted)}
        /\ delta_max' = Max({delta_max, Min(submitted)})
        /\ submitted' = submitted \ {Min(submitted)}
        /\ UNCHANGED <<disk, mgr, walst, catalog, ckp, phase, hist>>

-----------------------------------------------------------------------------
(* Checkpoints                                                             *)

Begin(k, kind, full) ==
    /\ ckp[k].pc = "idle"
    /\ ckp' = [ckp EXCEPT ![k] = [Idle EXCEPT !.pc = "begun", !.kind = kind,
                                     !.full = full, !.begin_ts = current_ts + 1]]
    /\ UNCHANGED <<disk, current_ts, max_committed_ts, txns, walst, cat, phase,
                   hist>>

(* BeginTxn of a checkpoint; only those of type kCheckpoint exclude each   *)
(* other.                                                                  *)
Mut_Exclusive(kind) == FALSE
Exclusive(kind) == kind \in KCheckpoint
BeginCheckpoint(k, kind, full) ==
    /\ phase = "running"
    /\ kind = "periodic" => BgIdle
    /\ kind = "cleanup" => ~full
    /\ kind = "snapshot" => full
    /\ Exclusive(kind) => ckp_begin_ts = NoCkp
    /\ ckp_begin_ts' = IF Exclusive(kind) THEN k ELSE ckp_begin_ts
    /\ Begin(k, kind, full)

(* AdminToWriter forces a full checkpoint inside an ordinary transaction   *)
(* before the node accepts statements.                                     *)
BeginStartCheckpoint(k) ==
    /\ phase = "starting" /\ current_ts # 0 /\ DOMAIN txns = {}
    /\ \A j \in CkpId : ckp[j].pc = "idle"
    /\ Begin(k, "snapshot", TRUE)
    /\ UNCHANGED ckp_begin_ts

(* The background thread may run the task of checkpoint k.                 *)
TaskReady(k) ==
    /\ ckp[k].pc = "begun"
    /\ ckp[k].kind = "periodic" \/ BgIdle

(* FullCheckpointInner: the condition of its UnrecoverableError.           *)
FullOutOfOrder ==
    \/ last_full_ckp_ts # UNCOMMIT_TS /\ last_full_ckp_ts >= max_committed_ts
    \/ last_ckp_ts # UNCOMMIT_TS /\ last_ckp_ts > max_committed_ts

(* FullCheckpointInner and SaveFullCatalog: the catalog at                 *)
(* max_committed_ts_ is renamed into place, and the delta operations it    *)
(* contains are dropped.                                                   *)
FullCheckpoint(k) ==
    /\ TaskReady(k) /\ ckp[k].full
    /\ IF max_committed_ts = last_full_ckp_ts
       THEN /\ GoTo(k, "release")
            /\ UNCHANGED <<disk, mgr, walst, cat, phase, hist>>
       ELSE IF FullOutOfOrder
       THEN ProcessEnds
       ELSE /\ full_files' = Put(full_files, max_committed_ts,
                                 {ts \in catalog : ts <= max_committed_ts})
            /\ delta_ops' = {ts \in delta_ops : ts > max_committed_ts}
            /\ last_ckp_ts' = max_committed_ts
            /\ last_full_ckp_ts' = max_committed_ts
            /\ ckp' = [ckp EXCEPT ![k].pc = "saved",
                                  ![k].max_commit_ts = max_committed_ts]
            /\ UNCHANGED <<wal_log, flushed, wal_opened, wal_files, delta_files,
                           mgr, max_commit_ts, last_swap_wal_ts, batch_done,
                           catalog, submitted, delta_max, phase, hist>>

(* DeltaCheckpointInner: the bound it compares with the last checkpoint,   *)
(* equal to which it skips, and the condition of its UnrecoverableError.   *)
DeltaBound(k) == Min({max_commit_ts, ckp[k].begin_ts})
DeltaOutOfOrder(k) == last_ckp_ts # UNCOMMIT_TS /\ last_ckp_ts > DeltaBound(k)

(* DeltaCheckpointInner and SaveDeltaCatalog: the merged operations are    *)
(* taken, then written unless there is nothing after the last checkpoint.  *)
(* The file is written in place, and a crash may cut it short.             *)
DeltaCheckpoint(k) ==
    LET newest == Max(delta_ops \cup {delta_max})
        skips  == DeltaBound(k) = last_ckp_ts
        writes == ~skips /\ ~DeltaOutOfOrder(k) /\ last_ckp_ts < newest
    IN  /\ TaskReady(k) /\ ~ckp[k].full
        /\ \/ /\ ~writes
              /\ IF DeltaOutOfOrder(k)
                 THEN ProcessEnds
                 ELSE /\ delta_ops' = IF skips THEN delta_ops ELSE {}
                      /\ GoTo(k, "release")
                      /\ UNCHANGED <<disk, mgr, walst, catalog, submitted,
                                     delta_max, phase, hist>>
           \/ /\ writes
              /\ delta_ops' = {}
              /\ delta_files' = Put(delta_files, newest, delta_ops)
              /\ last_ckp_ts' = newest
              /\ ckp' = [ckp EXCEPT ![k].pc = "saved", ![k].max_commit_ts = newest]
              /\ UNCHANGED <<wal_log, flushed, wal_opened, wal_files, full_files,
                             mgr, max_commit_ts, last_swap_wal_ts,
                             last_full_ckp_ts, batch_done, catalog, submitted,
                             delta_max, phase, hist>>
           \/ /\ writes /\ CanCrash
              /\ delta_files' = Put(delta_files, newest, Torn)
              /\ LoseMemory /\ LoseUnflushed
              /\ UNCHANGED <<wal_opened, wal_files, full_files, hist>>

(* The checkpoint transaction commits; its empty store conflicts with none.*)
CommitCheckpoint(k) ==
    /\ ckp[k].pc = "saved" /\ current_ts + 2 <= MaxTs
    /\ current_ts' = current_ts + 2
    /\ txns' = Put(txns, current_ts + 2, "queued")
    /\ ckp' = [ckp EXCEPT ![k].pc = "commit", ![k].commit_ts = current_ts + 2]
    /\ UNCHANGED <<disk, max_committed_ts, ckp_begin_ts, walst, cat, phase, hist>>

(* Files that PostCommit has to delete.                                    *)
Mut_OldWal(k) == {ts \in DOMAIN wal_files : ts < ckp[k].commit_ts}
OldWal(k) == {ts \in DOMAIN wal_files : ts <= ckp[k].max_commit_ts}
OldFull(k) == {ts \in DOMAIN full_files : ts < ckp[k].max_commit_ts}
OldDelta(k) == {ts \in DOMAIN delta_files : ts <= ckp[k].max_commit_ts}

(* PostCommit, RecycleWalFile: the old log files, one at a time.           *)
RecycleWalFile(k) ==
    /\ ckp[k].pc = "commit" /\ txns[ckp[k].commit_ts] = "applied"
    /\ \/ /\ \E ts \in OldWal(k) : wal_files' = Drop(wal_files, ts)
          /\ UNCHANGED ckp
       \/ /\ OldWal(k) = {} /\ ~ckp[k].full
          /\ GoTo(k, "release")
          /\ UNCHANGED wal_files
       \/ /\ OldWal(k) = {} /\ ckp[k].full
          /\ ckp' = [ckp EXCEPT ![k].pc = "recycle",
                      ![k].found = ckp[k].max_commit_ts \in DOMAIN full_files]
          /\ UNCHANGED wal_files
    /\ UNCHANGED <<wal_log, flushed, wal_opened, full_files, delta_files, mgr,
                   walst, cat, phase, hist>>

(* Then, for a full checkpoint, RecycleCatalogFile: the older full         *)
(* catalogs, then the delta files.  It ends the process if its listing of  *)
(* the directory lacks the full catalog of this checkpoint.                *)
RecycleCatalogFile(k) ==
    /\ ckp[k].pc = "recycle"
    /\ IF OldFull(k) = {} /\ ~ckp[k].found
       THEN ProcessEnds
       ELSE /\ \/ /\ \E ts \in OldFull(k) : full_files' = Drop(full_files, ts)
                  /\ UNCHANGED <<delta_files, ckp>>
               \/ /\ OldFull(k) = {}
                  /\ \E ts \in OldDelta(k) : delta_files' = Drop(delta_files, ts)
                  /\ UNCHANGED <<full_files, ckp>>
               \/ /\ OldFull(k) = {} /\ OldDelta(k) = {}
                  /\ GoTo(k, "release")
                  /\ UNCHANGED <<full_files, delta_files>>
            /\ UNCHANGED <<wal_log, flushed, wal_opened, wal_files, mgr, walst, cat,
                           phase, hist>>

(* CommitTxn gives ckp_begin_ts_ back before CleanupTxn; a checkpoint that *)
(* saved nothing was read-only and has no slot to clean up.                *)
ReleaseCheckpoint(k) ==
    /\ ckp[k].pc = "release"
    /\ ckp_begin_ts' = IF ckp_begin_ts = k THEN NoCkp ELSE ckp_begin_ts
    /\ ckp' = [ckp EXCEPT ![k] = IF @.commit_ts = 0 THEN Idle
                                 ELSE [@ EXCEPT !.pc = "cleanup"]]
    /\ IF phase = "starting" /\ ckp[k].commit_ts = 0
       THEN phase' = "running" /\ started' = TRUE
       ELSE UNCHANGED <<phase, started>>
    /\ UNCHANGED <<disk, current_ts, max_committed_ts, txns, walst, cat, acked,
                   conflicts, reused>>

-----------------------------------------------------------------------------
Checkpoints(k) ==
    \/ \E kind \in Kind, full \in BOOLEAN : BeginCheckpoint(k, kind, full)
    \/ BeginStartCheckpoint(k)
    \/ FullCheckpoint(k)
    \/ DeltaCheckpoint(k)
    \/ CommitCheckpoint(k)
    \/ RecycleWalFile(k)
    \/ RecycleCatalogFile(k)
    \/ ReleaseCheckpoint(k)

Next ==
    \/ Crash
    \/ Recover
    \/ GetWriteCommitTS
    \/ \E ts \in DOMAIN txns :
          \/ SendToWAL(ts, "queued")
          \/ SendToWAL(ts, "refused")
          \/ WriteEntry(ts)
          \/ CleanupTxn(ts)
    \/ FlushBatch
    \/ SizeSwap
    \/ AddDeltaEntry
    \/ \E k \in CkpId : Checkpoints(k)

Spec == Init /\ [][Next]_vars

-----------------------------------------------------------------------------
(* Properties                                                              *)
(* Every variable keeps its type.                                          *)
TypeOK ==
    /\ wal_log \in Seq([commit_ts : 0..MaxTs, ckp_ts : 0..MaxTs])
    /\ flushed \in 0..Len(wal_log)
    /\ wal_opened \in BOOLEAN
    /\ DOMAIN wal_files \cup DOMAIN delta_files \cup DOMAIN txns \subseteq 0..MaxTs
    /\ DOMAIN full_files \subseteq 0..(MaxTs + 1)
    /\ \A ts \in DOMAIN full_files : full_files[ts] \subseteq 0..MaxTs
    /\ \A ts \in DOMAIN delta_files : delta_files[ts] \subseteq 0..MaxTs
    /\ \A ts \in DOMAIN txns : txns[ts] \in Stage
    /\ {max_commit_ts, last_swap_wal_ts, delta_max} \subseteq 0..MaxTs
    /\ {current_ts, max_committed_ts} \subseteq 0..(MaxTs + 1)
    /\ conflicts \in 0..MaxConflict
    /\ {last_ckp_ts, last_full_ckp_ts} \subseteq (0..(MaxTs + 1)) \cup {UNCOMMIT_TS}
    /\ ckp_begin_ts \in CkpId \cup {NoCkp}
    /\ {batch_done, started, reused} \subseteq BOOLEAN
    /\ \A S \in {catalog, submitted, delta_ops, acked} : S \subseteq 0..MaxTs
    /\ ckp \in [CkpId -> [pc : CkpPC, kind : AllKinds, full : BOOLEAN,
                          begin_ts : 0..(MaxTs + 2),
                          max_commit_ts : 0..(MaxTs + 1), commit_ts : 0..MaxTs, found : BOOLEAN]]
    /\ phase \in {"down", "starting", "running", "failed"}

(* The log a crash may leave: any part of what was not flushed survives.   *)
Surviving == {NewestFirst(wal_files, SubSeq(wal_log, 1, n)) :
                  n \in flushed..Len(wal_log)}

(* Once the first start is over, a crash at any moment, in the middle of a *)
(* checkpoint or of the deletion of old files included, leaves a disk from *)
(* which ReplayWalFile succeeds and restores every commit that a session   *)
(* was told of or could have read: transactions may have been refused, but *)
(* no restart has gone on below a timestamp of the log (TsAboveLog).       *)
CrashSafe ==
    started /\ ~reused =>
        \A es \in Surviving : CanReplay(es) /\ acked \subseteq Replayed(es)

(* A commit timestamp is larger than any in the log files, those written   *)
(* before the last crashes included.  UpdateCommitState and the order in   *)
(* which ReplayWalFile reads the files rely on it, and it would follow if  *)
(* ReplayWalFile returned what its comment says, the maximum of the log.   *)
(* After a refused transaction it returns less.                            *)
TsAboveLog ==
    \A es \in Surviving : \A i \in DOMAIN es : \A ts \in DOMAIN txns :
        txns[ts] \in {"check", "queued"} => es[i].commit_ts < ts

(* As long as no transaction has been refused by the conflict check, a     *)
(* commit timestamp is larger than any in the log files, after crashes     *)
(* too: the last entry ReplayWalFile replays is then at most one timestamp *)
(* behind the newest checkpoint entry.                                     *)
NewTsAfterLog == conflicts = 0 => TsAboveLog

(* SwapWalFile never meets a log file of the name it is about to give, for *)
(* which it would end the process.                                         *)
SwapNameFree ==
    \/ batch_done
    \/ \E k \in CkpId : /\ ckp[k].kind \in KCheckpoint
                        /\ ckp[k].pc = "commit" /\ txns[ckp[k].commit_ts] = "queued"
    => ~DuplicateWalFile

(* DeltaCheckpointInner never finds the last checkpoint to be newer than   *)
(* the bound of the delta checkpoint, for which it ends the process.       *)
DeltaInOrder ==
    \A k \in CkpId : TaskReady(k) /\ ~ckp[k].full => ~DeltaOutOfOrder(k)

(* RecycleCatalogFile finds the full catalog that the checkpoint it is     *)
(* called for has written, otherwise it ends the process.                  *)
FullCatalogKept == \A k \in CkpId : ckp[k].pc = "recycle" => ckp[k].found

(* The variables keep their types, and a checkpoint of FLUSH or of a       *)
(* trigger never ends the process for the name of a log file (until a      *)
(* timestamp has been used twice), for the bound of a delta checkpoint or  *)
(* for a full catalog that is gone, after any number of crashes.  The      *)
(* order test of a full checkpoint, the fourth such check, does end it in  *)
(* a legal run and is stated by itself, FullInOrder.                       *)
NoAbort == TypeOK /\ (~reused => SwapNameFree) /\ DeltaInOrder /\ FullCatalogKept

(* FullCheckpointInner asserts that max_committed_ts_ is above the last    *)
(* full checkpoint and not below the last checkpoint of any kind.          *)
FullInOrder ==
    \A k \in CkpId :
        TaskReady(k) /\ ckp[k].full /\ max_committed_ts # last_full_ckp_ts =>
            ~FullOutOfOrder

(* A full catalog file contains every commit up to its timestamp that a    *)
(* session was told of or could have read, refused transactions in between *)
(* or not, unless a restart has used timestamps of the log again.          *)
FullIsComplete ==
    ~reused => \A m \in DOMAIN full_files : {ts \in acked : ts <= m} \subseteq full_files[m]

=============================================================================
