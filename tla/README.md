# Verification of the Infinity storage engine

TLA+ specifications of the storage engine of Infinity. One half is what decides
which transactions commit, in which order, and what is left of them after a crash:
the transaction manager, the write-ahead log, the catalog checkpoints, replay, and
the tasks that start checkpoints. The other half is what lies below: the versions
of catalog entries, the buffer manager, the persistence manager that packs files
into objects, and the segments of a table with their compaction. The modules are
checked with TLC on small instances, and the invariants of the commit pipeline are
proved with TLAPS for every instance. Paths are relative to `src/src/`; names follow
the code, in the older modules without the trailing underscore.

## Inventory

| Part | State | Operations | What is hard about it |
| --- | --- | --- | --- |
| `storage/txn` | timestamps, transaction map, committing transactions, slots of the log order | begin, delete, commit, conflict check, rollback, clean-up | sessions interleave inside one commit; the lock is released between taking a timestamp, checking and logging |
| `storage/wal` flush thread | queue of batches, `wal.log` | write, flush, apply, swap file | owns raw pointers into the transaction map; order and write-ahead rule |
| catalog delta entries | sequence heap, merged operations | merge, pick, drop | entries arrive out of order |
| checkpoints and replay | `wal.log*`, `FULL.*`, `DELTA.*`, last checkpoint timestamps | full and delta checkpoint, recycle, replay | crash between any two file operations; two kinds of timestamps |
| `background_process`, triggers, FLUSH, CLEANUP, SNAPSHOT | task queue, two exclusion devices | submit, execute, retry, give up | waiting in a circle, a flag that outlives its task |
| `storage/meta` | versioned entries, meta maps, segments, blocks | create, drop, get, pick for clean-up | visibility while the writer commits; lock gaps |
| `storage/buffer` | status of each object, LRU queues, memory in use | load, unload, free, clean up | three locks, eviction racing use, unsigned sizes |
| `storage/persistence` | objects, ranges, reference counts | persist, get, put, clean up | lock gap while a file is read, range merging |
| compaction, memory index tracer | segment status, pending deletes | pick, compact, commit | deletes in a segment that is being replaced |
| cluster manager | roles, peers, logs to send | register, heartbeat, sync | lost peers, role changes |
| task scheduler, result cache | dependency counts, LRU | submit, run, invalidate | completion order |
| parser, planner, functions, index structures, column vectors, network | none shared, or data only | | outside of what a state model shows |

`PROJECT.json` lists every part with its status, and the hazards with the line
where each one bites and the property that would catch it.

## Modules

| Module | Models |
| --- | --- |
| `TxnManager` | `TxnManager`, `Txn`, `TxnStore` deletes, the flush thread, the order of delta entries |
| `RowStore` | what the pipeline promises of the rows: an abstract specification |
| `Checkpoint` | log and catalog files, checkpoints, crash, replay |
| `CheckpointTask` | who runs a checkpoint: sessions, triggers, the background thread |
| `EntryList` | the versions of one catalog name: meta map, entry list, DDL, commit, rollback, clean-up scan |
| `Buffer` | buffer objects, LRU queues, memory accounting, spill files, mapping, clean-up |
| `PageStore` | what the buffer manager promises its users: an abstract specification |
| `PersistenceManager` | files packed into objects, reference counts, deleted ranges, object store, restart |
| `Compaction` | segments and blocks of a table, deletes and appends, a compaction and its commit |
| `MCTxnManager`, `MCCheckpoint`, `MCCheckpointTask`, `MCEntryList`, `MCBuffer`, `MCPersistenceManager`, `MCCompaction` | instances for TLC |
| `TxnInvariant`, `TxnManagerProofs`, `TxnConflictProofs`, `TxnLogProofs`, `TxnStoreProofs`, `CheckpointTaskProofs`, `PersistenceInvariant`, `PersistenceManagerProofs` | theorems |

The definitions named `Mut_...` are variants of the definition after them with a
plausible mistake in it. No specification uses them; they show that each property
notices such a mistake.

### TxnManager

Each transaction has a session thread, and `pc[t]` is the place it has reached in
`TxnManager::CommitTxn` or `RollBackTxn`. One action is what a thread does under
one acquisition of `locker_`. A commit is split where the code splits it:

    GetWriteCommitTS, SetTxnCommitting, CollectCandidates, CheckCatalog,
    CheckCandidates, SendToWAL, (flush thread: DequeueBulk, WriteEntry, FlushLog,
    CommitBottom), PostCommit, CleanupState, CleanupTxn, SubmitDeltaEntry

A write transaction is the set of rows it deletes. Deletes are the only row
operation on which two transactions can conflict. A vector submitted to
`wait_flush_` comes out of a map sorted by timestamp, so it is a set that is
consumed in that order. The Txn object exists as long as `txn_map_` or the candidate
vector of a running check owns it (`Alive`), which is what the weak references of
`beginned_txns_` see.

`GetCleanupScanTS` is an operator, not an action: its only effect is to drop expired
references, and `FirstUncommitted` skips them.

### Checkpoint

A transaction is its commit timestamp, and the pipeline is reduced to five stages.
The reduction keeps what `TxnManager` shows of the pipeline: entries reach the log
in order, `max_committed_ts` is a cut, clean-up comes in any order, delta
entries are merged in order. The files are functions from the timestamp in the name
to the content. `wal_log` has a flushed prefix; a crash keeps it and any part of
the rest. A full catalog is written beside its final name and renamed, so it is
there or not. A delta file is written in place and may be torn.

`SaveFullCatalog` is one step although it reads the catalog for a long time: it
reads only what is committed at or before `max_committed_ts`, and that part
changes no more (`MaxCommittedIsCut`, proved).

Deleting old files is one step per file, in any order within a kind, because the
code goes through them one by one. An `UnrecoverableError` ends the process, as a
crash does. `FLUSH` and the triggers begin transactions of type `kCheckpoint`,
which exclude each other; `CLEANUP`, `SNAPSHOT` and the start of a node
checkpoint inside an ordinary transaction and exclude nobody. The constant `Kind`
says which of them take part. The history variable `reused` is set when a restart hands out a
timestamp that is not above all those of the log (run `reuse`); `CrashSafe`, `FullIsComplete` and
the file names in `NoAbort` are stated for behaviours in which that has not happened.

Two things of a checkpoint are left to other modules: whether its task is
submitted at all (`CheckpointTask`), and the clean-up of dropped entries that a
forced checkpoint runs before it (`EntryList`, `Compaction`).

### CheckpointTask

The queue and the single thread of `BGTaskProcessor`, and the two devices that
keep checkpoints apart: `checkpoint_in_progress`, tested when a task is submitted,
and `ckp_begin_ts`, taken when a checkpoint transaction begins. A full checkpoint
that is refused sleeps and tries again: no step. A delta checkpoint that is refused
is given up. A FLUSH that is refused (`RefuseFlush`) throws before its session has a transaction,
and the handler in `QueryStatement` calls `RollBackTxn` with the null pointer: the process ends,
`running` is false from then on and nothing moves any more. The history variable `overridden` is
set when the checkpoint of a CLEANUP or SNAPSHOT clears the flag of a task that is still queued.

### EntryList

One name in one `MetaMap`: a database, a table or an index; the nesting adds
nothing to the versions of a single name. `entry_list` is newest first, as in the
code; an entry has the begin and commit timestamp and the transaction of
`BaseEntry`, and the directory of its files. One step is one critical section.
The two locks are taken hand over hand, so an operation on an existing meta is one
step, and the model splits an operation exactly where the code lets go:

- `GetMeta` of a missing name (`GetMetaMiss`, `GetMetaEmplace`, `CreateInMeta`);
- `PickCleanup` while it descends into an entry (`PickCleanup`,
  `PickCleanupResume`), then the removal of empty metas and of the files;
- `CommitBottom` and the rollback, which treat the entries one by one
  (`CommitEntry`, `RollbackEntry`).

`FindEntryNoLock` is the search all operations share. A statement that is bound to
an entry holds a raw pointer to it (`held`); `freed` has the entries whose object is
destroyed. The use of a destroyed meta, list node or entry is undefined and ends the
behaviour. The ghost variable `alters` remembers the clones that ALTER makes, `early` the
statements bound while a commit they must see was not applied, `shifted` a rollback
under the iterator of a scan. The properties are stated beside these, see
"Where the code disagrees with itself".

### Buffer and PageStore

`obj[o]` has the fields of a `BufferObj`, `file[o]` its spill file and data file, and
the content of either is the number of the last write it has seen. One step is what
a thread does under one lock, or up to the next lock it has to wait for: the lock of
an object, `gc_locker_` of the manager and the lock of each LRU cache are variables.
`Load` is therefore `LoadAtOnce`, or `LoadLock` and `LoadUnqueue`, then, if the object
is not in memory, the loop of `RequestSpace` (`RequestGranted`, `RequestEvict`,
`EvictBegin`, `EvictSkip`, `EvictFree`, `EvictNextLru`), in which the thread tries the
locks of other objects. Sizes are numbers modulo `Word`, as `SizeT` is modulo 2^64.

The checks for which the code ends the process are checks of the model (`Require`), not guards. Whether
they can fail depends on the callers, so these are modelled too. `unflushed[o]` has the
entries whose block has rows newer than its last checkpoint. `Flush` is `BlockEntry::Flush`
under the lock of the block: the save, then, if the block is full, the mapping. `FlushColumnCheck`
and `FlushColumn` are the operation of a delta checkpoint on one column, which gives the lock back between the
test and the save. ALTER copies an entry (`AddObjRc`) and with it the timestamps of its
blocks. Clean-up (`PickOne`, `PickLast`) may come at any time, also while a statement
uses the object, since run `used` shows that the clean-up timestamp does not exclude it.
History variables mark what the code does not exclude: `late` (a cleaned object is in use or is loaded),
`raced` (an object is saved while it is written), `inherited` (an entry was copied before it was flushed),
`overrun` (an append went beyond the limit).

`PageStore` has pages with a content, pins and nothing else. `Buffer` implements it
under a mapping that says where the next `Load` would find the content: in memory, in
the spill file, in the data file or in the mapping. A stale spill file, a save of the
wrong place or an eviction of a pinned object would be a step that `PageStore` has not.
`broken` is the end of its promise; the mapping sets it to `late \/ raced`, and each of the two alone makes
the refinement fail when it is taken out.

### PersistenceManager

A part of an object is an offset, a size, the path it belongs to and the number of the
write it holds, so a wrong offset or an old part is visible. `mtx_` makes each call of
the manager one step. `Persist` is two, since it releases the lock before it looks at the
file (`PersistBegin`, then `PersistEmpty`, `PersistDedicated` or `PersistCompose`). What
the calls tell their callers to do afterwards (`PersistResultHandler`: upload, remove,
download) is one step per object. `disk` and `remote` are the objects in the local directory
and in the store; `durable` is what the last checkpoint and the log name. `Restart` keeps
the local files or loses them (a new machine on the same store).

`DeleteRange` is the merging of `CleanupNoLock` with the neighbouring ranges; `RangesExact`
compares its result with the set of bytes that are not in use.

### Compaction

The pipeline is that of `TxnManager` reduced to its stages; a step is one critical
section of the table, a segment or a block. A row is known by the place it was first
stored at, and keeps this identity when it is copied. A statement is bound to a block
index; a delete registers with its segment, is refused if the segment takes no more
deletes, and is applied by the flush thread (`PrepareDelete`, `CommitWrite`). A
compaction goes through `TrySetCompacting`, `SetScanTS`, one `ScanRange` for each range
of visible rows, `SetNoDelete`, `SaveSegmentData`, the log, and in the flush thread
`CommitCompact` and the repeated deletes (`DeleteCopies`). A delete that commits
meanwhile adds its rows to the compaction's list (`AddToDelete`), and `GetNewRowID` finds
their copies. Which sealed segments go together is open within the rules of
`GreedyCompactableSegmentsGenerator`.

The ghosts `late`, `partial` and `early` mark the races that the code does not close. The
properties are about everything else.

### How the modules fit together

`Checkpoint`, `EntryList` and `Compaction` each contain the commit pipeline in the form
`TxnManager` shows it to have: unique commit timestamps, applied in their order by one
thread, a clean-up timestamp below every transaction that is alive (`CleanupScanSafe`).
`Checkpoint` relies on `MaxCommittedIsCut`. `Buffer` and `PersistenceManager` meet at the
file workers: an object of the buffer manager reads and writes one path, under the lock of
the buffer object, which is why `PersistenceManager` lets only one thread work on a path
at a time.

## Runs

| Run | Bounds | Distinct states | Shows |
| --- | --- | --- | --- |
| `pipeline` | 3 writers, 2 rows, symmetric | 724127 | safety of the pipeline, refinement of `RowStore` |
| `pipeline_live` | 2 writers, 1 checkpoint, 1 row | 498662 | commits end, delta entries are merged |
| `recovery` | 2 checkpoints at once, 3 commits in the pipeline, 1 refused, timestamps to 11, crashes | 1437940 | crash safety, new timestamps, complete catalogs, three of the four fatal checks |
| `reuse` | 2 commits in the pipeline, 1 refused, timestamps to 11, crashes | violated | see below |
| `order` | 2 commits in the pipeline, timestamps to 10, no crash | violated | see below |
| `flush` | 2 FLUSH, 2 commands, both triggers, queue of 2 | 68848 | when threads wait for each other, what leaves the flag set, statements return |
| `entries` | 3 symmetric transactions with 2 operations each, 1 ALTER, 2 scans, 5 entries | 997486 | versions in order, one winner, stable snapshots, no version freed under a statement, directories exact |
| `buffer` | 2 objects, one of variable size, memory for 2 units, 2 symmetric workers and the background thread, 2 LRU caches, 3 loads or copies in all, 2 background operations, sizes modulo 16 | 1334730 | queues, accounting, pointers, no fatal error, refinement of `PageStore` |
| `persistence` | 2 paths with files of 3 and of 0, 1 or 6 bytes, objects of 6 aligned to 2, 1 worker and the background thread, 3 writes, 2 reads, 2 tasks, 1 restart | 1726014 | counts and ranges exact, files readable now and after a restart |
| `compaction` | 2 symmetric deletes, 1 compaction, segments of 3, 1 and 1 rows, blocks of 3, capacity 4 | 302677 | no row lost, brought back or read twice |
| `compaction_live` | 1 delete, 1 insert of 1 or 2 rows, 1 compaction, segments of 1 and 3 rows | 32452 | the same with a segment that fills up; a compaction ends |
| `used` | 1 delete, 1 compaction | violated | see below |

Why the bounds are enough. Three writers are enough for a slot to be filled between
two others, for a candidate to be cleaned up while a check still holds it, and for
clean-up in an order that differs from the commit order at both ends. Eleven is enough
for a first start, two checkpoints with commits between them, a crash in the middle of
the second one and a start after it; two checkpoint transactions are enough for one to
be cleaned up while the next runs. `CrashSafe` does not depend on a crash being taken:
it looks at every log a crash could leave in the current state. The bound on timestamps
stops a system that would go on. In `order`, without crashes, nothing is left to do then, hence
`CHECK_DEADLOCK FALSE`; in the others a crash is always possible. `flush` has the same line
because a refused FLUSH ends the process. Its queue of 2 bounds the triggers only: the sessions
add one task each.

In `entries` three transactions are enough for one to commit, one to be rolled back and one
to read while a scan is between its two halves; the second scan removes what the first had
to leave. In `buffer` two objects do not fit into memory together once one has grown, so
every load can evict; three loads are enough for an object to be evicted, loaded and evicted
again. Of the exceptions that `Buffer!NoAbort` names, this run reaches memory exhausted,
clean-up of an object in use and the copy that is flushed after its original was mapped; the double deletion needs
1 worker, `Limit = 1`, `MaxLoads = 5`, and a fatal check after an overrun 1 worker, `MaxLoads = 4`,
`MaxWrites = 2`. In `persistence` the file of 6 bytes gets an object of its own, the empty one has
none, and two small files fill an object, so the boundaries of `Persist` are all met. In
`compaction` a segment of three rows and one of one row are merged to a full segment; the
deletes can hit the same row, different rows and different segments, before, between and
after every step of the compaction. In `compaction_live` an insert fills the last segment
and opens a new one, while the compaction runs.

`EntryList`, `Buffer`, `PersistenceManager` and `Compaction` end a behaviour by the action `Finished`, a stutter when all operations
are used up or the process has ended: a deadlock would be a thread that waits for ever.

## Where the code disagrees with itself

Three runs expect a violation of what a comment or an assertion of the code says.

`used`: `table_entry.cpp:1454` argues that a
segment visible to a transaction has a later `deprecate_ts`, and concludes "So the used
segment will not be cleaned up." (line 1456). A compaction takes timestamp 2; a statement begins at 3 and
is bound to the old segments, not yet deprecated, and to the new one, whose transaction
is committing at an earlier timestamp; then the commit sets `deprecate_ts` to 2, and the clean-up
removes segments the statement reads from. Until then it reads their rows twice.

`reuse`: the comment at `wal_manager.cpp:707` says that `ReplayWalFile` returns "The max commit timestamp of the
transactions in the wal file." It returns one more than the timestamp of the last entry it replays (line 825), and checkpoint entries
are not replayed. Commit 6 is logged, the transaction with timestamp 8 is refused and leaves 8 unused, a checkpoint
is logged with timestamp 10, and the process crashes. The restart continues from 7 and hands out 9, below 10.
From then on files and entries are read in an order that is not that of the commits: `CrashSafe`
and `FullIsComplete` fail without their condition `~reused`, and with three refused transactions
(`MaxConflict = 3`, `MaxInFlight = 2`, `MaxTs = 13`) the swap of the log meets the name of an old file.
Without a refused transaction the last replayed entry is never more than one timestamp behind the log (`NewTsAfterLog`).

`order`: `wal_manager.cpp:516` ends the process if the last checkpoint is above `max_committed_ts_`. Commits 6 and 8
are applied, and 8 is cleaned up first, so `max_committed_ts_` is 6. A delta checkpoint is taken at 8, the newest
merged entry, and gives `ckp_begin_ts_` back before its `CleanupTxn`. The next full checkpoint finds 8 above 6.

The other places are not runs of their own. Each is an exception that the property named with it
states, or is reproduced by the change to a run that is given, which makes TLC report a behaviour that ends there.

Checkpoints, with the constants of `recovery` besides those given:

- `wal_manager.cpp:787`: a crash in the first start, between the first log entry and the first
  checkpoint, leaves a log that has entries and no checkpoint; the next start refuses it. Invariant
  `\A es \in Surviving : es # <<>> => LatestCheckpoint(es) # 0`.
- `wal_manager.cpp:553`: CLEANUP, overtaken by a FLUSH, finds its bound too old and ends the
  process. `NoAbort` with `Kind <- MCWithCleanup`, `MaxInFlight = 2`, `MaxConflict = 0`, `MaxTs = 12`, no crash.
- `log_file.cpp:91`: the recycling of one full checkpoint deletes the catalog file another one
  looks for. `NoAbort` with `Kind <- MCWithSnapshot`, `MaxInFlight = 2`, `MaxConflict = 0`, `MaxTs = 12`.

Checkpoint tasks, all in run `flush`:

- `query_context.cpp:276`: a FLUSH that is refused ends the process (`RefuseFlush`, the case `~running` of `FlushReturns`).
- `wal_manager.cpp:480`: a delta task that is refused leaves `checkpoint_in_progress_` set, and triggers and
  FLUSH skip their checkpoints from then on. `FlagLeftByGiveUp` says that nothing else does so.
- `background_process.cpp:142`: after CLEANUP or SNAPSHOT has cleared the flag of a task in the queue (`overridden`), FLUSH
  and the background thread can wait for each other. With delta triggers only they cannot.
- The retry of a full checkpoint can be refused for ever if FLUSH statements never end (`FlushesEnd`).

Begin timestamps. `BeginTxn` takes `current_ts_ + 1` (`txn_manager.cpp:69`), which is above the timestamps
of commits not yet applied. A statement bound in this window may see less than its snapshot, and
holds versions that clean-up may remove (`early`): `HeldAlive`, `SnapshotStable` and `StatementExact`
fail without their exceptions for it. `used` is one case.

Catalog entries:

- `base_entry.cpp:21`: the clone that ALTER makes copies `commit_ts_`, so it is visible at once, is
  not committed with its transaction and stays after a rollback; the comment at `base_entry.cpp:50`
  says otherwise. `SetLocked` returns if the lock is already set, so two ALTERs can clone the same version.
  (`Regular`, `Clones`, `alters`.)
- `entry_list.cppm:579`: a rollback while a scan descends removes nodes under the iterator of the
  scan (`shifted`, `failed`).
- `meta_map.cppm:151`, "FIXME: This lock gap might introduce bug.": a meta that `GetMeta` returned may be
  erased by a scan before its caller uses it (`failed`).
- The rollback of a transaction that has two entries of one name uses an entry it has freed.

Buffer manager:

- `buffer_manager.cpp:227`: `free_space` is an unsigned difference. `VarBuffer::Append` goes on when its
  request for space is refused, so the memory in use can exceed the limit, the difference wraps,
  and every later request is granted. (`overrun`.)
- `buffer_manager.cpp:182`: `RemoveClean` swaps out the set of spill files to delete and then deletes them
  one by one. An object that is evicted, loaded and made mutable again in between has its spill
  file deleted twice, which ends the process (1 worker, `Limit = 1`, `MaxLoads = 5`, invariant
  `failed # "File not found for deletion"`).
- `block_column_entry.cpp:313`: the operations of a delta checkpoint on columns come after the one on their block, but
  the lock of the block is not held between `CheckFlush` and `Save`. An append that begins in between writes
  to an object that becomes `kPersistent`, and an eviction drops what it wrote (`raced`).
- `block_entry.cpp:67`: the copy of a block that ALTER makes has `min_row_ts_` and `checkpoint_ts_` of the original.
  If both have to be flushed and the block is full, the first flush maps the columns, and the second meets
  `Save` of a `kMmap` object (`buffer_obj.cpp:208`) or `ToMmap` of a `kToMmap` one (line 283), which end the process
  ("Mapped for the original").
- Clean-up of an object that a statement uses (`late`): `PickForCleanup` of a loaded object ends the process
  (`buffer_obj.cpp:247`); a mapped one is unmapped under its reader.

Persistence manager:

- The test for room in the current object is made before the alignment is added, so an object can
  exceed the limit, which ends the process (`Sizes <- PaddedSizes`, invariant `failed # "exceeds limit"`).
- An upload may come after another thread removed the object (`failed`).
- `catalog.cpp:568`: `CurrentObjFinalize` and the serialization of the addresses are separate critical
  sections, and `txn_store.cpp:731` takes the object statistics of an import before it finalizes the object: a
  restart then finds the address of an object it does not know ("Failed to find object").
- A file that is written again or cleaned up after a checkpoint has its old object removed before the next
  checkpoint is durable (`stale`). Delta checkpoints lose deleted ranges: after a restart `RangesExact`
  says only that no live part is deleted.
- After replay the object of the empty files is an ordinary one, and cleaning one empty file deletes it.

Segments and compaction:

- `physical_compact.cpp:155`: `scan_ts` is above the timestamps of deletes that are logged and not applied; such a
  delete is neither seen by the scan nor repeated on the copy, and its rows come back (`late`).
- The blocks come from the snapshot at the begin timestamp and the rows from `scan_ts`: rows appended to a new
  block in between are not copied (`partial`).
- Between `CommitCompact` and the repeated deletes a reader sees rows that are deleted (`CurrentExact`
  excludes `prepared`).
- `segment_entry.cppm:287`: a delete that is rolled back stays in `delete_txns_`, and `SetNoDelete` fails for
  ever (`LeftBehind` in `CompactionEnds`).

## Fairness

`pipeline_live` assumes that some thread that can run runs, whenever a session
inside `Commit` or `Rollback`, the flush thread or the background thread has work.
That is weaker than fairness for each thread; with finitely many
transactions it is enough, since none of these threads spins. Nobody has to begin a
transaction or to end one.

`CheckpointTask` assumes that the background thread goes on while it has
a task it can proceed with, and that a session that has begun its statement goes
on, as long as the process runs. The blocking queue and the operating system's threads give that.
Triggers need not fire, and no session has to begin. The retry of a full checkpoint has no fairness to
offer: while it is refused the thread does nothing, and a retry that is awake only while some FLUSH
holds `ckp_begin_ts_` never succeeds. `FlushReturns` is therefore stated for behaviours in which FLUSH statements
come to an end (`FlushesEnd`).

`Compaction` assumes that a session that has written ends its transaction by a commit or a
rollback, that the flush thread applies what is logged, and that the tasks of a compaction
that has begun are executed. `PhysicalCompactFinish` repeats `SetNoDelete` until no delete is
registered; only the sessions can end that wait, which is why the first assumption is needed.
Nobody has to begin a transaction, and clean-up need not run.

## Proofs

The theorems hold for any sets of transactions and rows and any start timestamp, and
for any files, sizes and number of threads and operations of the persistence manager.
The assumptions are those named in the modules: checkpoint transactions are
transactions, timestamps are natural numbers, the threads are finitely many.

`TxnInvariant` has the invariant everything rests on, `IInv`. Besides the types
(`MgrType`, `TxnType`, `LogType`) it has three parts:

- `LocalInv` ties the transaction's state, timestamps and membership in `txn_map_`
  to the place of its thread. Without it nothing is known of a transaction that
  another thread holds a pointer to.
- `TsInv`: `committing_txns_` is exactly the set of transactions between
  `GetWriteCommitTS` and the critical section of `CleanupTxn`, and all of them are
  above `max_committed_ts_`. So the value that `CleanupTxn` writes is always larger.
- `SlotInv`: a transaction is in one place only of the slot map, `wait_flush_` and
  the batch, and it waits there. So it cannot be cleaned up.

`TxnManagerProofs` proves the last part and the theorems `TypeCorrect`,
`PointersOwned` and `MaxCommittedNeverBack`.

`TxnConflictProofs` adds `ConflictInv`, what a transaction knows of each one that
commits before it at every point of `CheckTxnConflict`: it is a candidate, was
refused, or is in the block versions by the time the candidates are collected. The
order of the two checks matters here: collecting first, then looking at the
block versions. A step after which no transaction relies on more than before
(`ReliesOnNoMore`) keeps it; the steps of the check itself, the deletes and
`GetWriteCommitTS` are proved one by one. Theorems: `FirstCommitterWinsAlways`, `MaxCommittedIsSafe`.

`TxnLogProofs` adds `LogInv`, that timestamps only grow from the file through the
batch and the queue to the slots, and `DurableInv`, that what is still to be applied
is written or about to be. Theorems: `LogInCommitOrder`, `LogWrittenAhead`.

`TxnStoreProofs` has what the pipeline promises outwards. `PipelineImplementsRowStore` is the
refinement: `CommitBottom` maps to a commit of `RowStore`, every other step to a stutter.
`StoreInv` is what the mapping needs: the batch is in commit order, after all that is applied and
before all that is not, so the new commit is the latest one; first committer wins gives
the rows. `CleanupBelowAll` rests on `BeginInv`: `beginned_txns_` has every transaction that began,
in the order of the begin timestamps, so the first reference that has not expired is the oldest.

`CheckpointTaskProofs` proves `FlushNeverBehindRetry` and `FlagLeftOnlyByGiveUp`, for any sessions, commands
and triggers. As long as no command has cleared the flag of a queued task there is at most one
task that the flag was set for, and a waiting FLUSH owns it (`OneTask`, `WaitingHasTask`). For the second
theorem each action is shown to leave the flag with a task, or unset; the one that cannot is `GiveUpDelta`.

`PersistenceInvariant` and `PersistenceManagerProofs` prove `RefCountAlwaysExact`. `RefCountExact`
alone is not inductive. The counts are of objects, the readers hold paths, and the
address of a path can change under them. The invariant `Good` therefore adds:

- a path that is read has an address, below the next key, and nobody is about to place it
  (`ReadersOK`). So the object that `PutObjCache` counts down is the one `GetObjCache` counted up;
- the current object is not one of the finalized ones, and all keys are below the next one
  (`ManagerOK`). So a new object starts without readers, and finalizing hands the count over;
- what checkpoints and imports have stored has counts of zero (`IsStored`), which is what a restart
  begins with. For the addresses that an import collects this needs `MineOK`: its files
  keep their addresses until it is logged.

The sections under the mutex keep `ManagerOK` for any readers (`FinalizeOK`, `CleanupOK`); then there
is one lemma for each action. The invariant says nothing of states after an
`UnrecoverableError`, as the process ends there.

Only model-checked: liveness (`CommitEnds`, `DeltaMerged`, `FlushReturns`), which
needs fairness and is out of the prover's reach, and `CompactionEnds` for the same reason;
so far also `MergedIsPrefix`, all of `Checkpoint`, `EntryList`, `Buffer` and `Compaction`, and the
other properties of `PersistenceManager`. `MaxCommittedMonotone` is proved and is in no run.

## Not modelled

- Power failure. The log is flushed to the operating system, never synced, so the
  code promises nothing there.
- File operations that fail without a crash, and the checksum of log entries. A log
  entry is whole or missing.
- Shutdown; followers and learners.
- Replay of catalog entries, and the nesting of databases, tables and indexes in
  `EntryList`. Locks on tables.
- In `Buffer` the layout of files by the kinds of file workers.
- In `PersistenceManager` the footer of a composed object, which nobody reads, and the eviction
  of local objects over a disk limit: the constructor makes no accessor but the one without
  eviction. The test for a local file and the change of its status in `GetObjCache` are one step.
- In `Compaction` deletes over several segments, hence the order in which
  `CheckDeleteConflict` takes several locks; parallel groups in one compaction; the layers by which
  automatic compaction chooses segments; index conflicts of a compaction, which refuse it or not;
  a COMPACT that fails between marking its segments and `Compact()`, which leaves them marked.
- `CommitBottom` writes the timestamps of entries without the lock of the list; a read that
  races such a write sees the old or the new value, never a mixture.
- The two-pointer merge of deleted offsets (`txn_store.cpp:431`), which needs sorted lists: the rows of
  a transaction are a set.
- The parts listed as `not_modelled` in `PROJECT.json`. The parser, the planner, the
  expressions, the index structures, the column vectors and the network front ends are most of the lines
  of the repository. They are sequential code without shared state, or numerical code, or
  generated, and a state model would show nothing about them.

## Plan

1. Algorithms: the two-pointer conflict test against set intersection,
   `PruneOpWithSamePrefix` against a definition by prefixes, the DBT compaction policy.
2. Deletes over several segments with the locks of `CheckDeleteConflict`.
3. Storage modes with shutdown, the memory index tracer, the compaction processor.
4. `Cluster`: roles, heartbeats, synchronisation of logs. Then the task scheduler.

Proofs to add: `MergedIsPrefix`, the order properties of `Checkpoint`, `DeleteTargetKept`,
and `RangesExact`.
