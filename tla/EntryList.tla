----------------------------- MODULE EntryList -----------------------------
(***************************************************************************)
(* The versions of one name of the catalog (a database, a table or an      *)
(* index): MetaMap, EntryList, the entries a transaction adds and drops,   *)
(* their commit and rollback, and the clean-up scan.                       *)
(*                                                                         *)
(* A step is one critical section.  MetaMap::rw_locker_ and the list's     *)
(* rw_locker_ are taken hand over hand, so an operation on an existing     *)
(* meta is one step; GetMeta of a missing name lets go of the map in       *)
(* between, PickCleanup lets go of the list while it descends into an      *)
(* entry, and CommitBottom takes no lock of the list at all.               *)
(*                                                                         *)
(* An entry is known by the order of its creation (id); dir is the         *)
(* directory of its files, which a clone made by ALTER shares with its     *)
(* source.  The list's nodes keep their place when std::remove_if moves    *)
(* the entries between them and the last nodes are destroyed, so that an   *)
(* iterator is a position.  Undefined behaviour (a destroyed meta, node or *)
(* entry is used) ends a behaviour with failed.                            *)
(***************************************************************************)
EXTENDS Naturals, Sequences, FiniteSets, SequencesExt

CONSTANTS
    Txns,          \* transactions, each with its session
    MaxOps,        \* bound on the CREATEs and DROPs of one transaction
    MaxAlters,     \* bound on the ALTERs
    MaxEntries,    \* bound on the entries that are made
    MaxScans,      \* bound on the scans of the clean-up task
    None

ASSUME EntryListAssumption ==
    /\ IsFiniteSet(Txns) /\ None \notin Txns
    /\ MaxOps \in Nat /\ MaxAlters \in Nat
    /\ MaxEntries \in Nat /\ MaxScans \in Nat

VARIABLES
    current_ts,    \* TxnManager::current_ts_
    txns,          \* the transactions
    present,       \* meta_map_ holds a meta for the name
    gen,           \* how many metas were made for it: the identity of the meta
    entry_list,    \* EntryList::entry_list_ of the meta, newest version first
    next_id,       \* number of the next entry
    dirs,          \* directories on disk
    freed,         \* entries whose object was destroyed
    alters,        \* entries that ALTER made, with the ones they copy
    scan,          \* the clean-up task
    scans,         \* how many scans it began
    shifted,       \* a rollback has moved entries under its iterator
    failed         \* the undefined behaviour that was met, or ""
vars == <<current_ts, txns, present, gen, entry_list, next_id, dirs, freed,
          alters, scan, scans, shifted, failed>>

UNCOMMIT_TS == 2 * Cardinality(Txns) + 2

Entry(id, t, begin, commit, deleted, dir) ==
    [id |-> id, txn |-> t, begin |-> begin, commit |-> commit,
     deleted |-> deleted, dir |-> dir]
Committed(e) == e.commit # UNCOMMIT_TS

Idle == [pc |-> "idle", visible_ts |-> 0, iter |-> 0, picked |-> <<>>,
         may_empty |-> FALSE]
NewTxn == [state |-> "none", begin |-> 0, commit |-> 0, ops |-> 0,
           owned |-> {},       \* TxnStore::txn_tables_ or txn_dbs_
           store |-> None,     \* the entry of its TxnTableStore
           held |-> None,      \* the entry its statement was bound to
           early |-> FALSE,    \* it was bound before commits it must see
           pc |-> "",          \* inside MetaMap::GetMeta or CommitBottom
           meta |-> 0]         \* the meta GetMeta returns

(* The name is unused, or has one version from an earlier checkpoint.      *)
Init ==
    /\ current_ts = 0
    /\ txns = [t \in Txns |-> NewTxn]
    /\ \/ present = FALSE /\ gen = 0 /\ entry_list = <<>>
       \/ present = TRUE /\ gen = 1
          /\ entry_list = <<Entry(1, None, 0, 0, FALSE, 1)>>
    /\ next_id = 2
    /\ dirs = {e.dir : e \in Range(entry_list)} /\ freed = {} /\ alters = {}
    /\ scan = Idle /\ scans = 0 /\ shifted = FALSE
    /\ failed = ""

-----------------------------------------------------------------------------
(* TxnManager                                                              *)

Started(t) == txns[t].state = "Started" /\ txns[t].pc = ""

(* A transaction that is not in txn_map_ any more counts as committed.     *)
GetTxnState(t) ==
    IF txns[t].state = "gone" THEN "Committed" ELSE txns[t].state

Alive == {t \in Txns : txns[t].state \notin {"none", "gone"}}

BeginTxn(t) ==
    /\ txns[t].state = "none"
    /\ txns' = [txns EXCEPT ![t].state = "Started",
                            ![t].begin = current_ts + 1]
    /\ UNCHANGED <<current_ts, present, gen, entry_list, next_id, dirs,
                   freed, alters, scan, scans, shifted, failed>>

(* The first transaction that has not ended bounds what may be cleaned.    *)
Mut_FirstUncommitted ==
    IF Alive = {} THEN current_ts
    ELSE Max({txns[t].begin : t \in Alive})
FirstUncommitted ==
    IF Alive = {} THEN current_ts
    ELSE Min({txns[t].begin : t \in Alive})
GetCleanupScanTS(last_checkpoint_ts) ==
    Min({FirstUncommitted, last_checkpoint_ts})

-----------------------------------------------------------------------------
(* EntryList                                                               *)

(* FindEntryNoLock: the verdict of the first entry whose transaction was   *)
(* not rolled back.                                                        *)
RolledBack(e) ==
    ~Committed(e) /\ GetTxnState(e.txn) \in {"Rollbacking", "Rollbacked"}
Mut_FindSkipsStarted(t) ==
    LET live == {i \in 1..Len(entry_list) :
                    \/ Committed(entry_list[i])
                    \/ entry_list[i].txn = t
                    \/ GetTxnState(entry_list[i].txn) = "Committing"}
        e == entry_list[Min(live)]
    IN  CASE live = {} -> "NotFound"
          [] live # {} /\ Committed(e) ->
                IF txns[t].begin < e.commit THEN "Conflict"
                ELSE IF e.deleted THEN "NotFound" ELSE "Found"
          [] live # {} /\ ~Committed(e) ->
                IF e.txn # t THEN "Conflict"
                ELSE IF e.deleted THEN "UncommittedDelete" ELSE "Uncommitted"
Mut_FindNoConflict(t) ==
    LET live == {i \in 1..Len(entry_list) : ~RolledBack(entry_list[i])}
        e == entry_list[Min(live)]
    IN  CASE live = {} -> "NotFound"
          [] live # {} /\ Committed(e) ->
                IF e.deleted THEN "NotFound" ELSE "Found"
          [] live # {} /\ ~Committed(e) ->
                IF e.txn # t THEN "Conflict"
                ELSE IF e.deleted THEN "UncommittedDelete" ELSE "Uncommitted"
FindEntryNoLock(t) ==
    LET live == {i \in 1..Len(entry_list) : ~RolledBack(entry_list[i])}
        e == entry_list[Min(live)]
    IN  CASE live = {} -> "NotFound"
          [] live # {} /\ Committed(e) ->
                IF txns[t].begin < e.commit THEN "Conflict"
                ELSE IF e.deleted THEN "NotFound" ELSE "Found"
          [] live # {} /\ ~Committed(e) ->
                IF e.txn # t THEN "Conflict"
                ELSE IF e.deleted THEN "UncommittedDelete" ELSE "Uncommitted"

(* GetEntryInner1NoLock at a timestamp: the first entry that is committed  *)
(* by then or the transaction's own.                                       *)
Lookup(list, t, ts) ==
    LET seen == {i \in 1..Len(list) :
                    IF Committed(list[i]) THEN ts >= list[i].commit
                    ELSE list[i].txn = t}
    IN  IF seen = {} \/ list[Min(seen)].deleted THEN None
        ELSE list[Min(seen)].id

(* An iterator of the scan moves with the entries pushed before it; node 0 *)
(* is one that was destroyed.                                              *)
Pushed(it) == IF it = 0 THEN 0 ELSE it + 1

PushFront(e) ==
    /\ entry_list' = <<e>> \o entry_list
    /\ next_id' = next_id + 1
    /\ scan' = [scan EXCEPT !.iter = Pushed(scan.iter)]

NewEntry(t, deleted, dir) ==
    Entry(next_id, t, txns[t].begin, UNCOMMIT_TS, deleted, dir)

(* AddEntry and TxnStore::AddTableStore or AddDBStore.  A name that exists *)
(* or is in conflict fails the statement, see StartRollback, or with IF    *)
(* NOT EXISTS does nothing.                                                *)
CanAdd(t) == FindEntryNoLock(t) \in {"NotFound", "UncommittedDelete"}
AddEntry(t) ==
    /\ CanAdd(t)
    /\ PushFront(NewEntry(t, FALSE, next_id))
    /\ txns' = [txns EXCEPT ![t].ops = @ + 1, ![t].pc = "",
                            ![t].owned = @ \cup {next_id}]
    /\ dirs' = dirs \cup {next_id}

CanDdl(t) ==
    /\ Started(t) /\ txns[t].held = None
    /\ txns[t].ops < MaxOps /\ next_id <= MaxEntries

(* MetaMap::GetMeta finds the meta and keeps the shared lock.              *)
Create(t) ==
    /\ CanDdl(t)
    /\ present
    /\ AddEntry(t)
    /\ UNCHANGED <<current_ts, present, gen, freed, alters, scans, shifted,
                   failed>>

(* MetaMap::GetMeta does not find it and unlocks the map ...               *)
GetMetaMiss(t) ==
    /\ CanDdl(t)
    /\ ~present
    /\ txns' = [txns EXCEPT ![t].pc = "miss"]
    /\ UNCHANGED <<current_ts, present, gen, entry_list, next_id, dirs,
                   freed, alters, scan, scans, shifted, failed>>

(* ... makes one under the exclusive lock, unless another session has done *)
(* so by now, and unlocks the map again ...                                *)
GetMetaEmplace(t) ==
    /\ txns[t].pc = "miss"
    /\ present' = TRUE
    /\ gen' = IF present THEN gen ELSE gen + 1
    /\ txns' = [txns EXCEPT ![t].pc = "gap", ![t].meta = gen']
    /\ UNCHANGED <<current_ts, entry_list, next_id, dirs, freed, alters,
                   scan, scans, shifted, failed>>

(* ... and uses the meta once it has the shared lock.                      *)
CreateInMeta(t) ==
    /\ txns[t].pc = "gap"
    /\ \/ /\ present /\ txns[t].meta = gen
          /\ AddEntry(t)
          /\ UNCHANGED failed
       \/ /\ present /\ txns[t].meta = gen /\ ~CanAdd(t)
          /\ txns' = [txns EXCEPT ![t].pc = ""]
          /\ UNCHANGED <<entry_list, next_id, dirs, scan, failed>>
       \/ /\ ~(present /\ txns[t].meta = gen)
          /\ failed' = "meta"
          /\ UNCHANGED <<txns, entry_list, next_id, dirs, scan>>
    /\ UNCHANGED <<current_ts, present, gen, freed, alters, scans, shifted>>

(* DropEntry and TxnStore::DropTableStore or DropDBStore: an entry of the  *)
(* transaction itself is taken off the list and cleaned, a committed one   *)
(* is covered by an entry that says it is deleted.                         *)
Popped(it) == IF it = 0 THEN 0 ELSE it - 1
DropEntry(t) ==
    LET found == FindEntryNoLock(t)
        front == Head(entry_list)
    IN  /\ CanDdl(t)
        /\ present
        /\ \/ /\ found = "Uncommitted"
              /\ entry_list' = Tail(entry_list)
              /\ scan' = [scan EXCEPT !.iter = Popped(scan.iter)]
              /\ txns' = [txns EXCEPT ![t].ops = @ + 1,
                                      ![t].owned = @ \ {front.id}]
              /\ dirs' = dirs \ {front.dir}
              /\ freed' = freed \cup {front.id}
              /\ UNCHANGED next_id
           \/ /\ found = "Found"
              /\ PushFront(NewEntry(t, TRUE, None))
              /\ txns' = [txns EXCEPT ![t].ops = @ + 1,
                                      ![t].owned = @ \cup {next_id}]
              /\ UNCHANGED <<dirs, freed>>
        /\ UNCHANGED <<current_ts, present, gen, alters, scans, shifted,
                       failed>>

(* Every commit that is older than the transaction has been applied.       *)
Settled(t) ==
    \A u \in Txns : txns[u].pc \in {"check", "wait"}
                       => txns[u].commit > txns[t].begin

(* GetEntry: a statement is bound to the version its transaction sees.     *)
GetEntry(t) ==
    /\ Started(t)
    /\ txns[t].held = None /\ txns[t].ops = 0
    /\ Lookup(entry_list, t, txns[t].begin) # None
    /\ txns' = [txns EXCEPT ![t].held = Lookup(entry_list, t, txns[t].begin),
                            ![t].early = ~Settled(t)]
    /\ UNCHANGED <<current_ts, present, gen, entry_list, next_id, dirs,
                   freed, alters, scan, scans, shifted, failed>>

(* Txn::AddColumns and DropColumns: TableEntry::Clone copies the entry the *)
(* statement is bound to, commit_ts_ included, and AddEntry with           *)
(* add_if_found puts the copy on the list.  The copy is in the             *)
(* transaction's TxnTableStore and not in txn_tables_.                     *)
AlterTable(t) ==
    LET found == FindEntryNoLock(t)
        src == CHOOSE i \in 1..Len(entry_list) :
                   entry_list[i].id = txns[t].held
        clone == Entry(next_id, t, txns[t].begin, entry_list[src].commit,
                       FALSE, entry_list[src].dir)
    IN  /\ Started(t)
        /\ txns[t].ops = 0
        /\ txns[t].store = None
        /\ Cardinality(alters) < MaxAlters /\ next_id <= MaxEntries
        /\ \E i \in 1..Len(entry_list) : entry_list[i].id = txns[t].held
        /\ found # "Conflict"
        /\ PushFront(clone)
        /\ alters' = alters \cup
              {[id |-> next_id, src |-> txns[t].held,
                stale |-> txns[t].held # Lookup(entry_list, t, txns[t].begin)]}
        /\ txns' = [txns EXCEPT ![t].store = next_id]
        /\ UNCHANGED <<current_ts, present, gen, dirs, freed, scans, shifted,
                       failed>>

-----------------------------------------------------------------------------
(* Commit and rollback                                                     *)

(* A transaction that changed nothing just ends.                           *)
CommitReadOnly(t) ==
    /\ Started(t)
    /\ txns[t].owned = {} /\ txns[t].store = None
    /\ txns' = [txns EXCEPT ![t] = [NewTxn EXCEPT !.state = "gone"]]
    /\ UNCHANGED <<current_ts, present, gen, entry_list, next_id, dirs,
                   freed, alters, scan, scans, shifted, failed>>

(* GetWriteCommitTS and SetTxnCommitting.                                  *)
StartCommit(t) ==
    /\ Started(t)
    /\ txns[t].owned # {} \/ txns[t].store # None
    /\ current_ts' = current_ts + 2
    /\ txns' = [txns EXCEPT ![t].state = "Committing", ![t].pc = "check",
                            ![t].commit = current_ts + 2]
    /\ UNCHANGED <<present, gen, entry_list, next_id, dirs, freed, alters,
                   scan, scans, shifted, failed>>

(* CheckTxnConflict: the table a transaction has a TxnTableStore of must   *)
(* still be the one it finds, and no transaction committing before it may  *)
(* have added or dropped it.                                               *)
Conflicts(t) ==
    /\ txns[t].store # None
    /\ \/ Lookup(entry_list, t, txns[t].commit) # txns[t].store
       \/ \E u \in Alive : /\ txns[u].commit \in 1..(txns[t].commit - 1)
                           /\ txns[u].owned # {}
CheckTxnConflict(t) ==
    /\ txns[t].pc = "check"
    /\ txns' = IF Conflicts(t)
               THEN [txns EXCEPT ![t].state = "Rollbacking", ![t].pc = "undo"]
               ELSE [txns EXCEPT ![t].pc = "wait"]
    /\ UNCHANGED <<current_ts, present, gen, entry_list, next_id, dirs,
                   freed, alters, scan, scans, shifted, failed>>

(* CommitBottom, in the order of the commit timestamps and without a lock  *)
(* of the list: one entry at a time gets its timestamp.                    *)
Turn(t) ==
    \A u \in Txns : txns[u].pc \in {"check", "wait"}
                       => txns[u].commit >= txns[t].commit
Pending(t) ==
    {i \in 1..Len(entry_list) : /\ entry_list[i].id \in txns[t].owned
                                /\ ~Committed(entry_list[i])}
CommitEntry(t) ==
    /\ txns[t].pc = "wait"
    /\ Turn(t)
    /\ \E i \in Pending(t) :
          entry_list' = [entry_list EXCEPT ![i].commit = txns[t].commit]
    /\ UNCHANGED <<current_ts, txns, present, gen, next_id, dirs, freed,
                   alters, scan, scans, shifted, failed>>
CommitBottomDone(t) ==
    /\ txns[t].pc = "wait"
    /\ Turn(t)
    /\ Pending(t) = {}
    /\ txns' = [txns EXCEPT ![t].pc = "applied"]
    /\ UNCHANGED <<current_ts, present, gen, entry_list, next_id, dirs,
                   freed, alters, scan, scans, shifted, failed>>

(* Txn::Rollback of a statement that failed.                               *)
StartRollback(t) ==
    /\ Started(t)
    /\ txns' = [txns EXCEPT ![t].state = "Rollbacking", ![t].pc = "undo"]
    /\ UNCHANGED <<current_ts, present, gen, entry_list, next_id, dirs,
                   freed, alters, scan, scans, shifted, failed>>

(* TxnStore::Rollback, one entry of txn_tables_ or txn_dbs_ after another: *)
(* Cleanup deletes the directory of an entry that says not deleted, and    *)
(* DeleteEntry takes every entry of the transaction off the list.          *)
Own(t) == {i \in 1..Len(entry_list) : entry_list[i].txn = t}
RollbackEntry(t) ==
    /\ txns[t].pc = "undo"
    /\ \E id \in txns[t].owned :
          IF id \in freed
          THEN /\ failed' = "entry"
               /\ UNCHANGED <<txns, entry_list, scan, shifted, dirs, freed>>
          ELSE LET kept == SelectSeq(entry_list, LAMBDA e : e.txn # t)
                   e == entry_list[CHOOSE i \in Own(t) : entry_list[i].id = id]
               IN  /\ entry_list' = kept
                   /\ scan' = [scan EXCEPT !.iter =
                                   IF @ > Len(kept) THEN 0 ELSE @]
                   /\ shifted' = (shifted \/ \E i \in Own(t) : i < scan.iter)
                   /\ dirs' = dirs \ {e.dir}
                   /\ freed' = freed \cup {entry_list[i].id : i \in Own(t)}
                   /\ txns' = [txns EXCEPT ![t].owned = @ \ {id},
                                           ![t].held = None]
                   /\ UNCHANGED failed
    /\ UNCHANGED <<current_ts, present, gen, next_id, alters, scans>>

(* TxnManager::CleanupTxn: the transaction leaves txn_map_.                *)
CleanupTxn(t) ==
    /\ \/ txns[t].pc = "applied"
       \/ txns[t].pc = "undo" /\ txns[t].owned = {}
    /\ txns' = [txns EXCEPT ![t] = [NewTxn EXCEPT !.state = "gone"]]
    /\ UNCHANGED <<current_ts, present, gen, entry_list, next_id, dirs,
                   freed, alters, scan, scans, shifted, failed>>

-----------------------------------------------------------------------------
(* CleanupTask: CleanupScanner::Scan and Cleanup                           *)

(* CreateCleanupTask takes the timestamp, which it makes exclusive; then   *)
(* MetaMap::PickCleanup collects the metas.                                *)
PickMetas ==
    /\ scan.pc = "idle"
    /\ present
    /\ scans < MaxScans
    /\ scans' = scans + 1
    /\ \E ckp \in {ts \in 0..current_ts : ts % 2 = 0} :
          scan' = [Idle EXCEPT !.pc = "pick",
                               !.visible_ts = GetCleanupScanTS(ckp) + 1]
    /\ UNCHANGED <<current_ts, txns, present, gen, entry_list, next_id, dirs,
                   freed, alters, shifted, failed>>

(* The second loop of EntryList::PickCleanup, from a position on: what is  *)
(* committed is taken off the list; an entry that is not a deletion goes   *)
(* to the scanner, its files with it if it is the last before a deletion.  *)
Rest(from) == {i \in from..Len(entry_list) : Committed(entry_list[i])}
Mut_FilesNever(from, i, dropped) == FALSE
FilesToo(from, i, dropped) ==
    LET before == {j \in Rest(from) : j < i}
    IN  IF before = {} THEN dropped ELSE entry_list[Max(before)].deleted
PickRest(from, dropped, erased) ==
    LET picks == SelectSeq([k \in 1..Len(entry_list) |-> k],
                     LAMBDA i : i \in Rest(from) /\ ~entry_list[i].deleted)
        gone == Rest(from) \cup erased
        kept == SelectSeq([k \in 1..Len(entry_list) |-> k],
                     LAMBDA i : i \notin gone)
        left == [k \in 1..Len(kept) |-> entry_list[kept[k]]]
    IN  /\ entry_list' = left
        /\ freed' = freed \cup {entry_list[i].id :
                                   i \in {j \in gone : entry_list[j].deleted}}
        /\ scan' = [scan EXCEPT
              !.pc = "erase", !.iter = 0, !.may_empty = left = <<>>,
              !.picked = [k \in 1..Len(picks) |->
                             [id |-> entry_list[picks[k]].id,
                              dir |-> entry_list[picks[k]].dir,
                              dropped |-> FilesToo(from, picks[k], dropped)]]]

(* EntryList::PickCleanup: the first version everybody sees is found; a    *)
(* deletion goes at once, for another version the list is unlocked ...     *)
FirstVisible ==
    {i \in 1..Len(entry_list) : entry_list[i].commit < scan.visible_ts}
PickCleanup ==
    /\ scan.pc = "pick"
    /\ IF FirstVisible = {}
       THEN PickRest(Len(entry_list) + 1, TRUE, {})
       ELSE LET i == Min(FirstVisible)
            IN  IF entry_list[i].deleted
                THEN PickRest(i + 1, TRUE, {i})
                ELSE /\ scan' = [scan EXCEPT !.pc = "descend", !.iter = i]
                     /\ UNCHANGED <<entry_list, freed>>
    /\ UNCHANGED <<current_ts, txns, present, gen, next_id, dirs, alters,
                   scans, shifted, failed>>

(* ... and locked again, and the scan goes on behind it.                   *)
PickCleanupResume ==
    /\ scan.pc = "descend"
    /\ IF scan.iter = 0
       THEN /\ failed' = "iterator"
            /\ UNCHANGED <<entry_list, freed, scan>>
       ELSE PickRest(scan.iter + 1, FALSE, {}) /\ UNCHANGED failed
    /\ UNCHANGED <<current_ts, txns, present, gen, next_id, dirs, alters,
                   scans, shifted>>

(* MetaMap::PickCleanup erases the empty metas.                            *)
EraseMetas ==
    /\ scan.pc = "erase"
    /\ present' = IF scan.may_empty /\ entry_list = <<>> THEN FALSE
                  ELSE present
    /\ scan' = [scan EXCEPT !.pc = "clean"]
    /\ UNCHANGED <<current_ts, txns, gen, entry_list, next_id, dirs, freed,
                   alters, scans, shifted, failed>>

(* CleanupScanner::Cleanup, one entry after another.                       *)
Cleanup ==
    /\ scan.pc = "clean"
    /\ IF scan.picked = <<>>
       THEN scan' = Idle /\ UNCHANGED <<dirs, freed>>
       ELSE LET p == Head(scan.picked)
            IN  /\ scan' = [scan EXCEPT !.picked = Tail(@)]
                /\ freed' = freed \cup {p.id}
                /\ dirs' = IF p.dropped THEN dirs \ {p.dir} ELSE dirs
    /\ UNCHANGED <<current_ts, txns, present, gen, entry_list, next_id,
                   alters, scans, shifted, failed>>

Finished ==
    /\ \/ failed # ""
       \/ scan.pc = "idle" /\ \A t \in Txns : txns[t].state = "gone"
    /\ UNCHANGED vars

Ddl(t) ==
    Create(t) \/ GetMetaMiss(t) \/ GetMetaEmplace(t) \/ CreateInMeta(t)
        \/ DropEntry(t) \/ AlterTable(t)
Session(t) ==
    \/ BeginTxn(t) \/ Ddl(t) \/ GetEntry(t)
    \/ CommitReadOnly(t) \/ StartCommit(t) \/ CheckTxnConflict(t)
    \/ CommitEntry(t) \/ CommitBottomDone(t)
    \/ StartRollback(t) \/ RollbackEntry(t) \/ CleanupTxn(t)
CleanupTask ==
    PickMetas \/ PickCleanup \/ PickCleanupResume \/ EraseMetas \/ Cleanup

Next ==
    \/ failed = "" /\ \E t \in Txns : Session(t)
    \/ failed = "" /\ CleanupTask
    \/ Finished

Spec == Init /\ [][Next]_vars

-----------------------------------------------------------------------------
Ids == 1..(next_id - 1)
Clones == {a.id : a \in alters}
Copied == {a.src : a \in alters}

(* No ALTER has copied a version that was not the current one any more:    *)
(* its statement was bound before a commit it had to see was applied.      *)
Regular == \A a \in alters : ~a.stale

(* The type of the state; what is on the list is alive, and a name without *)
(* a meta has no versions (MetaMap::PickCleanup erases empty metas only).  *)
TypeOK ==
    /\ current_ts \in Nat
    /\ \A t \in Txns :
          /\ txns[t].state \in {"none", "Started", "Committing",
                                "Rollbacking", "gone"}
          /\ txns[t].owned \subseteq Ids
          /\ txns[t].held \in Ids \cup {None}
          /\ txns[t].pc \in {"", "miss", "gap", "check", "wait", "applied",
                             "undo"}
    /\ present \in BOOLEAN /\ gen \in Nat
    /\ \A i \in 1..Len(entry_list) :
          /\ entry_list[i].id \in Ids \ freed
          /\ entry_list[i].txn \in Txns \cup {None}
          /\ entry_list[i].deleted <=> entry_list[i].dir = None
    /\ ~present => entry_list = <<>>
    /\ scan.pc \in {"idle", "pick", "descend", "erase", "clean"}

(* The versions that no ALTER made and that are not being rolled back.     *)
Plain == {i \in 1..Len(entry_list) : /\ entry_list[i].id \notin Clones
                                    /\ ~RolledBack(entry_list[i])}

(* The state is well formed, and the list is newest first: an entry that   *)
(* is not committed, or is committed later, is in front of the earlier     *)
(* ones of the other transactions.                                         *)
VersionsOrdered ==
    /\ TypeOK
    /\ \A i, j \in Plain :
        i < j /\ entry_list[i].txn # entry_list[j].txn
        => entry_list[i].commit >= entry_list[j].commit

(* Two transactions never both change the name from the same snapshot: the *)
(* later version's transaction began after the earlier version committed.  *)
FirstDdlWins ==
    Regular =>
        \A i, j \in Plain :
            /\ i < j /\ entry_list[i].txn # entry_list[j].txn
            /\ Committed(entry_list[i]) /\ Committed(entry_list[j])
            => entry_list[i].begin >= entry_list[j].commit

(* DropEntry takes front() off the list although FindEntryNoLock may have  *)
(* skipped entries that are being rolled back: whenever it finds the       *)
(* transaction's own entry, that entry is the front one.                   *)
FrontIsOwn ==
    \A t \in Txns :
        txns[t].state = "Started" /\ FindEntryNoLock(t) = "Uncommitted"
        => Head(entry_list).txn = t

(* A version a running statement is bound to is not destroyed by the       *)
(* clean-up task, once the commits the transaction must see are applied.   *)
HeldAlive ==
    Regular => \A t \in Alive : ~txns[t].early => txns[t].held \notin freed \ Copied

(* The files of a version that is still listed are on disk.                *)
DirKept ==
    Regular =>
        \A i \in 1..Len(entry_list) :
            entry_list[i].deleted \/ entry_list[i].dir \in dirs

(* And no others: outside of scans and rollbacks every directory belongs   *)
(* to a version that is listed, whatever was dropped, undone or cleaned.   *)
NoDirLeaked ==
    Regular /\ ~shifted /\ scan.pc = "idle" /\ (\A t \in Txns : txns[t].pc # "undo") =>
        \A d \in dirs : \E i \in 1..Len(entry_list) : entry_list[i].dir = d

(* PickCleanup and rollbacks neither remove the files of a version that    *)
(* can still be found nor leave files behind that nothing refers to.       *)
DirsExact == DirKept /\ NoDirLeaked

(* What a running transaction sees of the name does not change under it    *)
(* once the commits it must see are applied: not by other transactions'    *)
(* statements, commits and rollbacks, and not by the clean-up task.  Only  *)
(* its own statements change it, and the ALTER of another transaction.     *)
SnapshotStable ==
    [][\A t \in Txns :
          /\ txns[t].state = "Started" /\ Settled(t)
          /\ txns'[t] = txns[t] /\ alters' = alters /\ failed' = ""
          => Lookup(entry_list', t, txns[t].begin)
                = Lookup(entry_list, t, txns[t].begin)]_vars
=============================================================================
