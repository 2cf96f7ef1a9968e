---------------------------- MODULE Compaction ----------------------------
(***************************************************************************)
(* The segments of one table while a compaction replaces some of them:     *)
(* statements that bind a block index, deletes and appends with their      *)
(* commit, PhysicalCompact, PhysicalCompactFinish, the commit and the      *)
(* rollback of a compaction, and the clean-up of deprecated segments.      *)
(*                                                                         *)
(* A step is one critical section of the table, a segment or a block.  The *)
(* commit pipeline is the one of TxnManager, reduced to its stages: the    *)
(* commit timestamp is taken, the conflict check sends the transaction to  *)
(* the log or refuses it, and the flush thread applies the transactions in *)
(* the order of their timestamps, in two steps (PrepareCommit, Commit).    *)
(*                                                                         *)
(* A row is known by the place it was first stored at.  Which sealed       *)
(* segments are compacted together is left open, within the rules of       *)
(* GreedyCompactableSegmentsGenerator.  An UnrecoverableError ends a       *)
(* behaviour with failed.                                                  *)
(***************************************************************************)
EXTENDS Naturals, Sequences, FiniteSets, SequencesExt

CONSTANTS
    Deleters, Inserters,            \* transactions of the sessions
    Compactions,                    \* transactions of the compaction processor
    InitialRows,                    \* rows of each segment at the start
    BlockCapacity, SegmentCapacity,
    InsertRows,                     \* how many rows an insert may append
    Victims,                        \* bound on the rows that deletes pick
    MaxSegments,                    \* bound on the segments that are made
    None

ASSUME CompactionAssumption ==
    /\ InitialRows \in Seq(1..SegmentCapacity) /\ InitialRows # <<>>
    /\ BlockCapacity \in Nat \ {0} /\ SegmentCapacity \in Nat \ {0}
    /\ InsertRows \subseteq 1..SegmentCapacity /\ MaxSegments \in Nat
    /\ None \notin Deleters \cup Inserters \cup Compactions

Txns == Deleters \cup Inserters \cup Compactions
SegmentIds == 1..MaxSegments

VARIABLES
    current_ts,        \* TxnManager::current_ts_
    txns,              \* the transactions
    segment_map,       \* TableEntry::segment_map_
    next_segment_id,   \* TableEntry::next_segment_id_
    unsealed,          \* TableEntry::unsealed_segment_
    compact,           \* the operators of each compaction and its CompactStateData
    failed             \* the UnrecoverableError that was met, or ""
table == <<segment_map, next_segment_id, unsealed>>
vars == <<current_ts, txns, table, compact, failed>>

UNCOMMIT_TS == 2 * Cardinality(Txns) + 2

(* Segments, blocks and rows.  A row holds its create timestamp, or        *)
(* UNCOMMIT_TS as long as the version of its block does not know of it.    *)
Row(id, ts) == [id |-> id, ts |-> ts, deleted |-> 0]
NumBlocks(n) == (n + BlockCapacity - 1) \div BlockCapacity
BlockOf(offset) == NumBlocks(offset)
NoSegment == [status |-> "none", commit |-> 0, txn |-> None, deprecate |-> 0,
              rows |-> <<>>, blocks |-> <<>>, delete_txns |-> {},
              compact_state_data |-> None]
NewSegmentEntry(t) ==
    [NoSegment EXCEPT !.status = "kUnsealed", !.commit = UNCOMMIT_TS,
                      !.txn = t, !.deprecate = UNCOMMIT_TS]
NewBlockEntry(t) == [commit |-> UNCOMMIT_TS, txn |-> t]
InMap(s) == segment_map[s].status # "none"

NewTxn == [state |-> "none", begin |-> 0, commit |-> 0,
           block_index |-> {},   \* segments and blocks a statement was bound to
           rows |-> {},          \* delete_state_.rows_, or the rows appended
           ids |-> {},           \* the identity of these rows
           early |-> FALSE]      \* bound before a commit it must see was applied
NewCompact == [pc |-> "none", scan_ts |-> 0,
               old |-> <<>>,         \* the segments it replaces
               todo |-> <<>>,        \* blocks it still has to read
               read_offset |-> 1, new |-> 0, rows |-> <<>>,
               remapper |-> {}, to_delete |-> <<>>, next |-> 1,
               late |-> FALSE,       \* deletes before scan_ts not applied yet
               partial |-> FALSE]    \* blocks missing from its block index

(* Imported segments: sealed; the last one is still appended to.           *)
Init ==
    /\ current_ts = 0
    /\ txns = [t \in Txns |-> NewTxn]
    /\ segment_map = [s \in SegmentIds |->
         IF s > Len(InitialRows) THEN NoSegment
         ELSE [NoSegment EXCEPT
                 !.status = IF s = Len(InitialRows) THEN "kUnsealed"
                                                    ELSE "kSealed",
                 !.deprecate = UNCOMMIT_TS,
                 !.rows = [o \in 1..InitialRows[s] |-> Row(<<s, o>>, 0)],
                 !.blocks = [b \in 1..NumBlocks(InitialRows[s]) |->
                               [commit |-> 0, txn |-> None]]]]
    /\ next_segment_id = Len(InitialRows) + 1
    /\ unsealed = Len(InitialRows)
    /\ compact = [c \in Compactions |-> NewCompact]
    /\ failed = ""

-----------------------------------------------------------------------------
(* Transactions                                                            *)

Is(t, state) == failed = "" /\ txns[t].state = state
Fails(why) == /\ failed' = why
              /\ UNCHANGED <<current_ts, txns, table, compact>>
InTxnMap(t) == txns[t].state \notin {"none", "gone", "rolled_back"}
Committing == {"committing", "logged", "prepared", "committed"}

BeginTxn(t) ==
    /\ Is(t, "none")
    /\ txns' = [txns EXCEPT ![t].state = "started",
                            ![t].begin = current_ts + 1]
    /\ UNCHANGED <<current_ts, table, compact, failed>>

(* BaseEntry::CheckVisible and TxnManager::CheckIfCommitting               *)
CheckIfCommitting(u, begin) ==
    ~InTxnMap(u) \/ (txns[u].state \in Committing /\ txns[u].commit < begin)
EntryVisible(e, t) ==
    \/ txns[t].begin >= e.commit
    \/ e.txn # None /\ (e.txn = t \/ CheckIfCommitting(e.txn, txns[t].begin))
CheckVisible(s, t) ==
    txns[t].begin < segment_map[s].deprecate /\ EntryVisible(segment_map[s], t)

(* TableEntry::GetBlockIndex and BlockIndex::Insert                        *)
GetBlockIndex(t) ==
    {<<s, b>> \in SegmentIds \X (1..NumBlocks(SegmentCapacity)) :
       /\ InMap(s) /\ CheckVisible(s, t)
       /\ b <= Len(segment_map[s].blocks)
       /\ EntryVisible(segment_map[s].blocks[b], t)}

(* Some transaction has its timestamp but is not applied yet.              *)
Unapplied(u) == txns[u].state \in {"committing", "logged", "prepared"}
Early(t) == \E u \in Txns : Unapplied(u) /\ txns[u].commit < txns[t].begin

Bind(t) ==
    /\ Is(t, "started") /\ t \in Deleters
    /\ txns' = [txns EXCEPT ![t].state = "bound",
                            ![t].block_index = GetBlockIndex(t),
                            ![t].early = Early(t)]
    /\ UNCHANGED <<current_ts, table, compact, failed>>

(* BlockVersion: GetRowCount and CheckDelete.                              *)
CheckDelete(row, ts) == row.deleted # 0 /\ row.deleted <= ts
RowVisible(row, ts) == row.ts <= ts /\ ~CheckDelete(row, ts)

(* The rows the statement of t reads now.                                  *)
Places(s) == {<<s, o>> : o \in 1..Len(segment_map[s].rows)}
RowAt(p) == segment_map[p[1]].rows[p[2]]
Reads(t) ==
    {p \in UNION {Places(s) : s \in SegmentIds} :
       /\ <<p[1], BlockOf(p[2])>> \in txns[t].block_index
       /\ RowVisible(RowAt(p), txns[t].begin)}

(* Txn::Delete and SegmentEntry::CheckDeleteConflict: the segments are     *)
(* locked, a segment that is about to be replaced refuses the delete.      *)
Mut_DeleteConflict(s) == segment_map[s].status = "kDeprecated"
DeleteConflict(s) == segment_map[s].status \in {"kDeprecated", "kNoDelete"}
Delete(t) ==
    /\ Is(t, "bound") /\ t \in Deleters
    /\ \E p \in {q \in Reads(t) : RowAt(q).id \in Victims} :
         IF DeleteConflict(p[1])
         THEN /\ txns' = [txns EXCEPT ![t].state = "rolled_back"]
              /\ UNCHANGED segment_map
         ELSE /\ txns' = [txns EXCEPT ![t].state = "written",
                                      ![t].rows = {p},
                                      ![t].ids = {RowAt(p).id}]
              /\ segment_map' = [segment_map EXCEPT ![p[1]].delete_txns =
                                                      @ \cup {t}]
    /\ UNCHANGED <<current_ts, next_segment_id, unsealed, compact, failed>>

Insert(t) ==
    /\ Is(t, "started") /\ t \in Inserters
    /\ txns' = [txns EXCEPT ![t].state = "written"]
    /\ UNCHANGED <<current_ts, table, compact, failed>>

(* Txn::Rollback of a session: delete_txns_ keeps the transaction.         *)
Rollback(t) ==
    /\ failed = "" /\ t \notin Compactions
    /\ txns[t].state \in {"bound", "written"}
    /\ txns' = [txns EXCEPT ![t].state = "rolled_back"]
    /\ UNCHANGED <<current_ts, table, compact, failed>>

(* Txn::Commit of a session: the timestamp, the conflict check, SendToWAL. *)
CheckTxnConflict(t) ==
    \E u \in (Deleters \cup Compactions) \ {t} :
      /\ txns[u].state \in Committing \cup {"gone"}
      /\ t \in Deleters /\ txns[u].rows \cap txns[t].rows # {}
Commit(t) ==
    /\ Is(t, "written") /\ t \notin Compactions
    /\ current_ts' = current_ts + 2
    /\ txns' = [txns EXCEPT
                  ![t].commit = current_ts',
                  ![t].state = IF CheckTxnConflict(t) THEN "rolled_back"
                                                      ELSE "logged"]
    /\ UNCHANGED <<table, compact, failed>>

-----------------------------------------------------------------------------
(* The flush thread applies the logged transactions in order.              *)

Turn(t, state) ==
    /\ Is(t, state)
    /\ \A u \in Txns \ {t} : Unapplied(u) => txns[u].commit > txns[t].commit
Touched(t) == {p[1] : p \in txns[t].rows}

(* TableEntry::Delete and SegmentEntry::DeleteData on the rows of t; rows  *)
(* of a segment that left the map are passed over.                         *)
Deleted(t, map) ==
    [s \in SegmentIds |->
       [map[s] EXCEPT !.rows = [o \in DOMAIN @ |->
          IF <<s, o>> \in txns[t].rows
          THEN [@[o] EXCEPT !.deleted = txns[t].commit] ELSE @[o]]]]

PrepareDelete(t) ==
    /\ Turn(t, "logged") /\ t \in Deleters
    /\ segment_map' = Deleted(t, segment_map)
    /\ txns' = [txns EXCEPT ![t].state = "prepared"]
    /\ UNCHANGED <<current_ts, next_segment_id, unsealed, compact, failed>>

(* SegmentEntry::AppendData: n rows at the end of segment s.               *)
Appended(seg, s, n, t) ==
    LET old == Len(seg.rows)
    IN  [seg EXCEPT
           !.rows = [o \in 1..(old + n) |->
                       IF o <= old THEN @[o] ELSE Row(<<s, o>>, txns[t].commit)],
           !.blocks = [b \in 1..NumBlocks(old + n) |->
                         IF b <= Len(@) THEN @[b] ELSE NewBlockEntry(t)]]
NewPlaces(s, from, n) == {<<s, o>> : o \in from + 1 .. from + n}

(* TableEntry::AppendData: a full segment is sealed and another one begun. *)
AppendWithin(t, n) ==
    LET u == unsealed
        places == NewPlaces(u, Len(segment_map[u].rows), n)
    IN  /\ segment_map' = [segment_map EXCEPT ![u] = Appended(@, u, n, t)]
        /\ txns' = [txns EXCEPT ![t].state = "prepared",
                                ![t].rows = places, ![t].ids = places]
        /\ UNCHANGED <<next_segment_id, unsealed>>
AppendBeyond(t, room, rest) ==
    LET u == unsealed
        new == next_segment_id
        places == NewPlaces(u, Len(segment_map[u].rows), room)
                    \cup NewPlaces(new, 0, rest)
    IN  /\ new \in SegmentIds
        /\ segment_map' = [segment_map EXCEPT
              ![u] = [Appended(@, u, room, t) EXCEPT !.status = "kSealed"],
              ![new] = Appended(NewSegmentEntry(t), new, rest, t)]
        /\ txns' = [txns EXCEPT ![t].state = "prepared",
                                ![t].rows = places, ![t].ids = places]
        /\ next_segment_id' = new + 1 /\ unsealed' = new
PrepareAppend(t) ==
    LET room == SegmentCapacity - Len(segment_map[unsealed].rows)
    IN  /\ Turn(t, "logged") /\ t \in Inserters
        /\ \E n \in InsertRows :
             \/ n <= room /\ AppendWithin(t, n)
             \/ n > room /\ AppendBeyond(t, room, n - room)
        /\ UNCHANGED <<current_ts, compact, failed>>

(* SegmentEntry::CommitSegment for the segments in S, and CommitBlock.     *)
Mut_Erased(seg, t) == seg.delete_txns
Erased(seg, t) == seg.delete_txns \ {t}
Mut_Settled(e, ts) == e
Settled(e, ts) == IF e.commit = UNCOMMIT_TS THEN [e EXCEPT !.commit = ts] ELSE e
CommitSegment(t, S, map) ==
    [s \in SegmentIds |->
       IF s \notin S \/ map[s].status \in {"none", "kDeprecated"} THEN map[s]
       ELSE LET seg == map[s]
                ts == txns[t].commit
            IN  [Settled(seg, ts) EXCEPT
                   !.delete_txns = Erased(seg, t),
                   !.blocks = [b \in DOMAIN @ |->
                     IF seg.blocks[b].txn = t THEN Settled(@[b], ts) ELSE @[b]]]]

(* CommitSegment tells the compaction of a segment about the deletes.      *)
Compacting(t) == {c \in Compactions : \E s \in Touched(t) :
                     InMap(s) /\ segment_map[s].compact_state_data = c}
AddToDelete(t) ==
    IF t \notin Deleters THEN compact
    ELSE [c \in Compactions |->
            IF c \in Compacting(t)
            THEN [compact[c] EXCEPT !.to_delete =
                    Append(@, [ts |-> txns[t].commit, rows |-> txns[t].rows])]
            ELSE compact[c]]

CommitWrite(t) ==
    /\ Turn(t, "prepared") /\ t \notin Compactions
    /\ IF \E s \in Touched(t) :
            /\ segment_map[s].compact_state_data # None
            /\ segment_map[s].status \notin {"kCompacting", "kNoDelete",
                                             "kDeprecated"}
       THEN Fails("compact_task")
       ELSE /\ segment_map' = CommitSegment(t, Touched(t), segment_map)
            /\ compact' = AddToDelete(t)
            /\ txns' = [txns EXCEPT ![t].state = "committed"]
            /\ UNCHANGED <<current_ts, next_segment_id, unsealed, failed>>

(* TxnManager::CleanupTxn, and the end of a statement that only reads: a   *)
(* delete that matches no row.                                             *)
CleanupTxn(t) ==
    /\ failed = ""
    /\ txns[t].state = "committed" \/ (txns[t].state = "bound" /\ t \in Deleters)
    /\ txns' = [txns EXCEPT ![t].state = "gone"]
    /\ UNCHANGED <<current_ts, table, compact, failed>>

-----------------------------------------------------------------------------
(* The compaction                                                          *)

CompactAt(c, pc) == failed = "" /\ compact[c].pc = pc

BindCompact(c) ==
    /\ Is(c, "started") /\ c \in Compactions
    /\ txns' = [txns EXCEPT ![c].state = "bound",
                            ![c].block_index = GetBlockIndex(c)]
    /\ UNCHANGED <<current_ts, table, compact, failed>>

ActualRowCount(s) ==
    Cardinality({p \in Places(s) : RowAt(p).deleted = 0})
Candidates(c) == {s \in SegmentIds : /\ \E b \in 1..NumBlocks(SegmentCapacity) :
                                          <<s, b>> \in txns[c].block_index
                                     /\ segment_map[s].status = "kSealed"}
Groups(c) ==
    {S \in SUBSET Candidates(c) :
       /\ Cardinality({p \in UNION {Places(s) : s \in S} : RowAt(p).deleted = 0})
            <= SegmentCapacity
       /\ \/ Cardinality(S) > 1
          \/ \E s \in S : ActualRowCount(s) < Len(segment_map[s].rows)}
(* DBTCompactionAlg::Disable waits for the running compaction.             *)
Running(c) == compact[c].pc \in {"picked", "scan", "finish", "saved"}

(* PhysicalCompact::Init and TrySetCompacting                              *)
TrySetCompacting(c) ==
    /\ Is(c, "bound") /\ CompactAt(c, "none") /\ ~\E d \in Compactions : Running(d)
    /\ \E S \in Groups(c) :
         /\ segment_map' = [s \in SegmentIds |->
              IF s \in S THEN [segment_map[s] EXCEPT !.status = "kCompacting",
                                                     !.compact_state_data = c]
              ELSE segment_map[s]]
         /\ compact' = [compact EXCEPT ![c].pc = "picked",
                                       ![c].old = SetToSortSeq(S, <)]
    /\ UNCHANGED <<current_ts, txns, next_segment_id, unsealed, failed>>

NothingToCompact(c) ==
    /\ Is(c, "bound") /\ CompactAt(c, "none") /\ ~\E d \in Compactions : Running(d)
    /\ Groups(c) = {}
    /\ txns' = [txns EXCEPT ![c].state = "gone"]
    /\ UNCHANGED <<current_ts, table, compact, failed>>

Old(c) == Range(compact[c].old)
BlocksBefore(p, q) == p[1] < q[1] \/ (p[1] = q[1] /\ p[2] < q[2])
Late(c) == \E u \in Deleters : txns[u].state = "logged" /\ Touched(u) \cap Old(c) # {}
Partial(c) == \E s \in Old(c) : \E b \in 1..Len(segment_map[s].blocks) :
                 <<s, b>> \notin txns[c].block_index

SetScanTS(c) ==
    /\ CompactAt(c, "picked") /\ next_segment_id \in SegmentIds
    /\ next_segment_id' = next_segment_id + 1
    /\ compact' = [compact EXCEPT
         ![c].pc = "scan", ![c].scan_ts = current_ts + 1,
         ![c].new = next_segment_id,
         ![c].todo = SetToSortSeq({p \in txns[c].block_index : p[1] \in Old(c)},
                                  BlocksBefore),
         ![c].late = Late(c), ![c].partial = Partial(c)]
    /\ UNCHANGED <<current_ts, txns, segment_map, unsealed, failed>>

(* BlockEntry::GetVisibleRange of the block at hand                        *)
Mut_VisibleFrom(c) ==
    {o \in compact[c].read_offset + 1..Len(segment_map[compact[c].todo[1][1]].rows) :
       /\ BlockOf(o) = compact[c].todo[1][2]
       /\ RowVisible(segment_map[compact[c].todo[1][1]].rows[o],
                     compact[c].scan_ts)}
VisibleFrom(c) ==
    {o \in compact[c].read_offset..Len(segment_map[compact[c].todo[1][1]].rows) :
       /\ BlockOf(o) = compact[c].todo[1][2]
       /\ RowVisible(segment_map[compact[c].todo[1][1]].rows[o],
                     compact[c].scan_ts)}
GetVisibleRange(c) ==
    {o \in VisibleFrom(c) : \A q \in VisibleFrom(c) : q..o \subseteq VisibleFrom(c)}

(* Copy a range, or go on to the next block.                               *)
ScanRange(c) ==
    LET range == GetVisibleRange(c)
        s == compact[c].todo[1][1]
        first == CHOOSE o \in range : \A q \in range : o <= q
        n == Cardinality(range)
    IN  /\ CompactAt(c, "scan") /\ compact[c].todo # <<>>
        /\ \/ /\ range = {}
              /\ compact' = [compact EXCEPT ![c].todo = Tail(@),
                                            ![c].read_offset = 1]
           \/ /\ range # {}
              /\ compact' = [compact EXCEPT
                   ![c].read_offset = first + n,
                   ![c].remapper = @ \cup {[place |-> <<s, first>>,
                                            new |-> Len(compact[c].rows) + 1]},
                   ![c].rows = @ \o [i \in 1..n |->
                     Row(segment_map[s].rows[first + i - 1].id, UNCOMMIT_TS)]]
        /\ UNCHANGED <<current_ts, txns, table, failed>>

FinishBegin(c) ==
    /\ CompactAt(c, "scan") /\ compact[c].todo = <<>>
    /\ compact' = [compact EXCEPT ![c].pc = "finish"]
    /\ UNCHANGED <<current_ts, txns, table, failed>>

(* SegmentEntry::SetNoDelete on the old segments in turn; when deletes are *)
(* under way PhysicalCompactFinish is executed again.                      *)
SetNoDelete(c) ==
    LET s == compact[c].old[compact[c].next]
    IN  /\ CompactAt(c, "finish") /\ compact[c].next <= Len(compact[c].old)
        /\ IF segment_map[s].status \notin {"kCompacting", "kNoDelete"}
           THEN Fails("SetNoDelete")
           ELSE /\ segment_map' = [segment_map EXCEPT
                     ![s].status = "kNoDelete",
                     ![s].compact_state_data =
                        IF segment_map[s].delete_txns = {} THEN None ELSE @]
                /\ compact' = [compact EXCEPT ![c].next =
                     IF segment_map[s].delete_txns = {} THEN @ + 1 ELSE 1]
                /\ UNCHANGED <<current_ts, txns, next_segment_id, unsealed, failed>>

(* RowIDRemap::GetNewRowID: the last range that begins at or before the    *)
(* row, in its block.                                                      *)
Starts(c, p) ==
    {e \in compact[c].remapper : /\ e.place[1] = p[1] /\ e.place[2] <= p[2]
                                 /\ BlockOf(e.place[2]) = BlockOf(p[2])}
GetNewRowID(c, p) ==
    LET e == CHOOSE f \in Starts(c, p) :
               \A g \in Starts(c, p) : g.place[2] <= f.place[2]
    IN  <<compact[c].new, e.new + p[2] - e.place[2]>>

(* CompactStateData::GetToDelete: the deletes after the scan.              *)
Mut_GetToDelete(c) ==
    UNION {e.rows : e \in {compact[c].to_delete[i] :
                             i \in 2..Len(compact[c].to_delete)}}
GetToDelete(c) ==
    UNION {e.rows : e \in {d \in Range(compact[c].to_delete) :
                             d.ts > compact[c].scan_ts}}

(* The rest of ApplyDeletes, SaveSegmentData and TxnTableStore::Compact    *)
SaveSegmentData(c) ==
    /\ CompactAt(c, "finish") /\ compact[c].next > Len(compact[c].old)
    /\ IF \E p \in GetToDelete(c) : Starts(c, p) = {}
       THEN Fails("RowID not found")
       ELSE /\ segment_map' = [segment_map EXCEPT ![compact[c].new] =
                 [NewSegmentEntry(c) EXCEPT
                    !.rows = compact[c].rows,
                    !.blocks = [b \in 1..NumBlocks(Len(compact[c].rows)) |->
                                  NewBlockEntry(c)]]]
            /\ txns' = [txns EXCEPT
                 ![c].state = "written",
                 ![c].rows = {GetNewRowID(c, p) : p \in GetToDelete(c)}]
            /\ compact' = [compact EXCEPT ![c].pc = "saved"]
            /\ UNCHANGED <<current_ts, next_segment_id, unsealed, failed>>

(* Txn::Commit: the timestamp and PrepareCommit1, which writes it into the *)
(* versions of the new blocks (CommitFlushed).                             *)
CommitFlushed(c) ==
    /\ Is(c, "written") /\ c \in Compactions
    /\ current_ts' = current_ts + 2
    /\ txns' = [txns EXCEPT ![c].state = "committing", ![c].commit = current_ts']
    /\ segment_map' = [segment_map EXCEPT ![compact[c].new].rows =
                         [o \in DOMAIN @ |-> [@[o] EXCEPT !.ts = current_ts']]]
    /\ UNCHANGED <<next_segment_id, unsealed, compact, failed>>

(* The conflict check of a compaction is about indexes, which are not in   *)
(* the model: either answer.                                               *)
SendToWAL(c) ==
    /\ Is(c, "committing")
    /\ txns' = [txns EXCEPT ![c].state = "logged"]
    /\ UNCHANGED <<current_ts, table, compact, failed>>

(* SegmentEntry::RollbackCompact on the old segments                       *)
RollbackCompact(c) ==
    /\ c \in Compactions /\ (Is(c, "committing") \/ Is(c, "written"))
    /\ IF \E s \in Old(c) : segment_map[s].status # "kNoDelete"
       THEN Fails("RollbackCompact")
       ELSE /\ segment_map' = [s \in SegmentIds |->
                 CASE s = compact[c].new -> NoSegment
                   [] s \in Old(c) -> [segment_map[s] EXCEPT
                        !.status = "kSealed", !.deprecate = UNCOMMIT_TS]
                   [] OTHER -> segment_map[s]]
            /\ txns' = [txns EXCEPT ![c].state = "rolled_back"]
            /\ compact' = [compact EXCEPT ![c].pc = "done"]
            /\ UNCHANGED <<current_ts, next_segment_id, unsealed, failed>>

(* SegmentEntry::SetDeprecated                                             *)
SetDeprecated(seg, ts) == [seg EXCEPT !.status = "kDeprecated", !.deprecate = ts]

(* TableEntry::CommitCompact: the new segment is committed and the old     *)
(* ones are deprecated under the lock of the table.                        *)
CommitCompact(c) ==
    /\ Turn(c, "logged") /\ c \in Compactions
    /\ IF \E s \in Old(c) : segment_map[s].status # "kNoDelete"
       THEN Fails("SetDeprecated")
       ELSE /\ segment_map' =
                 [s \in SegmentIds |->
                    IF s \in Old(c) THEN SetDeprecated(segment_map[s], txns[c].commit)
                    ELSE CommitSegment(c, {compact[c].new}, segment_map)[s]]
            /\ txns' = [txns EXCEPT ![c].state = "prepared"]
            /\ compact' = [compact EXCEPT ![c].pc = "compacted"]
            /\ UNCHANGED <<current_ts, next_segment_id, unsealed, failed>>

(* TableEntry::Delete on the copies, and SetSealed.                        *)
DeleteCopies(c) ==
    /\ CompactAt(c, "compacted")
    /\ segment_map' = [Deleted(c, segment_map) EXCEPT
                         ![compact[c].new].status = "kSealed"]
    /\ compact' = [compact EXCEPT ![c].pc = "deleted"]
    /\ UNCHANGED <<current_ts, txns, next_segment_id, unsealed, failed>>

CommitCopies(c) ==
    /\ CompactAt(c, "deleted")
    /\ segment_map' = CommitSegment(c, {compact[c].new}, segment_map)
    /\ txns' = [txns EXCEPT ![c].state = "committed"]
    /\ compact' = [compact EXCEPT ![c].pc = "done"]
    /\ UNCHANGED <<current_ts, next_segment_id, unsealed, failed>>

-----------------------------------------------------------------------------
(* TxnManager::GetCleanupScanTS (the last checkpoint may be any earlier    *)
(* one), CreateCleanupTask, which makes the timestamp exclusive,           *)
(* SegmentEntry::CheckDeprecate and TableEntry::PickCleanup                *)
Mut_FirstUncommitted == current_ts + 1
FirstUncommitted ==
    LET begun == {txns[t].begin : t \in {u \in Txns : InTxnMap(u)}}
    IN  IF begun = {} THEN current_ts
        ELSE CHOOSE b \in begun : \A d \in begun : b <= d
CheckDeprecate(s, ts) ==
    segment_map[s].status = "kDeprecated" /\ ts > segment_map[s].deprecate
PickCleanup ==
    /\ failed = ""
    /\ \E scan_ts \in 0..FirstUncommitted :
         LET picked == {s \in SegmentIds : CheckDeprecate(s, scan_ts + 1)}
         IN  /\ picked # {}
             /\ segment_map' = [s \in SegmentIds |->
                  IF s \in picked THEN NoSegment ELSE segment_map[s]]
    /\ UNCHANGED <<current_ts, txns, next_segment_id, unsealed, compact, failed>>

Finished ==
    /\ failed # "" \/ \A t \in Txns : ~InTxnMap(t) /\ txns[t].state # "none"
    /\ UNCHANGED vars

Session(t) == Bind(t) \/ Delete(t) \/ Insert(t) \/ Rollback(t)
End(t) == Commit(t) \/ CleanupTxn(t)
Bottom(t) == PrepareDelete(t) \/ PrepareAppend(t) \/ CommitWrite(t)
BottomCompact(c) == CommitCompact(c) \/ DeleteCopies(c) \/ CommitCopies(c)
Compact(c) ==
    \/ BindCompact(c) \/ TrySetCompacting(c) \/ NothingToCompact(c)
    \/ SetScanTS(c) \/ ScanRange(c) \/ FinishBegin(c) \/ SetNoDelete(c)
    \/ SaveSegmentData(c) \/ CommitFlushed(c) \/ SendToWAL(c)

Next ==
    \/ \E t \in Txns : BeginTxn(t) \/ Session(t) \/ End(t) \/ Bottom(t)
    \/ \E c \in Compactions : Compact(c) \/ RollbackCompact(c) \/ BottomCompact(c)
    \/ PickCleanup \/ Finished

(* A session that has written ends its transaction, the flush thread       *)
(* applies what is logged, and the tasks of a compaction are executed.     *)
Fairness ==
    /\ \A t \in Txns : WF_vars(End(t) \/ Bottom(t))
    /\ \A c \in Compactions : WF_vars(Compact(c) \/ BottomCompact(c))
Spec == Init /\ [][Next]_vars /\ Fairness

-----------------------------------------------------------------------------
(* Properties                                                              *)

States == {"none", "started", "bound", "written", "gone", "rolled_back"} \cup Committing
Statuses == {"none", "kUnsealed", "kSealed", "kCompacting", "kNoDelete", "kDeprecated"}

(* The type of the state.                                                  *)
TypeOK ==
    /\ current_ts \in 0..UNCOMMIT_TS /\ next_segment_id \in 1..(MaxSegments + 1)
    /\ \A t \in Txns : /\ txns[t].state \in States
                        /\ txns[t].rows \subseteq SegmentIds \X (1..SegmentCapacity)
    /\ \A s \in SegmentIds :
         LET seg == segment_map[s]
         IN  /\ seg.status \in Statuses /\ seg.delete_txns \subseteq Deleters
             /\ Len(seg.rows) <= SegmentCapacity
             /\ Len(seg.blocks) = NumBlocks(Len(seg.rows))
    /\ segment_map[unsealed].status \in {"kUnsealed"}

Applied == {t \in Txns : txns[t].state \in {"committed", "gone"} /\ txns[t].commit # 0}
Initial == {<<s, o>> \in SegmentIds \X (1..SegmentCapacity) :
              s <= Len(InitialRows) /\ o <= InitialRows[s]}
(* The rows that exist for a statement at ts, by the commits alone.        *)
Expected(ts) ==
    LET before(T) == UNION {txns[t].ids : t \in {u \in T \cap Applied :
                                                   txns[u].commit <= ts}}
    IN  (Initial \cup before(Inserters)) \ before(Deleters)
Once(P) == \A p, q \in P : RowAt(p).id = RowAt(q).id => p = q
Ids(P) == {RowAt(p).id : p \in P}

(* The races the code is open to: a compaction whose scan comes before     *)
(* deletes with an earlier timestamp or leaves out blocks, and a delete in *)
(* its segments that was bound before commits it must see.                 *)
Raced(c) ==
    \/ compact[c].late \/ compact[c].partial
    \/ \E t \in Deleters : /\ txns[t].early
                           /\ Touched(t) \cap (Old(c) \cup {compact[c].new}) # {}
NoRace == \A c \in Compactions : ~Raced(c)

Current == {p \in UNION {Places(s) : s \in SegmentIds} :
              /\ segment_map[p[1]].commit # UNCOMMIT_TS
              /\ segment_map[p[1]].status # "kDeprecated"
              /\ RowAt(p).deleted = 0}

(* Whenever no transaction is half applied, the segments in use hold every *)
(* committed row that no committed transaction deleted, once, and no other *)
(* one: compaction neither loses a row nor brings one back.                *)
CurrentExact ==
    (NoRace /\ ~\E t \in Txns : txns[t].state = "prepared")
    => Once(Current) /\ Ids(Current) = Expected(UNCOMMIT_TS)

Reading(t) == t \in Deleters /\ txns[t].state \in {"bound", "written"}

(* A statement reads every row of its snapshot exactly once, whatever      *)
(* compactions, deletes and clean-ups run beside it, provided that it was  *)
(* bound when the commits before its begin timestamp had been applied.     *)
StatementExact ==
    \A t \in Txns : (NoRace /\ Reading(t) /\ ~txns[t].early) =>
      Once(Reads(t)) /\ Ids(Reads(t)) = Expected(txns[t].begin)

(* A delete that was let through by CheckDeleteConflict finds its segment  *)
(* in use until it is applied: the segment is not deprecated before.       *)
DeleteTargetKept ==
    \A t \in Deleters : (txns[t].state \in {"written", "logged"} /\ ~txns[t].early)
      => \A s \in Touched(t) : segment_map[s].status \notin {"none", "kDeprecated"}

(* Segments stay within their capacity, the last one takes appends, and no *)
(* assertion of the segments' life cycle fails.                            *)
NoAbort == TypeOK /\ (NoRace => failed = "")

(* PickCleanup: "So the used segment will not be cleaned up."              *)
UsedSegmentKept ==
    [][\A t \in Txns : Reading(t) => \A p \in txns[t].block_index :
          segment_map[p[1]].status = "kDeprecated" => InMap(p[1])']_vars

LeftBehind(c) == \E s \in Old(c) : \E t \in segment_map[s].delete_txns :
                    txns[t].state = "rolled_back"

(* A compaction ends, unless a transaction that was rolled back after its  *)
(* delete is still registered with one of the segments.                    *)
CompactionEnds ==
    \A c \in Compactions : Running(c) ~> (~Running(c) \/ LeftBehind(c) \/ failed # "")
=============================================================================
