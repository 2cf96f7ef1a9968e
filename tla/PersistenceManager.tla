------------------------- MODULE PersistenceManager -------------------------
(* Files packed into objects (storage/persistence).                          *)
(*                                                                           *)
(* Persist appends a file to the current object or makes an object of it,    *)
(* and forgets the part that the file had before.  An object whose parts are *)
(* all deleted is removed.  The manager works under mtx_, but uploads,       *)
(* downloads and deletions are done by the callers after they have released  *)
(* it (PersistResultHandler), so that threads that share an object can       *)
(* overtake each other.                                                      *)
(*                                                                           *)
(* Worker threads import new files and read; the background thread writes    *)
(* files again, cleans them up and writes the checkpoints.  A file is read,  *)
(* written or cleaned up under the lock of its buffer object.  A node that   *)
(* starts again has what the last checkpoint and the log say, and its local  *)
(* files or, on a new machine, only the object store.                        *)
(*                                                                           *)
(* Left out: the footer of a composed object, which nobody reads, and the    *)
(* accessor with eviction, which the constructor rejects.                    *)
EXTENDS Integers, Sequences, FiniteSets, SequencesExt

CONSTANTS Paths,
          Workers,      \* threads that run queries and imports
          Bg,           \* the background thread
          Sizes,        \* Sizes[p]: sizes that file p can have
          Composed,     \* files that may share an object: all but full-text index files
          Limit,        \* object_size_limit_
          ObjAlignment,
          MaxPersists,  \* bound: files written
          MaxReads,     \* bound: reads
          MaxTasks,     \* bound: checkpoints, clean-ups and imports
          MaxRestarts   \* bound: restarts of the node

ASSUME PersistenceManagerAssumption ==
    /\ Sizes \in [Paths -> SUBSET Nat] /\ Composed \subseteq Paths
    /\ Limit \in Nat \ {0} /\ ObjAlignment \in Nat \ {0}
    /\ Bg \notin Workers /\ IsFiniteSet(Workers)

Threads == Workers \union {Bg}

VARIABLES
    objects_,           \* object key -> statistics of a finalized object
    local_path_obj_,    \* path -> address of its part
    current,            \* the object that is filled: key, size, parts, ref_count
    next_key,           \* ObjCreate
    disk, remote,       \* object key -> parts in the local file, in the object store
    th,                 \* what a thread is doing
    version,            \* version[p]: number of the last write of p
    durable,            \* what a restart finds: objects, paths, version
    stale,              \* paths of durable whose part is deleted since
    broken,             \* those paths, and unreadable ones, after a restart
    dropped,            \* paths whose entry is dropped for good
    count,              \* for the bounds
    failed              \* reason of an UnrecoverableError, or "none"

manager == <<objects_, local_path_obj_, current, next_key>>
stores == <<disk, remote>>
history == <<version, durable, stale, broken, dropped>>
vars == <<manager, stores, th, history, count, failed>>

KeyEmpty == 0

NewCurrent(key) == [key |-> key, size |-> 0, parts |-> 0, ref_count |-> 0]
ObjStat(size, parts, ref_count) ==
    [obj_size |-> size, parts |-> parts, ref_count |-> ref_count,
     deleted_ranges |-> {}, cached |-> "kCached"]

(* up, drop: objects to upload and to delete that a call has returned;       *)
(* mine: the files of the import, acc: their addresses and statistics for    *)
(* the log.                                                                  *)
Idle == [pc |-> "idle", p |-> "none", size |-> 0, up |-> <<>>, drop |-> <<>>,
         then |-> "idle", mine |-> {}, acc |-> <<>>]

Init ==
    /\ objects_ = <<>> /\ local_path_obj_ = <<>>
    /\ current = NewCurrent(1) /\ next_key = 2
    /\ disk = [k \in {KeyEmpty} |-> {}] /\ remote = <<>>
    /\ th = [t \in Threads |-> Idle]
    /\ version = [p \in Paths |-> 0]
    /\ durable = [objects |-> <<>>, paths |-> <<>>, version |-> version]
    /\ stale = {} /\ broken = {} /\ dropped = {}
    /\ count = [persists |-> 0, reads |-> 0, tasks |-> 0, restarts |-> 0]
    /\ failed = "none"

Mapped == DOMAIN local_path_obj_
At(t, pc) == th[t].pc = pc /\ failed = "none"
Without(f, S) == [x \in DOMAIN f \ S |-> f[x]]
With(f, k, v) == [x \in DOMAIN f \union {k} |-> IF x = k THEN v ELSE f[x]]
Over(f, g) == [x \in DOMAIN f \union DOMAIN g |-> IF x \in DOMAIN f THEN f[x] ELSE g[x]]
Counted(what) == count' = [count EXCEPT ![what] = @ + 1]

Reading == {"fetch", "downloading", "wait", "read"}
Readers(p) == {t \in Threads : th[t].pc \in Reading /\ th[t].p = p}
Writing(p) == {t \in Threads : th[t].pc \in {"place", "handle"} /\ th[t].p = p}

AlignUp(n) == ((n + ObjAlignment - 1) \div ObjAlignment) * ObjAlignment

-----------------------------------------------------------------------------
(* Sections under mtx_, as functions of the state; up and drop are the keys  *)
(* that the call adds to persist_keys_ and drop_from_remote_keys_.           *)

Same == [objects |-> objects_, current |-> current, next_key |-> next_key,
         up |-> <<>>, drop |-> <<>>, err |-> "none"]


Mut_FinalizeNoRefs ==
    IF current.size = 0 THEN Same
    ELSE [Same EXCEPT
            !.objects = With(@, current.key, ObjStat(current.size, current.parts, 0)),
            !.current = NewCurrent(next_key), !.next_key = @ + 1,
            !.up = <<current.key>>]

CurrentObjFinalizeNoLock ==
    IF current.size = 0 THEN Same
    ELSE [Same EXCEPT
            !.objects = With(@, current.key, ObjStat(current.size, current.parts,
                                                     current.ref_count)),
            !.current = NewCurrent(next_key), !.next_key = @ + 1,
            !.up = <<current.key>>]

(* deleted_ranges_ when the part from s to e is deleted too; it is ordered   *)
(* by start, and only the neighbours of s are looked at.                     *)
Mut_DeleteRange(ranges, s, e) ==
    [ranges |-> ranges \union {<<s, e>>}, range |-> <<s, e>>, dup |-> FALSE, err |-> FALSE]

DeleteRange(ranges, s, e) ==
    LET before == {r \in ranges : r[1] < s}
        after == ranges \ before
        prev == {r \in before : \A q \in before : q[1] <= r[1]}
        next == {r \in after : \A q \in after : q[1] >= r[1]}
        covers(r) == r[1] <= s /\ e <= r[2]
        meets(r) == r[1] < e /\ s < r[2]
        left == {r \in prev : r[2] = s}
        right == {r \in next : r[1] = e}
        start == IF left = {} THEN s ELSE (CHOOSE r \in left : TRUE)[1]
        end == IF right = {} THEN e ELSE (CHOOSE r \in right : TRUE)[2] IN
    [ranges |-> (ranges \ (left \union right)) \union {<<start, end>>},
     range |-> <<start, end>>,
     dup |-> \E r \in prev \union next : covers(r),
     err |-> \E r \in prev \union next : meets(r) /\ ~covers(r)]

Mut_WholeObject(range, stat) == range[2] = AlignUp(stat.obj_size)
WholeObject(range, stat) == range = <<0, AlignUp(stat.obj_size)>>

Forget(r, addr, check_ref_count) ==
    LET k == addr.key
        stat == r.objects[k]
        d == DeleteRange(stat.deleted_ranges, addr.off, AlignUp(addr.off + addr.size))
        whole == WholeObject(d.range, stat) IN
    CASE d.dup -> r
      [] d.err -> [r EXCEPT !.err = "ranges intersect"]
      [] ~d.dup /\ ~d.err /\ ~whole ->
           [r EXCEPT !.objects[k].deleted_ranges = d.ranges]
      [] OTHER ->
           [r EXCEPT !.objects = Without(@, {k}), !.drop = <<k>>,
                     !.err = IF check_ref_count /\ stat.ref_count > 0 THEN "ref count" ELSE "none"]

Mut_CleanupNoLock(addr, check_ref_count) ==
    IF addr.key \in DOMAIN objects_ THEN Forget(Same, addr, check_ref_count)
    ELSE IF addr.key = KeyEmpty THEN Same
    ELSE [Same EXCEPT !.err = "Failed to find object"]

CleanupNoLock(addr, check_ref_count) ==
    IF addr.key \in DOMAIN objects_ THEN Forget(Same, addr, check_ref_count)
    ELSE IF addr.key = KeyEmpty THEN Same
    ELSE IF addr.key = current.key
         THEN Forget(CurrentObjFinalizeNoLock, addr, check_ref_count)
    ELSE [Same EXCEPT !.err = "Failed to find object"]

Becomes(r) ==
    /\ objects_' = r.objects /\ current' = r.current /\ next_key' = r.next_key
    /\ failed' = r.err

(* The thread goes on with HandleWriteResult of what calls have returned, if *)
(* there is anything to do, and then with what follows.                      *)
Handling(w, up, drop) ==
    IF up = <<>> /\ drop = <<>>
    THEN [Idle EXCEPT !.pc = w.then, !.mine = w.mine, !.acc = w.acc]
    ELSE [w EXCEPT !.pc = "handle", !.up = up, !.drop = drop]

-----------------------------------------------------------------------------
(* Persist: the part the path had is deleted in one section, the new one is  *)
(* placed in a second one.  Workers only write new files.                    *)
PersistBegin(t, p, size) ==
    LET r == IF p \in Mapped THEN CleanupNoLock(local_path_obj_[p], FALSE) ELSE Same IN
    /\ At(t, "idle") /\ count.persists < MaxPersists /\ Counted("persists")
    /\ Readers(p) = {} /\ Writing(p) = {} /\ p \notin dropped
    /\ p \in Mapped /\ p \notin broken => t = Bg
    /\ \A w \in Workers : p \in th[w].mine => t = w
    /\ Becomes(r)
    /\ th' = [th EXCEPT ![t] = [@ EXCEPT !.pc = "place", !.p = p, !.size = size,
                                         !.up = r.up, !.drop = r.drop]]
    /\ version' = [version EXCEPT ![p] = @ + 1]
    /\ stale' = stale \union ({p} \intersect DOMAIN durable.paths)
    /\ UNCHANGED <<local_path_obj_, stores, durable, broken, dropped>>

(* The new part of th[t].p is at addr.                                       *)
Placed(t, r, addr) ==
    LET p == th[t].p
        w == [th[t] EXCEPT !.mine = IF t = Bg THEN @ ELSE @ \union {p}] IN
    /\ local_path_obj_' = With(local_path_obj_, p, addr)
    /\ broken' = broken \ {p}
    /\ th' = [th EXCEPT ![t] = Handling(w, th[t].up \o r.up, th[t].drop)]
    /\ UNCHANGED <<remote, version, durable, stale, dropped, count>>

Part(t, off) == [off |-> off, size |-> th[t].size, p |-> th[t].p, version |-> version[th[t].p]]

PersistEmpty(t) ==
    /\ At(t, "place") /\ th[t].size = 0
    /\ Placed(t, [Same EXCEPT !.up = <<KeyEmpty>>], [key |-> KeyEmpty, off |-> 0, size |-> 0])
    /\ UNCHANGED <<objects_, current, next_key, disk, failed>>

PersistDedicated(t) ==
    LET size == th[t].size IN
    /\ At(t, "place") /\ size > 0 /\ (th[t].p \notin Composed \/ size >= Limit)
    /\ objects_' = With(objects_, next_key, ObjStat(size, 1, 0))
    /\ disk' = With(disk, next_key, {Part(t, 0)})
    /\ Placed(t, [Same EXCEPT !.up = <<next_key>>], [key |-> next_key, off |-> 0, size |-> size])
    /\ next_key' = next_key + 1
    /\ UNCHANGED <<current, failed>>

(* The room is checked before the size of the current object is aligned.     *)
PersistCompose(t) ==
    LET size == th[t].size
        r == IF size >= Limit - current.size THEN CurrentObjFinalizeNoLock ELSE Same
        c == r.current
        off == AlignUp(c.size)
        parts == IF c.key \in DOMAIN disk THEN disk[c.key] ELSE {} IN
    /\ At(t, "place") /\ size > 0 /\ th[t].p \in Composed /\ size < Limit
    /\ Becomes([r EXCEPT !.current = [c EXCEPT !.size = off + size, !.parts = @ + 1],
                         !.err = IF off + size >= Limit THEN "exceeds limit" ELSE "none"])
    /\ disk' = With(disk, c.key, parts \union {Part(t, off)})
    /\ Placed(t, r, [key |-> c.key, off |-> off, size |-> size])

-----------------------------------------------------------------------------
(* PersistResultHandler: uploads, then deletions, one by one.                *)
HandleUpload(t) ==
    LET k == Head(th[t].up) IN
    /\ At(t, "handle") /\ th[t].up # <<>>
    /\ failed' = IF k \in DOMAIN disk THEN "none" ELSE "Unable to upload object"
    /\ remote' = IF k \in DOMAIN disk THEN With(remote, k, disk[k]) ELSE remote
    /\ th' = [th EXCEPT ![t] = Handling(@, Tail(@.up), @.drop)]
    /\ UNCHANGED <<manager, disk, history, count>>

HandleDrop(t) ==
    LET k == Head(th[t].drop) IN
    /\ At(t, "handle") /\ th[t].up = <<>>
    /\ disk' = Without(disk, {k}) /\ remote' = Without(remote, {k})
    /\ th' = [th EXCEPT ![t] = Handling(@, <<>>, Tail(@.drop))]
    /\ UNCHANGED <<manager, history, count, failed>>

-----------------------------------------------------------------------------
(* Reads: GetObjCache, HandleReadResult, PutObjCache.                        *)
GetObjCache(t, p) ==
    LET k == local_path_obj_[p].key
        missing == k \notin DOMAIN disk
        counted == [objects_[k] EXCEPT !.ref_count = @ + 1,
                                       !.cached = IF missing /\ @ = "kCached"
                                                  THEN "kNotCached" ELSE @] IN
    /\ At(t, "idle") /\ count.reads < MaxReads /\ Counted("reads")
    /\ p \in Mapped \ (broken \union dropped) /\ Writing(p) = {}
    /\ \/ /\ local_path_obj_[p].size = 0
          /\ th' = [th EXCEPT ![t].pc = "read", ![t].p = p]
          /\ UNCHANGED <<objects_, current, failed>>
       \/ /\ local_path_obj_[p].size > 0 /\ k \in DOMAIN objects_
          /\ objects_' = [objects_ EXCEPT ![k] = counted]
          /\ th' = [th EXCEPT ![t].pc = IF missing THEN "fetch" ELSE "read", ![t].p = p]
          /\ UNCHANGED <<current, failed>>
       \/ /\ local_path_obj_[p].size > 0 /\ k \notin DOMAIN objects_
          /\ failed' = IF k = current.key THEN "none" ELSE "GetObjCache object not found"
          /\ current' = [current EXCEPT !.ref_count = @ + 1]
          /\ th' = [th EXCEPT ![t].pc = "read", ![t].p = p]
          /\ UNCHANGED objects_
    /\ UNCHANGED <<local_path_obj_, next_key, stores, history>>

KeyRead(t) == local_path_obj_[th[t].p].key

(* The object is not in the local directory: one thread downloads it, the    *)
(* others wait for it.                                                       *)
HandleReadResult(t) ==
    LET cached == objects_[KeyRead(t)].cached IN
    /\ At(t, "fetch")
    /\ objects_' = [objects_ EXCEPT ![KeyRead(t)].cached =
                      IF @ = "kNotCached" THEN "kDownloading" ELSE @]
    /\ th' = [th EXCEPT ![t].pc = CASE cached = "kNotCached" -> "downloading"
                                    [] cached = "kDownloading" -> "wait"
                                    [] OTHER -> "read"]
    /\ UNCHANGED <<local_path_obj_, current, next_key, stores, history, count, failed>>

DownloadObject(t) ==
    LET k == KeyRead(t) IN
    /\ At(t, "downloading")
    /\ failed' = IF k \in DOMAIN remote THEN "none" ELSE "Unable to download object"
    /\ disk' = IF k \in DOMAIN remote THEN With(disk, k, remote[k]) ELSE disk
    /\ objects_' = [objects_ EXCEPT ![k].cached = "kCached"]
    /\ th' = [th EXCEPT ![t].pc = "read"]
    /\ UNCHANGED <<local_path_obj_, current, next_key, remote, history, count>>

WaitDownload(t) ==
    /\ At(t, "wait") /\ objects_[KeyRead(t)].cached # "kDownloading"
    /\ th' = [th EXCEPT ![t].pc = "read"]
    /\ UNCHANGED <<manager, stores, history, count, failed>>

PutObjCache(t) ==
    LET addr == local_path_obj_[th[t].p]
        k == addr.key IN
    /\ At(t, "read")
    /\ \/ addr.size = 0 /\ UNCHANGED <<objects_, current, failed>>
       \/ /\ addr.size > 0 /\ k \in DOMAIN objects_
          /\ failed' = IF objects_[k].ref_count > 0 THEN "none" ELSE "Release"
          /\ objects_' = [objects_ EXCEPT ![k].ref_count = @ - 1]
          /\ UNCHANGED current
       \/ /\ addr.size > 0 /\ k \notin DOMAIN objects_
          /\ failed' = IF k = current.key /\ current.ref_count > 0 THEN "none" ELSE "PutObjCache"
          /\ current' = [current EXCEPT !.ref_count = @ - 1]
          /\ UNCHANGED objects_
    /\ th' = [th EXCEPT ![t].pc = "idle", ![t].p = Idle.p]
    /\ UNCHANGED <<local_path_obj_, next_key, stores, history, count>>

-----------------------------------------------------------------------------
(* The background thread                                                     *)

(* A file whose entry is dropped, or was dropped before a restart.           *)
Cleanup(p) ==
    LET r == CleanupNoLock(local_path_obj_[p], TRUE) IN
    /\ At(Bg, "idle") /\ count.tasks < MaxTasks /\ Counted("tasks")
    /\ p \in Mapped /\ Readers(p) = {} /\ Writing(p) = {}
    /\ \A w \in Workers : p \notin th[w].mine
    /\ Becomes(r)
    /\ local_path_obj_' = Without(local_path_obj_, {p})
    /\ th' = [th EXCEPT ![Bg] = Handling([@ EXCEPT !.p = p], r.up, r.drop)]
    /\ dropped' = dropped \union {p}
    /\ UNCHANGED <<stores, version, durable, stale, broken>>

(* The current object is finalized before a checkpoint is written, and       *)
(* before an import is logged.                                               *)
Mut_CurrentObjFinalize(t, then) ==
    /\ At(t, "idle") /\ count.tasks < MaxTasks /\ Counted("tasks")
    /\ Becomes(CurrentObjFinalizeNoLock)
    /\ th' = [th EXCEPT ![t] = Handling([@ EXCEPT !.then = then], <<>>, <<>>)]
    /\ UNCHANGED <<local_path_obj_, stores, history>>

CurrentObjFinalize(t, then) ==
    LET r == CurrentObjFinalizeNoLock IN
    /\ At(t, "idle") /\ count.tasks < MaxTasks /\ Counted("tasks")
    /\ Becomes(r)
    /\ th' = [th EXCEPT ![t] = Handling([@ EXCEPT !.then = then], r.up, <<>>)]
    /\ UNCHANGED <<local_path_obj_, stores, history>>

(* What Serialize and WriteBufAdv keep of the statistics.                    *)
Stored(stat) == ObjStat(stat.obj_size, stat.parts, 0)
StoredObj(stat) == [Stored(stat) EXCEPT !.deleted_ranges = stat.deleted_ranges]

(* AddrSerializer: addresses of files and statistics of their objects; an    *)
(* object that is not finalized has none.                                    *)
GetObjStatByObjAddr(k) ==
    IF k \in DOMAIN objects_ THEN StoredObj(objects_[k]) ELSE ObjStat(0, 0, 0)

Addresses(S) ==
    [paths |-> [p \in S |-> local_path_obj_[p]],
     objects |-> [k \in {local_path_obj_[p].key : p \in S} |-> GetObjStatByObjAddr(k)]]

(* A full checkpoint: all files and objects of the manager.                  *)
Serialize ==
    /\ At(Bg, "serialize")
    /\ durable' = [objects |-> [k \in DOMAIN objects_ |-> StoredObj(objects_[k])],
                   paths |-> local_path_obj_, version |-> version]
    /\ stale' = {}
    /\ th' = [th EXCEPT ![Bg].pc = "idle"]
    /\ UNCHANGED <<manager, stores, version, broken, dropped, count, failed>>

Logged(a, S) ==
    [objects |-> Over(a.objects, durable.objects), paths |-> Over(a.paths, durable.paths),
     version |-> [p \in Paths |-> IF p \in S THEN version[p] ELSE durable.version[p]]]

(* A delta checkpoint: the files of committed entries written since the      *)
(* last checkpoint.  Only this thread changes their addresses and deleted    *)
(* ranges, so the files are read in one step.                                *)
SaveDeltaCatalog ==
    LET S == {p \in Mapped \ broken : /\ version[p] # durable.version[p]
                                      /\ \A w \in Workers : p \notin th[w].mine} IN
    /\ At(Bg, "delta")
    /\ durable' = Logged(Addresses(S), S)
    /\ stale' = stale \ S
    /\ th' = [th EXCEPT ![Bg].pc = "idle"]
    /\ UNCHANGED <<manager, stores, version, broken, dropped, count, failed>>

-----------------------------------------------------------------------------
(* Imports: the addresses are collected for the log entry when the files are *)
(* written, the object is finalized, and the entry is logged.                *)
Unlogged(w) == th[w].mine \ (IF th[w].acc = <<>> THEN {} ELSE DOMAIN th[w].acc.paths)

AddrInitialize(w) ==
    LET a == Addresses(Unlogged(w)) IN
    /\ At(w, "idle") /\ Unlogged(w) # {}
    /\ th' = [th EXCEPT ![w].acc =
                IF @ = <<>> THEN a
                ELSE [paths |-> Over(a.paths, @.paths), objects |-> Over(a.objects, @.objects)]]
    /\ UNCHANGED <<manager, stores, history, count, failed>>

PrepareCommit1(w) ==
    /\ th[w].mine # {} /\ Unlogged(w) = {}
    /\ CurrentObjFinalize(w, "log")

LogImport(w) ==
    /\ At(w, "log")
    /\ durable' = Logged(th[w].acc, th[w].mine)
    /\ th' = [th EXCEPT ![w] = Idle]
    /\ UNCHANGED <<manager, stores, version, stale, broken, dropped, count, failed>>

-----------------------------------------------------------------------------
PartOf(addr, p, v) == [off |-> addr.off, size |-> addr.size, p |-> p, version |-> v]

Holds(store, addr, p, v) ==
    /\ addr.key \in DOMAIN store
    /\ addr.key # KeyEmpty => PartOf(addr, p, v) \in store[addr.key]

(* The node starts again, with or without its local files: Deserialize of    *)
(* the full checkpoint, then AddToPersistenceManager for deltas and log.     *)
Restart(keep) ==
    LET local == With(IF keep THEN disk ELSE <<>>, KeyEmpty, {}) IN
    /\ failed = "none" /\ count.restarts < MaxRestarts /\ Counted("restarts")
    /\ objects_' = durable.objects /\ local_path_obj_' = durable.paths
    /\ current' = NewCurrent(next_key) /\ next_key' = next_key + 1
    /\ disk' = local /\ version' = durable.version
    /\ broken' = stale \union
                 {p \in DOMAIN durable.paths :
                    LET a == durable.paths[p] IN
                    ~ /\ a.key \in DOMAIN durable.objects \union {KeyEmpty}
                      /\ \E store \in {local, remote} : Holds(store, a, p, durable.version[p])}
    /\ th' = [t \in Threads |-> Idle]
    /\ UNCHANGED <<remote, durable, stale, dropped, failed>>

Finished == (failed # "none" \/ \A t \in Threads : th[t].pc = "idle") /\ UNCHANGED vars

Persist(t) ==
    \/ \E p \in Paths : \E size \in Sizes[p] : PersistBegin(t, p, size)
    \/ PersistEmpty(t) \/ PersistDedicated(t) \/ PersistCompose(t)

Read(t) ==
    \/ \E p \in Paths : GetObjCache(t, p)
    \/ HandleReadResult(t) \/ DownloadObject(t) \/ WaitDownload(t) \/ PutObjCache(t)

Next ==
    \/ \E t \in Threads : Persist(t) \/ HandleUpload(t) \/ HandleDrop(t) \/ Read(t)
    \/ \E p \in Paths : Cleanup(p)
    \/ \E then \in {"serialize", "delta"} : CurrentObjFinalize(Bg, then)
    \/ Serialize \/ SaveDeltaCatalog
    \/ \E w \in Workers : AddrInitialize(w) \/ PrepareCommit1(w) \/ LogImport(w)
    \/ \E keep \in BOOLEAN : Restart(keep)
    \/ Finished

Spec == Init /\ [][Next]_vars

-----------------------------------------------------------------------------
(* Properties                                                                *)

Keys == 0 .. next_key

(* Types of the variables.                                                   *)
TypeOK ==
    /\ DOMAIN objects_ \subseteq Keys /\ DOMAIN disk \subseteq Keys
    /\ DOMAIN remote \subseteq Keys /\ current.key \in Keys \ DOMAIN objects_
    /\ Mapped \subseteq Paths /\ stale \union broken \union dropped \subseteq Paths
    /\ \A p \in Mapped : local_path_obj_[p] \in [key : Keys, off : Nat, size : Nat]
    /\ \A t \in Threads : th[t].p \in Paths \union {"none"} /\ th[t].mine \subseteq Paths

ReadersOf(k) == {t \in Threads : /\ th[t].pc \in Reading /\ KeyRead(t) = k
                                 /\ local_path_obj_[th[t].p].size > 0}

(* The reference count of an object is the number of its readers, also when  *)
(* the object is finalized, and its count handed over, while they read       *)
(* (GetObjCache, CurrentObjFinalizeNoLock, PutObjCache).                     *)
RefCountExact ==
    failed = "none" =>
      /\ \A k \in DOMAIN objects_ : objects_[k].ref_count = Cardinality(ReadersOf(k))
      /\ current.ref_count = Cardinality(ReadersOf(current.key))

Placing == {th[t].p : t \in {u \in Threads : th[u].pc = "place"}}
Usable == Mapped \ (Placing \union broken \union dropped)

(* The last content written to a file is found at the address of the file,   *)
(* in the local object or in the store it is downloaded from, whatever other *)
(* threads append, finalize, upload and delete, in the first process and in  *)
(* the one after a restart.  What a restart itself recovers is the subject   *)
(* of DurableReadable; a path it does not recover, or recovers as it was     *)
(* before, is out of Usable until it is written again.  (The object of the   *)
(* empty files can be lost after a restart.)                                 *)
MappedReadable ==
    failed = "none" =>
      \A p \in Usable :
        LET a == local_path_obj_[p] IN
        \/ Holds(disk, a, p, version[p])
        \/ a.key \notin DOMAIN disk /\ Holds(remote, a, p, version[p])
        \/ a.key = KeyEmpty /\ count.restarts > 0

Points(s, e) == s .. e - 1
Deleted(k) == UNION {Points(r[1], r[2]) : r \in objects_[k].deleted_ranges}
LivePart(p) == Points(local_path_obj_[p].off,
                      AlignUp(local_path_obj_[p].off + local_path_obj_[p].size))
Live(k) == UNION {LivePart(p) : p \in {q \in Usable : local_path_obj_[q].key = k}}

(* The deleted ranges never reach into the part of a file in use.  Until a   *)
(* restart they are exactly the rest of the object, and no object is kept    *)
(* whose parts are all deleted (CleanupNoLock).                              *)
RangesExact ==
    failed = "none" =>
      \A k \in DOMAIN objects_ :
        /\ Deleted(k) \intersect Live(k) = {}
        /\ count.restarts = 0 =>
             /\ Live(k) # {}
             /\ Deleted(k) \union Live(k) = Points(0, AlignUp(objects_[k].obj_size))

Uploading == UNION {Range(th[t].up) : t \in Threads}

(* A crash at any moment leaves every file of the last checkpoint and the    *)
(* log readable, from the local disk and from the store, unless the file was *)
(* written again or dropped since, or its import has not committed, or, in   *)
(* the store, a thread has not got to the upload of its object.              *)
DurableReadable ==
    \A p \in DOMAIN durable.paths \ UNION {stale, dropped, broken, UNION {th[w].mine : w \in Workers}} :
      LET a == durable.paths[p] IN
      /\ a.key \in DOMAIN durable.objects \union {KeyEmpty}
      /\ count.restarts = 0 /\ a.key # KeyEmpty =>
           /\ Holds(disk, a, p, durable.version[p])
           /\ a.key \in Uploading \/ Holds(remote, a, p, durable.version[p])

(* The variables keep their types (the current object is never one of the    *)
(* finalized ones, to which nothing is appended any more) and none of the    *)
(* states that the code treats as impossible is reached, besides the ones    *)
(* that the README describes: padding beyond the limit, an upload after the  *)
(* object is deleted and, after a restart, a file of an object that was not  *)
(* finalized.                                                                *)
NoAbort ==
    /\ TypeOK
    /\ failed \in {"none", "exceeds limit", "Unable to upload object"}
                   \union (IF count.restarts > 0 THEN {"Failed to find object"} ELSE {})
=============================================================================
