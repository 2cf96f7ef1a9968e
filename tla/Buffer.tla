------------------------------ MODULE Buffer ------------------------------
(* Buffer objects and the buffer manager (storage/buffer).                   *)
(*                                                                           *)
(* Worker threads load, pin, write, append to and release objects; the       *)
(* background thread saves them at checkpoints, maps them, and cleans up     *)
(* dropped ones.  An object that nobody pins waits in the queue of its LRU   *)
(* cache; a thread that needs memory evicts from these queues while other    *)
(* threads load the same objects.  One step of the model is what happens     *)
(* under one lock (or up to the next lock a thread must wait for), so every  *)
(* interleaving at the locks w_locker_ of the objects, gc_locker_ and        *)
(* locker_ of the LRU caches is explored.                                    *)
(*                                                                           *)
(* The content of an object is the number of the last write it has seen, so  *)
(* a stale or lost content is visible as an old number.                      *)
EXTENDS Integers, Sequences, FiniteSets, FiniteSetsExt, SequencesExt

CONSTANTS Objs,         \* file paths; each is used for at most one object
          VarObjs,      \* those whose file worker is a VarFileWorker
          Workers,      \* threads that run queries
          Bg,           \* the background thread
          LruCount,     \* number of LRU caches
          Limit,        \* memory_limit_
          Word,         \* SizeT has Word values
          Size,         \* Size[o]: memory that o needs when it is created
          MaxLoads,     \* bound: loads and copies (of handles, of entries) by the
                        \* workers together
          MaxBgOps,     \* bound: operations of the background thread
          MaxWrites,    \* bound: writes to one object
          MaxPins,      \* bound: copies of a handle held by one worker
          MaxRefs,      \* bound: entries that refer to one object
          None

ASSUME BufferAssumption ==
    /\ VarObjs \subseteq Objs
    /\ LruCount \in Nat \ {0}
    /\ Size \in [Objs -> Nat \ {0}] /\ Limit \in Nat /\ Word \in Nat
    /\ \A o \in Objs : 2 * (Limit + Size[o]) < Word
    /\ Bg \notin Workers

Threads == Workers \union {Bg}
Lrus == 0 .. LruCount - 1

VARIABLES
    buffer_map_,    \* the objects that exist
    buffer_id_,     \* next id
    obj,            \* the fields of every object
    file,           \* content of the spill file and of the data file
    w_locker_,      \* w_locker_[o]: thread holding the lock of object o
    gc_locker_, lru_locker_,
    gc_list_,       \* gc_list_[i]: queue of LRU cache i, oldest first
    round_robin_,
    current_memory_size_,
    temp_set_, clean_temp_set_, clean_list_,
    th,             \* the thread's position in an operation
    handles,        \* handles[t][o]: handles of o that t holds
    writer,         \* writer[o]: thread that has the block of o locked to write
    unflushed,      \* unflushed[o]: entries of o, oldest first, with rows that
                    \* are newer than their checkpoint_ts_
    cleaned,        \* objects that no entry refers to any more
    inherited,      \* history: objects whose entry was copied when unflushed
    late,           \* history: a cleaned object was in use, or was loaded
    raced,          \* history: an object was saved while it was written
    ops,            \* operations begun by the workers and by the background thread
    overrun,        \* an append was made although RequestSpace failed
    failed          \* reason of an UnrecoverableError, or ""

locks == <<w_locker_, gc_locker_, lru_locker_>>
queues == <<gc_list_, round_robin_>>
sets == <<temp_set_, clean_temp_set_, clean_list_>>
ghosts == <<cleaned, inherited, late, raced>>
users == <<handles, writer, unflushed, ghosts, ops, overrun>>
map == <<buffer_map_, buffer_id_>>
vars == <<map, obj, file, locks, queues, current_memory_size_, sets, th,
          users, failed>>

-----------------------------------------------------------------------------
(* Objects                                                                   *)

Absent == -1

(* mem: content in memory (data_ of the file worker), Absent if freed.       *)
NewObj(o, id, ephemeral) ==
    [id |-> id, status |-> IF ephemeral THEN "New" ELSE "Freed",
     type |-> IF ephemeral THEN "Ephemeral" ELSE "Persistent",
     rc |-> 0, obj_rc |-> 1, size |-> Size[o], mem |-> Absent]

Idle == [op |-> "idle", pc |-> "idle", o |-> None, need |-> 0,
         free_space |-> 0, freed |-> 0, got |-> 0, it |-> 0, rr |-> 0,
         batch |-> {}, temps |-> {}]

LRUIdx(o) == obj[o].id % LruCount

Init ==
    /\ buffer_map_ = {} /\ buffer_id_ = 0
    /\ obj = [o \in Objs |-> [NewObj(o, 0, FALSE) EXCEPT !.obj_rc = 0]]
    /\ file = [o \in Objs |-> [spill |-> Absent, data |-> Absent]]
    /\ w_locker_ = [o \in Objs |-> None] /\ gc_locker_ = None
    /\ lru_locker_ = [i \in Lrus |-> None]
    /\ gc_list_ = [i \in Lrus |-> <<>>] /\ round_robin_ = 0
    /\ current_memory_size_ = 0
    /\ temp_set_ = {} /\ clean_temp_set_ = {} /\ clean_list_ = {}
    /\ th = [t \in Threads |-> Idle]
    /\ handles = [t \in Threads |-> [o \in Objs |-> 0]]
    /\ writer = [o \in Objs |-> None]
    /\ unflushed = [o \in Objs |-> {}]
    /\ cleaned = {} /\ inherited = {} /\ late = FALSE /\ raced = FALSE
    /\ ops = [worker |-> 0, bg |-> 0] /\ overrun = FALSE /\ failed = ""

Add(a, b) == (a + b) % Word
Sub(a, b) == (a + Word - b) % Word

Ready(t) == th[t].pc = "idle" /\ failed = ""
Start(t) ==
    /\ Ready(t)
    /\ IF t = Bg THEN ops.bg < MaxBgOps /\ ops' = [ops EXCEPT !.bg = @ + 1]
       ELSE ops.worker < MaxLoads /\ ops' = [ops EXCEPT !.worker = @ + 1]
At(t, pc) == th[t].pc = pc /\ failed = ""

(* Thread t at pc of operation op on o, and thread t back from it.           *)
Enter(t, op, pc, o, need) ==
    th' = [th EXCEPT ![t] = [Idle EXCEPT !.op = op, !.pc = pc, !.o = o, !.need = need]]
Return(t) == th' = [th EXCEPT ![t] = Idle]

Unlocked(o) == o \in buffer_map_ /\ w_locker_[o] = None
Lock(o, t) == w_locker_' = [w_locker_ EXCEPT ![o] = t]

(* Free tries the lock of the object it would evict.                         *)
Mut_TryLock(o) == TRUE
TryLock(o) == w_locker_[o] = None

(* RemoveFromGCQueue takes an object out of the queue of its LRU cache.      *)
Mut_Unqueued(o) == gc_list_
Unqueued(o) == [gc_list_ EXCEPT ![LRUIdx(o)] = SelectSeq(@, LAMBDA x : x # o)]

(* FreeUnloadBuffer and AddToCleanList give the memory of an object back.    *)
Mut_GivenBack(o) == current_memory_size_
GivenBack(o) == Sub(current_memory_size_, obj[o].size)

(* UnrecoverableError: the process ends.                                     *)
Require(cond, reason) == failed' = IF cond THEN "" ELSE reason

-----------------------------------------------------------------------------
(* Creation                                                                  *)

Create(o, ephemeral, mapped) ==
    /\ failed = "" /\ o \notin buffer_map_ /\ obj[o].obj_rc = 0 /\ o \notin cleaned
    /\ buffer_map_' = buffer_map_ \union {o} /\ buffer_id_' = buffer_id_ + 1
    /\ obj' = [obj EXCEPT ![o] = [NewObj(o, buffer_id_, ephemeral) EXCEPT
                                   !.type = IF mapped THEN "Mmap" ELSE @]]
    /\ UNCHANGED <<locks, queues, current_memory_size_, sets, th, users, failed>>

(* A column, version or index is created; its entry adds its reference.      *)
AllocateBufferObject(o) == Create(o, TRUE, FALSE) /\ UNCHANGED file

(* An entry found by replay, before the node serves queries; its file        *)
(* exists.  The columns of a full block and index chunks are mapped.         *)
GetBufferObject(o, mapped) ==
    /\ th = [t \in Threads |-> Idle]
    /\ Create(o, FALSE, mapped)
    /\ file' = [file EXCEPT ![o].data = 0]

-----------------------------------------------------------------------------
(* Load                                                                      *)

Loaded(o) == [obj[o] EXCEPT !.status = "Loaded", !.rc = @ + 1]

Pinned(t, o) == handles' = [handles EXCEPT ![t][o] = @ + 1]

(* A statement that began before the drop may still load the object.         *)
UsedLate(o) == late' = (late \/ o \in cleaned)

(* The object is in memory, or mapped into it.                               *)
LoadAtOnce(t, o) ==
    /\ Start(t) /\ Unlocked(o) /\ handles[t][o] = 0
    /\ obj[o].status = "Loaded" \/ obj[o].type = "Mmap"
    /\ obj' = [obj EXCEPT ![o] = Loaded(o)]
    /\ Pinned(t, o)
    /\ Return(t)
    /\ Require(obj[o].status # "Clean", "Invalid status")
    /\ UsedLate(o)
    /\ UNCHANGED <<map, file, locks, queues, current_memory_size_, sets, writer,
                   unflushed, cleaned, inherited, raced, overrun>>

(* The lock of the object is taken and the thread goes on to a second lock.  *)
LoadLock(t, o) ==
    /\ Start(t) /\ Unlocked(o) /\ handles[t][o] = 0
    /\ obj[o].type # "Mmap" /\ obj[o].status # "Loaded"
    /\ Enter(t, "load", IF obj[o].status = "Unloaded" THEN "unqueue" ELSE "request",
             o, obj[o].size)
    /\ Lock(o, t)
    /\ Require(obj[o].status # "Clean", "Invalid status")
    /\ UsedLate(o)
    /\ UNCHANGED <<map, obj, file, gc_locker_, lru_locker_, queues,
                   current_memory_size_, sets, handles, writer, unflushed, cleaned,
                   inherited, raced, overrun>>

(* RemoveFromGCQueue for Load of an unloaded object.                         *)
LoadUnqueue(t) ==
    LET o == th[t].o
        i == LRUIdx(o) IN
    /\ At(t, "unqueue") /\ th[t].op = "load" /\ lru_locker_[i] = None
    /\ Require(o \in Range(gc_list_[i]), "Unloaded, but not in GC queue")
    /\ gc_list_' = Unqueued(o)
    /\ obj' = [obj EXCEPT ![o] = Loaded(o)]
    /\ Pinned(t, o) /\ Lock(o, None) /\ Return(t)
    /\ UNCHANGED <<map, file, gc_locker_, lru_locker_, round_robin_,
                   current_memory_size_, sets, writer, unflushed, ghosts, ops, overrun>>

(* What a thread does when RequestSpace has returned ok to it; mem is the    *)
(* new value of current_memory_size_.                                        *)
LoadContent(o) ==
    CASE obj[o].status = "New" -> 0
      [] obj[o].type = "Temp" -> file[o].spill
      [] OTHER -> file[o].data

Read(ok, content) ==
    Require(ok /\ content # Absent, IF ok THEN "No such file" ELSE "Out of memory.")

Resume(t, ok, mem) ==
    LET o == th[t].o IN
    /\ current_memory_size_' = mem
    /\ Return(t)
    /\ IF th[t].op = "append" THEN UNCHANGED w_locker_ ELSE Lock(o, None)
    /\ \/ /\ th[t].op = "load"
          /\ Read(ok, LoadContent(o))
          /\ obj' = [obj EXCEPT ![o] = [Loaded(o) EXCEPT !.mem = LoadContent(o)]]
          /\ Pinned(t, o)
          /\ UNCHANGED overrun
       \/ /\ th[t].op = "mutable"
          /\ Read(ok, file[o].data)
          /\ obj' = [obj EXCEPT ![o].type = "Ephemeral", ![o].mem = file[o].data]
          /\ UNCHANGED <<handles, overrun>>
       \/ /\ th[t].op = "unload"
          /\ obj' = [obj EXCEPT ![o].status = "Unloaded"]
          /\ UNCHANGED <<handles, overrun, failed>>
       \/ /\ th[t].op = "append"
          /\ overrun' = (overrun \/ ~ok)
          /\ UNCHANGED <<obj, handles, failed>>
    /\ UNCHANGED <<map, writer, unflushed, ghosts, ops>>

-----------------------------------------------------------------------------
(* RequestSpace                                                              *)

(* There seems to be room: free_space is an unsigned difference.             *)
RequestGranted(t) ==
    /\ At(t, "request") /\ gc_locker_ = None
    /\ Sub(Limit, current_memory_size_) >= th[t].need
    /\ Resume(t, TRUE, Add(current_memory_size_, th[t].need))
    /\ UNCHANGED <<file, gc_locker_, lru_locker_, queues, sets>>

RequestEvict(t) ==
    LET free_space == Sub(Limit, current_memory_size_) IN
    /\ At(t, "request") /\ gc_locker_ = None
    /\ free_space < th[t].need
    /\ gc_locker_' = t
    /\ th' = [th EXCEPT ![t] = [@ EXCEPT !.pc = "lru", !.free_space = free_space,
                                         !.rr = round_robin_]]
    /\ UNCHANGED <<map, obj, file, w_locker_, lru_locker_, queues,
                   current_memory_size_, sets, users, failed>>

(* LRUCache::RequestSpace of the cache at round_robin_ begins.               *)
EvictBegin(t) ==
    /\ At(t, "lru") /\ lru_locker_[round_robin_] = None
    /\ lru_locker_' = [lru_locker_ EXCEPT ![round_robin_] = t]
    /\ th' = [th EXCEPT ![t] = [@ EXCEPT !.pc = "evict", !.it = 1, !.got = 0]]
    /\ UNCHANGED <<map, obj, file, w_locker_, gc_locker_, queues,
                   current_memory_size_, sets, users, failed>>

EvictGoesOn(t) == th[t].got < th[t].need /\ th[t].it <= Len(gc_list_[round_robin_])

(* Free returned false: another thread is loading or cleaning the object.    *)
EvictSkip(t) ==
    /\ At(t, "evict") /\ EvictGoesOn(t)
    /\ ~TryLock(gc_list_[round_robin_][th[t].it])
    /\ th' = [th EXCEPT ![t].it = @ + 1]
    /\ UNCHANGED <<map, obj, file, locks, queues, current_memory_size_, sets,
                   users, failed>>

(* Free: an ephemeral object is written to its spill file first.             *)
Mut_Spills(o) == obj[o].type = "Ephemeral" /\ file[o].data = Absent
Spills(o) == obj[o].type = "Ephemeral"

EvictFree(t) ==
    LET i == round_robin_
        x == gc_list_[i][th[t].it]
        spills == Spills(x) IN
    /\ At(t, "evict") /\ EvictGoesOn(t) /\ TryLock(x)
    /\ Require(/\ obj[x].status = "Unloaded"
               /\ obj[x].type \in {"Temp", "Persistent", "Ephemeral"}
               /\ ~(spills /\ x \in temp_set_), "attempt to free")
    /\ file' = IF spills THEN [file EXCEPT ![x].spill = obj[x].mem] ELSE file
    /\ temp_set_' = IF spills THEN temp_set_ \union {x} ELSE temp_set_
    /\ clean_temp_set_' = IF spills THEN clean_temp_set_ \ {x} ELSE clean_temp_set_
    /\ obj' = [obj EXCEPT ![x].status = "Freed", ![x].mem = Absent,
                          ![x].type = IF spills THEN "Temp" ELSE @]
    /\ gc_list_' = [gc_list_ EXCEPT ![i] = RemoveAt(@, th[t].it)]
    /\ th' = [th EXCEPT ![t].got = @ + obj[x].size]
    /\ UNCHANGED <<map, locks, round_robin_, current_memory_size_, clean_list_, users>>

(* One cache is done; go to the next one or give gc_locker_ back.            *)
EvictNextLru(t) ==
    LET freed == th[t].freed + th[t].got
        next == (round_robin_ + 1) % LruCount
        enough == Add(freed, th[t].free_space) >= th[t].need IN
    /\ At(t, "evict") /\ ~EvictGoesOn(t)
    /\ lru_locker_' = [lru_locker_ EXCEPT ![round_robin_] = None]
    /\ round_robin_' = next
    /\ \/ /\ ~enough /\ next # th[t].rr
          /\ th' = [th EXCEPT ![t] = [@ EXCEPT !.pc = "lru", !.freed = freed, !.got = 0]]
          /\ UNCHANGED <<map, obj, w_locker_, gc_locker_, current_memory_size_,
                         users, failed>>
       \/ /\ enough \/ next = th[t].rr
          /\ gc_locker_' = None
          /\ Resume(t, enough, Add(current_memory_size_, Sub(th[t].need, freed)))
    /\ UNCHANGED <<file, gc_list_, sets>>

-----------------------------------------------------------------------------
(* Spill files in use, and spill files to delete.                            *)

RemoveTemp(o) ==
    LET removed == {x \in {o} : obj[x].type = "Temp"} IN
    /\ temp_set_' = temp_set_ \ removed
    /\ clean_temp_set_' = clean_temp_set_ \union removed

RemoveTempOk(o) ==
    obj[o].type = "Temp" => o \in temp_set_ /\ o \notin clean_temp_set_

-----------------------------------------------------------------------------
(* Handles                                                                   *)

(* Copy of a handle: LoadInner.                                              *)
CopyHandle(t, o) ==
    /\ Start(t) /\ Unlocked(o) /\ handles[t][o] \in 1 .. MaxPins - 1
    /\ Require(obj[o].status = "Loaded", "Invalid status")
    /\ obj' = [obj EXCEPT ![o].rc = @ + 1]
    /\ Pinned(t, o)
    /\ Return(t)
    /\ UNCHANGED <<map, file, locks, queues, current_memory_size_, sets, writer,
                   unflushed, ghosts, overrun>>

(* The writer of a block has it locked from before its first handle until    *)
(* its last one is gone.                                                     *)
Unpinned(t, o) ==
    /\ handles' = [handles EXCEPT ![t][o] = @ - 1]
    /\ writer' = [writer EXCEPT ![o] = IF @ = t /\ handles[t][o] = 1 THEN None ELSE @]

(* UnloadInner, when other handles are left or the object is mapped.         *)
UnloadAtOnce(t, o) ==
    LET last == obj[o].rc = 1
        unmaps == last /\ obj[o].type = "ToMmap" IN
    /\ Ready(t) /\ Unlocked(o) /\ handles[t][o] > 0
    /\ last => obj[o].type \in {"ToMmap", "Mmap"}
    /\ Require(/\ obj[o].status = "Loaded"
               /\ unmaps => current_memory_size_ >= obj[o].size, "Invalid status")
    /\ obj' = [obj EXCEPT ![o] =
                 [@ EXCEPT !.rc = @ - 1,
                           !.status = IF unmaps THEN "Freed"
                                      ELSE IF last THEN "Unloaded" ELSE @,
                           !.type = IF unmaps THEN "Mmap" ELSE @,
                           !.mem = IF unmaps THEN Absent ELSE @]]
    /\ current_memory_size_' = IF unmaps THEN GivenBack(o)
                               ELSE current_memory_size_
    /\ Unpinned(t, o)
    /\ UNCHANGED <<map, file, locks, queues, sets, th, unflushed, ghosts, ops, overrun>>

UnloadLock(t, o) ==
    /\ Ready(t) /\ Unlocked(o) /\ handles[t][o] > 0
    /\ obj[o].rc = 1 /\ obj[o].type \notin {"ToMmap", "Mmap"}
    /\ Require(obj[o].status = "Loaded", "Invalid status")
    /\ obj' = [obj EXCEPT ![o].rc = 0]
    /\ Unpinned(t, o) /\ Lock(o, t)
    /\ Enter(t, "unload", "push", o, 0)
    /\ UNCHANGED <<map, file, gc_locker_, lru_locker_, queues, current_memory_size_,
                   sets, unflushed, ghosts, ops, overrun>>

(* PushGCQueue; it asks for space when more than the limit is in use.        *)
PushGCQueue(t) ==
    LET o == th[t].o
        i == LRUIdx(o)
        over == current_memory_size_ > Limit IN
    /\ At(t, "push") /\ lru_locker_[i] = None
    /\ gc_list_' = [gc_list_ EXCEPT ![i] = Append(SelectSeq(@, LAMBDA x : x # o), o)]
    /\ obj' = [obj EXCEPT ![o].status = IF over THEN @ ELSE "Unloaded"]
    /\ \/ /\ over
          /\ th' = [th EXCEPT ![t] = [@ EXCEPT !.pc = "request",
                                               !.need = current_memory_size_ - Limit]]
          /\ UNCHANGED w_locker_
       \/ ~over /\ Return(t) /\ Lock(o, None)
    /\ UNCHANGED <<map, file, gc_locker_, lru_locker_, round_robin_,
                   current_memory_size_, sets, users, failed>>

(* GetMutPointer, by the thread that has the block of the newest entry       *)
(* locked; at its end AppendData sets min_row_ts_.                           *)
GetMutPointer(t, o) ==
    /\ Ready(t) /\ Unlocked(o) /\ handles[t][o] > 0 /\ writer[o] = None
    /\ ~(At(Bg, "saved") /\ th[Bg].o = o)
    /\ writer' = [writer EXCEPT ![o] = t]
    /\ unflushed' = [unflushed EXCEPT ![o] = @ \union {obj[o].obj_rc}]
    /\ \/ /\ obj[o].type = "Mmap"
          /\ Enter(t, "mutable", "request", o, obj[o].size)
          /\ Lock(o, t)
          /\ UNCHANGED <<obj, sets, failed>>
       \/ /\ obj[o].type # "Mmap"
          /\ obj' = [obj EXCEPT ![o].type = "Ephemeral"]
          /\ RemoveTemp(o)
          /\ Require(RemoveTempOk(o), "RemoveTemp")
          /\ UNCHANGED <<w_locker_, th, clean_list_>>
    /\ UNCHANGED <<map, file, gc_locker_, lru_locker_, queues, current_memory_size_,
                   handles, ghosts, ops, overrun>>

(* The writer changes the memory it has the pointer of.                      *)
Write(t, o) ==
    /\ Ready(t) /\ writer[o] = t /\ o \notin VarObjs /\ obj[o].mem < MaxWrites
    /\ obj' = [obj EXCEPT ![o].mem = @ + 1]
    /\ UNCHANGED <<map, file, locks, queues, current_memory_size_, sets, th, users,
                   failed>>

(* VarBuffer::Append: the buffer grows first, then AddBufferSize asks for    *)
(* the space.                                                                *)
AppendVar(t, o) ==
    /\ Ready(t) /\ writer[o] = t /\ o \in VarObjs /\ obj[o].mem < MaxWrites
    /\ obj' = [obj EXCEPT ![o].mem = @ + 1, ![o].size = @ + 1]
    /\ Enter(t, "append", "request", o, 1)
    /\ UNCHANGED <<map, file, locks, queues, current_memory_size_, sets, users,
                   failed>>

-----------------------------------------------------------------------------
(* Entries that refer to an object                                           *)

(* ALTER copies the entry of a table; the copies of its columns add their    *)
(* references, and the copies of its blocks have the same timestamps.        *)
AddObjRc(t, o) ==
    LET newest == obj[o].obj_rc
        copied == newest \in unflushed[o] IN
    /\ Start(t) /\ Unlocked(o) /\ o \notin cleaned /\ newest < MaxRefs
    /\ obj' = [obj EXCEPT ![o].obj_rc = @ + 1]
    /\ unflushed' = IF copied THEN [unflushed EXCEPT ![o] = @ \union {newest + 1}]
                    ELSE unflushed
    /\ inherited' = IF copied THEN inherited \union {o} ELSE inherited
    /\ Enter(t, "alter", "cloned", o, 0)
    /\ UNCHANGED <<map, file, locks, queues, current_memory_size_, sets, handles,
                   writer, cleaned, late, raced, overrun, failed>>

(* The copied column stays, or is the one that is dropped (SubObjRc).        *)
KeepColumn(t) ==
    /\ At(t, "cloned") /\ Return(t)
    /\ UNCHANGED <<map, obj, file, locks, queues, current_memory_size_, sets, users,
                   failed>>

SubObjRc(t) ==
    LET o == th[t].o
        last == obj[o].obj_rc = 1 IN
    /\ At(t, "cloned") /\ Unlocked(o)
    /\ Require(obj[o].obj_rc > 0, "obj_rc_ is 0")
    /\ obj' = [obj EXCEPT ![o].obj_rc = @ - 1,
                          ![o].status = IF last THEN "Clean" ELSE @]
    /\ clean_list_' = clean_list_ \union (IF last THEN {o} ELSE {})
    /\ unflushed' = [unflushed EXCEPT ![o] = @ \ {obj[o].obj_rc}]
    /\ cleaned' = cleaned \union (IF last THEN {o} ELSE {})
    /\ Return(t)
    /\ UNCHANGED <<map, file, locks, queues, current_memory_size_, temp_set_,
                   clean_temp_set_, handles, writer, inherited, late, raced, ops, overrun>>

Altered(o) == {t \in Threads : th[t].pc = "cloned" /\ th[t].o = o}

-----------------------------------------------------------------------------
(* The background thread                                                     *)

(* Save: the memory is written, or the spill file becomes the data file; a   *)
(* saved or a mapped object is not written again.                            *)
Save(o, all_save) ==
    LET type == obj[o].type
        status == obj[o].status
        writes == type = "Ephemeral" /\ status \in {"Loaded", "Unloaded"}
        moves == type = "Temp" \/ (type = "Ephemeral" /\ status = "Freed") IN
    /\ Require(/\ type = "Ephemeral" => writes \/ moves
               /\ type = "Temp" => o \in temp_set_
               /\ type # "Mmap",
               IF o \in inherited /\ type = "Mmap" THEN "Mapped for the original"
               ELSE "Invalid buffer status")
    /\ file' = [file EXCEPT ![o] =
                  IF moves THEN [spill |-> Absent, data |-> @.spill]
                  ELSE IF writes THEN [@ EXCEPT !.data = IF all_save THEN obj[o].mem ELSE Absent]
                  ELSE @]
    /\ obj' = [obj EXCEPT ![o].type = IF type = "Temp" \/ (writes /\ all_save)
                                      THEN "Persistent" ELSE @]
    /\ temp_set_' = IF type = "Temp" THEN temp_set_ \ {o} ELSE temp_set_
    /\ raced' = (raced \/ writer[o] # None)
    /\ UNCHANGED <<map, locks, queues, current_memory_size_, clean_temp_set_,
                   clean_list_, handles, writer, cleaned, inherited, late, overrun>>

(* Flush of the block of entry e, which has it locked; the writer has the    *)
(* block of the newest entry locked.  The file of a version with rows newer  *)
(* than the checkpoint is written in part; a full block is mapped next.      *)
Flush(o, e, newer, all_save, full) ==
    /\ Start(Bg) /\ Unlocked(o) /\ e \in unflushed[o]
    /\ e = obj[o].obj_rc => writer[o] = None
    /\ newer \/ all_save
    /\ full => ~newer
    /\ Save(o, all_save)
    /\ unflushed' = IF newer THEN unflushed ELSE [unflushed EXCEPT ![o] = @ \ {e}]
    /\ IF full THEN Enter(Bg, "flush", "saved", o, 0) ELSE Return(Bg)

(* The operation of a delta checkpoint on a column takes the lock of the     *)
(* block to look at its timestamps only,                                     *)
FlushColumnCheck(o) ==
    /\ Start(Bg) /\ o \in buffer_map_ \ cleaned
    /\ writer[o] = None /\ unflushed[o] # {}
    /\ Enter(Bg, "column", "column", o, 0)
    /\ UNCHANGED <<map, obj, file, locks, queues, current_memory_size_, sets, handles,
                   writer, unflushed, ghosts, overrun, failed>>

(* and saves the column without it.                                          *)
FlushColumn ==
    /\ At(Bg, "column") /\ Unlocked(th[Bg].o)
    /\ Save(th[Bg].o, TRUE)
    /\ Return(Bg)
    /\ UNCHANGED <<unflushed, ops>>

(* The column of a full block, or an index chunk, is mapped once saved.      *)
Mappable(o) ==
    Require(/\ obj[o].type \in {"Persistent", "Mmap"}
            /\ obj[o].status \in {"Loaded", "Unloaded", "Freed"},
            IF o \in inherited THEN "Mapped for the original" ELSE "Invalid buffer type")

ToMmapAtOnce ==
    LET o == th[Bg].o IN
    /\ At(Bg, "saved") /\ Unlocked(o)
    /\ obj[o].type = "Persistent" => obj[o].status # "Unloaded"
    /\ Mappable(o)
    /\ obj' = [obj EXCEPT ![o].type = IF obj[o].status = "Loaded" THEN "ToMmap" ELSE "Mmap"]
    /\ Return(Bg)
    /\ UNCHANGED <<map, file, locks, queues, current_memory_size_, sets, users>>

ToMmapLock ==
    LET o == th[Bg].o IN
    /\ At(Bg, "saved") /\ Unlocked(o)
    /\ obj[o].type = "Persistent" /\ obj[o].status = "Unloaded"
    /\ Lock(o, Bg)
    /\ th' = [th EXCEPT ![Bg] = [@ EXCEPT !.op = "tommap", !.pc = "unqueue"]]
    /\ UNCHANGED <<map, obj, file, gc_locker_, lru_locker_, queues,
                   current_memory_size_, sets, users, failed>>

ToMmapUnqueue ==
    LET o == th[Bg].o
        i == LRUIdx(o) IN
    /\ At(Bg, "unqueue") /\ th[Bg].op = "tommap" /\ lru_locker_[i] = None
    /\ Require(current_memory_size_ >= obj[o].size, "FreeUnloadBuffer")
    /\ gc_list_' = Unqueued(o)
    /\ obj' = [obj EXCEPT ![o].status = "Freed", ![o].type = "Mmap", ![o].mem = Absent]
    /\ current_memory_size_' = GivenBack(o)
    /\ Lock(o, None) /\ Return(Bg)
    /\ UNCHANGED <<map, file, gc_locker_, lru_locker_, round_robin_, sets, users>>

(* PickForCleanup of one entry's reference: one of several, or the last one, *)
(* when the drop of the last entry is older than the clean-up timestamp,     *)
(* which need not be older than every statement that runs.                   *)
PickOne(o) ==
    /\ Start(Bg) /\ Unlocked(o)
    /\ obj[o].obj_rc - Cardinality(Altered(o)) > 1
    /\ obj' = [obj EXCEPT ![o].obj_rc = @ - 1]
    /\ unflushed' = [unflushed EXCEPT ![o] = {e - 1 : e \in @ \ {1}}]
    /\ Return(Bg)
    /\ UNCHANGED <<map, file, locks, queues, current_memory_size_, sets, handles,
                   writer, ghosts, overrun, failed>>

PickLast(o) ==
    LET frees == obj[o].status = "Unloaded" /\ obj[o].type # "Mmap" IN
    /\ Start(Bg) /\ Unlocked(o) /\ obj[o].obj_rc = 1
    /\ clean_list_' = clean_list_ \union {o}
    /\ cleaned' = cleaned \union {o} /\ unflushed' = [unflushed EXCEPT ![o] = {}]
    /\ late' = (late \/ \E t \in Workers : handles[t][o] > 0 \/ th[t].o = o)
    /\ \/ /\ ~frees
          /\ Require(/\ obj[o].type = "Mmap" \/ obj[o].status \in {"New", "Freed"}
                     /\ RemoveTempOk(o), "Invalid status")
          /\ obj' = [obj EXCEPT ![o].obj_rc = 0, ![o].status = "Clean"]
          /\ RemoveTemp(o)
          /\ Return(Bg)
          /\ UNCHANGED <<w_locker_, current_memory_size_>>
       \/ /\ frees
          /\ Require(current_memory_size_ >= obj[o].size, "AddToCleanList")
          /\ obj' = [obj EXCEPT ![o].obj_rc = 0, ![o].mem = Absent]
          /\ current_memory_size_' = GivenBack(o)
          /\ Lock(o, Bg) /\ Enter(Bg, "pick", "unqueue", o, 0)
          /\ UNCHANGED <<temp_set_, clean_temp_set_>>
    /\ UNCHANGED <<map, file, gc_locker_, lru_locker_, queues, handles, writer,
                   inherited, raced, overrun>>

PickUnqueue ==
    LET o == th[Bg].o
        i == LRUIdx(o) IN
    /\ At(Bg, "unqueue") /\ th[Bg].op = "pick" /\ lru_locker_[i] = None
    /\ gc_list_' = Unqueued(o)
    /\ obj' = [obj EXCEPT ![o].status = "Clean"]
    /\ RemoveTemp(o)
    /\ Require(o \in Range(gc_list_[i]) /\ RemoveTempOk(o), "Unloaded, but not in GC queue")
    /\ Lock(o, None) /\ Return(Bg)
    /\ UNCHANGED <<map, file, gc_locker_, lru_locker_, round_robin_,
                   current_memory_size_, clean_list_, users>>

(* RemoveClean takes the clean list and deletes the files of its objects,    *)
CleanFiles ==
    /\ Start(Bg)
    /\ Require(\A o \in clean_list_ : obj[o].status = "Clean" /\ obj[o].mem = Absent,
               "Buffer is not freed.")
    /\ file' = [o \in Objs |-> IF o \in clean_list_ THEN [file[o] EXCEPT !.data = Absent]
                               ELSE file[o]]
    /\ th' = [th EXCEPT ![Bg] = [@ EXCEPT !.pc = "swap", !.batch = clean_list_]]
    /\ clean_list_' = {}
    /\ UNCHANGED <<map, obj, locks, queues, current_memory_size_, temp_set_,
                   clean_temp_set_, handles, writer, unflushed, ghosts, overrun>>

(* takes the set of spill files that are not needed,                         *)
Mut_CleanSwapTemp ==
    /\ At(Bg, "swap")
    /\ th' = [th EXCEPT ![Bg] = [@ EXCEPT !.pc = "spills", !.temps = clean_temp_set_]]
    /\ UNCHANGED <<map, obj, file, locks, queues, current_memory_size_, sets,
                   users, failed>>

CleanSwapTemp ==
    /\ At(Bg, "swap")
    /\ th' = [th EXCEPT ![Bg] = [@ EXCEPT !.pc = "spills", !.temps = clean_temp_set_]]
    /\ clean_temp_set_' = {}
    /\ UNCHANGED <<map, obj, file, locks, queues, current_memory_size_, temp_set_,
                   clean_list_, users, failed>>

(* deletes them one by one,                                                  *)
CleanupTempFile(o) ==
    LET deletes == obj[o].type # "Temp" IN
    /\ At(Bg, "spills") /\ o \in th[Bg].temps /\ Unlocked(o)
    /\ Require(deletes => file[o].spill # Absent, "File not found for deletion")
    /\ file' = IF deletes THEN [file EXCEPT ![o].spill = Absent] ELSE file
    /\ th' = [th EXCEPT ![Bg].temps = @ \ {o}]
    /\ UNCHANGED <<map, obj, locks, queues, current_memory_size_, sets, users>>

(* and destroys the objects.  They are in no LRU queue any more, so the      *)
(* removal from all queues and from the map is one step.                     *)
CleanErase ==
    /\ At(Bg, "spills") /\ th[Bg].temps = {}
    /\ \A i \in Lrus : lru_locker_[i] = None
    /\ gc_list_' = [i \in Lrus |-> SelectSeq(gc_list_[i], LAMBDA x : x \notin th[Bg].batch)]
    /\ Require(th[Bg].batch \subseteq buffer_map_, "RemoveClean")
    /\ buffer_map_' = buffer_map_ \ th[Bg].batch
    /\ Return(Bg)
    /\ UNCHANGED <<buffer_id_, obj, file, locks, round_robin_, current_memory_size_, sets, users>>

-----------------------------------------------------------------------------
Finished == (failed # "" \/ \A t \in Threads : th[t].pc = "idle") /\ UNCHANGED vars

Step(t) ==
    \/ LoadUnqueue(t) \/ RequestGranted(t) \/ RequestEvict(t)
    \/ EvictBegin(t) \/ EvictSkip(t) \/ EvictFree(t) \/ EvictNextLru(t)
    \/ PushGCQueue(t) \/ KeepColumn(t) \/ SubObjRc(t)

Use(t, o) ==
    \/ LoadAtOnce(t, o) \/ LoadLock(t, o) \/ CopyHandle(t, o)
    \/ UnloadAtOnce(t, o) \/ UnloadLock(t, o)
    \/ GetMutPointer(t, o) \/ Write(t, o) \/ AppendVar(t, o) \/ AddObjRc(t, o)

Background(o) ==
    \/ \E e \in unflushed[o], newer, all_save, full \in BOOLEAN :
         Flush(o, e, newer, all_save, full)
    \/ FlushColumnCheck(o) \/ PickOne(o) \/ PickLast(o) \/ CleanupTempFile(o)

Next ==
    \/ \E o \in Objs : AllocateBufferObject(o) \/ Background(o)
    \/ \E o \in Objs, mapped \in BOOLEAN : GetBufferObject(o, mapped)
    \/ \E t \in Workers : Step(t) \/ \E o \in Objs : Use(t, o)
    \/ FlushColumn \/ ToMmapAtOnce \/ ToMmapLock \/ ToMmapUnqueue
    \/ PickUnqueue \/ CleanFiles \/ CleanSwapTemp \/ CleanErase
    \/ Finished

Spec == Init /\ [][Next]_vars
-----------------------------------------------------------------------------
(* Properties                                                                *)

InMemory == {o \in Objs : obj[o].mem # Absent}

(* Where the next Load of an object would find its content.                  *)
Content(o) ==
    CASE obj[o].obj_rc = 0 -> 0
      [] o \in InMemory -> obj[o].mem
      [] OTHER -> LoadContent(o)

Store == INSTANCE PageStore WITH
    Pages <- Objs,
    content <- [o \in Objs |-> Content(o)],
    pins <- [o \in Objs |-> obj[o].rc],
    gone <- cleaned,
    broken <- late \/ raced

(* Eviction to spill files, checkpoints, mapping and clean-up never change   *)
(* what a user of a buffer sees: the content of an object changes by writes  *)
(* through a handle only, however the threads interleave, and an object is   *)
(* not removed while a handle is held (Load, Free, Save, ToMmap).  The       *)
(* promise ends when clean-up reaches an object that a statement uses, and   *)
(* when FlushColumn, or the Flush of an entry that ALTER has copied, saves   *)
(* an object that is being written: both are reachable.                      *)
ImplementsPageStore == Store!Spec

(* Types of the variables.                                                   *)
TypeOK ==
    /\ buffer_map_ \subseteq Objs
    /\ obj \in [Objs -> [id : 0 .. Cardinality(Objs),
                         status : {"New", "Loaded", "Unloaded", "Freed", "Clean"},
                         type : {"Persistent", "Ephemeral", "Temp", "ToMmap", "Mmap"},
                         rc : Nat, obj_rc : Nat, size : Nat, mem : {Absent} \union Nat]]
    /\ w_locker_ \in [Objs -> Threads \union {None}]
    /\ gc_locker_ \in Threads \union {None}
    /\ lru_locker_ \in [Lrus -> Threads \union {None}]
    /\ round_robin_ \in Lrus /\ current_memory_size_ \in 0 .. Word - 1

(* An object whose lock is free is in the queue of its LRU cache, once, if   *)
(* it is unloaded and not mapped, and is in no queue otherwise: Load,        *)
(* eviction, mapping and clean-up always find each other's trace.            *)
GCQueueExact ==
    \A o \in buffer_map_ : w_locker_[o] = None =>
      \A i \in Lrus :
        Len(SelectSeq(gc_list_[i], LAMBDA x : x = o)) =
          IF i = LRUIdx(o) /\ obj[o].status = "Unloaded" /\ obj[o].type # "Mmap"
          THEN 1 ELSE 0

Appending == {t \in Threads : th[t].op = "append"}

(* Until an append goes beyond the limit, current_memory_size_ is the memory *)
(* of the objects in memory, up to what an eviction under way has freed and  *)
(* an append under way has not asked for yet, and is within memory_limit_.   *)
MemAccounted ==
    ~overrun /\ failed = "" =>
      /\ current_memory_size_ + Cardinality(Appending) =
           MapThenSumSet(LAMBDA o : obj[o].size, InMemory)
           + MapThenSumSet(LAMBDA t : th[t].freed + th[t].got, Threads)
      /\ current_memory_size_ <= Limit

(* No queue, set or thread keeps a pointer to an object that RemoveClean has *)
(* destroyed, as long as clean-up has reached no object in use; the queues   *)
(* and sets never do.                                                        *)
NoDangling ==
    /\ UNION {Range(gc_list_[i]) : i \in Lrus} \union temp_set_ \union clean_temp_set_
         \union clean_list_ \union th[Bg].temps \subseteq buffer_map_
    /\ late \/ \A t \in Threads :
                          /\ th[t].o \in buffer_map_ \union {None}
                          /\ \A o \in Objs : handles[t][o] > 0 => o \in buffer_map_

(* The variables keep their types, and no thread meets a state that the code *)
(* treats as impossible: Save of a new or of a mapped object, ToMmap of one  *)
(* that is not saved, Free of one in use, PickForCleanup of a loaded one,    *)
(* Load of a cleaned one.  The exceptions can all be reached: memory is      *)
(* exhausted; an append has gone beyond the limit; a spill file is deleted   *)
(* twice (CleanupTempFile); clean-up reaches an object in use; an entry that *)
(* ALTER copied is flushed after its original has been mapped.               *)
NoAbort ==
    /\ TypeOK
    /\ \/ overrun \/ late
       \/ failed \in {"", "Out of memory.", "File not found for deletion",
                      "Mapped for the original"}
===========================================================================
