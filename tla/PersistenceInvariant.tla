------------------------ MODULE PersistenceInvariant ------------------------
(* The inductive invariant of PersistenceManager behind its reference        *)
(* counts, and the steps of threads that write, delete, finalize and store.  *)
EXTENDS PersistenceManager, TLAPS, FiniteSetTheorems

-----------------------------------------------------------------------------
(* The inductive invariant                                                   *)

(* The fields that are changed of statistics, of the current object and of a *)
(* thread's state.                                                           *)
IsStat(s) == "ref_count" \in DOMAIN s
IsCurrent(c) == "key" \in DOMAIN c /\ "ref_count" \in DOMAIN c
IsThread(w) ==
    /\ "pc" \in DOMAIN w /\ "p" \in DOMAIN w /\ "then" \in DOMAIN w /\ "acc" \in DOMAIN w
    /\ w.pc \in Reading \union {"idle", "place", "handle", "serialize", "delta", "log"}
    /\ w.then \in {"idle", "serialize", "delta", "log"}
    /\ w.pc # "handle" => w.then = "idle"

(* Addresses and statistics as a checkpoint or the log keeps them: of keys   *)
(* below nk, without readers.                                                *)
IsStored(a, nk) ==
    /\ \A k \in DOMAIN a.objects :
          k \in Nat /\ k < nk /\ IsStat(a.objects[k]) /\ a.objects[k].ref_count = 0
    /\ \A p \in DOMAIN a.paths : a.paths[p].key \in Nat /\ a.paths[p].key < nk

(* The readers of every object.                                              *)
Reads == [k \in Nat |-> ReadersOf(k)]

(* What holds under mtx_ of the objects, the current object and the next     *)
(* key, when rd are the readers.                                             *)
ManagerOK(objs, cur, nk, rd) ==
    /\ nk \in Nat
    /\ IsCurrent(cur) /\ cur.key \in Nat /\ cur.key < nk /\ cur.key \notin DOMAIN objs
    /\ cur.ref_count = Cardinality(rd[cur.key])
    /\ \A k \in DOMAIN objs : /\ k \in Nat /\ k < nk /\ IsStat(objs[k])
                              /\ objs[k].ref_count = Cardinality(rd[k])

ThreadsOK ==
    /\ DOMAIN th = Threads
    /\ \A t \in Threads :
          /\ IsThread(th[t])
          /\ th[t].acc # <<>> => IsStored(th[t].acc, next_key)
          /\ th[t].pc = "log" \/ th[t].then = "log" => th[t].acc # <<>>

(* A file that is read has an address, and nobody writes it.                 *)
ReadersOK ==
    /\ \A p \in Mapped : local_path_obj_[p].key \in Nat /\ local_path_obj_[p].key < next_key
    /\ \A t \in Threads : th[t].pc \in Reading => th[t].p \in Mapped
    /\ \A t, u \in Threads : th[t].pc = "place" /\ th[u].pc \in Reading => th[t].p # th[u].p

Good ==
    /\ ManagerOK(objects_, current, next_key, Reads)
    /\ ThreadsOK /\ ReadersOK
    /\ IsStored(durable, next_key)

PInv == failed = "none" => Good

-----------------------------------------------------------------------------
(* The sections under mtx_                                                   *)

IsSection(r) ==
    /\ "objects" \in DOMAIN r /\ "current" \in DOMAIN r /\ "next_key" \in DOMAIN r
    /\ "drop" \in DOMAIN r /\ "err" \in DOMAIN r

(* CurrentObjFinalizeNoLock hands the count of the current object over; the  *)
(* next object has no readers.                                               *)
LEMMA FinalizeOK ==
    ASSUME NEW rd, ManagerOK(objects_, current, next_key, rd), rd[next_key] = {},
           NEW r, r = CurrentObjFinalizeNoLock
    PROVE  /\ ManagerOK(r.objects, r.current, r.next_key, rd)
           /\ r.next_key \in {next_key, next_key + 1} /\ r.err = "none" /\ IsSection(r)
  <1>0. next_key \in Nat
    BY DEF ManagerOK
  <1>1. CASE current.size = 0
    <2>1. /\ r.objects = objects_ /\ r.current = current /\ r.next_key = next_key
          /\ r.err = "none" /\ IsSection(r)
      BY <1>1 DEF CurrentObjFinalizeNoLock, Same, IsSection
    <2> QED
      BY <2>1, Zenon
  <1>2. CASE current.size # 0
    <2> DEFINE stat == ObjStat(current.size, current.parts, current.ref_count)
               cur == NewCurrent(next_key)
    <2>1. /\ r.objects = With(objects_, current.key, stat) /\ r.current = cur
          /\ r.next_key = next_key + 1 /\ r.err = "none" /\ IsSection(r)
      BY <1>2 DEF CurrentObjFinalizeNoLock, Same, IsSection
    <2>2. /\ IsCurrent(cur) /\ cur.key = next_key /\ cur.ref_count = Cardinality(rd[next_key])
      BY FS_EmptySet DEF NewCurrent, IsCurrent
    <2>3. IsStat(stat) /\ stat.ref_count = current.ref_count
      BY DEF ObjStat, IsStat
    <2> HIDE DEF stat, cur
    <2>4. /\ DOMAIN r.objects = DOMAIN objects_ \union {current.key}
          /\ r.objects[current.key] = stat
          /\ \A x \in DOMAIN objects_ \ {current.key} : r.objects[x] = objects_[x]
      BY <2>1 DEF With
    <2>5. \A k \in DOMAIN r.objects : /\ k \in Nat /\ k < next_key + 1 /\ IsStat(r.objects[k])
                                      /\ r.objects[k].ref_count = Cardinality(rd[k])
      BY <2>3, <2>4 DEF ManagerOK
    <2>6. next_key \notin DOMAIN r.objects
      BY <1>0, <2>4 DEF ManagerOK
    <2>7. next_key + 1 \in Nat /\ next_key < next_key + 1
      BY <1>0
    <2>8. ManagerOK(r.objects, cur, next_key + 1, rd)
      BY <1>0, <2>2, <2>5, <2>6, <2>7, Zenon DEF ManagerOK
    <2> QED
      BY <2>1, <2>7, <2>8, Zenon
  <1> QED
    BY <1>1, <1>2

(* Every object of the first set is one of the second, with the same count.  *)
SameCounts(objs, old) ==
    /\ DOMAIN objs \subseteq DOMAIN old
    /\ \A x \in DOMAIN objs : IsStat(objs[x]) /\ objs[x].ref_count = old[x].ref_count

(* Deleting a part changes no count.                                         *)
LEMMA ForgetOK ==
    ASSUME NEW r, NEW addr, NEW check, IsSection(r),
           \A x \in DOMAIN r.objects : IsStat(r.objects[x])
    PROVE  /\ Forget(r, addr, check).current = r.current
           /\ Forget(r, addr, check).next_key = r.next_key
           /\ SameCounts(Forget(r, addr, check).objects, r.objects)
  <1> DEFINE q == Forget(r, addr, check)
  <1> DEFINE k == addr.key
             stat == r.objects[k]
             d == DeleteRange(stat.deleted_ranges, addr.off, AlignUp(addr.off + addr.size))
             whole == WholeObject(d.range, stat)
             e == IF check /\ stat.ref_count > 0 THEN "ref count" ELSE "none"
             q1 == [r EXCEPT !.err = "ranges intersect"]
             q2 == [r EXCEPT !.objects[k].deleted_ranges = d.ranges]
             q3 == [r EXCEPT !.objects = Without(@, {k}), !.drop = <<k>>, !.err = e]
  <1>1. q = CASE d.dup -> r [] d.err -> q1 [] ~d.dup /\ ~d.err /\ ~whole -> q2
              [] OTHER -> q3
    BY DEF Forget
  <1> HIDE DEF q, k, d, whole, e
  <1>2. q = r \/ q = q1 \/ q = q2 \/ q = q3
    <2> HIDE DEF q1, q2, q3
    <2> QED
      BY <1>1
  <1>3. q.current = r.current /\ q.next_key = r.next_key
    BY <1>2, Zenon DEF IsSection
  <1>4. \/ q.objects = r.objects
        \/ q.objects = [r.objects EXCEPT ![k].deleted_ranges = d.ranges]
        \/ q.objects = Without(r.objects, {k})
    BY <1>2, Zenon DEF IsSection
  <1>5. SameCounts(q.objects, r.objects)
    <2>1. CASE q.objects = r.objects
      BY <2>1 DEF SameCounts
    <2>2. CASE q.objects = [r.objects EXCEPT ![k].deleted_ranges = d.ranges]
      BY <2>2 DEF IsStat, SameCounts
    <2>3. CASE q.objects = Without(r.objects, {k})
      BY <2>3 DEF Without, SameCounts
    <2> QED
      BY <1>4, <2>1, <2>2, <2>3
  <1> QED
    BY <1>3, <1>5 DEF q

(* So does CleanupNoLock, which may finalize the current object first.       *)
LEMMA CleanupOK ==
    ASSUME NEW rd, ManagerOK(objects_, current, next_key, rd), rd[next_key] = {},
           NEW addr, NEW check, NEW r, r = CleanupNoLock(addr, check), r.err = "none"
    PROVE  /\ ManagerOK(r.objects, r.current, r.next_key, rd)
           /\ r.next_key \in {next_key, next_key + 1}
  <1>1. \/ r = Same
        \/ \E f : /\ r = Forget(f, addr, check)
                  /\ f = Same \/ f = CurrentObjFinalizeNoLock
        \/ r = [Same EXCEPT !.err = "Failed to find object"]
    BY Zenon DEF CleanupNoLock
  <1>2. /\ Same.objects = objects_ /\ Same.current = current /\ Same.next_key = next_key
        /\ IsSection(Same)
    BY DEF Same, IsSection
  <1>3. ManagerOK(Same.objects, Same.current, Same.next_key, rd)
    BY <1>2, Zenon
  <1>4. CASE r = Same
    BY <1>2, <1>3, <1>4, Zenon
  <1>5. ASSUME NEW f, r = Forget(f, addr, check), f = Same \/ f = CurrentObjFinalizeNoLock
        PROVE  /\ ManagerOK(r.objects, r.current, r.next_key, rd)
               /\ r.next_key \in {next_key, next_key + 1}
    <2>1. /\ ManagerOK(f.objects, f.current, f.next_key, rd)
          /\ f.next_key \in {next_key, next_key + 1} /\ IsSection(f)
      <3>1. CASE f = Same
        BY <1>2, <1>3, <3>1, Zenon
      <3>2. CASE f = CurrentObjFinalizeNoLock
        BY <3>2, FinalizeOK, Zenon
      <3> QED
        BY <1>5, <3>1, <3>2
    <2>2. \A x \in DOMAIN f.objects : IsStat(f.objects[x])
      BY <2>1 DEF ManagerOK
    <2>3. /\ r.current = f.current /\ r.next_key = f.next_key
          /\ SameCounts(r.objects, f.objects)
      <3>1. /\ Forget(f, addr, check).current = f.current
            /\ Forget(f, addr, check).next_key = f.next_key
            /\ SameCounts(Forget(f, addr, check).objects, f.objects)
        BY <2>1, <2>2, ForgetOK, Zenon
      <3> QED
        BY <1>5, <3>1, Zenon
    <2>4. ManagerOK(r.objects, r.current, r.next_key, rd)
      BY <2>1, <2>3 DEF ManagerOK, SameCounts
    <2> QED
      BY <2>1, <2>3, <2>4, Zenon
  <1>6. CASE r = [Same EXCEPT !.err = "Failed to find object"]
    BY <1>6, Zenon DEF Same
  <1> QED
    BY <1>1, <1>4, <1>5, <1>6, Zenon

-----------------------------------------------------------------------------
(* Steps of threads                                                          *)

(* The readers change only with the threads that read and with the addresses *)
(* of what they read.                                                        *)
LEMMA ReadsKept ==
    ASSUME \A u \in Threads : th'[u].pc \in Reading <=> th[u].pc \in Reading,
           \A u \in Threads : th[u].pc \in Reading =>
              th'[u].p = th[u].p /\ local_path_obj_'[th[u].p] = local_path_obj_[th[u].p]
    PROVE  Reads' = Reads
  <1>1. ASSUME NEW k PROVE ReadersOf(k)' = ReadersOf(k)
    BY DEF ReadersOf, KeyRead
  <1> QED
    BY <1>1 DEF Reads

(* Nobody reads an object that is not made yet.                              *)
LEMMA NoneBeyond ==
    ASSUME ReadersOK, next_key \in Nat
    PROVE  Reads[next_key] = {}
  <1>1. ReadersOf(next_key) = {}
    BY DEF ReadersOf, KeyRead, ReadersOK
  <1> QED
    BY <1>1 DEF Reads

(* What is stored stays below the next key.                                  *)
LEMMA StoredKept ==
    ASSUME NEW a, NEW nk \in Nat, NEW nk2 \in {nk, nk + 1}, IsStored(a, nk)
    PROVE  IsStored(a, nk2)
  BY DEF IsStored

(* A step of one thread keeps what holds of the threads.                     *)
LEMMA ThreadStep ==
    ASSUME ThreadsOK, next_key \in Nat, next_key' \in {next_key, next_key + 1},
           NEW t \in Threads, NEW w, th' = [th EXCEPT ![t] = w], IsThread(w),
           w.acc # <<>> => IsStored(w.acc, next_key'),
           w.pc = "log" \/ w.then = "log" => w.acc # <<>>
    PROVE  ThreadsOK'
  <1>1. /\ DOMAIN th' = Threads /\ th'[t] = w
        /\ \A u \in Threads \ {t} : th'[u] = th[u]
    BY DEF ThreadsOK
  <1>2. \A u \in Threads \ {t} :
          /\ IsThread(th[u])
          /\ th[u].acc # <<>> => IsStored(th[u].acc, next_key')
          /\ th[u].pc = "log" \/ th[u].then = "log" => th[u].acc # <<>>
    BY StoredKept DEF ThreadsOK
  <1>3. \A u \in Threads :
          /\ IsThread(th'[u])
          /\ th'[u].acc # <<>> => IsStored(th'[u].acc, next_key')
          /\ th'[u].pc = "log" \/ th'[u].then = "log" => th'[u].acc # <<>>
    BY <1>1, <1>2, Zenon
  <1> QED
    BY <1>1, <1>3, Zenon DEF ThreadsOK

(* The addresses are below the next key, and those of files that are read    *)
(* stay.                                                                     *)
AddressesKept ==
    /\ \A p \in Mapped' : /\ local_path_obj_'[p].key \in Nat
                          /\ local_path_obj_'[p].key < next_key'
    /\ \A u \in Threads : th[u].pc \in Reading =>
          th[u].p \in Mapped' /\ local_path_obj_'[th[u].p] = local_path_obj_[th[u].p]

(* Addresses that stay are below the next key.                               *)
LEMMA KeysBelow ==
    ASSUME ReadersOK, next_key \in Nat, next_key' \in {next_key, next_key + 1}
    PROVE  \A p \in Mapped : local_path_obj_[p].key \in Nat /\ local_path_obj_[p].key < next_key'
  BY DEF ReadersOK

(* A step that changes no address.                                           *)
LEMMA SameAddresses ==
    ASSUME ReadersOK, next_key \in Nat, next_key' \in {next_key, next_key + 1},
           UNCHANGED local_path_obj_
    PROVE  AddressesKept
  <1>1. Mapped' = Mapped
    BY DEF Mapped
  <1>2. \A p \in Mapped : local_path_obj_[p].key \in Nat /\ local_path_obj_[p].key < next_key'
    BY KeysBelow
  <1>3. \A u \in Threads : th[u].pc \in Reading => th[u].p \in Mapped
    BY DEF ReadersOK
  <1> QED
    BY <1>1, <1>2, <1>3, Zenon DEF AddressesKept

(* So does one outside of reads, if it writes no file that is read and       *)
(* changes no address that is used.                                          *)
LEMMA QuietStep ==
    ASSUME ThreadsOK, ReadersOK, NEW t \in Threads, NEW w, th' = [th EXCEPT ![t] = w],
           th[t].pc \notin Reading, w.pc \notin Reading,
           w.pc = "place" => \A u \in Threads : th[u].pc \in Reading => w.p # th[u].p,
           AddressesKept
    PROVE  ReadersOK' /\ Reads' = Reads
  <1>1. /\ th'[t] = w /\ \A u \in Threads \ {t} : th'[u] = th[u]
    BY DEF ThreadsOK
  <1>2. Reads' = Reads
    BY <1>1, ReadsKept DEF AddressesKept
  <1>3. ReadersOK'
    BY <1>1 DEF ReadersOK, AddressesKept
  <1> QED
    BY <1>2, <1>3

(* The state that Handling returns.                                          *)
LEMMA HandlingThread ==
    ASSUME NEW w, NEW up, NEW drop,
           "pc" \in DOMAIN w, "p" \in DOMAIN w, "then" \in DOMAIN w, "acc" \in DOMAIN w,
           w.then \in {"idle", "serialize", "delta", "log"},
           w.then = "log" => w.acc # <<>>,
           NEW h, h = Handling(w, up, drop)
    PROVE  /\ IsThread(h) /\ h.pc \notin Reading /\ h.pc # "place" /\ h.acc = w.acc
           /\ h.pc = "log" \/ h.then = "log" => h.acc # <<>>
  <1>1. CASE up = <<>> /\ drop = <<>>
    <2>1. /\ "pc" \in DOMAIN h /\ "p" \in DOMAIN h /\ "then" \in DOMAIN h /\ "acc" \in DOMAIN h
          /\ h.pc = w.then /\ h.then = "idle" /\ h.acc = w.acc
      BY <1>1 DEF Handling, Idle
    <2> QED
      BY <2>1 DEF IsThread, Reading
  <1>2. CASE ~(up = <<>> /\ drop = <<>>)
    <2>1. /\ "pc" \in DOMAIN h /\ "p" \in DOMAIN h /\ "then" \in DOMAIN h /\ "acc" \in DOMAIN h
          /\ h.pc = "handle" /\ h.then = w.then /\ h.acc = w.acc
      BY <1>2 DEF Handling
    <2> QED
      BY <2>1 DEF IsThread, Reading
  <1> QED
    BY <1>1, <1>2

-----------------------------------------------------------------------------
(* Writers                                                                   *)

(* A step that leaves the readers and what is stored alone.                  *)
LEMMA Combine ==
    ASSUME Good, Reads' = Reads, ThreadsOK', ReadersOK', UNCHANGED durable,
           next_key' \in {next_key, next_key + 1},
           ManagerOK(objects_', current', next_key', Reads)
    PROVE  Good'
  <1>1. IsStored(durable, next_key)'
    <2>1. next_key \in Nat /\ IsStored(durable, next_key)
      BY DEF Good, ManagerOK
    <2>2. IsStored(durable, next_key')
      BY <2>1, StoredKept
    <2> QED
      BY <2>2 DEF IsStored
  <1>2. ManagerOK(objects_, current, next_key, Reads)'
    BY DEF ManagerOK
  <1> QED
    BY <1>1, <1>2 DEF Good

(* Persist, first section: the old part is deleted and nobody reads the file *)
(* that is going to be placed.                                               *)
LEMMA PersistBeginGood ==
    ASSUME Good, NEW t \in Threads, NEW p \in Paths, NEW size, PersistBegin(t, p, size),
           failed' = "none"
    PROVE  Good'
  <1> DEFINE r == IF p \in Mapped THEN CleanupNoLock(local_path_obj_[p], FALSE) ELSE Same
             w == [th[t] EXCEPT !.pc = "place", !.p = p, !.size = size,
                                !.up = r.up, !.drop = r.drop]
  <1>1. /\ th[t].pc = "idle" /\ th' = [th EXCEPT ![t] = w] /\ Readers(p) = {}
        /\ UNCHANGED <<local_path_obj_, durable>>
    BY DEF PersistBegin, At
  <1>2. /\ objects_' = r.objects /\ current' = r.current /\ next_key' = r.next_key
        /\ r.err = "none"
    BY Zenon DEF PersistBegin, Becomes
  <1>3. next_key \in Nat /\ ThreadsOK /\ ReadersOK /\ IsThread(th[t])
        /\ (th[t].acc # <<>> => IsStored(th[t].acc, next_key))
    BY DEF Good, ManagerOK, ThreadsOK
  <1>4. Reads[next_key] = {}
    BY <1>3, NoneBeyond
  <1>5. ManagerOK(r.objects, r.current, r.next_key, Reads) /\ r.next_key \in {next_key, next_key + 1}
    <2>1. CASE p \in Mapped
      <3>1. r = CleanupNoLock(local_path_obj_[p], FALSE)
        BY <2>1
      <3> HIDE DEF r
      <3> QED
        BY <1>2, <1>4, <3>1, CleanupOK, Zenon DEF Good
    <2>2. CASE p \notin Mapped
      <3>1. r.objects = objects_ /\ r.current = current /\ r.next_key = next_key
        BY <2>2 DEF Same
      <3> HIDE DEF r
      <3> QED
        BY <3>1, Zenon DEF Good
    <2> QED
      BY <2>1, <2>2, Zenon
  <1> HIDE DEF r
  <1>6. /\ IsThread(w) /\ w.pc = "place" /\ w.p = p /\ w.acc = th[t].acc /\ w.then = "idle"
    BY <1>1, <1>3 DEF IsThread
  <1> HIDE DEF w
  <1>7. w.acc # <<>> => IsStored(w.acc, next_key')
    BY <1>2, <1>3, <1>5, <1>6, StoredKept
  <1>8. ThreadsOK'
    BY <1>1, <1>2, <1>3, <1>5, <1>6, <1>7, ThreadStep, Zenon
  <1>9. ReadersOK' /\ Reads' = Reads
    <2>1. th[t].pc \notin Reading /\ w.pc \notin Reading
      BY <1>1, <1>6 DEF Reading
    <2>2. \A u \in Threads : th[u].pc \in Reading => w.p # th[u].p
      BY <1>1, <1>6 DEF Readers
    <2>3. AddressesKept
      BY <1>1, <1>2, <1>3, <1>5, SameAddresses
    <2> QED
      BY <1>1, <1>3, <2>1, <2>2, <2>3, QuietStep, Zenon
  <1> QED
    BY <1>1, <1>2, <1>5, <1>8, <1>9, Combine

(* Persist, second section: the file gets its new address; nobody reads it.  *)
LEMMA PlacedKeeps ==
    ASSUME Good, NEW t \in Threads, th[t].pc = "place", NEW r, NEW addr, Placed(t, r, addr),
           next_key' \in {next_key, next_key + 1}, addr.key \in Nat, addr.key < next_key'
    PROVE  ThreadsOK' /\ ReadersOK' /\ Reads' = Reads /\ UNCHANGED durable
  <1> DEFINE p == th[t].p
             w0 == [th[t] EXCEPT !.mine = IF t = Bg THEN @ ELSE @ \union {p}]
             w == Handling(w0, th[t].up \o r.up, th[t].drop)
  <1>1. /\ th' = [th EXCEPT ![t] = w] /\ local_path_obj_' = With(local_path_obj_, p, addr)
        /\ UNCHANGED durable
    BY DEF Placed
  <1>2. /\ next_key \in Nat /\ ThreadsOK /\ ReadersOK /\ IsThread(th[t])
        /\ (th[t].acc # <<>> => IsStored(th[t].acc, next_key))
    BY DEF Good, ManagerOK, ThreadsOK
  <1>3. /\ "pc" \in DOMAIN w0 /\ "p" \in DOMAIN w0 /\ "then" \in DOMAIN w0
        /\ "acc" \in DOMAIN w0 /\ w0.then = "idle" /\ w0.acc = th[t].acc
    BY <1>2 DEF IsThread
  <1> HIDE DEF w0
  <1>4. /\ IsThread(w) /\ w.pc \notin Reading /\ w.pc # "place" /\ w.acc = th[t].acc
        /\ w.pc = "log" \/ w.then = "log" => w.acc # <<>>
    BY <1>3, HandlingThread
  <1> HIDE DEF w
  <1>5. w.acc # <<>> => IsStored(w.acc, next_key')
    BY <1>2, <1>4, StoredKept
  <1>6. ThreadsOK'
    BY <1>1, <1>2, <1>4, <1>5, ThreadStep, Zenon
  <1>7. AddressesKept
    <2>1. /\ Mapped' = Mapped \union {p} /\ local_path_obj_'[p] = addr
          /\ \A q \in Mapped \ {p} : local_path_obj_'[q] = local_path_obj_[q]
      BY <1>1 DEF Mapped, With
    <2>2. \A u \in Threads : th[u].pc \in Reading => th[u].p \in Mapped \ {p}
      BY <1>2 DEF ReadersOK
    <2>3. \A q \in Mapped : local_path_obj_[q].key \in Nat /\ local_path_obj_[q].key < next_key'
      BY <1>2 DEF ReadersOK
    <2> HIDE DEF p
    <2> QED
      BY <2>1, <2>2, <2>3, Zenon DEF AddressesKept
  <1>8. ReadersOK' /\ Reads' = Reads
    <2>1. th[t].pc \notin Reading
      BY DEF Reading
    <2> QED
      BY <1>1, <1>2, <1>4, <1>7, <2>1, QuietStep, Zenon
  <1> QED
    BY <1>1, <1>6, <1>8

(* An empty file, a file with an object of its own, a file of the current    *)
(* object.                                                                   *)
LEMMA PersistEmptyGood ==
    ASSUME Good, NEW t \in Threads, PersistEmpty(t)
    PROVE  Good'
  <1> DEFINE r == [Same EXCEPT !.up = <<KeyEmpty>>]
             addr == [key |-> KeyEmpty, off |-> 0, size |-> 0]
  <1>1. /\ th[t].pc = "place" /\ Placed(t, r, addr)
        /\ UNCHANGED <<objects_, current, next_key>>
    BY DEF PersistEmpty, At
  <1>2. next_key \in Nat /\ current.key \in Nat /\ current.key < next_key
    BY DEF Good, ManagerOK
  <1>3. addr.key \in Nat /\ addr.key < next_key' /\ next_key' \in {next_key, next_key + 1}
    BY <1>1, <1>2 DEF KeyEmpty
  <1> HIDE DEF r, addr
  <1>4. ThreadsOK' /\ ReadersOK' /\ Reads' = Reads /\ UNCHANGED durable
    BY <1>1, <1>3, PlacedKeeps
  <1>5. ManagerOK(objects_', current', next_key', Reads)
    BY <1>1 DEF Good, ManagerOK
  <1> QED
    BY <1>3, <1>4, <1>5, Combine

(* The object of a single file is new.                                       *)
LEMMA PersistDedicatedGood ==
    ASSUME Good, NEW t \in Threads, PersistDedicated(t)
    PROVE  Good'
  <1> DEFINE r == [Same EXCEPT !.up = <<next_key>>]
             addr == [key |-> next_key, off |-> 0, size |-> th[t].size]
             stat == ObjStat(th[t].size, 1, 0)
  <1>1. /\ th[t].pc = "place" /\ Placed(t, r, addr)
        /\ objects_' = With(objects_, next_key, stat)
        /\ next_key' = next_key + 1 /\ UNCHANGED current
    BY DEF PersistDedicated, At
  <1>2. next_key \in Nat /\ current.key \in Nat /\ current.key < next_key /\ ReadersOK
    BY DEF Good, ManagerOK
  <1>3. addr.key \in Nat /\ addr.key < next_key' /\ next_key' \in {next_key, next_key + 1}
    BY <1>1, <1>2
  <1>4. IsStat(stat) /\ stat.ref_count = 0
    BY DEF ObjStat, IsStat
  <1> HIDE DEF r, addr, stat
  <1>5. ThreadsOK' /\ ReadersOK' /\ Reads' = Reads /\ UNCHANGED durable
    BY <1>1, <1>3, PlacedKeeps
  <1>6. Cardinality(Reads[next_key]) = 0
    BY <1>2, NoneBeyond, FS_EmptySet
  <1>7. /\ DOMAIN objects_' = DOMAIN objects_ \union {next_key} /\ objects_'[next_key] = stat
        /\ \A x \in DOMAIN objects_ \ {next_key} : objects_'[x] = objects_[x]
    BY <1>1 DEF With
  <1>8. ManagerOK(objects_', current', next_key', Reads)
    BY <1>1, <1>2, <1>4, <1>6, <1>7 DEF Good, ManagerOK
  <1> QED
    BY <1>3, <1>5, <1>8, Combine

(* The current object grows, or is finalized first.                          *)
LEMMA PersistComposeGood ==
    ASSUME Good, NEW t \in Threads, PersistCompose(t), failed' = "none"
    PROVE  Good'
  <1> DEFINE size == th[t].size
             r == IF size >= Limit - current.size THEN CurrentObjFinalizeNoLock ELSE Same
             c == r.current
             off == AlignUp(c.size)
             c1 == [c EXCEPT !.size = off + size, !.parts = @ + 1]
             e == IF off + size >= Limit THEN "exceeds limit" ELSE "none"
             addr == [key |-> c.key, off |-> off, size |-> size]
  <1>1. /\ th[t].pc = "place" /\ Placed(t, r, addr)
        /\ Becomes([r EXCEPT !.current = c1, !.err = e])
    BY DEF PersistCompose, At
  <1>2. next_key \in Nat /\ ReadersOK
    BY DEF Good, ManagerOK
  <1>3. /\ ManagerOK(r.objects, r.current, r.next_key, Reads)
        /\ r.next_key \in {next_key, next_key + 1} /\ IsSection(r)
    <2>1. CASE r = CurrentObjFinalizeNoLock
      <3>1. Reads[next_key] = {}
        BY <1>2, NoneBeyond
      <3> HIDE DEF r
      <3> QED
        BY <2>1, <3>1, FinalizeOK, Zenon DEF Good
    <2>2. CASE r = Same
      <3> HIDE DEF r
      <3>1. /\ r.objects = objects_ /\ r.current = current /\ r.next_key = next_key
            /\ IsSection(r)
        BY <2>2 DEF Same, IsSection
      <3> QED
        BY <3>1, Zenon DEF Good
    <2>3. r = CurrentObjFinalizeNoLock \/ r = Same
      OBVIOUS
    <2> QED
      BY <2>1, <2>2, <2>3, Zenon
  <1> HIDE DEF r, e
  <1>4. objects_' = r.objects /\ current' = c1 /\ next_key' = r.next_key
    <2> HIDE DEF c1
    <2> QED
      BY <1>1, <1>3 DEF Becomes, IsSection
  <1>5. IsCurrent(c1) /\ c1.key = c.key /\ c1.ref_count = c.ref_count
    BY <1>3 DEF ManagerOK, IsCurrent
  <1>6. addr.key = c.key
    OBVIOUS
  <1> HIDE DEF c1, addr, size, off
  <1>7. addr.key \in Nat /\ addr.key < next_key' /\ next_key' \in {next_key, next_key + 1}
    BY <1>3, <1>4, <1>6 DEF ManagerOK
  <1>8. ThreadsOK' /\ ReadersOK' /\ Reads' = Reads /\ UNCHANGED durable
    BY <1>1, <1>7, PlacedKeeps
  <1>9. ManagerOK(objects_', current', next_key', Reads)
    BY <1>3, <1>4, <1>5 DEF ManagerOK
  <1> QED
    BY <1>7, <1>8, <1>9, Combine

-----------------------------------------------------------------------------
(* Other steps of threads that do not read                                   *)

(* A step of one thread that does not read and keeps the addresses.          *)
LEMMA QuietGood ==
    ASSUME Good, NEW t \in Threads, NEW w, th' = [th EXCEPT ![t] = w],
           th[t].pc \notin Reading, w.pc \notin Reading, w.pc # "place", IsThread(w),
           w.acc # <<>> => IsStored(w.acc, next_key),
           w.pc = "log" \/ w.then = "log" => w.acc # <<>>,
           next_key' \in {next_key, next_key + 1},
           ManagerOK(objects_', current', next_key', Reads),
           AddressesKept, UNCHANGED durable
    PROVE  Good'
  <1>1. next_key \in Nat /\ ThreadsOK /\ ReadersOK
    BY DEF Good, ManagerOK
  <1>2. w.acc # <<>> => IsStored(w.acc, next_key')
    BY <1>1, StoredKept, Zenon
  <1>3. ThreadsOK'
    BY <1>1, <1>2, ThreadStep, Zenon
  <1>4. ReadersOK' /\ Reads' = Reads
    BY <1>1, QuietStep, Zenon
  <1> QED
    BY <1>3, <1>4, Combine

(* A step of it that does not change the manager.                            *)
LEMMA LocalGood ==
    ASSUME Good, NEW t \in Threads, NEW w, th' = [th EXCEPT ![t] = w],
           th[t].pc \notin Reading, w.pc \notin Reading, w.pc # "place", IsThread(w),
           w.acc # <<>> => IsStored(w.acc, next_key),
           w.pc = "log" \/ w.then = "log" => w.acc # <<>>,
           UNCHANGED manager, IsStored(durable', next_key)
    PROVE  Good'
  <1>1. /\ next_key \in Nat /\ ThreadsOK /\ ReadersOK /\ next_key' \in {next_key, next_key + 1}
        /\ UNCHANGED <<objects_, current, next_key, local_path_obj_>>
    BY DEF Good, ManagerOK, manager
  <1>2. ThreadsOK'
    BY <1>1, ThreadStep, Zenon
  <1>3. AddressesKept
    BY <1>1, SameAddresses
  <1>4. ReadersOK' /\ Reads' = Reads
    BY <1>1, <1>3, QuietStep, Zenon
  <1>5. ManagerOK(objects_, current, next_key, Reads)'
    BY <1>1, <1>4 DEF Good, ManagerOK
  <1>6. IsStored(durable, next_key)'
    BY <1>1 DEF IsStored
  <1> QED
    BY <1>2, <1>4, <1>5, <1>6, Zenon DEF Good

(* PersistResultHandler: uploads and deletions.                              *)
LEMMA HandleGood ==
    ASSUME Good, NEW t \in Threads, HandleUpload(t) \/ HandleDrop(t)
    PROVE  Good'
  <1>1. PICK up, drop : th' = [th EXCEPT ![t] = Handling(th[t], up, drop)]
    BY Zenon DEF HandleUpload, HandleDrop
  <1>2. th[t].pc = "handle" /\ UNCHANGED manager /\ IsStored(durable', next_key)
    BY Zenon DEF HandleUpload, HandleDrop, At, history, Good
  <1>3. /\ IsThread(th[t]) /\ (th[t].acc # <<>> => IsStored(th[t].acc, next_key))
        /\ (th[t].then = "log" => th[t].acc # <<>>) /\ th[t].pc \notin Reading
    BY <1>2 DEF Good, ThreadsOK, Reading
  <1> DEFINE w == Handling(th[t], up, drop)
  <1>4. /\ IsThread(w) /\ w.pc \notin Reading /\ w.pc # "place" /\ w.acc = th[t].acc
        /\ w.pc = "log" \/ w.then = "log" => w.acc # <<>>
    BY <1>3, HandlingThread DEF IsThread
  <1>5. th' = [th EXCEPT ![t] = w]
    BY <1>1
  <1> HIDE DEF w
  <1> QED
    BY <1>2, <1>3, <1>4, <1>5, LocalGood, Zenon

(* Cleanup of a file that nobody reads.                                      *)
LEMMA CleanupGood ==
    ASSUME Good, NEW f \in Paths, Cleanup(f), failed' = "none"
    PROVE  Good'
  <1> DEFINE r == CleanupNoLock(local_path_obj_[f], TRUE)
             w0 == [th[Bg] EXCEPT !.p = f]
             w == Handling(w0, r.up, r.drop)
  <1>1. /\ th[Bg].pc = "idle" /\ th' = [th EXCEPT ![Bg] = w] /\ Readers(f) = {}
        /\ local_path_obj_' = Without(local_path_obj_, {f}) /\ UNCHANGED durable
    BY DEF Cleanup, At
  <1>2. /\ objects_' = r.objects /\ current' = r.current /\ next_key' = r.next_key
        /\ r.err = "none"
    BY Zenon DEF Cleanup, Becomes
  <1>3. Bg \in Threads
    BY DEF Threads
  <1>4. /\ next_key \in Nat /\ ReadersOK /\ IsThread(th[Bg])
        /\ (th[Bg].acc # <<>> => IsStored(th[Bg].acc, next_key)) /\ th[Bg].pc \notin Reading
    BY <1>1, <1>3 DEF Good, ManagerOK, ThreadsOK, Reading
  <1>5. ManagerOK(r.objects, r.current, r.next_key, Reads) /\ r.next_key \in {next_key, next_key + 1}
    <2>1. Reads[next_key] = {}
      BY <1>4, NoneBeyond
    <2> QED
      BY <1>2, <2>1, CleanupOK, Zenon DEF Good
  <1> HIDE DEF r
  <1>6. /\ "pc" \in DOMAIN w0 /\ "p" \in DOMAIN w0 /\ "then" \in DOMAIN w0
        /\ "acc" \in DOMAIN w0 /\ w0.then = "idle" /\ w0.acc = th[Bg].acc
    BY <1>1, <1>4 DEF IsThread
  <1> HIDE DEF w0
  <1>7. /\ IsThread(w) /\ w.pc \notin Reading /\ w.pc # "place" /\ w.acc = th[Bg].acc
        /\ w.pc = "log" \/ w.then = "log" => w.acc # <<>>
    <2>1. w0.then \in {"idle", "serialize", "delta", "log"} /\ w0.then # "log"
      BY <1>6
    <2>2. /\ IsThread(w) /\ w.pc \notin Reading /\ w.pc # "place" /\ w.acc = w0.acc
          /\ w.pc = "log" \/ w.then = "log" => w.acc # <<>>
      <3>1. PICK up, drop : w = Handling(w0, up, drop)
        OBVIOUS
      <3> HIDE DEF w
      <3> QED
        BY <1>6, <2>1, <3>1, HandlingThread
    <2> QED
      BY <1>6, <2>2, Zenon
  <1> HIDE DEF w
  <1>8. AddressesKept
    <2>1. /\ Mapped' = Mapped \ {f}
          /\ \A q \in Mapped \ {f} : local_path_obj_'[q] = local_path_obj_[q]
      BY <1>1 DEF Mapped, Without
    <2>2. \A u \in Threads : th[u].pc \in Reading => th[u].p \in Mapped \ {f}
      BY <1>1, <1>4 DEF ReadersOK, Readers
    <2>3. \A q \in Mapped : local_path_obj_[q].key \in Nat /\ local_path_obj_[q].key < next_key'
      <3>1. next_key' \in {next_key, next_key + 1}
        BY <1>2, <1>5, Zenon
      <3> QED
        BY <1>4, <3>1, KeysBelow
    <2> QED
      BY <2>1, <2>2, <2>3, Zenon DEF AddressesKept
  <1>9. /\ ManagerOK(objects_', current', next_key', Reads)
        /\ next_key' \in {next_key, next_key + 1}
    BY <1>2, <1>5, Zenon
  <1> QED
    BY <1>1, <1>3, <1>4, <1>7, <1>8, <1>9, QuietGood, Zenon

(* CurrentObjFinalize hands the count over while others read the object.     *)
LEMMA FinalizeGood ==
    ASSUME Good, NEW t \in Threads, NEW then \in {"serialize", "delta", "log"},
           CurrentObjFinalize(t, then), then = "log" => th[t].acc # <<>>
    PROVE  Good'
  <1> DEFINE r == CurrentObjFinalizeNoLock
             w0 == [th[t] EXCEPT !.then = then]
             w == Handling(w0, r.up, <<>>)
  <1>1. /\ th[t].pc = "idle" /\ th' = [th EXCEPT ![t] = w]
        /\ UNCHANGED <<local_path_obj_, durable>>
    BY DEF CurrentObjFinalize, At, history
  <1>2. objects_' = r.objects /\ current' = r.current /\ next_key' = r.next_key
    BY DEF CurrentObjFinalize, Becomes
  <1>3. /\ next_key \in Nat /\ ReadersOK /\ IsThread(th[t])
        /\ (th[t].acc # <<>> => IsStored(th[t].acc, next_key)) /\ th[t].pc \notin Reading
    BY <1>1 DEF Good, ManagerOK, ThreadsOK, Reading
  <1>4. ManagerOK(r.objects, r.current, r.next_key, Reads) /\ r.next_key \in {next_key, next_key + 1}
    <2>1. Reads[next_key] = {}
      BY <1>3, NoneBeyond
    <2> QED
      BY <2>1, FinalizeOK, Zenon DEF Good
  <1> HIDE DEF r
  <1>5. /\ "pc" \in DOMAIN w0 /\ "p" \in DOMAIN w0 /\ "then" \in DOMAIN w0
        /\ "acc" \in DOMAIN w0 /\ w0.then = then /\ w0.acc = th[t].acc
    BY <1>1, <1>3 DEF IsThread
  <1> HIDE DEF w0
  <1>6. /\ IsThread(w) /\ w.pc \notin Reading /\ w.pc # "place" /\ w.acc = th[t].acc
        /\ w.pc = "log" \/ w.then = "log" => w.acc # <<>>
    BY <1>5, HandlingThread
  <1> HIDE DEF w
  <1>7. /\ ManagerOK(objects_', current', next_key', Reads)
        /\ next_key' \in {next_key, next_key + 1}
    BY <1>2, <1>4, Zenon
  <1>8. AddressesKept
    <2>1. next_key' \in {next_key, next_key + 1} /\ UNCHANGED local_path_obj_
      BY <1>1, <1>7, Zenon
    <2> QED
      BY <1>3, <2>1, SameAddresses
  <1> QED
    BY <1>1, <1>3, <1>6, <1>7, <1>8, QuietGood, Zenon

(* An import is logged with the addresses of its files.                      *)
LEMMA PrepareCommit1Good ==
    ASSUME Good, NEW t \in Workers, PrepareCommit1(t)
    PROVE  Good'
  <1>1. t \in Threads
    BY DEF Threads
  <1>2. CurrentObjFinalize(t, "log") /\ th[t].acc # <<>>
    BY DEF PrepareCommit1, Unlogged
  <1> QED
    BY <1>1, <1>2, FinalizeGood

-----------------------------------------------------------------------------
(* Checkpoints and the log                                                   *)

(* AddrSerializer: what is written has no readers, and its keys are made.    *)
LEMMA AddressesStored ==
    ASSUME Good, NEW S, S \subseteq Mapped
    PROVE  IsStored(Addresses(S), next_key)
  <1> DEFINE ks == {local_path_obj_[p].key : p \in S}
             ps == [p \in S |-> local_path_obj_[p]]
             os == [k \in ks |-> GetObjStatByObjAddr(k)]
  <1>1. Addresses(S) = [paths |-> ps, objects |-> os]
    BY DEF Addresses
  <1>2. \A p \in S : local_path_obj_[p].key \in Nat /\ local_path_obj_[p].key < next_key
    BY DEF Good, ReadersOK
  <1>3. \A k \in ks : k \in Nat /\ k < next_key
    BY <1>2
  <1>4. \A k : IsStat(GetObjStatByObjAddr(k)) /\ GetObjStatByObjAddr(k).ref_count = 0
    BY DEF GetObjStatByObjAddr, StoredObj, Stored, ObjStat, IsStat
  <1>5. /\ DOMAIN ps = S /\ DOMAIN os = ks
        /\ \A p \in S : ps[p] = local_path_obj_[p]
        /\ \A k \in ks : os[k] = GetObjStatByObjAddr(k)
    OBVIOUS
  <1>6. Addresses(S).paths = ps /\ Addresses(S).objects = os
    BY <1>1
  <1> HIDE DEF ps, os, ks
  <1> QED
    BY <1>2, <1>3, <1>4, <1>5, <1>6, Zenon DEF IsStored

(* So is what is written over it.                                            *)
LEMMA OverStored ==
    ASSUME NEW nk, NEW a, NEW b, IsStored(a, nk), IsStored(b, nk), NEW c,
           c.paths = Over(a.paths, b.paths), c.objects = Over(a.objects, b.objects)
    PROVE  IsStored(c, nk)
  BY DEF IsStored, Over

(* The step of a full or delta checkpoint.                                   *)
LEMMA CheckpointGood ==
    ASSUME Good, Serialize \/ SaveDeltaCatalog
    PROVE  Good'
  <1>1. /\ th[Bg].pc \in {"serialize", "delta"} /\ th' = [th EXCEPT ![Bg].pc = "idle"]
        /\ UNCHANGED manager
    BY DEF Serialize, SaveDeltaCatalog, At
  <1>2. Bg \in Threads
    BY DEF Threads
  <1>3. /\ IsThread(th[Bg]) /\ (th[Bg].acc # <<>> => IsStored(th[Bg].acc, next_key))
        /\ th[Bg].pc \notin Reading
    BY <1>1, <1>2 DEF Good, ThreadsOK, Reading
  <1>4. IsStored(durable', next_key)
    <2>1. CASE Serialize
      <3> DEFINE os == [k \in DOMAIN objects_ |-> StoredObj(objects_[k])]
      <3>1. durable'.objects = os /\ durable'.paths = local_path_obj_
        BY <2>1 DEF Serialize
      <3>2. /\ DOMAIN os = DOMAIN objects_
            /\ \A k \in DOMAIN os : IsStat(os[k]) /\ os[k].ref_count = 0
        BY DEF StoredObj, Stored, ObjStat, IsStat
      <3> HIDE DEF os
      <3>3. \A k \in DOMAIN objects_ : k \in Nat /\ k < next_key
        BY DEF Good, ManagerOK
      <3>4. \A p \in DOMAIN local_path_obj_ :
              local_path_obj_[p].key \in Nat /\ local_path_obj_[p].key < next_key
        BY DEF Good, ReadersOK, Mapped
      <3> QED
        BY <3>1, <3>2, <3>3, <3>4, Zenon DEF IsStored
    <2>2. CASE SaveDeltaCatalog
      <3>1. PICK S : S \subseteq Mapped /\ durable' = Logged(Addresses(S), S)
        BY <2>2 DEF SaveDeltaCatalog
      <3>2. IsStored(Addresses(S), next_key) /\ IsStored(durable, next_key)
        BY <3>1, AddressesStored DEF Good
      <3>3. /\ durable'.paths = Over(Addresses(S).paths, durable.paths)
            /\ durable'.objects = Over(Addresses(S).objects, durable.objects)
        BY <3>1 DEF Logged
      <3> QED
        BY <3>2, <3>3, OverStored, Zenon
    <2> QED
      BY <2>1, <2>2
  <1> DEFINE w == [th[Bg] EXCEPT !.pc = "idle"]
  <1>5. /\ IsThread(w) /\ w.pc = "idle" /\ w.then = "idle" /\ w.acc = th[Bg].acc
        /\ w.pc \notin Reading
    BY <1>1, <1>3 DEF IsThread, Reading
  <1>6. th' = [th EXCEPT ![Bg] = w]
    BY <1>1
  <1> HIDE DEF w
  <1> QED
    BY <1>1, <1>2, <1>3, <1>4, <1>5, <1>6, LocalGood, Zenon

=============================================================================
