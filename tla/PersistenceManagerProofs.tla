---------------------- MODULE PersistenceManagerProofs ----------------------
(* The reference counts of PersistenceManager are exact, whatever threads    *)
(* read, write and finalize an object: readers, imports, restarts and the    *)
(* theorem.                                                                  *)
EXTENDS PersistenceInvariant

-----------------------------------------------------------------------------
(* The files of an import have addresses: nothing takes them away before it  *)
(* is logged.                                                                *)
MineOK ==
    /\ DOMAIN th = Threads
    /\ \A w \in Workers : "mine" \in DOMAIN th[w] /\ th[w].mine \subseteq Mapped

(* A step of one thread keeps this.                                          *)
LEMMA MineStep ==
    ASSUME MineOK, NEW t, NEW w, th' = [th EXCEPT ![t] = w], Mapped \subseteq Mapped',
           t \in Workers => "mine" \in DOMAIN w /\ w.mine \subseteq Mapped'
    PROVE  MineOK'
  <1>1. DOMAIN th' = Threads /\ \A u \in Threads : th'[u] = IF u = t THEN w ELSE th[u]
    BY DEF MineOK
  <1>2. Workers \subseteq Threads
    BY DEF Threads
  <1> QED
    BY <1>1, <1>2 DEF MineOK

(* Handling keeps the files.                                                 *)
LEMMA HandlingMine ==
    ASSUME NEW w, NEW up, NEW drop, "mine" \in DOMAIN w
    PROVE  "mine" \in DOMAIN Handling(w, up, drop) /\ Handling(w, up, drop).mine = w.mine
  BY DEF Handling, Idle

(* A reader changes its own state, and of that where it is and the file.     *)
LEMMA ReadThread ==
    ASSUME DOMAIN th = Threads, NEW t \in Threads, NEW pc, NEW p,
           \/ th' = [th EXCEPT ![t].pc = pc, ![t].p = p]
           \/ th' = [th EXCEPT ![t].pc = pc]
    PROVE  /\ DOMAIN th' = Threads /\ \A u \in Threads \ {t} : th'[u] = th[u]
           /\ DOMAIN th'[t] = DOMAIN th[t]
           /\ \A x \in DOMAIN th[t] \ {"pc", "p"} : th'[t][x] = th[t][x]
  OBVIOUS

(* Every step does.                                                          *)
LEMMA NextMine ==
    ASSUME MineOK, [Next]_vars
    PROVE  MineOK'
  <1>0. \A t \in Workers : "mine" \in DOMAIN th[t] /\ th[t].mine \subseteq Mapped
    BY DEF MineOK
  <1>1. ASSUME NEW t \in Threads, NEW p, NEW size, PersistBegin(t, p, size)
        PROVE  MineOK'
    <2>1. PICK up, drop : th' = [th EXCEPT ![t] = [th[t] EXCEPT !.pc = "place", !.p = p,
                                   !.size = size, !.up = up, !.drop = drop]]
      BY <1>1, Zenon DEF PersistBegin
    <2> DEFINE w == [th[t] EXCEPT !.pc = "place", !.p = p, !.size = size,
                                  !.up = up, !.drop = drop]
    <2>2. t \in Workers => "mine" \in DOMAIN w /\ w.mine = th[t].mine
      BY <1>0
    <2>3. th' = [th EXCEPT ![t] = w]
      BY <2>1
    <2> HIDE DEF w
    <2>4. Mapped' = Mapped
      BY <1>1 DEF PersistBegin, Mapped
    <2> QED
      BY <1>0, <2>2, <2>3, <2>4, MineStep, Zenon
  <1>2. ASSUME NEW t \in Threads, NEW r, NEW addr, Placed(t, r, addr)
        PROVE  MineOK'
    <2> DEFINE w0 == [th[t] EXCEPT !.mine = IF t = Bg THEN @ ELSE @ \union {th[t].p}]
               w == Handling(w0, th[t].up \o r.up, th[t].drop)
    <2>1. th' = [th EXCEPT ![t] = w] /\ Mapped' = Mapped \union {th[t].p}
      BY <1>2 DEF Placed, Mapped, With
    <2>2. t \in Workers => "mine" \in DOMAIN w0 /\ w0.mine \subseteq th[t].mine \union {th[t].p}
      BY <1>0
    <2> HIDE DEF w0
    <2>3. t \in Workers => "mine" \in DOMAIN w /\ w.mine = w0.mine
      BY <2>2, HandlingMine
    <2> HIDE DEF w
    <2> QED
      BY <1>0, <2>1, <2>2, <2>3, MineStep, Zenon
  <1>3. ASSUME NEW t \in Threads, HandleUpload(t) \/ HandleDrop(t)
        PROVE  MineOK'
    <2>1. PICK up, drop : th' = [th EXCEPT ![t] = Handling(th[t], up, drop)]
      BY <1>3, Zenon DEF HandleUpload, HandleDrop
    <2>2. Mapped' = Mapped
      BY <1>3, Zenon DEF HandleUpload, HandleDrop, manager, Mapped
    <2>3. t \in Workers => /\ "mine" \in DOMAIN Handling(th[t], up, drop)
                           /\ Handling(th[t], up, drop).mine = th[t].mine
      BY <1>0, HandlingMine
    <2> QED
      BY <1>0, <2>1, <2>2, <2>3, MineStep, Zenon
  <1>4. ASSUME NEW t \in Threads, Read(t)
        PROVE  MineOK'
    <2>1. Mapped' = Mapped
      BY <1>4, Zenon DEF Read, GetObjCache, HandleReadResult, DownloadObject, WaitDownload, PutObjCache,
                  manager, Mapped
    <2>2. \E pc, p : \/ th' = [th EXCEPT ![t].pc = pc, ![t].p = p]
                     \/ th' = [th EXCEPT ![t].pc = pc]
      BY <1>4, Zenon DEF Read, GetObjCache, HandleReadResult, DownloadObject, WaitDownload,
                         PutObjCache
    <2>3. /\ DOMAIN th' = Threads /\ \A u \in Threads \ {t} : th'[u] = th[u]
          /\ "mine" \in DOMAIN th[t] => "mine" \in DOMAIN th'[t] /\ th'[t].mine = th[t].mine
      BY <2>2, ReadThread DEF MineOK
    <2>4. Workers \subseteq Threads
      BY DEF Threads
    <2> QED
      BY <1>0, <2>1, <2>3, <2>4 DEF MineOK
  <1>5. ASSUME NEW p, Cleanup(p)
        PROVE  MineOK'
    <2>1. DOMAIN th' = Threads /\ \A u \in Workers : th'[u] = th[u]
      BY <1>5, PersistenceManagerAssumption, Zenon DEF Cleanup, MineOK, Threads
    <2>2. Mapped' = Mapped \ {p} /\ \A u \in Workers : p \notin th[u].mine
      BY <1>5 DEF Cleanup, Mapped, Without
    <2> QED
      BY <1>0, <2>1, <2>2 DEF MineOK
  <1>6. ASSUME NEW t \in Threads, NEW then, CurrentObjFinalize(t, then)
        PROVE  MineOK'
    <2> DEFINE w0 == [th[t] EXCEPT !.then = then]
    <2>1. PICK up : th' = [th EXCEPT ![t] = Handling(w0, up, <<>>)]
      BY <1>6, Zenon DEF CurrentObjFinalize
    <2>2. Mapped' = Mapped
      BY <1>6 DEF CurrentObjFinalize, Mapped
    <2>3. t \in Workers => "mine" \in DOMAIN w0 /\ w0.mine = th[t].mine
      BY <1>0
    <2> HIDE DEF w0
    <2>4. t \in Workers => /\ "mine" \in DOMAIN Handling(w0, up, <<>>)
                           /\ Handling(w0, up, <<>>).mine = w0.mine
      BY <2>3, HandlingMine
    <2> QED
      BY <1>0, <2>1, <2>2, <2>3, <2>4, MineStep, Zenon
  <1>7. CASE Serialize \/ SaveDeltaCatalog
    <2>1. DOMAIN th' = Threads /\ \A u \in Workers : th'[u] = th[u]
      BY <1>7, PersistenceManagerAssumption DEF Serialize, SaveDeltaCatalog, MineOK, Threads
    <2>2. Mapped' = Mapped
      BY <1>7 DEF Serialize, SaveDeltaCatalog, manager, Mapped
    <2> QED
      BY <1>0, <2>1, <2>2 DEF MineOK
  <1>8. ASSUME NEW t \in Workers, AddrInitialize(t)
        PROVE  MineOK'
    <2>1. PICK a : th' = [th EXCEPT ![t].acc = a]
      BY <1>8, Zenon DEF AddrInitialize
    <2>2. /\ DOMAIN th' = Threads /\ \A u \in Threads \ {t} : th'[u] = th[u]
          /\ "mine" \in DOMAIN th'[t] /\ th'[t].mine = th[t].mine
      BY <1>0, <2>1 DEF MineOK, Threads
    <2>3. Mapped' = Mapped /\ Workers \subseteq Threads
      BY <1>8 DEF AddrInitialize, manager, Mapped, Threads
    <2> QED
      BY <1>0, <2>2, <2>3 DEF MineOK
  <1>9. ASSUME NEW t \in Workers, LogImport(t)
        PROVE  MineOK'
    <2>1. th' = [th EXCEPT ![t] = Idle] /\ Mapped' = Mapped
      BY <1>9 DEF LogImport, manager, Mapped
    <2>2. "mine" \in DOMAIN Idle /\ Idle.mine = {}
      BY DEF Idle
    <2> QED
      BY <2>1, <2>2, MineStep, Zenon
  <1>10. ASSUME NEW keep, Restart(keep)
         PROVE  MineOK'
    BY <1>10 DEF Restart, MineOK, Idle, Threads
  <1>11. CASE UNCHANGED vars
    BY <1>11 DEF vars, manager, Mapped, MineOK
  <1>12. ASSUME NEW t \in Threads, Persist(t)
         PROVE  MineOK'
    BY <1>1, <1>2, <1>12 DEF Persist, PersistEmpty, PersistDedicated, PersistCompose
  <1> QED
    BY <1>3, <1>4, <1>5, <1>6, <1>7, <1>8, <1>9, <1>10, <1>11, <1>12
    DEF Next, PrepareCommit1, Finished, Threads

-----------------------------------------------------------------------------
(* Imports                                                                   *)

(* The addresses of the files that are not in the log entry yet are added.   *)
LEMMA AddrInitializeGood ==
    ASSUME Good, MineOK, NEW t \in Workers, AddrInitialize(t)
    PROVE  Good'
  <1> DEFINE a == Addresses(Unlogged(t))
             b == th[t].acc
             c == [paths |-> Over(a.paths, b.paths), objects |-> Over(a.objects, b.objects)]
             acc == IF b = <<>> THEN a ELSE c
             w == [th[t] EXCEPT !.acc = acc]
  <1>1. /\ th[t].pc = "idle" /\ th' = [th EXCEPT ![t] = w] /\ UNCHANGED manager
        /\ UNCHANGED durable
    BY DEF AddrInitialize, At, history
  <1>2. t \in Threads
    BY DEF Threads
  <1>3. /\ IsThread(th[t]) /\ (b # <<>> => IsStored(b, next_key)) /\ th[t].pc \notin Reading
        /\ IsStored(durable', next_key)
    BY <1>1, <1>2 DEF Good, ThreadsOK, Reading
  <1>4. IsStored(a, next_key)
    <2>1. Unlogged(t) \subseteq Mapped
      BY DEF MineOK, Unlogged
    <2> QED
      BY <2>1, AddressesStored
  <1>5. IsThread(w) /\ w.pc = "idle" /\ w.then = "idle" /\ w.acc = acc /\ w.pc \notin Reading
    <2> HIDE DEF acc
    <2> QED
      BY <1>1, <1>3 DEF IsThread, Reading
  <1>6. IsStored(acc, next_key)
    <2>1. c.paths = Over(a.paths, b.paths) /\ c.objects = Over(a.objects, b.objects)
      OBVIOUS
    <2> HIDE DEF a, b, c
    <2>2. b # <<>> => IsStored(c, next_key)
      BY <1>3, <1>4, <2>1, OverStored, Zenon
    <2> QED
      BY <1>4, <2>2, Zenon
  <1> HIDE DEF w, acc
  <1> QED
    BY <1>1, <1>2, <1>3, <1>5, <1>6, LocalGood, Zenon

(* The log entry becomes durable.                                            *)
LEMMA LogImportGood ==
    ASSUME Good, NEW t \in Workers, LogImport(t)
    PROVE  Good'
  <1>1. /\ th[t].pc = "log" /\ th' = [th EXCEPT ![t] = Idle] /\ UNCHANGED manager
        /\ durable' = Logged(th[t].acc, th[t].mine)
    BY DEF LogImport, At
  <1>2. t \in Threads
    BY DEF Threads
  <1>3. /\ IsStored(th[t].acc, next_key) /\ IsStored(durable, next_key)
        /\ th[t].pc \notin Reading
    BY <1>1, <1>2 DEF Good, ThreadsOK, Reading
  <1>4. /\ durable'.paths = Over(th[t].acc.paths, durable.paths)
        /\ durable'.objects = Over(th[t].acc.objects, durable.objects)
    BY <1>1 DEF Logged
  <1>5. IsStored(durable', next_key)
    BY <1>3, <1>4, OverStored, Zenon
  <1>6. /\ IsThread(Idle) /\ Idle.pc = "idle" /\ Idle.then = "idle" /\ Idle.acc = <<>>
        /\ Idle.pc \notin Reading
    BY DEF Idle, IsThread, Reading
  <1> QED
    BY <1>1, <1>2, <1>3, <1>5, <1>6, LocalGood, Zenon

(* A restart has no readers, and what it finds was stored without readers.   *)
LEMMA RestartGood ==
    ASSUME Good, NEW keep, Restart(keep)
    PROVE  Good'
  <1>1. /\ objects_' = durable.objects /\ local_path_obj_' = durable.paths
        /\ current' = NewCurrent(next_key) /\ next_key' = next_key + 1
        /\ th' = [t \in Threads |-> Idle] /\ UNCHANGED durable
    BY DEF Restart
  <1>2. /\ IsThread(Idle) /\ Idle.pc = "idle" /\ Idle.then = "idle" /\ Idle.acc = <<>>
    BY DEF Idle, IsThread, Reading
  <1>3. next_key \in Nat /\ IsStored(durable, next_key)
    BY DEF Good, ManagerOK
  <1>4. IsStored(durable, next_key)'
    <2>1. IsStored(durable, next_key + 1)
      BY <1>3 DEF IsStored
    <2> QED
      BY <1>1, <2>1, Zenon
  <1>5. /\ DOMAIN th' = Threads /\ \A t \in Threads : th'[t] = Idle
    BY <1>1
  <1>6. ThreadsOK'
    BY <1>2, <1>5, Zenon DEF ThreadsOK
  <1>7. \A t \in Threads : th'[t].pc = "idle"
    BY <1>2, <1>5
  <1>8. ReadersOK'
    <2>1. \A p \in Mapped' : local_path_obj_'[p].key \in Nat /\ local_path_obj_'[p].key < next_key'
      BY <1>1, <1>4 DEF IsStored, Mapped
    <2> QED
      BY <1>7, <2>1 DEF ReadersOK, Reading
  <1>9. \A k \in Nat : Reads'[k] = {}
    <2>1. ASSUME NEW k \in Nat PROVE ReadersOf(k)' = {}
      BY <1>7 DEF ReadersOf, Reading
    <2> QED
      BY <2>1 DEF Reads
  <1>10. /\ IsCurrent(current') /\ current'.key = next_key /\ current'.ref_count = 0
    BY <1>1 DEF NewCurrent, IsCurrent
  <1>11. /\ next_key \notin DOMAIN durable.objects
         /\ \A k \in DOMAIN durable.objects : /\ k \in Nat /\ k < next_key + 1
                                              /\ IsStat(durable.objects[k])
                                              /\ durable.objects[k].ref_count = 0
    BY <1>3 DEF IsStored
  <1>12. ManagerOK(objects_, current, next_key, Reads)'
    <2>1. Cardinality({}) = 0
      BY FS_EmptySet
    <2>2. next_key + 1 \in Nat /\ next_key < next_key + 1
      BY <1>3
    <2> QED
      BY <1>1, <1>3, <1>9, <1>10, <1>11, <2>1, <2>2, Zenon DEF ManagerOK
  <1> QED
    BY <1>4, <1>6, <1>8, <1>12, Zenon DEF Good

-----------------------------------------------------------------------------
(* Readers                                                                   *)

(* The next state of a thread that starts, goes on with or ends a read.      *)
LEMMA ReaderStep ==
    ASSUME Good, NEW t \in Threads, NEW x, NEW f,
           th[t].pc \in Reading \union {"idle"}, x \in Reading \union {"idle"},
           \/ th' = [th EXCEPT ![t].pc = x, ![t].p = f]
           \/ th' = [th EXCEPT ![t].pc = x] /\ f = th[t].p,
           UNCHANGED next_key
    PROVE  /\ ThreadsOK' /\ th'[t].pc = x /\ th'[t].p = f
           /\ \A u \in Threads \ {t} : th'[u] = th[u]
  <1>1. /\ ThreadsOK /\ DOMAIN th = Threads /\ IsThread(th[t])
        /\ next_key \in Nat /\ next_key' \in {next_key, next_key + 1}
        /\ th[t].acc # <<>> => IsStored(th[t].acc, next_key')
    BY DEF Good, ManagerOK, ThreadsOK
  <1> DEFINE w == th'[t]
  <1>2. /\ th' = [th EXCEPT ![t] = w] /\ \A u \in Threads \ {t} : th'[u] = th[u]
        /\ DOMAIN w = DOMAIN th[t] /\ w.acc = th[t].acc /\ w.then = th[t].then
        /\ w.pc = x /\ w.p = f
    BY <1>1 DEF IsThread
  <1>3. IsThread(w) /\ w.then = "idle" /\ w.pc # "log"
    <2>1. w.then = "idle"
      BY <1>1, <1>2 DEF IsThread, Reading
    <2> QED
      BY <1>1, <1>2, <2>1 DEF IsThread, Reading
  <1> HIDE DEF w
  <1>4. ThreadsOK'
    BY <1>1, <1>2, <1>3, ThreadStep, Zenon
  <1> QED
    BY <1>2, <1>4 DEF w

(* Statistics that change in other fields than the count.                    *)
LEMMA CountsKept ==
    ASSUME NEW rd, NEW objs, NEW cur, NEW nk, NEW old, ManagerOK(old, cur, nk, rd),
           SameCounts(objs, old)
    PROVE  ManagerOK(objs, cur, nk, rd)
  BY DEF ManagerOK, SameCounts

(* A thread that goes on with its read.                                      *)
LEMMA ReadingGood ==
    ASSUME Good, NEW t \in Threads, th[t].pc \in Reading, th'[t].pc \in Reading,
           th'[t].p = th[t].p, \A u \in Threads \ {t} : th'[u] = th[u], ThreadsOK',
           UNCHANGED <<local_path_obj_, current, next_key, durable>>,
           SameCounts(objects_', objects_)
    PROVE  Good'
  <1>1. ReadersOK
    BY DEF Good
  <1>2. Reads' = Reads
    BY ReadsKept
  <1>3. ReadersOK'
    <2>1. "place" \notin Reading
      BY DEF Reading
    <2> QED
      BY <1>1, <2>1 DEF ReadersOK, Mapped
  <1>4. ManagerOK(objects_, current, next_key, Reads)'
    <2>1. ManagerOK(objects_', current, next_key, Reads)
      BY CountsKept, Zenon DEF Good
    <2> QED
      BY <1>2, <2>1, Zenon
  <1>5. IsStored(durable, next_key)'
    BY Zenon DEF Good
  <1> QED
    BY <1>3, <1>4, <1>5, Zenon DEF Good

(* HandleReadResult, DownloadObject, WaitDownload.                           *)
LEMMA DownloadGood ==
    ASSUME Good, NEW t \in Threads,
           HandleReadResult(t) \/ DownloadObject(t) \/ WaitDownload(t)
    PROVE  Good'
  <1>1. PICK x \in Reading : th' = [th EXCEPT ![t].pc = x]
    <2>1. CASE HandleReadResult(t)
      <3> DEFINE x == CASE objects_[KeyRead(t)].cached = "kNotCached" -> "downloading"
                        [] objects_[KeyRead(t)].cached = "kDownloading" -> "wait"
                        [] OTHER -> "read"
      <3>1. x \in Reading
        BY DEF Reading
      <3>2. th' = [th EXCEPT ![t].pc = x]
        BY <2>1 DEF HandleReadResult
      <3> QED
        BY <3>1, <3>2, Zenon
    <2>2. CASE DownloadObject(t) \/ WaitDownload(t)
      <3>1. "read" \in Reading /\ th' = [th EXCEPT ![t].pc = "read"]
        BY <2>2, Zenon DEF DownloadObject, WaitDownload, Reading
      <3> QED
        BY <3>1, Zenon
    <2> QED
      BY <2>1, <2>2
  <1>2. th[t].pc \in Reading /\ UNCHANGED <<local_path_obj_, current, next_key, durable>>
    BY Zenon DEF HandleReadResult, DownloadObject, WaitDownload, At, Reading, manager, history
  <1>3. \/ UNCHANGED objects_
        \/ \E c : objects_' = [objects_ EXCEPT ![KeyRead(t)].cached = c]
    BY Zenon DEF HandleReadResult, DownloadObject, WaitDownload, manager
  <1>4. SameCounts(objects_', objects_)
    <2>1. \A k \in DOMAIN objects_ : IsStat(objects_[k])
      BY DEF Good, ManagerOK
    <2> QED
      BY <1>3, <2>1 DEF SameCounts, IsStat
  <1>5. /\ ThreadsOK' /\ th'[t].pc = x /\ th'[t].p = th[t].p
        /\ \A u \in Threads \ {t} : th'[u] = th[u]
    BY <1>1, <1>2, ReaderStep, Zenon
  <1> QED
    BY <1>2, <1>4, <1>5, ReadingGood, Zenon

(* The number of readers of one object changes, and its count with it.       *)
LEMMA RecountObject ==
    ASSUME NEW objs, NEW cur, NEW objs2, NEW nk, NEW rd, NEW rd2, NEW k,
           ManagerOK(objs, cur, nk, rd), \A x \in Nat \ {k} : rd2[x] = rd[x],
           k \in DOMAIN objs, DOMAIN objs2 = DOMAIN objs,
           \A x \in DOMAIN objs \ {k} : objs2[x] = objs[x],
           IsStat(objs2[k]), objs2[k].ref_count = Cardinality(rd2[k])
    PROVE  ManagerOK(objs2, cur, nk, rd2)
  BY DEF ManagerOK

(* The same for the current object.                                          *)
LEMMA RecountCurrent ==
    ASSUME NEW objs, NEW cur, NEW cur2, NEW nk, NEW rd, NEW rd2, NEW k,
           ManagerOK(objs, cur, nk, rd), \A x \in Nat \ {k} : rd2[x] = rd[x],
           k = cur.key, IsCurrent(cur2), cur2.key = k,
           cur2.ref_count = Cardinality(rd2[k])
    PROVE  ManagerOK(objs, cur2, nk, rd2)
  BY DEF ManagerOK

(* The readers of an object are finitely many.                               *)
LEMMA FiniteReaders ==
    ASSUME NEW k \in Nat
    PROVE  IsFiniteSet(Reads[k]) /\ Cardinality(Reads[k]) \in Nat
  <1>1. IsFiniteSet(Threads)
    BY PersistenceManagerAssumption, FS_AddElement DEF Threads
  <1>2. Reads[k] \subseteq Threads
    BY DEF Reads, ReadersOf
  <1> QED
    BY <1>1, <1>2, FS_Subset, FS_CardinalityType

(* One reader more.                                                          *)
LEMMA OneMore ==
    ASSUME Good, NEW t \in Threads, NEW f \in Mapped, NEW x \in Reading,
           th[t].pc \notin Reading, th'[t].pc = x, th'[t].p = f,
           \A u \in Threads \ {t} : th'[u] = th[u],
           UNCHANGED local_path_obj_, NEW k, k = local_path_obj_[f].key
    PROVE  /\ \A y \in Nat \ {k} : Reads'[y] = Reads[y]
           /\ local_path_obj_[f].size > 0 => Cardinality(Reads'[k]) = Cardinality(Reads[k]) + 1
           /\ ~(local_path_obj_[f].size > 0) => Reads'[k] = Reads[k]
  <1>1. k \in Nat
    BY DEF Good, ReadersOK
  <1>2. \A y \in Nat : Reads[y] = ReadersOf(y) /\ Reads'[y] = ReadersOf(y)'
    BY DEF Reads
  <1>3. \A y : ReadersOf(y)' = {u \in Threads : /\ th'[u].pc \in Reading
                                               /\ local_path_obj_[th'[u].p].key = y
                                               /\ local_path_obj_[th'[u].p].size > 0}
    BY DEF ReadersOf, KeyRead
  <1>4. \A y : ReadersOf(y) = {u \in Threads : /\ th[u].pc \in Reading
                                              /\ local_path_obj_[th[u].p].key = y
                                              /\ local_path_obj_[th[u].p].size > 0}
    BY DEF ReadersOf, KeyRead
  <1>5. /\ \A y : y # k => ReadersOf(y)' = ReadersOf(y)
        /\ local_path_obj_[f].size > 0 => ReadersOf(k)' = ReadersOf(k) \union {t}
        /\ ~(local_path_obj_[f].size > 0) => ReadersOf(k)' = ReadersOf(k)
        /\ t \notin ReadersOf(k)
    <2> DEFINE big == local_path_obj_[f].size > 0
    <2>1. \A y, u : u \in Threads \ {t} => (u \in ReadersOf(y)' <=> u \in ReadersOf(y))
      BY <1>3, <1>4, Zenon
    <2>2. \A y : t \notin ReadersOf(y) /\ (t \in ReadersOf(y)' <=> k = y /\ big)
      BY <1>3, <1>4, Zenon
    <2>3. \A y : ReadersOf(y) \subseteq Threads /\ ReadersOf(y)' \subseteq Threads
      BY <1>3, <1>4, Zenon
    <2> HIDE DEF big
    <2>4. /\ \A y : y # k => ReadersOf(y)' = ReadersOf(y)
          /\ big => ReadersOf(k)' = ReadersOf(k) \union {t}
          /\ ~big => ReadersOf(k)' = ReadersOf(k)
      BY <2>1, <2>2, <2>3
    <2> QED
      BY <2>2, <2>4 DEF big
  <1>6. IsFiniteSet(Reads[k])
    BY <1>1, FiniteReaders
  <1>7. ASSUME local_path_obj_[f].size > 0
        PROVE  Cardinality(Reads'[k]) = Cardinality(Reads[k]) + 1
    <2>1. Reads'[k] = Reads[k] \union {t} /\ t \notin Reads[k]
      BY <1>1, <1>2, <1>5, <1>7
    <2>2. Cardinality(Reads[k] \union {t}) = Cardinality(Reads[k]) + 1
      BY <1>6, <2>1, FS_AddElement, Zenon
    <2> QED
      BY <2>1, <2>2, Zenon
  <1> QED
    BY <1>1, <1>2, <1>5, <1>7

(* One reader less.                                                          *)
LEMMA OneLess ==
    ASSUME Good, NEW t \in Threads, th[t].pc \in Reading, th'[t].pc \notin Reading,
           \A u \in Threads \ {t} : th'[u] = th[u],
           UNCHANGED local_path_obj_, NEW addr, addr = local_path_obj_[th[t].p],
           NEW k, k = addr.key
    PROVE  /\ \A y \in Nat \ {k} : Reads'[y] = Reads[y]
           /\ addr.size > 0 => Cardinality(Reads'[k]) = Cardinality(Reads[k]) - 1
           /\ ~(addr.size > 0) => Reads'[k] = Reads[k]
  <1>1. k \in Nat
    BY DEF Good, ReadersOK
  <1>2. \A y \in Nat : Reads[y] = ReadersOf(y) /\ Reads'[y] = ReadersOf(y)'
    BY DEF Reads
  <1>3. \A y : ReadersOf(y)' = {u \in Threads : /\ th'[u].pc \in Reading
                                               /\ local_path_obj_[th'[u].p].key = y
                                               /\ local_path_obj_[th'[u].p].size > 0}
    BY DEF ReadersOf, KeyRead
  <1>4. \A y : ReadersOf(y) = {u \in Threads : /\ th[u].pc \in Reading
                                              /\ local_path_obj_[th[u].p].key = y
                                              /\ local_path_obj_[th[u].p].size > 0}
    BY DEF ReadersOf, KeyRead
  <1>5. /\ \A y : y # k => ReadersOf(y)' = ReadersOf(y)
        /\ addr.size > 0 => ReadersOf(k)' = ReadersOf(k) \ {t} /\ t \in ReadersOf(k)
        /\ ~(addr.size > 0) => ReadersOf(k)' = ReadersOf(k)
    <2> DEFINE big == addr.size > 0
    <2>1. \A y, u : u \in Threads \ {t} => (u \in ReadersOf(y)' <=> u \in ReadersOf(y))
      BY <1>3, <1>4, Zenon
    <2>2. \A y : t \notin ReadersOf(y)' /\ (t \in ReadersOf(y) <=> k = y /\ big)
      BY <1>3, <1>4, Zenon
    <2>3. \A y : ReadersOf(y) \subseteq Threads /\ ReadersOf(y)' \subseteq Threads
      BY <1>3, <1>4, Zenon
    <2> HIDE DEF big
    <2>4. /\ \A y : y # k => ReadersOf(y)' = ReadersOf(y)
          /\ big => ReadersOf(k)' = ReadersOf(k) \ {t}
          /\ ~big => ReadersOf(k)' = ReadersOf(k)
      BY <2>1, <2>2, <2>3
    <2> QED
      BY <2>2, <2>4 DEF big
  <1>6. IsFiniteSet(Reads[k])
    BY <1>1, FiniteReaders
  <1>7. ASSUME addr.size > 0
        PROVE  Cardinality(Reads'[k]) = Cardinality(Reads[k]) - 1
    <2>1. Reads'[k] = Reads[k] \ {t} /\ t \in Reads[k]
      BY <1>1, <1>2, <1>5, <1>7
    <2>2. Cardinality(Reads[k] \ {t}) = Cardinality(Reads[k]) - 1
      BY <1>6, <2>1, FS_RemoveElement, Zenon
    <2> QED
      BY <2>1, <2>2, Zenon
  <1> QED
    BY <1>1, <1>2, <1>5, <1>7

(* The step that starts or ends a read, given that it counts.                *)
LEMMA CountedGood ==
    ASSUME Good, NEW t \in Threads, \A u \in Threads \ {t} : th'[u] = th[u], ThreadsOK',
           th'[t].pc # "place",
           th'[t].pc \in Reading => /\ th'[t].p \in Mapped
                                    /\ \A u \in Threads : th[u].pc = "place" => th[u].p # th'[t].p,
           UNCHANGED <<local_path_obj_, next_key, durable>>,
           ManagerOK(objects_, current, next_key, Reads)'
    PROVE  Good'
  <1>1. ReadersOK
    BY DEF Good
  <1>2. ReadersOK'
    BY <1>1 DEF ReadersOK, Mapped
  <1>3. IsStored(durable, next_key)'
    BY Zenon DEF Good
  <1> QED
    BY <1>2, <1>3, Zenon DEF Good

(* GetObjCache counts the reader.                                            *)
LEMMA GetObjCacheGood ==
    ASSUME Good, NEW t \in Threads, NEW f, GetObjCache(t, f), failed' = "none"
    PROVE  Good'
  <1> DEFINE addr == local_path_obj_[f]
             k == addr.key
  <1>1. /\ th[t].pc = "idle" /\ f \in Mapped /\ Writing(f) = {}
        /\ UNCHANGED <<local_path_obj_, next_key, durable>>
    BY DEF GetObjCache, At, history
  <1>2. PICK x \in Reading : th' = [th EXCEPT ![t].pc = x, ![t].p = f]
    <2>1. /\ "read" \in Reading /\ "fetch" \in Reading
          /\ (IF k \notin DOMAIN disk THEN "fetch" ELSE "read") \in Reading
      BY DEF Reading
    <2> QED
      BY <2>1, Zenon DEF GetObjCache
  <1>3. /\ ThreadsOK' /\ th'[t].pc = x /\ th'[t].p = f
        /\ \A u \in Threads \ {t} : th'[u] = th[u]
    BY <1>1, <1>2, ReaderStep, Zenon
  <1>4. th[t].pc \notin Reading
    BY <1>1 DEF Reading
  <1>5. /\ \A y \in Nat \ {k} : Reads'[y] = Reads[y]
        /\ addr.size > 0 => Cardinality(Reads'[k]) = Cardinality(Reads[k]) + 1
        /\ ~(addr.size > 0) => Reads'[k] = Reads[k]
    BY <1>1, <1>3, <1>4, OneMore, Zenon
  <1>6. /\ th'[t].pc # "place" /\ th'[t].p \in Mapped
        /\ \A u \in Threads : th[u].pc = "place" => th[u].p # th'[t].p
    BY <1>1, <1>3 DEF Reading, Writing
  <1>7. k \in Nat /\ next_key' = next_key /\ ManagerOK(objects_, current, next_key, Reads)
    BY <1>1 DEF Good, ReadersOK
  <1>8. ManagerOK(objects_', current', next_key, Reads')
    <2>1. CASE addr.size = 0 /\ UNCHANGED <<objects_, current>>
      <3>1. \A y \in Nat : Reads'[y] = Reads[y]
        BY <1>5, <1>7, <2>1
      <3> QED
        BY <1>7, <2>1, <3>1, Zenon DEF ManagerOK
    <2>2. CASE /\ addr.size > 0 /\ k \in DOMAIN objects_ /\ UNCHANGED current
               /\ \E c : objects_' = [objects_ EXCEPT ![k] = [objects_[k] EXCEPT
                                        !.ref_count = @ + 1, !.cached = c]]
      <3>1. IsStat(objects_[k]) /\ objects_[k].ref_count = Cardinality(Reads[k])
        BY <1>7, <2>2 DEF ManagerOK
      <3>2. /\ DOMAIN objects_' = DOMAIN objects_
            /\ \A y \in DOMAIN objects_ \ {k} : objects_'[y] = objects_[y]
            /\ IsStat(objects_'[k]) /\ objects_'[k].ref_count = objects_[k].ref_count + 1
        BY <2>2, <3>1, Zenon DEF IsStat
      <3>3. objects_'[k].ref_count = Cardinality(Reads'[k]) /\ current' = current
        BY <1>5, <2>2, <3>1, <3>2
      <3>4. k \in DOMAIN objects_
        BY <2>2
      <3> HIDE DEF k, addr
      <3>5. ManagerOK(objects_', current, next_key, Reads')
        BY <1>5, <1>7, <3>2, <3>3, <3>4, RecountObject, Zenon
      <3> QED
        BY <3>3, <3>5, Zenon
    <2>3. CASE /\ addr.size > 0 /\ k = current.key /\ UNCHANGED objects_
               /\ current' = [current EXCEPT !.ref_count = @ + 1]
      <3>1. IsCurrent(current) /\ current.ref_count = Cardinality(Reads[k])
        BY <1>7, <2>3 DEF ManagerOK
      <3>2. /\ IsCurrent(current') /\ current'.key = k
            /\ current'.ref_count = current.ref_count + 1
        BY <2>3, <3>1 DEF IsCurrent
      <3>3. current'.ref_count = Cardinality(Reads'[k]) /\ objects_' = objects_
        BY <1>5, <2>3, <3>1, <3>2
      <3>4. k = current.key
        BY <2>3
      <3> HIDE DEF k, addr
      <3>5. ManagerOK(objects_, current', next_key, Reads')
        BY <1>5, <1>7, <3>2, <3>3, <3>4, RecountCurrent, Zenon
      <3> QED
        BY <3>3, <3>5, Zenon
    <2> QED
      BY <2>1, <2>2, <2>3, Zenon DEF GetObjCache
  <1>9. ManagerOK(objects_, current, next_key, Reads)'
    BY <1>7, <1>8, Zenon
  <1> QED
    BY <1>1, <1>3, <1>6, <1>9, CountedGood, Zenon

(* PutObjCache counts it down, in the object that holds the file by then.    *)
LEMMA PutObjCacheGood ==
    ASSUME Good, NEW t \in Threads, PutObjCache(t), failed' = "none"
    PROVE  Good'
  <1> DEFINE addr == local_path_obj_[th[t].p]
             k == addr.key
  <1>1. /\ th[t].pc = "read" /\ th' = [th EXCEPT ![t].pc = "idle", ![t].p = Idle.p]
        /\ UNCHANGED <<local_path_obj_, next_key, durable>>
    BY DEF PutObjCache, At, history
  <1>2. th[t].pc \in Reading /\ "idle" \notin Reading
    BY <1>1 DEF Reading
  <1>3. /\ ThreadsOK' /\ th'[t].pc = "idle"
        /\ \A u \in Threads \ {t} : th'[u] = th[u]
    BY <1>1, <1>2, ReaderStep, Zenon
  <1>4. th[t].p \in Mapped /\ k \in Nat
    BY <1>2 DEF Good, ReadersOK
  <1>5. /\ \A y \in Nat \ {k} : Reads'[y] = Reads[y]
        /\ addr.size > 0 => Cardinality(Reads'[k]) = Cardinality(Reads[k]) - 1
        /\ ~(addr.size > 0) => Reads'[k] = Reads[k]
    BY <1>1, <1>2, <1>3, OneLess, Zenon
  <1>6. next_key' = next_key /\ ManagerOK(objects_, current, next_key, Reads)
    BY <1>1 DEF Good
  <1>7. ManagerOK(objects_', current', next_key, Reads')
    <2>1. CASE addr.size = 0 /\ UNCHANGED <<objects_, current>>
      <3>1. \A y \in Nat : Reads'[y] = Reads[y]
        BY <1>4, <1>5, <2>1
      <3> QED
        BY <1>6, <2>1, <3>1, Zenon DEF ManagerOK
    <2>2. CASE /\ addr.size > 0 /\ k \in DOMAIN objects_ /\ UNCHANGED current
               /\ objects_' = [objects_ EXCEPT ![k].ref_count = @ - 1]
      <3>1. IsStat(objects_[k]) /\ objects_[k].ref_count = Cardinality(Reads[k])
        BY <1>6, <2>2 DEF ManagerOK
      <3>2. /\ DOMAIN objects_' = DOMAIN objects_
            /\ \A y \in DOMAIN objects_ \ {k} : objects_'[y] = objects_[y]
            /\ IsStat(objects_'[k]) /\ objects_'[k].ref_count = objects_[k].ref_count - 1
        BY <2>2, <3>1, Zenon DEF IsStat
      <3>3. objects_'[k].ref_count = Cardinality(Reads'[k]) /\ current' = current
        BY <1>5, <2>2, <3>1, <3>2, Zenon
      <3>4. k \in DOMAIN objects_
        BY <2>2
      <3> HIDE DEF k, addr
      <3>5. ManagerOK(objects_', current, next_key, Reads')
        BY <1>5, <1>6, <3>2, <3>3, <3>4, RecountObject, Zenon
      <3> QED
        BY <3>3, <3>5, Zenon
    <2>3. CASE /\ addr.size > 0 /\ k = current.key /\ UNCHANGED objects_
               /\ current' = [current EXCEPT !.ref_count = @ - 1]
      <3>1. IsCurrent(current) /\ current.ref_count = Cardinality(Reads[k])
        BY <1>6, <2>3 DEF ManagerOK
      <3>2. /\ IsCurrent(current') /\ current'.key = k
            /\ current'.ref_count = current.ref_count - 1
        BY <2>3, <3>1 DEF IsCurrent
      <3>3. current'.ref_count = Cardinality(Reads'[k]) /\ objects_' = objects_
        BY <1>5, <2>3, <3>1, <3>2, Zenon
      <3>4. k = current.key
        BY <2>3
      <3> HIDE DEF k, addr
      <3>5. ManagerOK(objects_, current', next_key, Reads')
        BY <1>5, <1>6, <3>2, <3>3, <3>4, RecountCurrent, Zenon
      <3> QED
        BY <3>3, <3>5, Zenon
    <2> QED
      BY <2>1, <2>2, <2>3, Zenon DEF PutObjCache
  <1>8. ManagerOK(objects_, current, next_key, Reads)'
    BY <1>6, <1>7, Zenon
  <1>9. th'[t].pc # "place" /\ th'[t].pc \notin Reading
    BY <1>2, <1>3
  <1> QED
    BY <1>1, <1>3, <1>8, <1>9, CountedGood, Zenon

-----------------------------------------------------------------------------
(* The theorem                                                               *)

(* Every step keeps the invariant, unless it fails.                          *)
LEMMA NextGood ==
    ASSUME Good, MineOK, [Next]_vars, failed' = "none"
    PROVE  Good'
  <1>1. ASSUME NEW t \in Threads, Persist(t)
        PROVE  Good'
    <2>1. ASSUME NEW p \in Paths, NEW size, PersistBegin(t, p, size)
          PROVE  Good'
      BY <2>1, PersistBeginGood, Zenon
    <2>2. CASE PersistEmpty(t)
      BY <2>2, PersistEmptyGood, Zenon
    <2>3. CASE PersistDedicated(t)
      BY <2>3, PersistDedicatedGood, Zenon
    <2>4. CASE PersistCompose(t)
      BY <2>4, PersistComposeGood, Zenon
    <2> QED
      BY <1>1, <2>1, <2>2, <2>3, <2>4, Zenon DEF Persist
  <1>2. ASSUME NEW t \in Threads, HandleUpload(t) \/ HandleDrop(t)
        PROVE  Good'
    BY <1>2, HandleGood, Zenon
  <1>3. ASSUME NEW t \in Threads, Read(t)
        PROVE  Good'
    <2>1. ASSUME NEW p, GetObjCache(t, p)
          PROVE  Good'
      BY <2>1, GetObjCacheGood, Zenon
    <2>2. CASE HandleReadResult(t) \/ DownloadObject(t) \/ WaitDownload(t)
      BY <2>2, DownloadGood, Zenon
    <2>3. CASE PutObjCache(t)
      BY <2>3, PutObjCacheGood, Zenon
    <2> QED
      BY <1>3, <2>1, <2>2, <2>3, Zenon DEF Read
  <1>4. ASSUME NEW p \in Paths, Cleanup(p)
        PROVE  Good'
    BY <1>4, CleanupGood, Zenon
  <1>5. ASSUME NEW then \in {"serialize", "delta"}, CurrentObjFinalize(Bg, then)
        PROVE  Good'
    <2>1. Bg \in Threads /\ then \in {"serialize", "delta", "log"} /\ then # "log"
      BY <1>5 DEF Threads
    <2> QED
      BY <1>5, <2>1, FinalizeGood, Zenon
  <1>6. CASE Serialize \/ SaveDeltaCatalog
    BY <1>6, CheckpointGood, Zenon
  <1>7. ASSUME NEW t \in Workers, AddrInitialize(t) \/ PrepareCommit1(t) \/ LogImport(t)
        PROVE  Good'
    BY <1>7, AddrInitializeGood, PrepareCommit1Good, LogImportGood, Zenon
  <1>8. ASSUME NEW keep, Restart(keep)
        PROVE  Good'
    BY <1>8, RestartGood, Zenon
  <1>9. CASE UNCHANGED vars
    <2>1. UNCHANGED <<objects_, local_path_obj_, current, next_key, th, durable>>
      BY <1>9 DEF vars, manager, history
    <2>2. Reads' = Reads
      BY <2>1, ReadsKept
    <2>3. ThreadsOK' /\ ReadersOK'
      BY <2>1 DEF Good, ThreadsOK, ReadersOK, Mapped
    <2>4. ManagerOK(objects_, current, next_key, Reads)' /\ IsStored(durable, next_key)'
      BY <2>1, <2>2, Zenon DEF Good
    <2> QED
      BY <2>3, <2>4, Zenon DEF Good
  <1> QED
    BY <1>1, <1>2, <1>3, <1>4, <1>5, <1>6, <1>7, <1>8, <1>9, Zenon DEF Next, Finished

(* The first state has no objects and no readers.                            *)
LEMMA InitGood ==
    ASSUME Init
    PROVE  Good /\ MineOK
  <1>1. /\ DOMAIN th = Threads
        /\ \A t \in Threads : /\ IsThread(th[t]) /\ th[t].pc = "idle" /\ th[t].then = "idle"
                               /\ th[t].acc = <<>> /\ th[t].mine = {} /\ "mine" \in DOMAIN th[t]
    BY DEF Init, Idle, IsThread
  <1>2. ThreadsOK
    BY <1>1 DEF ThreadsOK
  <1>3. DOMAIN local_path_obj_ = {} /\ DOMAIN objects_ = {} /\ next_key = 2
    BY DEF Init
  <1>4. ReadersOK
    BY <1>1, <1>3 DEF ReadersOK, Mapped, Reading
  <1>5. IsStored(durable, next_key)
    <2>1. DOMAIN durable.objects = {} /\ DOMAIN durable.paths = {}
      BY DEF Init
    <2> QED
      BY <2>1, Zenon DEF IsStored
  <1>6. Reads[1] = {}
    BY <1>1 DEF Reads, ReadersOf, Reading
  <1>7. IsCurrent(current) /\ current.key = 1 /\ current.ref_count = 0
    BY DEF Init, NewCurrent, IsCurrent
  <1>8. Cardinality(Reads[1]) = 0
    BY <1>6, FS_EmptySet
  <1>9. ManagerOK(objects_, current, next_key, Reads)
    BY <1>3, <1>7, <1>8 DEF ManagerOK
  <1>10. MineOK
    BY <1>1 DEF MineOK, Threads
  <1> QED
    BY <1>2, <1>4, <1>5, <1>9, <1>10, Zenon DEF Good

(* GetObjCache, CurrentObjFinalizeNoLock and PutObjCache keep the reference  *)
(* count of every object, and of the object that is being filled, equal to   *)
(* the number of its readers: for any number of threads and files, any sizes *)
(* and any number of writes, reads, checkpoints and restarts.                *)
THEOREM RefCountAlwaysExact == Spec => []RefCountExact
  <1> DEFINE Inv == PInv /\ MineOK
  <1>1. Init => Inv
    BY InitGood, Zenon DEF PInv
  <1>2. Inv /\ [Next]_vars => Inv'
    <2> SUFFICES ASSUME PInv, MineOK, [Next]_vars PROVE PInv' /\ MineOK'
      OBVIOUS
    <2>1. MineOK'
      BY NextMine, Zenon
    <2>2. ASSUME failed' = "none" PROVE Good'
      <3>1. failed = "none"
        <4>1. \A t, pc : At(t, pc) => failed = "none"
          BY DEF At
        <4>2. ASSUME NEW t, Persist(t) \/ HandleUpload(t) \/ HandleDrop(t)
              PROVE  failed = "none"
          BY <4>1, <4>2, Zenon DEF Persist, PersistBegin, PersistEmpty, PersistDedicated,
                                   PersistCompose, HandleUpload, HandleDrop
        <4>3. ASSUME NEW t, Read(t)
              PROVE  failed = "none"
          BY <4>1, <4>3, Zenon DEF Read, GetObjCache, HandleReadResult, DownloadObject,
                                   WaitDownload, PutObjCache
        <4>4. ASSUME NEW p, Cleanup(p)
              PROVE  failed = "none"
          BY <4>1, <4>4, Zenon DEF Cleanup
        <4>5. ASSUME NEW t, NEW then, CurrentObjFinalize(t, then)
              PROVE  failed = "none"
          BY <4>1, <4>5, Zenon DEF CurrentObjFinalize
        <4>6. ASSUME Serialize \/ SaveDeltaCatalog
              PROVE  failed = "none"
          BY <4>1, <4>6, Zenon DEF Serialize, SaveDeltaCatalog
        <4>7. ASSUME NEW t, AddrInitialize(t) \/ LogImport(t)
              PROVE  failed = "none"
          BY <4>1, <4>7, Zenon DEF AddrInitialize, LogImport
        <4>8. ASSUME NEW keep, Restart(keep)
              PROVE  failed = "none"
          BY <4>8, Zenon DEF Restart
        <4>9. UNCHANGED vars => failed = "none"
          BY <2>2 DEF vars
        <4> QED
          BY <4>2, <4>3, <4>4, <4>5, <4>6, <4>7, <4>8, <4>9, Zenon
          DEF Next, PrepareCommit1, Finished
      <3>2. Good
        BY <3>1, Zenon DEF PInv
      <3> QED
        BY <2>2, <3>2, NextGood, Zenon
    <2> QED
      BY <2>1, <2>2, Zenon DEF PInv
  <1>3. Inv => RefCountExact
    <2> SUFFICES ASSUME PInv, failed = "none"
                 PROVE  /\ \A k \in DOMAIN objects_ :
                              objects_[k].ref_count = Cardinality(ReadersOf(k))
                        /\ current.ref_count = Cardinality(ReadersOf(current.key))
      BY Zenon DEF RefCountExact
    <2>1. ManagerOK(objects_, current, next_key, Reads)
      BY Zenon DEF PInv, Good
    <2>2. \A k \in Nat : Reads[k] = ReadersOf(k)
      BY DEF Reads
    <2> QED
      BY <2>1, <2>2, Zenon DEF ManagerOK
  <1> HIDE DEF Inv
  <1> QED
    BY <1>1, <1>2, <1>3, PTL DEF Spec

=============================================================================
