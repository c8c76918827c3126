-------------------------- MODULE FileSystemProofs --------------------------
(***************************************************************************)
(* The safety properties of project 4's file system and its refinement of  *)
(* FileStore, proved for every disk geometry, cache capacity and set of    *)
(* files, for a shell that names no inode number a file does not have.     *)
(***************************************************************************)
EXTENDS FileSystem, QueueLemmas

-----------------------------------------------------------------------------
(* Numbers.                                                                *)

(* What the assumptions say about the disk's geometry.                     *)
LEMMA Constants ==
  /\ nblocks \in Nat /\ NUM_INODE_BLOCKS \in Nat \ {0}
  /\ POINTERS_PER_INODE \in Nat \ {0}
  /\ POINTERS_PER_BLOCK \in Nat \ {0}
  /\ DISK_BLOCK_SIZE = POINTERS_PER_BLOCK
  /\ MaxPointers = POINTERS_PER_INODE + POINTERS_PER_BLOCK
  /\ 0 \in Inumbers /\ Inumbers \subseteq Nat
  /\ 0 \notin DataBlocks /\ DataBlocks \subseteq Nat
  /\ 0 .. NUM_INODE_BLOCKS \cap DataBlocks = {}
<1>1. nblocks \div 10 \in Nat
  BY DiskAssumption
<1>2. NUM_INODE_BLOCKS \in Nat \ {0}
  BY <1>1 DEF NUM_INODE_BLOCKS
<1>3. NUM_INODE_BLOCKS * INODES_PER_BLOCK \in Nat \ {0}
  BY <1>2, DiskAssumption
<1> QED
  BY <1>2, <1>3, DiskAssumption
  DEF DISK_BLOCK_SIZE, MaxPointers, Inumbers, DataBlocks, numinodes

(* An inode without pointers is an inode.                                  *)
LEMMA EmptyIsInode ==
  /\ EmptyInode \in fs_inode
  /\ ~EmptyInode.isvalid /\ EmptyInode.indirect = 0 /\ EmptyInode.size = 0
  /\ \A k \in 0 .. POINTERS_PER_INODE - 1 : EmptyInode.direct[k] = 0
BY DEF EmptyInode, fs_inode
-----------------------------------------------------------------------------
(* The cache.                                                              *)

StoreType == [disk : [Inumbers -> fs_inode],
              lru : Seq(Inumbers),
              inode : [Inumbers -> fs_inode],
              is_dirty : [Inumbers -> BOOLEAN],
              current_size : Nat]

\* No inode is in the list twice; one in it can be saved, and needs no saving
\* if it is not marked.
CacheOK(s) ==
  /\ s \in StoreType
  /\ IsInjective(s.lru)
  /\ \A i \in ToSet(s.lru) :
       inode_in_range(i) /\ (~s.is_dirty[i] => s.inode[i] = s.disk[i])

(* inode_save by its effect on the table.                                  *)
LEMMA Saved ==
  ASSUME NEW s \in StoreType, NEW i \in Inumbers, NEW n \in fs_inode,
         inode_in_range(i)
  PROVE  LET r == inode_save(s, i, n) IN
           /\ r \in StoreType
           /\ r.disk = [s.disk EXCEPT ![i] = n]
           /\ r.lru = s.lru /\ r.inode = s.inode /\ r.is_dirty = s.is_dirty
           /\ r.current_size = s.current_size
BY DEF inode_save, StoreType

(* An inode is in the cache when it is a member of the list.               *)
LEMMA Cached ==
  ASSUME NEW s \in StoreType, NEW i
  PROVE  InCache(s, i) <=> i \in ToSet(s.lru)
<1>1. s.lru \in Seq(Inumbers)
  BY DEF StoreType
<1> QED
  BY <1>1, Members DEF InCache

(* A node that leaves the cache leaves its inode on the disk.              *)
LEMMA RemoveNode ==
  ASSUME NEW s, CacheOK(s), NEW i \in ToSet(s.lru)
  PROVE  LET r == remove_node(s, i) IN
           /\ CacheOK(r)
           /\ ToSet(r.lru) = ToSet(s.lru) \ {i}
           /\ r.disk = [s.disk EXCEPT ![i] = s.inode[i]]
           /\ \A j \in Inumbers \ {i} : /\ r.inode[j] = s.inode[j]
                                        /\ r.is_dirty[j] = s.is_dirty[j]
           /\ r.current_size = s.current_size
<1> DEFINE w == written_back(s, i)
           r == remove_node(s, i)
<1>1. s \in StoreType /\ s.lru \in Seq(Inumbers) /\ i \in Inumbers
      /\ inode_in_range(i) /\ s.inode[i] \in fs_inode
  <2>1. s \in StoreType /\ s.lru \in Seq(Inumbers)
    BY DEF CacheOK, StoreType
  <2>2. i \in Inumbers
    BY <2>1, Members
  <2> QED
    BY <2>1, <2>2 DEF CacheOK, StoreType
<1>2. /\ w \in StoreType
      /\ w.disk = [s.disk EXCEPT ![i] = s.inode[i]]
      /\ w.lru = s.lru /\ w.inode = s.inode /\ w.is_dirty = s.is_dirty
      /\ w.current_size = s.current_size
  <2>1. CASE s.is_dirty[i]
    BY <1>1, <2>1, Saved DEF written_back
  <2>2. CASE ~s.is_dirty[i]
    <3>1. w = s /\ s.inode[i] = s.disk[i]
      BY <2>2 DEF written_back, CacheOK
    <3>2. [s.disk EXCEPT ![i] = s.disk[i]] = s.disk
      BY <1>1 DEF StoreType
    <3> QED
      BY <1>1, <3>1, <3>2
  <2> QED
    BY <2>1, <2>2
<1> HIDE DEF w
<1>3. r = [w EXCEPT !.lru = RemoveFirst(@, i),
                    !.inode[i] = EmptyInode,
                    !.is_dirty[i] = FALSE]
  BY DEF remove_node, w
<1>4. /\ RemoveFirst(s.lru, i) \in Seq(Inumbers)
      /\ ToSet(RemoveFirst(s.lru, i)) = ToSet(s.lru) \ {i}
      /\ IsInjective(RemoveFirst(s.lru, i))
  BY <1>1, RemoveFirstMembers DEF CacheOK
<1>5. /\ r.lru = RemoveFirst(s.lru, i)
      /\ r.disk = w.disk
      /\ r.inode = [s.inode EXCEPT ![i] = EmptyInode]
      /\ r.is_dirty = [s.is_dirty EXCEPT ![i] = FALSE]
      /\ r.current_size = s.current_size
      /\ r \in StoreType
  <2>1. r = [disk |-> w.disk, lru |-> RemoveFirst(w.lru, i),
             inode |-> [w.inode EXCEPT ![i] = EmptyInode],
             is_dirty |-> [w.is_dirty EXCEPT ![i] = FALSE],
             current_size |-> w.current_size]
    BY <1>2, <1>3 DEF StoreType
  <2> QED
    BY <1>1, <1>2, <1>4, <2>1, EmptyIsInode DEF StoreType
<1> HIDE DEF r
<1>6. \A j \in Inumbers \ {i} : /\ r.inode[j] = s.inode[j]
                                /\ r.is_dirty[j] = s.is_dirty[j]
                                /\ r.disk[j] = s.disk[j]
  BY <1>1, <1>2, <1>5 DEF StoreType
<1>7. \A j \in ToSet(r.lru) : j \in Inumbers \ {i} /\ j \in ToSet(s.lru)
  BY <1>1, <1>4, <1>5, Members
<1>8. CacheOK(r)
  BY <1>4, <1>5, <1>6, <1>7 DEF CacheOK
<1> QED
  BY <1>2, <1>4, <1>5, <1>6, <1>8 DEF r

(* Loading an inode changes no inode: what the list loses is on the disk.  *)
LEMMA GetInode ==
  ASSUME NEW s, CacheOK(s), NEW i \in Inumbers, NEW garbage \in BOOLEAN
  PROVE  LET r == get_inode(s, i, garbage) IN
           /\ CacheOK(r)
           /\ \A j \in Inumbers : inode_of(r, j) = inode_of(s, j)
           /\ \A j \in Inumbers : r.disk[j] \in {s.disk[j], inode_of(s, j)}
           /\ ToSet(r.lru) \subseteq
                ToSet(s.lru) \cup (IF inode_in_range(i) THEN {i} ELSE {})
<1> DEFINE r == get_inode(s, i, garbage)
           n == insert_in_the_end(s, i, garbage)
<1>1. s \in StoreType /\ s.lru \in Seq(Inumbers)
  BY DEF CacheOK, StoreType
<1>2. CASE InCache(s, i)
  <2>1. r = [s EXCEPT !.lru = Append(RemoveFirst(@, i), i)]
    BY <1>2 DEF get_inode
  <2>2. i \in ToSet(s.lru)
    BY <1>1, <1>2, Cached
  <2>3. /\ RemoveFirst(s.lru, i) \in Seq(Inumbers)
        /\ ToSet(RemoveFirst(s.lru, i)) = ToSet(s.lru) \ {i}
        /\ IsInjective(RemoveFirst(s.lru, i))
    BY <1>1, RemoveFirstMembers DEF CacheOK
  <2> DEFINE l == Append(RemoveFirst(s.lru, i), i)
  <2>4. /\ l \in Seq(Inumbers) /\ IsInjective(l) /\ ToSet(l) = ToSet(s.lru)
    <3>1. /\ l \in Seq(Inumbers) /\ IsInjective(l)
          /\ ToSet(l) = ToSet(RemoveFirst(s.lru, i)) \cup {i}
      BY <2>3, AppendMembers
    <3> QED
      BY <2>2, <2>3, <3>1
  <2> HIDE DEF l
  <2>5. /\ r \in StoreType /\ r.lru = l /\ r.disk = s.disk
        /\ r.inode = s.inode /\ r.is_dirty = s.is_dirty
    BY <1>1, <2>1, <2>4 DEF StoreType, l
  <2> HIDE DEF r
  <2>6. CacheOK(r)
    BY <2>4, <2>5 DEF CacheOK
  <2>7. \A j \in Inumbers : inode_of(r, j) = inode_of(s, j)
    BY <1>1, <2>4, <2>5, Cached DEF inode_of
  <2> QED
    BY <2>4, <2>5, <2>6, <2>7 DEF r
<1>3. CASE ~InCache(s, i) /\ ~inode_in_range(i)
  <2>1. r = s
    BY <1>3 DEF get_inode
  <2> QED
    BY <2>1
<1>4. CASE ~InCache(s, i) /\ inode_in_range(i)
  <2>1. i \notin ToSet(s.lru)
    BY <1>1, <1>4, Cached
  <2>2. /\ Append(s.lru, i) \in Seq(Inumbers) /\ Append(s.lru, i) # << >>
        /\ ToSet(Append(s.lru, i)) = ToSet(s.lru) \cup {i}
        /\ IsInjective(Append(s.lru, i))
    BY <1>1, <2>1, AppendMembers DEF CacheOK
  <2>3. /\ n \in StoreType
        /\ n.lru = Append(s.lru, i) /\ n.disk = s.disk
        /\ n.inode = [s.inode EXCEPT ![i] = s.disk[i]]
        /\ n.is_dirty = [s.is_dirty EXCEPT ![i] = garbage]
        /\ n.current_size = s.current_size + 1
    <3> DEFINE l == Append(s.lru, i)
               e == s.disk[i]
               c == s.current_size + 1
    <3>1. l \in Seq(Inumbers) /\ e \in fs_inode /\ c \in Nat
      BY <1>1, <2>2 DEF StoreType
    <3>2. n = [s EXCEPT !.lru = l, !.inode[i] = e, !.is_dirty[i] = garbage,
                        !.current_size = c]
      BY DEF insert_in_the_end
    <3> HIDE DEF l, e, c, n
    <3>3. /\ n \in StoreType
          /\ n.disk = s.disk /\ n.lru = l
          /\ n.inode = [s.inode EXCEPT ![i] = e]
          /\ n.is_dirty = [s.is_dirty EXCEPT ![i] = garbage]
          /\ n.current_size = c
      BY <1>1, <3>1, <3>2 DEF StoreType
    <3> QED
      BY <3>3 DEF l, e, c
  <2>4. r = IF n.current_size > capacity THEN evict_first(n) ELSE n
    BY <1>4 DEF get_inode
  <2> HIDE DEF n
  <2>5. /\ n.inode[i] = s.disk[i] /\ n.disk[i] = s.disk[i]
        /\ \A j \in Inumbers \ {i} : /\ n.inode[j] = s.inode[j]
                                     /\ n.is_dirty[j] = s.is_dirty[j]
    BY <1>1, <2>3 DEF StoreType
  <2>6. CacheOK(n)
    <3>1. ASSUME NEW j \in ToSet(n.lru)
          PROVE  inode_in_range(j) /\ (~n.is_dirty[j] => n.inode[j] = n.disk[j])
      <4>1. CASE j = i
        BY <1>4, <2>5, <4>1
      <4>2. CASE j # i
        <5>1. j \in ToSet(s.lru) /\ j \in Inumbers
          BY <1>1, <2>2, <2>3, <4>2, Members
        <5> QED
          BY <2>3, <2>5, <4>2, <5>1 DEF CacheOK
      <4> QED
        BY <4>1, <4>2
    <3> QED
      BY <2>2, <2>3, <3>1 DEF CacheOK
  <2>7. \A j \in Inumbers : inode_of(n, j) = inode_of(s, j)
    BY <1>1, <2>1, <2>2, <2>3, <2>5, Cached DEF inode_of
  <2>8. CASE ~(n.current_size > capacity)
    BY <1>4, <2>2, <2>3, <2>4, <2>6, <2>7, <2>8
  <2>9. CASE n.current_size > capacity
    <3> DEFINE h == Head(n.lru)
               m == remove_node(n, h)
    <3>1. h \in ToSet(n.lru) /\ h \in Inumbers
      BY <2>2, <2>3, TailMembers
    <3> HIDE DEF h
    <3>2. /\ CacheOK(m)
          /\ ToSet(m.lru) = ToSet(n.lru) \ {h}
          /\ m.disk = [n.disk EXCEPT ![h] = n.inode[h]]
          /\ \A j \in Inumbers \ {h} : m.inode[j] = n.inode[j]
          /\ m.current_size = n.current_size
      BY <2>6, <3>1, RemoveNode
    <3> HIDE DEF m
    <3>3. r = [m EXCEPT !.current_size = @ - 1]
      BY <2>4, <2>9 DEF evict_first, h, m
    <3>4. m \in StoreType /\ m.current_size - 1 \in Nat
      BY <1>1, <2>3, <3>2 DEF CacheOK, StoreType
    <3>5. /\ r \in StoreType /\ r.lru = m.lru /\ r.disk = m.disk
          /\ r.inode = m.inode /\ r.is_dirty = m.is_dirty
      BY <3>3, <3>4 DEF StoreType
    <3> HIDE DEF r
    <3>6. CacheOK(r)
      BY <3>2, <3>5 DEF CacheOK
    <3>7. inode_of(n, h) = n.inode[h]
      BY <2>3, <3>1, Cached DEF inode_of
    <3>8. m.disk[h] = n.inode[h]
          /\ \A j \in Inumbers \ {h} : m.disk[j] = n.disk[j]
      BY <2>3, <3>1, <3>2 DEF StoreType
    <3>9. ASSUME NEW j \in Inumbers PROVE inode_of(r, j) = inode_of(n, j)
      <4>1. CASE j = h
        <5>1. ~InCache(r, j)
          BY <3>2, <3>5, <4>1, Cached
        <5> QED
          BY <3>5, <3>7, <3>8, <4>1, <5>1 DEF inode_of
      <4>2. CASE j # h
        <5>1. InCache(r, j) <=> InCache(n, j)
          BY <2>3, <3>2, <3>5, <4>2, Cached
        <5> QED
          BY <3>2, <3>5, <3>8, <4>2, <5>1 DEF inode_of
      <4> QED
        BY <4>1, <4>2
    <3>10. ASSUME NEW j \in Inumbers
           PROVE  r.disk[j] \in {s.disk[j], inode_of(s, j)}
      BY <2>3, <2>7, <3>5, <3>7, <3>8
    <3>11. ToSet(r.lru) \subseteq ToSet(s.lru) \cup {i}
      BY <2>2, <2>3, <3>2, <3>5
    <3> QED
      BY <1>4, <2>7, <3>6, <3>9, <3>10, <3>11 DEF r
  <2> QED
    BY <2>8, <2>9
<1> QED
  BY <1>2, <1>3, <1>4

(* A new cache is empty: every inode is the one on the disk.               *)
LEMMA NewCache ==
  ASSUME NEW disk \in [Inumbers -> fs_inode]
  PROVE  LET r == newCache(disk) IN
           /\ CacheOK(r) /\ r.disk = disk /\ r.lru = << >> /\ ToSet(r.lru) = {}
           /\ \A j \in Inumbers : inode_of(r, j) = disk[j]
<1> DEFINE r == newCache(disk)
<1>1. r \in StoreType /\ r.disk = disk /\ r.lru = << >>
  BY EmptyIsInode DEF newCache, StoreType
<1> HIDE DEF r
<1>2. ToSet(r.lru) = {} /\ IsInjective(r.lru)
  BY <1>1 DEF ToSet, IsInjective
<1> QED
  BY <1>1, <1>2, Cached DEF CacheOK, inode_of, r

(* remove_if_present leaves an empty inode, on the disk and in memory.     *)
LEMMA RemoveIfPresent ==
  ASSUME NEW s, CacheOK(s), NEW i \in Inumbers, inode_in_range(i)
  PROVE  LET r == remove_if_present(s, i) IN
           /\ CacheOK(r)
           /\ ToSet(r.lru) = ToSet(s.lru) \ {i}
           /\ r.disk[i] = EmptyInode /\ inode_of(r, i) = EmptyInode
           /\ \A j \in Inumbers \ {i} : /\ r.disk[j] = s.disk[j]
                                        /\ inode_of(r, j) = inode_of(s, j)
<1> DEFINE m == IF InCache(s, i) THEN remove_node(s, i) ELSE s
           r == inode_save(m, i, EmptyInode)
<1>1. s \in StoreType
  BY DEF CacheOK
<1>2. /\ CacheOK(m) /\ ToSet(m.lru) = ToSet(s.lru) \ {i}
      /\ \A j \in Inumbers \ {i} : m.inode[j] = s.inode[j] /\ m.disk[j] = s.disk[j]
  <2>1. CASE InCache(s, i)
    <3>1. i \in ToSet(s.lru)
      BY <1>1, <2>1, Cached
    <3>2. m = remove_node(s, i)
      BY <2>1
    <3> HIDE DEF m
    <3>3. /\ CacheOK(m) /\ ToSet(m.lru) = ToSet(s.lru) \ {i}
          /\ m.disk = [s.disk EXCEPT ![i] = s.inode[i]]
          /\ \A j \in Inumbers \ {i} : m.inode[j] = s.inode[j]
      <4> DEFINE t == remove_node(s, i)
      <4>1. /\ CacheOK(t) /\ ToSet(t.lru) = ToSet(s.lru) \ {i}
            /\ t.disk = [s.disk EXCEPT ![i] = s.inode[i]]
            /\ \A j \in Inumbers \ {i} : t.inode[j] = s.inode[j]
        BY <3>1, RemoveNode
      <4> HIDE DEF t
      <4> QED
        BY <3>2, <4>1 DEF t
    <3> QED
      BY <1>1, <3>3 DEF StoreType
  <2>2. CASE ~InCache(s, i)
    BY <1>1, <2>2, Cached
  <2> QED
    BY <2>1, <2>2
<1> HIDE DEF m
<1>3. m \in StoreType
  BY <1>2 DEF CacheOK
<1>4. /\ r \in StoreType /\ r.disk = [m.disk EXCEPT ![i] = EmptyInode]
      /\ r.lru = m.lru /\ r.inode = m.inode /\ r.is_dirty = m.is_dirty
  BY <1>3, EmptyIsInode, Saved
<1>5. r = remove_if_present(s, i)
  BY DEF remove_if_present, m
<1> HIDE DEF r
<1>6. r.disk[i] = EmptyInode /\ \A j \in Inumbers \ {i} : r.disk[j] = m.disk[j]
  BY <1>3, <1>4 DEF StoreType
<1>7. \A j \in ToSet(m.lru) : j \in Inumbers
  BY <1>3, Members DEF StoreType
<1>8. CacheOK(r)
  BY <1>2, <1>4, <1>6, <1>7 DEF CacheOK
<1>9. /\ ~InCache(r, i)
      /\ \A j \in Inumbers \ {i} : InCache(r, j) <=> InCache(s, j)
  BY <1>1, <1>2, <1>4, Cached
<1> QED
  BY <1>2, <1>4, <1>5, <1>6, <1>8, <1>9 DEF inode_of

(* A changed inode is marked or saved; an unmarked one has not changed.    *)
LEMMA SetDirty ==
  ASSUME NEW s, CacheOK(s), NEW i \in Inumbers, inode_in_range(i),
         NEW mark \in BOOLEAN, NEW n \in fs_inode,
         ~mark => n = inode_of(s, i)
  PROVE  LET r == set_dirty(s, i, mark, n) IN
           /\ CacheOK(r)
           /\ ToSet(r.lru) = ToSet(s.lru)
           /\ inode_of(r, i) = n /\ r.disk[i] \in {s.disk[i], n}
           /\ \A j \in Inumbers \ {i} : /\ r.disk[j] = s.disk[j]
                                        /\ inode_of(r, j) = inode_of(s, j)
<1> DEFINE r == set_dirty(s, i, mark, n)
<1>1. s \in StoreType /\ s.lru \in Seq(Inumbers)
  BY DEF CacheOK, StoreType
<1>2. CASE InCache(s, i)
  <2>1. r = [s EXCEPT !.inode[i] = n, !.is_dirty[i] = mark \/ @]
    BY <1>2 DEF set_dirty
  <2> DEFINE d == mark \/ s.is_dirty[i]
  <2>2. d \in BOOLEAN /\ r = [s EXCEPT !.inode[i] = n, !.is_dirty[i] = d]
    BY <1>1, <2>1 DEF StoreType
  <2> HIDE DEF d, r
  <2>3. /\ r \in StoreType /\ r.disk = s.disk /\ r.lru = s.lru
        /\ r.inode = [s.inode EXCEPT ![i] = n]
        /\ r.is_dirty = [s.is_dirty EXCEPT ![i] = d]
    BY <1>1, <2>2 DEF StoreType
  <2>4. /\ r.inode[i] = n /\ r.is_dirty[i] = d
        /\ \A j \in Inumbers \ {i} : /\ r.inode[j] = s.inode[j]
                                     /\ r.is_dirty[j] = s.is_dirty[j]
    BY <1>1, <2>3 DEF StoreType
  <2>5. i \in ToSet(s.lru) /\ inode_of(s, i) = s.inode[i]
    BY <1>1, <1>2, Cached DEF inode_of
  <2>6. ~d => n = s.disk[i]
    BY <2>5 DEF d, CacheOK
  <2>7. \A j \in ToSet(s.lru) : j \in Inumbers
    BY <1>1, Members
  <2>8. CacheOK(r)
    BY <2>3, <2>4, <2>6, <2>7 DEF CacheOK
  <2>9. \A j \in Inumbers : InCache(r, j) <=> InCache(s, j)
    BY <1>1, <2>3, Cached
  <2> QED
    BY <1>2, <2>3, <2>4, <2>8, <2>9 DEF inode_of, r
<1>3. CASE ~InCache(s, i) /\ mark
  <2>1. r = inode_save(s, i, n)
    BY <1>3 DEF set_dirty
  <2> HIDE DEF r
  <2>2. /\ r \in StoreType /\ r.disk = [s.disk EXCEPT ![i] = n]
        /\ r.lru = s.lru /\ r.inode = s.inode /\ r.is_dirty = s.is_dirty
    BY <1>1, <2>1, Saved
  <2>3. r.disk[i] = n /\ \A j \in Inumbers \ {i} : r.disk[j] = s.disk[j]
    BY <1>1, <2>2 DEF StoreType
  <2>4. i \notin ToSet(s.lru) /\ \A j \in ToSet(s.lru) : j \in Inumbers
    BY <1>1, <1>3, Cached, Members
  <2>5. CacheOK(r)
    BY <2>2, <2>3, <2>4 DEF CacheOK
  <2>6. \A j \in Inumbers : InCache(r, j) <=> InCache(s, j)
    BY <1>1, <2>2, Cached
  <2> QED
    BY <1>3, <2>2, <2>3, <2>5, <2>6 DEF inode_of, r
<1>4. CASE ~InCache(s, i) /\ ~mark
  <2>1. r = s /\ inode_of(s, i) = s.disk[i]
    BY <1>4 DEF set_dirty, inode_of
  <2> QED
    BY <1>4, <2>1
<1> QED
  BY <1>2, <1>3, <1>4

(* A flush saves every inode and changes none.                             *)
LEMMA FlushCache ==
  ASSUME NEW s, CacheOK(s)
  PROVE  LET r == flush_cache(s) IN
           /\ CacheOK(r) /\ r.lru = s.lru
           /\ \A j \in Inumbers : /\ r.disk[j] = inode_of(s, j)
                                  /\ inode_of(r, j) = inode_of(s, j)
<1> DEFINE r == flush_cache(s)
           d == [i \in Inumbers |-> IF i \in Dirty(s) /\ inode_in_range(i)
                                      THEN s.inode[i] ELSE s.disk[i]]
           n == [i \in Inumbers |-> FALSE]
<1>1. s \in StoreType /\ s.lru \in Seq(Inumbers)
  BY DEF CacheOK, StoreType
<1>2. r = [s EXCEPT !.disk = d, !.is_dirty = n]
  BY DEF flush_cache
<1>3. /\ d \in [Inumbers -> fs_inode] /\ n \in [Inumbers -> BOOLEAN]
      /\ \A j \in Inumbers : n[j] = FALSE
  BY <1>1 DEF StoreType
<1>4. ASSUME NEW j \in Inumbers PROVE d[j] = inode_of(s, j)
  <2>1. CASE InCache(s, j)
    <3>1. j \in ToSet(s.lru)
      BY <1>1, <2>1, Cached
    <3>2. inode_in_range(j) /\ (~s.is_dirty[j] => s.inode[j] = s.disk[j])
      BY <3>1 DEF CacheOK
    <3> QED
      BY <2>1, <3>2 DEF Dirty, inode_of
  <2>2. CASE ~InCache(s, j)
    BY <2>2 DEF Dirty, inode_of
  <2> QED
    BY <2>1, <2>2
<1> HIDE DEF d, n, r
<1>5. /\ r \in StoreType /\ r.disk = d /\ r.lru = s.lru
      /\ r.inode = s.inode /\ r.is_dirty = n
  BY <1>1, <1>2, <1>3 DEF StoreType
<1>6. \A j \in Inumbers : InCache(r, j) <=> InCache(s, j)
  BY <1>1, <1>5, Cached
<1>7. ASSUME NEW j \in Inumbers
      PROVE  inode_of(r, j) = inode_of(s, j)
  BY <1>4, <1>5, <1>6 DEF inode_of
<1>8. ASSUME NEW j \in ToSet(r.lru)
      PROVE  inode_in_range(j) /\ r.inode[j] = r.disk[j]
  <2>1. j \in Inumbers /\ j \in ToSet(s.lru)
    BY <1>1, <1>5, Members
  <2>2. r.disk[j] = s.inode[j]
    BY <1>1, <1>4, <1>5, <2>1, Cached DEF inode_of
  <2> QED
    BY <1>5, <2>1, <2>2 DEF CacheOK
<1>9. CacheOK(r)
  BY <1>5, <1>8 DEF CacheOK
<1> QED
  BY <1>4, <1>5, <1>7, <1>9 DEF r
-----------------------------------------------------------------------------
(* Pointers.                                                               *)

BlocksType == [DataBlocks -> [0 .. DISK_BLOCK_SIZE - 1 -> Nat]]
TableType == [Inumbers -> fs_inode]
DataPointers == 0 .. MaxPointers - 1

\* Pointer of the model with the block contents as a parameter.
Ptr(blks, inode, p) ==
  IF p = -1 THEN inode.indirect
  ELSE IF p < POINTERS_PER_INODE THEN inode.direct[p]
  ELSE IF inode.indirect = 0 THEN 0
  ELSE blks[inode.indirect][p - POINTERS_PER_INODE]

\* Pointers lead to data blocks, there is none behind a missing one, the
\* indirect block is there only when it is needed, and an inode that is not
\* valid has none.
Sound(blks, inode) ==
  /\ \A p \in DataPointers : Ptr(blks, inode, p) \in DataBlocks \cup {0}
  /\ \A p, q \in DataPointers :
       q < p /\ Ptr(blks, inode, p) # 0 => Ptr(blks, inode, q) # 0
  /\ inode.indirect # 0 => Ptr(blks, inode, POINTERS_PER_INODE) # 0
  /\ ~inode.isvalid => \A p \in AllPointers : Ptr(blks, inode, p) = 0

\* An older inode of a file: some of the pointers are missing.
Within(old, new) ==
  /\ old.indirect \in {0, new.indirect}
  /\ \A k \in 0 .. POINTERS_PER_INODE - 1 : old.direct[k] \in {0, new.direct[k]}
  /\ old.isvalid => new.isvalid

Once(blks, table) ==
  \A i, j \in Inumbers : \A p, q \in AllPointers :
    Ptr(blks, table[i], p) # 0 /\ Ptr(blks, table[i], p) = Ptr(blks, table[j], q)
      => i = j /\ p = q

Used(blks, table) ==
  {b \in DataBlocks :
     \E i \in Inumbers : \E p \in AllPointers : Ptr(blks, table[i], p) = b}

(* The kinds of pointers, and where they lead.                             *)
LEMMA PointerKinds ==
  ASSUME NEW blks \in BlocksType, NEW n \in fs_inode
  PROVE  /\ Ptr(blks, n, -1) = n.indirect
         /\ n.indirect \in DataBlocks \cup {0}
         /\ \A k \in 0 .. POINTERS_PER_INODE - 1 :
              /\ Ptr(blks, n, k) = n.direct[k]
              /\ n.direct[k] \in DataBlocks \cup {0}
         /\ \A k \in 0 .. POINTERS_PER_BLOCK - 1 :
              Ptr(blks, n, POINTERS_PER_INODE + k) =
                IF n.indirect = 0 THEN 0 ELSE blks[n.indirect][k]
         /\ n.isvalid \in BOOLEAN /\ n.size \in Nat
         /\ n.direct \in [0 .. POINTERS_PER_INODE - 1 -> DataBlocks \cup {0}]
BY Constants DEF Ptr, fs_inode

(* Data pointers are the direct and the indirect ones.                     *)
LEMMA PointerRange ==
  /\ AllPointers = DataPointers \cup {-1}
  /\ \A p \in DataPointers :
       \/ p \in 0 .. POINTERS_PER_INODE - 1
       \/ \E k \in 0 .. POINTERS_PER_BLOCK - 1 : p = POINTERS_PER_INODE + k
  /\ \A k \in 0 .. POINTERS_PER_INODE - 1 : k \in DataPointers
  /\ \A k \in 0 .. POINTERS_PER_BLOCK - 1 : POINTERS_PER_INODE + k \in DataPointers
  /\ POINTERS_PER_INODE \in DataPointers
  /\ DataPointers \subseteq Nat
<1>1. AllPointers = DataPointers \cup {-1}
  BY Constants DEF AllPointers, DataPointers
<1>2. ASSUME NEW p \in DataPointers
      PROVE  \/ p \in 0 .. POINTERS_PER_INODE - 1
             \/ \E k \in 0 .. POINTERS_PER_BLOCK - 1 : p = POINTERS_PER_INODE + k
  <2>1. CASE p < POINTERS_PER_INODE
    BY <2>1, Constants DEF DataPointers
  <2>2. CASE ~(p < POINTERS_PER_INODE)
    <3>1. p - POINTERS_PER_INODE \in 0 .. POINTERS_PER_BLOCK - 1
          /\ p = POINTERS_PER_INODE + (p - POINTERS_PER_INODE)
      BY <2>2, Constants DEF DataPointers
    <3> QED
      BY <3>1
  <2> QED
    BY <2>1, <2>2
<1> QED
  BY <1>1, <1>2, Constants DEF DataPointers

(* An inode whose fields are zero has no pointer.                          *)
LEMMA NoPointers ==
  ASSUME NEW blks \in BlocksType, NEW n \in fs_inode, n.indirect = 0,
         \A k \in 0 .. POINTERS_PER_INODE - 1 : n.direct[k] = 0
  PROVE  \A p \in AllPointers : Ptr(blks, n, p) = 0
BY PointerKinds, PointerRange

(* The pointers of an older inode are pointers of the file or missing.     *)
LEMMA OlderPointers ==
  ASSUME NEW blks \in BlocksType, NEW old \in fs_inode, NEW new \in fs_inode,
         Within(old, new), NEW p \in AllPointers
  PROVE  Ptr(blks, old, p) \in {0, Ptr(blks, new, p)}
<1>1. CASE p = -1
  BY <1>1, PointerKinds DEF Within
<1>2. CASE p \in 0 .. POINTERS_PER_INODE - 1
  BY <1>2, PointerKinds DEF Within
<1>3. ASSUME NEW k \in 0 .. POINTERS_PER_BLOCK - 1, p = POINTERS_PER_INODE + k
      PROVE  Ptr(blks, old, p) \in {0, Ptr(blks, new, p)}
  BY <1>3, PointerKinds DEF Within
<1> QED
  BY <1>1, <1>2, <1>3, PointerRange

(* An older inode of a file is sound under new block contents if the       *)
(* file's inode is.                                                        *)
LEMMA OlderIsSound ==
  ASSUME NEW blks \in BlocksType, NEW blks2 \in BlocksType,
         NEW old \in fs_inode, NEW new \in fs_inode,
         Sound(blks, old), Within(old, new), Sound(blks2, new)
  PROVE  Sound(blks2, old)
<1>1. \A k \in 0 .. POINTERS_PER_INODE - 1 :
        Ptr(blks2, old, k) = Ptr(blks, old, k)
  BY PointerKinds
<1>2. CASE old.indirect = 0
  <2>1. \A p \in AllPointers : Ptr(blks2, old, p) = Ptr(blks, old, p)
    BY <1>1, <1>2, PointerKinds, PointerRange
  <2> QED
    BY <1>2, <2>1, PointerRange DEF Sound
<1>3. CASE old.indirect # 0
  <2>1. old.indirect = new.indirect
    BY <1>3 DEF Within
  <2>2. \A k \in 0 .. POINTERS_PER_BLOCK - 1 :
          Ptr(blks2, old, POINTERS_PER_INODE + k)
            = Ptr(blks2, new, POINTERS_PER_INODE + k)
    BY <2>1, PointerKinds
  <2>3. \A k \in 0 .. POINTERS_PER_INODE - 1 : Ptr(blks2, old, k) # 0
    <3>1. Ptr(blks, old, POINTERS_PER_INODE) # 0
      BY <1>3 DEF Sound
    <3>2. ASSUME NEW k \in 0 .. POINTERS_PER_INODE - 1 PROVE Ptr(blks, old, k) # 0
      <4>1. k < POINTERS_PER_INODE
        BY Constants
      <4> QED
        BY <3>1, <4>1, PointerRange DEF Sound
    <3> QED
      BY <1>1, <3>2
  <2>4. ASSUME NEW p \in DataPointers
        PROVE  Ptr(blks2, old, p) \in DataBlocks \cup {0}
    <3>1. CASE p \in 0 .. POINTERS_PER_INODE - 1
      BY <3>1, PointerKinds
    <3>2. ASSUME NEW k \in 0 .. POINTERS_PER_BLOCK - 1, p = POINTERS_PER_INODE + k
          PROVE  Ptr(blks2, old, p) \in DataBlocks \cup {0}
      BY <2>2, <3>2 DEF Sound
    <3> QED
      BY <3>1, <3>2, PointerRange
  <2>5. ASSUME NEW p \in DataPointers, NEW q \in DataPointers, q < p,
               Ptr(blks2, old, p) # 0
        PROVE  Ptr(blks2, old, q) # 0
    <3>1. CASE q \in 0 .. POINTERS_PER_INODE - 1
      BY <2>3, <3>1
    <3>2. ASSUME NEW l \in 0 .. POINTERS_PER_BLOCK - 1, q = POINTERS_PER_INODE + l
          PROVE  Ptr(blks2, old, q) # 0
      <4>1. p \notin 0 .. POINTERS_PER_INODE - 1
        BY <2>5, <3>2, Constants
      <4>2. PICK k \in 0 .. POINTERS_PER_BLOCK - 1 : p = POINTERS_PER_INODE + k
        BY <4>1, PointerRange
      <4>3. Ptr(blks2, new, p) # 0 /\ Ptr(blks2, old, q) = Ptr(blks2, new, q)
        BY <2>2, <2>5, <3>2, <4>2
      <4> QED
        BY <2>5, <4>3 DEF Sound
    <3> QED
      BY <3>1, <3>2, PointerRange
  <2>6. Ptr(blks2, old, POINTERS_PER_INODE) # 0
    <3>1. 0 \in 0 .. POINTERS_PER_BLOCK - 1 /\ POINTERS_PER_INODE + 0 = POINTERS_PER_INODE
      BY Constants
    <3>2. Ptr(blks2, old, POINTERS_PER_INODE) = Ptr(blks2, new, POINTERS_PER_INODE)
      BY <2>2, <3>1
    <3> QED
      BY <1>3, <2>1, <3>2 DEF Sound
  <2>7. old.isvalid
    <3>1. Ptr(blks, old, -1) # 0
      BY <1>3, PointerKinds
    <3> QED
      BY <3>1, PointerRange DEF Sound
  <2> QED
    BY <2>4, <2>5, <2>6, <2>7 DEF Sound
<1> QED
  BY <1>2, <1>3

(* Blocks owned once by the files are owned once by older inodes of them.  *)
LEMMA OlderOwnsOnce ==
  ASSUME NEW blks \in BlocksType, NEW old \in TableType, NEW new \in TableType,
         \A i \in Inumbers : Within(old[i], new[i]),
         Once(blks, new)
  PROVE  Once(blks, old)
<1>1. \A i \in Inumbers : \A p \in AllPointers :
        Ptr(blks, old[i], p) \in {0, Ptr(blks, new[i], p)}
  BY OlderPointers DEF TableType
<1> QED
  BY <1>1 DEF Once

(* Tables with the same pointers own the same blocks.                      *)
LEMMA SamePointers ==
  ASSUME NEW blks, NEW blks2, NEW table, NEW table2,
         \A j \in Inumbers : \A p \in AllPointers :
           Ptr(blks2, table2[j], p) = Ptr(blks, table[j], p)
  PROVE  /\ Once(blks, table) => Once(blks2, table2)
         /\ Used(blks2, table2) = Used(blks, table)
BY DEF Once, Used

(* An inode with the same pointers is as sound.                            *)
LEMMA SameSound ==
  ASSUME NEW blks, NEW blks2, NEW n, NEW m,
         \A p \in AllPointers : Ptr(blks2, m, p) = Ptr(blks, n, p),
         n.isvalid => m.isvalid,
         Sound(blks, n)
  PROVE  Sound(blks2, m)
<1>1. Ptr(blks2, m, -1) = m.indirect /\ Ptr(blks, n, -1) = n.indirect
  BY DEF Ptr
<1>2. m.indirect = n.indirect
  BY <1>1, PointerRange
<1> QED
  BY <1>2, PointerRange DEF Sound

(* An indirect block is in use, and is no other pointer's block.           *)
LEMMA IndirectInUse ==
  ASSUME NEW blks \in BlocksType, NEW table \in TableType, NEW j \in Inumbers,
         table[j].indirect # 0
  PROVE  table[j].indirect \in Used(blks, table)
<1>1. table[j] \in fs_inode
  BY DEF TableType
<1>2. Ptr(blks, table[j], -1) = table[j].indirect
      /\ table[j].indirect \in DataBlocks
  BY <1>1, PointerKinds
<1> QED
  BY <1>2, PointerRange DEF Used

(* Writing data into a file's block changes no pointer.                    *)
LEMMA DataKeepsPointers ==
  ASSUME NEW blks \in BlocksType, NEW table \in TableType, Once(blks, table),
         NEW i \in Inumbers, NEW p \in DataPointers,
         NEW b \in DataBlocks, b = Ptr(blks, table[i], p),
         NEW w \in [0 .. DISK_BLOCK_SIZE - 1 -> Nat]
  PROVE  /\ [blks EXCEPT ![b] = w] \in BlocksType
         /\ \A j \in Inumbers : \A q \in AllPointers :
              Ptr([blks EXCEPT ![b] = w], table[j], q) = Ptr(blks, table[j], q)
<1> DEFINE blks2 == [blks EXCEPT ![b] = w]
<1>1. blks2 \in BlocksType /\ \A c \in DataBlocks \ {b} : blks2[c] = blks[c]
  BY DEF BlocksType
<1> HIDE DEF blks2
<1>2. ASSUME NEW j \in Inumbers PROVE table[j].indirect # b
  <2>1. table[j] \in fs_inode
    BY DEF TableType
  <2>2. Ptr(blks, table[j], -1) = table[j].indirect
    BY <2>1, PointerKinds
  <2>3. p # -1 /\ p \in AllPointers /\ -1 \in AllPointers /\ b # 0
    BY PointerRange, Constants
  <2> QED
    BY <2>2, <2>3 DEF Once
<1>3. ASSUME NEW j \in Inumbers, NEW q \in AllPointers
      PROVE  Ptr(blks2, table[j], q) = Ptr(blks, table[j], q)
  <2>1. table[j].indirect \in (DataBlocks \cup {0}) \ {b}
    <3>1. table[j] \in fs_inode
      BY DEF TableType
    <3> QED
      BY <1>2, <3>1, PointerKinds
  <2> QED
    BY <1>1, <2>1 DEF Ptr
<1> QED
  BY <1>1, <1>3 DEF blks2

\* A file gets a free block for its first missing pointer, and with it the
\* indirect block if that is missing, first.
Adds(blks, table, blks2, table2, i, pn, new, first) ==
  /\ \A j \in Inumbers : Sound(blks, table[j])
  /\ Once(blks, table)
  /\ Ptr(blks, table[i], pn) = 0
  /\ \A q \in DataPointers : q < pn => Ptr(blks, table[i], q) # 0
  /\ new \in DataBlocks \ Used(blks, table)
  /\ first \in DataBlocks \ Used(blks, table)
  /\ first # new => /\ pn = POINTERS_PER_INODE
                    /\ Ptr(blks, table[i], -1) = 0
  /\ \A j \in Inumbers : \A p \in AllPointers :
       Ptr(blks2, table2[j], p) =
         IF j = i /\ p = pn THEN new
         ELSE IF j = i /\ p = -1 /\ first # new THEN first
         ELSE Ptr(blks, table[j], p)
  /\ table2[i].isvalid
  /\ \A j \in Inumbers : table[j].isvalid => table2[j].isvalid

(* Ownership stays unique when a block is added to a file.                 *)
LEMMA AddedPointer ==
  ASSUME NEW blks, NEW blks2, NEW table, NEW table2,
         NEW i \in Inumbers, NEW pn \in DataPointers,
         NEW new, NEW first,
         Adds(blks, table, blks2, table2, i, pn, new, first)
  PROVE  /\ Once(blks2, table2)
         /\ \A j \in Inumbers : Sound(blks2, table2[j])
         /\ Used(blks2, table2) = Used(blks, table) \cup {new, first}
<1>0. /\ \A j \in Inumbers : Sound(blks, table[j])
      /\ Once(blks, table)
      /\ Ptr(blks, table[i], pn) = 0
      /\ \A q \in DataPointers : q < pn => Ptr(blks, table[i], q) # 0
      /\ new \in DataBlocks \ Used(blks, table)
      /\ first \in DataBlocks \ Used(blks, table)
      /\ first # new => /\ pn = POINTERS_PER_INODE
                        /\ Ptr(blks, table[i], -1) = 0
      /\ \A j \in Inumbers : \A p \in AllPointers :
           Ptr(blks2, table2[j], p) =
             IF j = i /\ p = pn THEN new
             ELSE IF j = i /\ p = -1 /\ first # new THEN first
             ELSE Ptr(blks, table[j], p)
      /\ table2[i].isvalid
      /\ \A j \in Inumbers : table[j].isvalid => table2[j].isvalid
  BY DEF Adds
<1> USE <1>0
<1>1. new # 0 /\ first # 0 /\ pn # -1 /\ pn \in AllPointers /\ -1 \in AllPointers
  BY Constants, PointerRange
<1>2. \A j \in Inumbers : \A p \in AllPointers :
        Ptr(blks, table[j], p) # new /\ Ptr(blks, table[j], p) # first
  BY DEF Used
<1>3. Once(blks2, table2)
  <2>1. ASSUME NEW j \in Inumbers, NEW k \in Inumbers,
               NEW p \in AllPointers, NEW q \in AllPointers,
               Ptr(blks2, table2[j], p) # 0,
               Ptr(blks2, table2[j], p) = Ptr(blks2, table2[k], q)
        PROVE  j = k /\ p = q
    <3>1. CASE j = i /\ p = pn
      BY <1>1, <1>2, <2>1, <3>1
    <3>2. CASE j = i /\ p = -1 /\ first # new
      BY <1>1, <1>2, <2>1, <3>2
    <3>3. CASE ~(j = i /\ p = pn) /\ ~(j = i /\ p = -1 /\ first # new)
      <4>1. Ptr(blks2, table2[j], p) = Ptr(blks, table[j], p)
        BY <3>3
      <4>2. Ptr(blks2, table2[k], q) = Ptr(blks, table[k], q)
        BY <1>2, <2>1, <4>1
      <4>3. /\ Ptr(blks, table[j], p) # 0
            /\ Ptr(blks, table[j], p) = Ptr(blks, table[k], q)
        BY <2>1, <4>1, <4>2
      <4> QED
        BY <4>3 DEF Once
    <3> QED
      BY <3>1, <3>2, <3>3
  <2> QED
    BY <2>1 DEF Once
<1>4. ASSUME NEW j \in Inumbers PROVE Sound(blks2, table2[j])
  <2>1. CASE j # i
    <3>1. \A p \in AllPointers : Ptr(blks2, table2[j], p) = Ptr(blks, table[j], p)
      BY <2>1
    <3> QED
      BY <3>1, SameSound
  <2>2. CASE j = i
    <3>1. ASSUME NEW p \in DataPointers
          PROVE  Ptr(blks2, table2[j], p) =
                   IF p = pn THEN new ELSE Ptr(blks, table[j], p)
      <4>1. p \in AllPointers /\ p # -1
        BY PointerRange
      <4> QED
        BY <2>2, <4>1
    <3>2. ASSUME NEW p \in DataPointers
          PROVE  Ptr(blks2, table2[j], p) \in DataBlocks \cup {0}
      BY <3>1 DEF Sound
    <3>3. ASSUME NEW p \in DataPointers, NEW q \in DataPointers, q < p,
                 Ptr(blks2, table2[j], p) # 0
          PROVE  Ptr(blks2, table2[j], q) # 0
      <4>1. CASE p = pn
        BY <1>1, <2>2, <3>1, <3>3, <4>1
      <4>2. CASE p # pn
        <5>1. Ptr(blks, table[j], q) # 0
          BY <3>1, <3>3, <4>2 DEF Sound
        <5> QED
          BY <1>1, <3>1, <5>1
      <4> QED
        BY <4>1, <4>2
    <3>4. table2[j].indirect # 0 => Ptr(blks2, table2[j], POINTERS_PER_INODE) # 0
      <4>1. POINTERS_PER_INODE \in DataPointers
        BY PointerRange
      <4>2. Ptr(blks2, table2[j], -1) = table2[j].indirect
            /\ Ptr(blks, table[j], -1) = table[j].indirect
        BY DEF Ptr
      <4>3. first = new => table2[j].indirect = table[j].indirect
        BY <1>1, <2>2, <4>2
      <4> QED
        BY <1>1, <3>1, <4>1, <4>3 DEF Sound
    <3> QED
      BY <2>2, <3>2, <3>3, <3>4 DEF Sound
  <2> QED
    BY <2>1, <2>2
<1>5. Used(blks2, table2) = Used(blks, table) \cup {new, first}
  <2>1. ASSUME NEW b \in Used(blks2, table2)
        PROVE  b \in Used(blks, table) \cup {new, first}
    BY <2>1 DEF Used
  <2>2. ASSUME NEW b \in Used(blks, table) PROVE b \in Used(blks2, table2)
    <3>1. PICK j \in Inumbers, p \in AllPointers : Ptr(blks, table[j], p) = b
      BY DEF Used
    <3>2. b \in DataBlocks /\ b # 0
      BY Constants DEF Used
    <3>3. ~(j = i /\ p = pn) /\ ~(j = i /\ p = -1 /\ first # new)
      BY <3>1, <3>2
    <3>4. Ptr(blks2, table2[j], p) = b
      BY <3>1, <3>3
    <3> QED
      BY <3>2, <3>4 DEF Used
  <2>3. new \in Used(blks2, table2)
    BY <1>1 DEF Used
  <2>4. first # new => first \in Used(blks2, table2)
    BY <1>1 DEF Used
  <2> QED
    BY <2>1, <2>2, <2>3, <2>4
<1> QED
  BY <1>3, <1>4, <1>5
-----------------------------------------------------------------------------
(* The invariant.                                                          *)

Disk == store.disk

\* The tables: what can be loaded, what is mounted, what is in the cache.
TableInv ==
  /\ CacheOK(store)
  /\ \A i \in Inumbers : Disk[i].isvalid => inode_in_range(i)
  /\ ~is_mounted => store.lru = << >> /\ pc \notin {"copyin", "write"}
  /\ is_mounted =>
       /\ ToSet(store.lru) \subseteq inode_freemap
       /\ \A i \in inode_freemap : inode_in_range(i)
       /\ \A i \in Inumbers : i \in inode_freemap <=> Live[i].isvalid

\* The blocks: the disk has older inodes of the files.
BlockInv ==
  /\ \A i \in Inumbers : /\ Sound(blocks, Disk[i])
                         /\ Sound(blocks, Live[i])
                         /\ Within(Disk[i], Live[i])
  /\ Once(blocks, Live)
  /\ is_mounted => block_freemap = 0 .. NUM_INODE_BLOCKS \cup Used(blocks, Live)

\* A copyin writes the blocks of a file from the first on; the inode it works
\* on is the one it was given until it must be written.
CopyInv ==
  /\ pc = "write" =>
       /\ job.inumber \in inode_freemap
       /\ ~job.write_inode => job.inode = inode_of(store, job.inumber)
  /\ pc \in {"copyin", "write"} =>
       \A p \in DataPointers :
         p * DISK_BLOCK_SIZE < job.offset
           => Ptr(blocks, Live[job.inumber], p) # 0

FSInv == TypeOK /\ TableInv /\ BlockInv /\ CopyInv

-----------------------------------------------------------------------------
(* What the definitions of the model come to under the invariant.          *)

JobType == [inumber : Inumbers, word : 0 .. MaxCopies, left : Nat,
            length : Nat, offset : Nat, inode : fs_inode, write_inode : BOOLEAN]

\* Live with the state it depends on as parameters.
LiveOf(s, at, j) ==
  [i \in Inumbers |->
     IF at = "write" /\ i = j.inumber
       THEN [j.inode EXCEPT !.size = IF j.offset > j.inode.size THEN j.offset
                                     ELSE j.inode.size]
       ELSE inode_of(s, i)]

\* Two inodes that differ at most in their size.
Same(a, b) ==
  a.direct = b.direct /\ a.indirect = b.indirect /\ a.isvalid = b.isvalid

(* The variables' types in terms of the names used here.                   *)
LEMMA Types ==
  /\ TypeOK => /\ store \in StoreType /\ blocks \in BlocksType /\ job \in JobType
               /\ Disk \in TableType
  /\ Live = LiveOf(store, pc, job)
  /\ TypeOK' => /\ store' \in StoreType /\ blocks' \in BlocksType
                /\ job' \in JobType /\ Disk' \in TableType
  /\ Live' = LiveOf(store', pc', job')
BY DEF TypeOK, StoreType, BlocksType, JobType, Disk, TableType, Live, LiveOf,
       grown_size

(* The inodes of the running process are inodes.                           *)
LEMMA LiveInodes ==
  ASSUME NEW s \in StoreType, NEW at, NEW j \in JobType
  PROVE  /\ LiveOf(s, at, j) \in TableType
         /\ \A i \in Inumbers : inode_of(s, i) \in fs_inode
         /\ \A i \in Inumbers : at # "write" \/ i # j.inumber =>
              LiveOf(s, at, j)[i] = inode_of(s, i)
         /\ at = "write" => Same(LiveOf(s, at, j)[j.inumber], j.inode)
<1>1. \A i \in Inumbers : inode_of(s, i) \in fs_inode
  BY DEF inode_of, StoreType
<1> DEFINE sz == IF j.offset > j.inode.size THEN j.offset ELSE j.inode.size
<1>2. j.inode \in fs_inode /\ sz \in Nat /\ j.inumber \in Inumbers
  BY DEF JobType, fs_inode
<1>3. [j.inode EXCEPT !.size = sz] \in fs_inode
      /\ Same([j.inode EXCEPT !.size = sz], j.inode)
  <2> HIDE DEF sz
  <2> QED
    BY <1>2 DEF fs_inode, Same
<1> HIDE DEF sz
<1>4. LiveOf(s, at, j) = [i \in Inumbers |->
                            IF at = "write" /\ i = j.inumber
                              THEN [j.inode EXCEPT !.size = sz] ELSE inode_of(s, i)]
  BY DEF LiveOf, sz
<1> QED
  BY <1>1, <1>2, <1>3, <1>4 DEF TableType

(* The inode of the file being written, with the size it has grown to.     *)
LEMMA LiveSize ==
  ASSUME NEW s \in StoreType, NEW j \in JobType
  PROVE  /\ LiveOf(s, "write", j)[j.inumber].size =
              IF j.offset > j.inode.size THEN j.offset ELSE j.inode.size
         /\ ~(j.offset > j.inode.size) => LiveOf(s, "write", j)[j.inumber] = j.inode
<1> DEFINE sz == IF j.offset > j.inode.size THEN j.offset ELSE j.inode.size
<1>1. j.inode \in fs_inode /\ j.inumber \in Inumbers
  BY DEF JobType
<1>2. LiveOf(s, "write", j)[j.inumber] = [j.inode EXCEPT !.size = sz]
  BY <1>1 DEF LiveOf
<1>3. ~(j.offset > j.inode.size) => sz = j.inode.size
  OBVIOUS
<1> HIDE DEF sz
<1>4. /\ [j.inode EXCEPT !.size = sz].size = sz
      /\ sz = j.inode.size => [j.inode EXCEPT !.size = sz] = j.inode
  BY <1>1 DEF fs_inode
<1>5. LiveOf(s, "write", j)[j.inumber].size = sz
  BY <1>2, <1>4
<1> QED
  BY <1>2, <1>3, <1>4, <1>5 DEF sz

(* The size of an inode plays no part in what it owns.                     *)
LEMMA SameInode ==
  ASSUME NEW blks, NEW a, NEW b, Same(a, b)
  PROVE  /\ \A p : Ptr(blks, a, p) = Ptr(blks, b, p)
         /\ Sound(blks, a) <=> Sound(blks, b)
         /\ \A n : Within(n, a) <=> Within(n, b)
         /\ \A n : Within(a, n) <=> Within(b, n)
         /\ Within(a, b)
<1>1. a.direct = b.direct /\ a.indirect = b.indirect /\ a.isvalid = b.isvalid
  BY DEF Same
<1>2. \A p : Ptr(blks, a, p) = Ptr(blks, b, p)
  BY <1>1 DEF Ptr
<1> QED
  BY <1>1, <1>2 DEF Sound, Within

(* Pointer and get_block_number_for_offset are Ptr.                        *)
LEMMA PointerIsPtr ==
  /\ \A n : \A p \in AllPointers : Pointer(n, p) = Ptr(blocks, n, p)
  /\ \A n : \A o \in Nat :
       /\ o \div DISK_BLOCK_SIZE \in Nat
       /\ get_block_number_for_offset(n, o) = Ptr(blocks, n, o \div DISK_BLOCK_SIZE)
<1>1. ASSUME NEW o \in Nat
      PROVE  o \div DISK_BLOCK_SIZE \in Nat /\ o \div DISK_BLOCK_SIZE # -1
  BY Constants
<1>2. ASSUME NEW n, NEW o \in Nat
      PROVE  get_block_number_for_offset(n, o) = Ptr(blocks, n, o \div DISK_BLOCK_SIZE)
  BY <1>1 DEF get_block_number_for_offset, Ptr
<1>3. ASSUME NEW n, NEW p \in AllPointers PROVE Pointer(n, p) = Ptr(blocks, n, p)
  <2>1. CASE p = -1
    BY <2>1 DEF Pointer, Ptr
  <2>2. CASE p # -1
    <3>1. p \in Nat /\ p * DISK_BLOCK_SIZE \in Nat
          /\ (p * DISK_BLOCK_SIZE) \div DISK_BLOCK_SIZE = p
      BY <2>2, PointerRange, Constants
    <3> QED
      BY <1>2, <2>2, <3>1 DEF Pointer
  <2> QED
    BY <2>1, <2>2
<1> QED
  BY <1>1, <1>2, <1>3

(* Owned and OwnedOnce are Used and Once.                                  *)
LEMMA OwnedIsUsed ==
  ASSUME blocks \in BlocksType, NEW table \in TableType,
         \A i \in Inumbers : Sound(blocks, table[i])
  PROVE  /\ OwnedOnce(table) <=> Once(blocks, table)
         /\ Owned(table) = Used(blocks, table)
<1>1. ASSUME NEW o PROVE o \in Owners(table) <=>
             /\ o \in Inumbers \X AllPointers
             /\ Ptr(blocks, table[o[1]], o[2]) # 0
  <2>1. o \in Inumbers \X AllPointers => o[2] \in AllPointers
    OBVIOUS
  <2> QED
    BY <2>1, PointerIsPtr DEF Owners
<1>2. \A o \in Inumbers \X AllPointers :
        Pointer(table[o[1]], o[2]) = Ptr(blocks, table[o[1]], o[2])
  BY PointerIsPtr
<1>3. \A i \in Inumbers : \A p \in AllPointers :
        /\ <<i, p>> \in Inumbers \X AllPointers
        /\ <<i, p>>[1] = i /\ <<i, p>>[2] = p
  OBVIOUS
<1>4. OwnedOnce(table) => Once(blocks, table)
  <2>1. SUFFICES ASSUME OwnedOnce(table),
                        NEW i \in Inumbers, NEW j \in Inumbers,
                        NEW p \in AllPointers, NEW q \in AllPointers,
                        Ptr(blocks, table[i], p) # 0,
                        Ptr(blocks, table[i], p) = Ptr(blocks, table[j], q)
                 PROVE  i = j /\ p = q
    BY DEF Once
  <2>2. <<i, p>> \in Owners(table) /\ <<j, q>> \in Owners(table)
    BY <1>1, <1>3, <2>1
  <2>3. Pointer(table[i], p) = Pointer(table[j], q)
    BY <2>1, PointerIsPtr
  <2>4. <<i, p>> = <<j, q>>
    BY <1>3, <2>1, <2>2, <2>3 DEF OwnedOnce
  <2> QED
    BY <2>4
<1>5. Once(blocks, table) => OwnedOnce(table)
  <2>1. SUFFICES ASSUME Once(blocks, table),
                        NEW o1 \in Owners(table), NEW o2 \in Owners(table),
                        Pointer(table[o1[1]], o1[2]) = Pointer(table[o2[1]], o2[2])
                 PROVE  o1 = o2
    BY DEF OwnedOnce
  <2>2. /\ o1 \in Inumbers \X AllPointers /\ o2 \in Inumbers \X AllPointers
        /\ Ptr(blocks, table[o1[1]], o1[2]) # 0
    BY <1>1
  <2>3. Ptr(blocks, table[o1[1]], o1[2]) = Ptr(blocks, table[o2[1]], o2[2])
    BY <1>2, <2>1, <2>2
  <2>4. o1[1] = o2[1] /\ o1[2] = o2[2]
    BY <2>1, <2>2, <2>3 DEF Once
  <2> QED
    BY <2>2, <2>4
<1>6. Owned(table) = Used(blocks, table)
  <2>1. ASSUME NEW b \in Owned(table) PROVE b \in Used(blocks, table)
    <3>1. PICK o \in Owners(table) : b = Pointer(table[o[1]], o[2])
      BY DEF Owned
    <3>2. o \in Inumbers \X AllPointers /\ b # 0 /\ b = Ptr(blocks, table[o[1]], o[2])
      BY <1>1, <1>2, <3>1
    <3>3. PICK i \in Inumbers, p \in AllPointers : b = Ptr(blocks, table[i], p)
      BY <3>2
    <3>4. table[i] \in fs_inode
      BY DEF TableType
    <3>5. Ptr(blocks, table[i], p) \in DataBlocks \cup {0}
      BY <3>4, PointerKinds, PointerRange DEF Sound
    <3> QED
      BY <3>2, <3>3, <3>5 DEF Used
  <2>2. ASSUME NEW b \in Used(blocks, table) PROVE b \in Owned(table)
    <3>1. PICK i \in Inumbers, p \in AllPointers : b = Ptr(blocks, table[i], p)
      BY DEF Used
    <3>2. b # 0
      BY Constants DEF Used
    <3>3. <<i, p>> \in Owners(table) /\ b = Pointer(table[<<i, p>>[1]], <<i, p>>[2])
      BY <1>1, <1>2, <1>3, <3>1, <3>2
    <3> QED
      BY <3>3 DEF Owned
  <2> QED
    BY <2>1, <2>2
<1> QED
  BY <1>4, <1>5, <1>6

(* mount and delete, which stop at the first zero, see every pointer.      *)
LEMMA InodeBlocks ==
  ASSUME blocks \in BlocksType, NEW n \in fs_inode, Sound(blocks, n), NEW b
  PROVE  b \in inode_blocks(n) <=>
           b # 0 /\ \E p \in AllPointers : b = Ptr(blocks, n, p)
<1>1. ASSUME NEW k \in 0 .. POINTERS_PER_INODE - 1, n.direct[k] # 0,
             NEW j \in 0 .. k
      PROVE  n.direct[j] # 0
  <2>1. CASE j = k
    BY <1>1, <2>1
  <2>2. CASE j # k
    <3>1. j \in 0 .. POINTERS_PER_INODE - 1 /\ j < k
      BY <2>2, Constants
    <3> QED
      BY <1>1, <3>1, PointerKinds, PointerRange DEF Sound
  <2> QED
    BY <2>1, <2>2
<1>2. ASSUME n.indirect # 0, NEW k \in 0 .. POINTERS_PER_BLOCK - 1,
             blocks[n.indirect][k] # 0, NEW j \in 0 .. k
      PROVE  blocks[n.indirect][j] # 0
  <2>1. CASE j = k
    BY <1>2, <2>1
  <2>2. CASE j # k
    <3>1. j \in 0 .. POINTERS_PER_BLOCK - 1
          /\ POINTERS_PER_INODE + j < POINTERS_PER_INODE + k
      BY <2>2, Constants
    <3> QED
      BY <1>2, <3>1, PointerKinds, PointerRange DEF Sound
  <2> QED
    BY <2>1, <2>2
<1>3. b \in UntilZero(n.direct, POINTERS_PER_INODE) <=>
        b # 0 /\ \E k \in 0 .. POINTERS_PER_INODE - 1 : b = n.direct[k]
  <2>1. \A k \in 0 .. POINTERS_PER_INODE - 1 : k \in 0 .. k
    BY Constants
  <2> QED
    BY <1>1, <2>1 DEF UntilZero
<1>4. CASE n.indirect = 0
  <2>1. inode_blocks(n) = UntilZero(n.direct, POINTERS_PER_INODE)
    BY <1>4 DEF inode_blocks
  <2>2. ASSUME NEW p \in AllPointers, b # 0, b = Ptr(blocks, n, p)
        PROVE  \E k \in 0 .. POINTERS_PER_INODE - 1 : b = n.direct[k]
    BY <1>4, <2>2, PointerKinds, PointerRange
  <2>3. \A k \in 0 .. POINTERS_PER_INODE - 1 :
          k \in AllPointers /\ n.direct[k] = Ptr(blocks, n, k)
    BY PointerKinds, PointerRange
  <2> QED
    BY <1>3, <2>1, <2>2, <2>3
<1>5. CASE n.indirect # 0
  <2> DEFINE f == blocks[n.indirect]
  <2>1. b \in UntilZero(f, POINTERS_PER_BLOCK) <=>
          b # 0 /\ \E k \in 0 .. POINTERS_PER_BLOCK - 1 : b = f[k]
    <3>1. \A k \in 0 .. POINTERS_PER_BLOCK - 1 : k \in 0 .. k
      BY Constants
    <3> QED
      BY <1>2, <1>5, <3>1 DEF UntilZero
  <2>2. inode_blocks(n) = UntilZero(n.direct, POINTERS_PER_INODE)
                            \cup {n.indirect} \cup UntilZero(f, POINTERS_PER_BLOCK)
    BY <1>5 DEF inode_blocks
  <2> HIDE DEF f
  <2>3. \A k \in 0 .. POINTERS_PER_INODE - 1 :
          k \in AllPointers /\ n.direct[k] = Ptr(blocks, n, k)
    BY PointerKinds, PointerRange
  <2>4. \A k \in 0 .. POINTERS_PER_BLOCK - 1 :
          POINTERS_PER_INODE + k \in AllPointers
          /\ f[k] = Ptr(blocks, n, POINTERS_PER_INODE + k)
    BY <1>5, PointerKinds, PointerRange DEF f
  <2>5. -1 \in AllPointers /\ n.indirect = Ptr(blocks, n, -1)
    BY PointerKinds, PointerRange
  <2>6. ASSUME NEW p \in AllPointers, b = Ptr(blocks, n, p)
        PROVE  \/ \E k \in 0 .. POINTERS_PER_INODE - 1 : b = n.direct[k]
               \/ b = n.indirect
               \/ \E k \in 0 .. POINTERS_PER_BLOCK - 1 : b = f[k]
    BY <2>3, <2>4, <2>5, <2>6, PointerRange
  <2> QED
    BY <1>3, <1>5, <2>1, <2>2, <2>3, <2>4, <2>5, <2>6
<1> QED
  BY <1>4, <1>5

(* fs_mount's scan of the disk finds the blocks its inodes own.            *)
LEMMA ScanFindsAll ==
  ASSUME blocks \in BlocksType, NEW disk \in TableType,
         \A i \in Inumbers : Sound(blocks, disk[i])
  PROVE  used_blocks(disk) = 0 .. NUM_INODE_BLOCKS \cup Used(blocks, disk)
<1>1. \A i \in Inumbers : disk[i] \in fs_inode
  BY DEF TableType
<1>2. ASSUME NEW b, NEW i \in valid_inodes(disk), b \in inode_blocks(disk[i])
      PROVE  b \in Used(blocks, disk)
  <2>1. i \in Inumbers
    BY DEF valid_inodes
  <2>2. PICK p \in AllPointers : b # 0 /\ b = Ptr(blocks, disk[i], p)
    BY <1>1, <1>2, <2>1, InodeBlocks
  <2>3. Ptr(blocks, disk[i], p) \in DataBlocks \cup {0}
    <3>1. disk[i] \in fs_inode /\ Sound(blocks, disk[i])
      BY <1>1, <2>1
    <3>2. CASE p = -1
      BY <3>1, <3>2, PointerKinds DEF fs_inode, Sound
    <3>3. CASE p # -1
      BY <3>1, <3>3, PointerKinds, PointerRange DEF Sound
    <3> QED
      BY <3>2, <3>3
  <2> QED
    BY <2>1, <2>2, <2>3 DEF Used
<1>3. ASSUME NEW b \in Used(blocks, disk)
      PROVE  \E i \in valid_inodes(disk) : b \in inode_blocks(disk[i])
  <2>1. PICK i \in Inumbers, p \in AllPointers : b = Ptr(blocks, disk[i], p)
    BY DEF Used
  <2>2. b # 0
    BY Constants DEF Used
  <2>3. i \in valid_inodes(disk)
    BY <2>1, <2>2 DEF valid_inodes, Sound
  <2>4. b \in inode_blocks(disk[i])
    BY <1>1, <2>1, <2>2, InodeBlocks
  <2> QED
    BY <2>3, <2>4
<1> QED
  BY <1>2, <1>3 DEF used_blocks
-----------------------------------------------------------------------------
(* Steps that change no pointer.                                           *)

(* What belongs to a file can be loaded.                                   *)
LEMMA LiveInRange ==
  ASSUME FSInv
  PROVE  \A i \in Inumbers : Live[i].isvalid => inode_in_range(i)
<1>1. TypeOK /\ TableInv
  BY DEF FSInv
<1>2. CASE is_mounted
  BY <1>1, <1>2 DEF TableInv
<1>3. CASE ~is_mounted
  <2>1. pc # "write" /\ store.lru = << >> /\ store \in StoreType /\ job \in JobType
    BY <1>1, <1>3, Types DEF TableInv
  <2>2. \A i \in Inumbers : Live[i] = inode_of(store, i)
    BY <2>1, Types, LiveInodes
  <2>3. ToSet(store.lru) = {}
    BY <2>1 DEF ToSet
  <2>4. \A i \in Inumbers : Live[i] = Disk[i]
    BY <2>1, <2>2, <2>3, Cached DEF inode_of, Disk
  <2> QED
    BY <1>1, <2>4 DEF TableInv
<1> QED
  BY <1>2, <1>3

\* A step that changes no file: the disk's table may catch up with the one in
\* memory, and a copyin starts or stays where it is.
Kept ==
  /\ blocks' = blocks
  /\ \A i \in Inumbers : Live'[i] = Live[i] /\ Disk'[i] \in {Disk[i], Live[i]}
  /\ pc' \in {"copyin", "write"} =>
       \/ job'.offset = 0 /\ job'.word > 0
       \/ /\ pc \in {"copyin", "write"} /\ job'.inumber = job.inumber
          /\ job'.offset = job.offset /\ job'.word = job.word

(* A step that leaves the disk, the tables and the copyin alone.           *)
LEMMA Frame ==
  ASSUME FSInv, TypeOK',
         UNCHANGED <<store, blocks, block_freemap, inode_freemap, cache, pc, job>>
  PROVE  FSInv' /\ Kept
<1>1. FSInv'
  BY DEF FSInv, TableInv, BlockInv, CopyInv, Disk, Live, grown_size, is_mounted
<1>2. Live' = Live /\ Disk' = Disk
  BY DEF Live, Disk, grown_size
<1> QED
  BY <1>1, <1>2 DEF Kept

(* A step that writes some inodes back and changes at most their size.     *)
LEMMA QuietStep ==
  ASSUME FSInv, TypeOK', CacheOK(store'), blocks' = blocks,
         \A i \in Inumbers : Same(Live'[i], Live[i]),
         \A i \in Inumbers : Same(Disk'[i], Disk[i]) \/ Same(Disk'[i], Live[i]),
         cache' = "live" => /\ cache = "live"
                            /\ block_freemap' = block_freemap
                            /\ inode_freemap' = inode_freemap
                            /\ ToSet(store'.lru) \subseteq inode_freemap,
         cache' # "live" => store'.lru = << >> /\ pc' \notin {"copyin", "write"}
  PROVE  TableInv' /\ BlockInv'
<1>1. TypeOK /\ TableInv /\ BlockInv
  BY DEF FSInv
<1>2. ASSUME NEW i \in Inumbers
      PROVE  /\ Sound(blocks, Disk'[i]) /\ Sound(blocks, Live'[i])
             /\ Within(Disk'[i], Live'[i])
             /\ Disk'[i].isvalid => inode_in_range(i)
             /\ Live'[i].isvalid <=> Live[i].isvalid
  <2>1. /\ Sound(blocks, Disk[i]) /\ Sound(blocks, Live[i])
        /\ Within(Disk[i], Live[i])
    BY <1>1 DEF BlockInv
  <2>2. Same(Live'[i], Live[i])
    OBVIOUS
  <2>3. Sound(blocks, Live'[i]) /\ Within(Disk[i], Live'[i]) /\ Within(Live[i], Live'[i])
    <3>1. Same(Live[i], Live'[i])
      BY <2>2 DEF Same
    <3> QED
      BY <2>1, <3>1, SameInode
  <2>4. /\ Disk[i].isvalid => inode_in_range(i)
        /\ Live[i].isvalid => inode_in_range(i)
    BY <1>1, LiveInRange DEF TableInv
  <2>5. CASE Same(Disk'[i], Disk[i])
    <3>1. Sound(blocks, Disk'[i]) /\ Within(Disk'[i], Live'[i])
      BY <2>1, <2>3, <2>5, SameInode
    <3> QED
      BY <2>2, <2>3, <2>4, <2>5, <3>1 DEF Same
  <2>6. CASE Same(Disk'[i], Live[i])
    <3>1. Sound(blocks, Disk'[i]) /\ Within(Disk'[i], Live'[i])
      BY <2>1, <2>3, <2>6, SameInode
    <3> QED
      BY <2>2, <2>3, <2>4, <2>6, <3>1 DEF Same
  <2> QED
    BY <2>5, <2>6
<1>3. \A i \in Inumbers : \A p \in AllPointers :
        Ptr(blocks', Live'[i], p) = Ptr(blocks, Live[i], p)
  <2>1. ASSUME NEW i \in Inumbers, NEW p \in AllPointers
        PROVE  Ptr(blocks, Live'[i], p) = Ptr(blocks, Live[i], p)
    <3>1. Same(Live'[i], Live[i])
      OBVIOUS
    <3> QED
      BY <3>1 DEF Same, Ptr
  <2> QED
    BY <2>1
<1>4. Once(blocks', Live') /\ Used(blocks', Live') = Used(blocks, Live)
  BY <1>1, <1>3, SamePointers DEF BlockInv
<1>5. BlockInv'
  BY <1>1, <1>2, <1>4 DEF BlockInv, is_mounted
<1>6. TableInv'
  BY <1>1, <1>2 DEF TableInv, is_mounted
<1> QED
  BY <1>5, <1>6

(* A new disk.                                                             *)
LEMMA FSInit == Init => FSInv
<1> SUFFICES ASSUME Init PROVE FSInv
  OBVIOUS
<1> DEFINE none == [i \in Inumbers |-> EmptyInode]
<1>1. none \in [Inumbers -> fs_inode] /\ \A i \in Inumbers : none[i] = EmptyInode
  BY EmptyIsInode
<1>2. store = newCache(none)
  BY DEF Init
<1> HIDE DEF none
<1>3. /\ CacheOK(store) /\ store.lru = << >> /\ ToSet(store.lru) = {}
      /\ \A i \in Inumbers : Disk[i] = EmptyInode /\ inode_of(store, i) = EmptyInode
  BY <1>1, <1>2, NewCache DEF Disk
<1>4. store \in StoreType
  BY <1>3 DEF CacheOK
<1>5. NoJob \in JobType
  BY Constants, EmptyIsInode, FileSystemAssumption DEF NoJob, JobType
<1>6. blocks \in BlocksType
  BY DEF Init, ZeroBlock, BlocksType
<1>7. TypeOK
  <2>1. /\ capacity \in Capacities /\ formatted = FALSE /\ block_freemap = {}
        /\ inode_freemap = {} /\ cache = "null" /\ pc = "shell" /\ job = NoJob
        /\ proc = "running" /\ mounts = 0 /\ copies = 0
    BY DEF Init
  <2>2. copies \in 0 .. MaxCopies
    BY <2>1, FileSystemAssumption
  <2> QED
    BY <1>4, <1>5, <1>6, <2>1, <2>2 DEF TypeOK, StoreType, JobType, BlocksType, Faults
<1>8. \A i \in Inumbers : Live[i] = EmptyInode
  BY <1>3, <1>4, <1>5, Types, LiveInodes DEF Init
<1>9. \A p \in AllPointers : Ptr(blocks, EmptyInode, p) = 0
  BY <1>6, EmptyIsInode, PointerKinds, PointerRange
<1>10. Sound(blocks, EmptyInode) /\ Within(EmptyInode, EmptyInode)
  BY <1>9, EmptyIsInode, PointerRange DEF Sound, Within
<1>11. Once(blocks, Live)
  BY <1>8, <1>9 DEF Once
<1>12. BlockInv
  BY <1>3, <1>8, <1>10, <1>11 DEF BlockInv, Init, is_mounted
<1>13. TableInv
  BY <1>3, EmptyIsInode DEF TableInv, Init, is_mounted
<1>14. CopyInv
  BY DEF CopyInv, Init
<1> QED
  BY <1>7, <1>12, <1>13, <1>14 DEF FSInv

(* A command that changes no file.                                         *)
LEMMA PromptStep ==
  ASSUME FSInv, TypeOK', CacheOK(store'), blocks' = blocks,
         pc # "write", pc' # "write", pc' = "copyin" => job'.offset = 0 /\ job'.word > 0,
         \A i \in Inumbers :
           /\ inode_of(store', i) = inode_of(store, i)
           /\ store'.disk[i] \in {store.disk[i], inode_of(store, i)},
         cache' = "live" => /\ cache = "live"
                            /\ block_freemap' = block_freemap
                            /\ inode_freemap' = inode_freemap
                            /\ ToSet(store'.lru) \subseteq inode_freemap,
         cache' # "live" => store'.lru = << >> /\ pc' # "copyin"
  PROVE  FSInv' /\ Kept
<1>1. TypeOK
  BY DEF FSInv
<1>2. ASSUME NEW i \in Inumbers
      PROVE  Live[i] = inode_of(store, i) /\ Live'[i] = inode_of(store', i)
  BY <1>1, Types, LiveInodes
<1>3. \A i \in Inumbers : Same(Live'[i], Live[i])
  BY <1>2 DEF Same
<1>4. \A i \in Inumbers : Same(Disk'[i], Disk[i]) \/ Same(Disk'[i], Live[i])
  BY <1>2 DEF Same, Disk
<1>5. TableInv' /\ BlockInv'
  BY <1>3, <1>4, QuietStep
<1>6. CopyInv'
  <2>1. \A p \in DataPointers : ~(p * DISK_BLOCK_SIZE < 0)
    BY Constants, PointerRange
  <2> QED
    BY <2>1 DEF CopyInv
<1>7. Kept
  <2>1. pc' \in {"copyin", "write"} => job'.offset = 0 /\ job'.word > 0
    OBVIOUS
  <2>2. \A i \in Inumbers : Live'[i] = Live[i] /\ Disk'[i] \in {Disk[i], Live[i]}
    BY <1>2 DEF Disk
  <2> QED
    BY <2>1, <2>2 DEF Kept
<1> QED
  BY <1>5, <1>6, <1>7 DEF FSInv

(* What AtPrompt and the invariant give every command.                     *)
LEMMA PromptState ==
  ASSUME FSInv
  PROVE  /\ TypeOK /\ CacheOK(store) /\ store \in StoreType /\ job \in JobType
         /\ blocks \in BlocksType /\ Disk \in TableType /\ Live \in TableType
         /\ AtPrompt => pc = "shell" /\ proc = "running"
         /\ is_mounted => ToSet(store.lru) \subseteq inode_freemap
         /\ ~is_mounted => store.lru = << >> /\ cache # "live"
BY Types, LiveInodes DEF FSInv, TableInv, AtPrompt, is_mounted

(* fs_debug flushes the cache.                                             *)
LEMMA DebugStep == ASSUME FSInv, fs_debug PROVE FSInv' /\ Kept
<1>1. pc = "shell" /\ TypeOK /\ CacheOK(store)
  BY PromptState DEF fs_debug
<1>2. CASE cache = "freed"
  <2>1. /\ proc' = "freed_cache"
        /\ UNCHANGED <<capacity, store, formatted, blocks, memory, pc, job, history>>
    BY <1>2 DEF fs_debug, Die
  <2>2. TypeOK'
    BY <1>1, <2>1 DEF TypeOK, memory, history, Faults
  <2> QED
    BY <2>1, <2>2, Frame DEF memory
<1>3. CASE cache # "freed"
  <2>1. /\ store' = IF cache = "live" THEN flush_cache(store) ELSE store
        /\ UNCHANGED <<capacity, formatted, blocks, memory, pc, job, proc, history>>
    BY <1>3 DEF fs_debug
  <2>2. /\ CacheOK(store') /\ store'.lru = store.lru
        /\ \A i \in Inumbers :
             /\ inode_of(store', i) = inode_of(store, i)
             /\ store'.disk[i] \in {store.disk[i], inode_of(store, i)}
    BY <1>1, <2>1, FlushCache
  <2>3. store' \in StoreType
    BY <2>2 DEF CacheOK
  <2>4. TypeOK'
    BY <1>1, <2>1, <2>3 DEF TypeOK, StoreType, memory, history
  <2> QED
    BY <1>1, <2>1, <2>2, <2>4, PromptStep, PromptState DEF memory, is_mounted
<1> QED
  BY <1>2, <1>3

(* Unmounting writes back what the cache holds; quit does so before the    *)
(* disk is closed.                                                         *)
LEMMA UnmountStep == ASSUME FSInv, fs_unmount \/ quit PROVE FSInv' /\ Kept
<1>1. /\ pc = "shell" /\ TypeOK /\ CacheOK(store) /\ unmounted
      /\ pc' \in {"shell", "closing"}
      /\ UNCHANGED <<capacity, formatted, blocks, job, proc, history>>
  BY PromptState DEF fs_unmount, quit
<1>2. /\ CacheOK(store') /\ store'.lru = << >> /\ cache' \in {"null", "freed"}
      /\ block_freemap' \subseteq block_freemap /\ inode_freemap' \subseteq inode_freemap
      /\ \A i \in Inumbers :
           /\ inode_of(store', i) = inode_of(store, i)
           /\ store'.disk[i] \in {store.disk[i], inode_of(store, i)}
  <2>1. CASE is_mounted
    <3>1. store' = newCache(flush_cache(store).disk) /\ cache' = "freed"
          /\ block_freemap' = {} /\ inode_freemap' = {}
      BY <1>1, <2>1 DEF unmounted, destroy
    <3> DEFINE f == flush_cache(store)
    <3>2. CacheOK(f) /\ \A i \in Inumbers : f.disk[i] = inode_of(store, i)
      BY <1>1, FlushCache
    <3> HIDE DEF f
    <3>3. f.disk \in [Inumbers -> fs_inode] /\ store' = newCache(f.disk)
      BY <3>1, <3>2 DEF CacheOK, StoreType, f
    <3>4. /\ CacheOK(store') /\ store'.disk = f.disk /\ store'.lru = << >>
          /\ \A i \in Inumbers : inode_of(store', i) = f.disk[i]
      BY <3>3, NewCache
    <3> QED
      BY <3>1, <3>2, <3>4
  <2>2. CASE ~is_mounted
    <3>1. UNCHANGED <<store, memory>>
      BY <1>1, <2>2 DEF unmounted
    <3>2. cache \in {"null", "freed"}
      BY <1>1, <2>2 DEF TypeOK, is_mounted
    <3> QED
      BY <1>1, <2>2, <3>1, <3>2, PromptState DEF memory
  <2> QED
    BY <2>1, <2>2
<1>3. store' \in StoreType
  BY <1>2 DEF CacheOK
<1>4. TypeOK'
  BY <1>1, <1>2, <1>3 DEF TypeOK, StoreType, history
<1> QED
  BY <1>1, <1>2, <1>4, PromptStep

(* Looking at an inode moves it in the cache and may evict another.        *)
LEMMA LookStep ==
  ASSUME FSInv, AtPrompt, is_mounted, NEW i \in Inumbers,
         inode_in_range(i) => i \in inode_freemap, LookAt(i)
  PROVE  FSInv' /\ Kept
<1>1. pc = "shell" /\ TypeOK /\ CacheOK(store) /\ cache = "live"
  BY PromptState DEF is_mounted
<1>2. CASE get_inode_frees(store, i)
  <2>1. /\ proc' = "freed_inode"
        /\ UNCHANGED <<capacity, store, formatted, blocks, memory, pc, job, history>>
    BY <1>2 DEF LookAt, Die
  <2>2. TypeOK'
    BY <1>1, <2>1 DEF TypeOK, memory, history, Faults
  <2> QED
    BY <2>1, <2>2, Frame DEF memory
<1>3. CASE ~get_inode_frees(store, i)
  <2>1. PICK garbage \in BOOLEAN : store' = get_inode(store, i, garbage)
    BY <1>3 DEF LookAt
  <2>2. UNCHANGED <<capacity, formatted, blocks, memory, pc, job, proc, history>>
    BY <1>3 DEF LookAt
  <2>3. /\ CacheOK(store')
        /\ \A j \in Inumbers :
             /\ inode_of(store', j) = inode_of(store, j)
             /\ store'.disk[j] \in {store.disk[j], inode_of(store, j)}
        /\ ToSet(store'.lru) \subseteq
             ToSet(store.lru) \cup (IF inode_in_range(i) THEN {i} ELSE {})
    BY <1>1, <2>1, GetInode
  <2>4. ToSet(store'.lru) \subseteq inode_freemap
    BY <2>3, PromptState
  <2>5. store' \in StoreType
    BY <2>3 DEF CacheOK
  <2>6. TypeOK'
    BY <1>1, <2>2, <2>5 DEF TypeOK, StoreType, memory, history
  <2> QED
    BY <1>1, <2>2, <2>3, <2>4, <2>6, PromptStep DEF memory
<1> QED
  BY <1>2, <1>3

(* do_copyin opens the source file.                                        *)
LEMMA CopyinStep ==
  ASSUME FSInv, NEW i \in Inumbers, NEW n \in Lengths, do_copyin(i, n)
  PROVE  FSInv' /\ Kept
<1>1. pc = "shell" /\ TypeOK /\ CacheOK(store) /\ cache = "live"
  BY PromptState DEF do_copyin, is_mounted
<1>2. /\ pc' = "copyin" /\ copies' \in 0 .. MaxCopies /\ copies' > 0
      /\ job' = [NoJob EXCEPT !.inumber = i, !.word = copies', !.left = n]
      /\ UNCHANGED <<capacity, store, formatted, blocks, memory, proc, mounts>>
  <2>1. copies \in Nat /\ copies < MaxCopies /\ copies' = copies + 1
    BY <1>1, FileSystemAssumption DEF do_copyin, TypeOK
  <2> QED
    BY <2>1, FileSystemAssumption DEF do_copyin
<1>3. job' \in JobType /\ job'.offset = 0 /\ job'.word = copies'
  BY <1>2, EmptyIsInode, FileSystemAssumption DEF NoJob, JobType
<1>4. TypeOK'
  BY <1>1, <1>2, <1>3 DEF TypeOK, JobType, memory
<1> QED
  BY <1>1, <1>2, <1>3, <1>4, PromptStep, PromptState DEF memory, is_mounted

(* main starts a process with an empty cache.                              *)
LEMMA MainStep ==
  ASSUME FSInv, NEW c \in Capacities, main(c)
  PROVE  FSInv' /\ Kept
<1>1. TypeOK'
  BY DEF FSInv, TypeOK, main, memory, history
<1> QED
  BY <1>1, Frame DEF main, memory
-----------------------------------------------------------------------------
(* Steps that leave in memory what is on the disk.                         *)

\* The files are what the disk has of them.
Restarted ==
  /\ blocks' = blocks /\ pc' = "shell"
  /\ \A i \in Inumbers : Disk'[i] = Disk[i] /\ Live'[i] = Disk[i]

(* An empty cache before a sound disk.                                     *)
LEMMA EmptyCache ==
  ASSUME TypeOK', CacheOK(store'), store'.lru = << >>,
         pc' \notin {"copyin", "write"},
         \A i \in Inumbers : /\ Sound(blocks', Disk'[i])
                             /\ Disk'[i].isvalid => inode_in_range(i),
         Once(blocks', Disk'),
         cache' = "live" =>
           /\ inode_freemap' = valid_inodes(Disk')
           /\ block_freemap' = 0 .. NUM_INODE_BLOCKS \cup Used(blocks', Disk')
  PROVE  FSInv' /\ \A i \in Inumbers : Live'[i] = Disk'[i]
<1>1. ToSet(store'.lru) = {}
  BY DEF ToSet
<1>2. ASSUME NEW i \in Inumbers PROVE Live'[i] = Disk'[i]
  <2>1. Live'[i] = inode_of(store', i)
    BY Types, LiveInodes
  <2>2. ~InCache(store', i)
    BY <1>1, Types, Cached
  <2> QED
    BY <2>1, <2>2 DEF inode_of, Disk
<1>3. \A i \in Inumbers : Within(Disk'[i], Live'[i])
  BY <1>2 DEF Within
<1>4. Once(blocks', Live') /\ Used(blocks', Live') = Used(blocks', Disk')
  BY <1>2, SamePointers
<1>5. BlockInv'
  BY <1>2, <1>3, <1>4 DEF BlockInv, is_mounted
<1>6. TableInv'
  BY <1>1, <1>2 DEF TableInv, is_mounted, valid_inodes
<1>7. CopyInv'
  BY DEF CopyInv
<1> QED
  BY <1>2, <1>5, <1>6, <1>7 DEF FSInv

(* The disk's inodes own their blocks once at every moment.                *)
LEMMA DiskOwnsOnce ==
  ASSUME FSInv
  PROVE  /\ Once(blocks, Disk)
         /\ \A i \in Inumbers : /\ Sound(blocks, Disk[i])
                                /\ Disk[i].isvalid => inode_in_range(i)
<1>1. BlockInv /\ TableInv
  BY DEF FSInv
<1>2. /\ \A i \in Inumbers : Within(Disk[i], Live[i])
      /\ Once(blocks, Live)
  BY <1>1 DEF BlockInv
<1>3. blocks \in BlocksType /\ Disk \in TableType /\ Live \in TableType
  BY PromptState
<1>4. Once(blocks, Disk)
  BY <1>2, <1>3, OlderOwnsOnce
<1> QED
  BY <1>1, <1>4 DEF BlockInv, TableInv

(* The end of the process, in the middle of a copyin too.                  *)
LEMMA EndStep == ASSUME FSInv, EndOfProcess PROVE FSInv' /\ Restarted
<1>1. TypeOK /\ store \in StoreType /\ Disk \in TableType
  BY PromptState
<1>2. /\ proc' = "ended" /\ store' = newCache(Disk)
      /\ block_freemap' = {} /\ inode_freemap' = {} /\ cache' = "null"
      /\ pc' = "shell" /\ job' = NoJob
      /\ UNCHANGED <<capacity, formatted, blocks, history>>
  BY DEF EndOfProcess, ToPrompt, Disk
<1>3. CacheOK(store') /\ store'.disk = Disk /\ store'.lru = << >>
  BY <1>1, <1>2, NewCache DEF TableType
<1>4. store' \in StoreType
  BY <1>3 DEF CacheOK
<1>5. NoJob \in JobType
  BY Constants, EmptyIsInode, FileSystemAssumption DEF NoJob, JobType
<1>6. TypeOK'
  BY <1>1, <1>2, <1>4, <1>5 DEF TypeOK, StoreType, JobType, history
<1>7. Disk' = Disk
  BY <1>3 DEF Disk
<1>8. /\ Once(blocks', Disk')
      /\ \A i \in Inumbers : /\ Sound(blocks', Disk'[i])
                             /\ Disk'[i].isvalid => inode_in_range(i)
  BY <1>2, <1>7, DiskOwnsOnce
<1> QED
  BY <1>2, <1>3, <1>6, <1>7, <1>8, EmptyCache DEF Restarted

(* Mounting builds the free maps from the disk.                            *)
LEMMA MountStep == ASSUME FSInv, fs_mount PROVE FSInv' /\ Restarted
<1>1. TypeOK /\ pc = "shell" /\ Disk \in TableType /\ blocks \in BlocksType
  BY PromptState DEF fs_mount
<1>2. /\ store' = newCache(Disk) /\ cache' = "live"
      /\ block_freemap' = used_blocks(Disk) /\ inode_freemap' = valid_inodes(Disk)
      /\ mounts' = 1 - mounts
      /\ UNCHANGED <<capacity, formatted, blocks, pc, job, proc, copies>>
  BY DEF fs_mount, Disk
<1>3. CacheOK(store') /\ store'.disk = Disk /\ store'.lru = << >>
  BY <1>1, <1>2, NewCache DEF TableType
<1>4. store' \in StoreType /\ Disk' = Disk
  BY <1>3 DEF CacheOK, Disk
<1>5. /\ Once(blocks, Disk)
      /\ \A i \in Inumbers : /\ Sound(blocks, Disk[i])
                             /\ Disk[i].isvalid => inode_in_range(i)
  BY DiskOwnsOnce
<1>6. used_blocks(Disk) = 0 .. NUM_INODE_BLOCKS \cup Used(blocks, Disk)
  BY <1>1, <1>5, ScanFindsAll
<1>7. block_freemap' \subseteq 0 .. nblocks - 1 /\ inode_freemap' \subseteq Inumbers
      /\ mounts' \in {0, 1}
  <2>1. 0 .. NUM_INODE_BLOCKS \subseteq 0 .. nblocks - 1
    BY DiskAssumption DEF NUM_INODE_BLOCKS
  <2>2. DataBlocks \subseteq 0 .. nblocks - 1
    BY Constants DEF DataBlocks
  <2>3. block_freemap' \subseteq 0 .. nblocks - 1
    BY <1>2, <1>6, <2>1, <2>2 DEF Used
  <2> QED
    BY <1>1, <1>2, <2>3 DEF valid_inodes, TypeOK
<1>8. TypeOK'
  BY <1>1, <1>2, <1>4, <1>7 DEF TypeOK, StoreType
<1> QED
  BY <1>1, <1>2, <1>3, <1>4, <1>5, <1>6, <1>8, EmptyCache DEF Restarted

(* Formatting empties the inode table; the blocks keep their contents.     *)
LEMMA FormatStep ==
  ASSUME FSInv, fs_format
  PROVE  FSInv' /\ \A i \in Inumbers : Live'[i] = EmptyInode /\ Disk'[i] = EmptyInode
<1>1. /\ TypeOK /\ pc = "shell" /\ store \in StoreType /\ blocks \in BlocksType
      /\ store.lru = << >> /\ cache # "live"
  BY PromptState DEF fs_format
<1> DEFINE none == [i \in Inumbers |-> EmptyInode]
<1>2. none \in [Inumbers -> fs_inode] /\ \A i \in Inumbers : none[i] = EmptyInode
  BY EmptyIsInode
<1>3. /\ formatted' = TRUE /\ store' = [store EXCEPT !.disk = none]
      /\ UNCHANGED <<capacity, blocks, memory, pc, job, proc, history>>
  BY DEF fs_format
<1> HIDE DEF none
<1>4. store' \in StoreType /\ store'.disk = none /\ store'.lru = << >>
  BY <1>1, <1>2, <1>3 DEF StoreType
<1>5. CacheOK(store')
  BY <1>4 DEF CacheOK, ToSet, IsInjective
<1>6. TypeOK'
  BY <1>1, <1>3, <1>4 DEF TypeOK, StoreType, memory, history
<1>7. \A p \in AllPointers : Ptr(blocks, EmptyInode, p) = 0
  BY <1>1, EmptyIsInode, PointerKinds, PointerRange
<1>8. Sound(blocks, EmptyInode) /\ ~EmptyInode.isvalid
  BY <1>7, EmptyIsInode, PointerRange DEF Sound
<1>9. \A i \in Inumbers : Disk'[i] = EmptyInode
  BY <1>2, <1>4 DEF Disk
<1>10. Once(blocks', Disk')
  BY <1>3, <1>7, <1>9 DEF Once
<1> QED
  BY <1>1, <1>3, <1>4, <1>5, <1>6, <1>8, <1>9, <1>10, EmptyCache DEF memory
-----------------------------------------------------------------------------
(* Create and delete.                                                      *)

NewInode == [EmptyInode EXCEPT !.isvalid = TRUE]

\* The file i is new and empty, or is no more.
Made(i) ==
  /\ blocks' = blocks /\ ~Live[i].isvalid /\ Live'[i] = NewInode
  /\ Disk'[i] = NewInode
  /\ \A j \in Inumbers \ {i} : Live'[j] = Live[j] /\ Disk'[j] = Disk[j]
Gone(i) ==
  /\ blocks' = blocks /\ Live[i].isvalid /\ Live'[i] = EmptyInode
  /\ Disk'[i] = EmptyInode
  /\ \A j \in Inumbers \ {i} : Live'[j] = Live[j] /\ Disk'[j] \in {Disk[j], Live[j]}

(* The lowest free inode is the inode of no file and is not in the cache.  *)
LEMMA CreateStep == ASSUME FSInv, fs_create PROVE FSInv' /\ \E i \in Inumbers : Made(i)
<1>1. /\ TypeOK /\ pc = "shell" /\ store \in StoreType /\ blocks \in BlocksType
      /\ job \in JobType /\ CacheOK(store) /\ cache = "live" /\ TableInv /\ BlockInv
      /\ Live \in TableType /\ Disk \in TableType
  BY PromptState DEF fs_create, is_mounted, FSInv
<1> DEFINE i == CHOOSE i \in Free : \A j \in Free : i <= j
           n == [EmptyInode EXCEPT !.isvalid = TRUE]
<1>2. i \in Inumbers /\ i \notin inode_freemap
  <2>1. Free \in SUBSET Nat /\ Free # {}
    BY Constants DEF Free, fs_create
  <2>2. \E k \in Free : \A j \in Free : k <= j
    BY <2>1, LeastNumber
  <2>3. i \in Free
    BY <2>2
  <2> HIDE DEF i
  <2> QED
    BY <2>3 DEF Free
<1>3. /\ inode_in_range(i) /\ store' = inode_save(store, i, n)
      /\ inode_freemap' = inode_freemap \cup {i}
      /\ UNCHANGED <<capacity, formatted, blocks, block_freemap, cache, pc, job,
                     proc, history>>
  BY DEF fs_create
<1>4. /\ n \in fs_inode /\ n.isvalid /\ n.indirect = 0
      /\ \A k \in 0 .. POINTERS_PER_INODE - 1 : n.direct[k] = 0
  BY EmptyIsInode DEF EmptyInode, fs_inode
<1> HIDE DEF i, n
<1>5. /\ store' \in StoreType /\ store'.disk = [store.disk EXCEPT ![i] = n]
      /\ store'.lru = store.lru /\ store'.inode = store.inode
      /\ store'.is_dirty = store.is_dirty
  BY <1>1, <1>2, <1>3, <1>4, Saved
<1>6. i \notin ToSet(store.lru)
  BY <1>1, <1>2 DEF TableInv, is_mounted
<1>7. /\ store'.disk[i] = n
      /\ \A j \in Inumbers \ {i} : store'.disk[j] = store.disk[j]
  BY <1>1, <1>2, <1>5 DEF StoreType
<1>8. CacheOK(store')
  <2>1. ASSUME NEW j \in ToSet(store'.lru)
        PROVE  inode_in_range(j)
               /\ (~store'.is_dirty[j] => store'.inode[j] = store'.disk[j])
    <3>1. j \in Inumbers \ {i}
      BY <1>1, <1>5, <1>6, <2>1, Members DEF TableInv, is_mounted, TypeOK
    <3> QED
      BY <1>1, <1>5, <1>7, <3>1 DEF CacheOK
  <2> QED
    BY <1>1, <1>5, <2>1 DEF CacheOK
<1>9. /\ inode_of(store', i) = n
      /\ \A j \in Inumbers \ {i} : inode_of(store', j) = inode_of(store, j)
  BY <1>1, <1>5, <1>6, <1>7, Cached DEF inode_of
<1>10. TypeOK'
  BY <1>1, <1>2, <1>3, <1>5 DEF TypeOK, StoreType, history
<1>11. \A j \in Inumbers : Live[j] = inode_of(store, j) /\ Live'[j] = inode_of(store', j)
  BY <1>1, <1>3, <1>10, Types, LiveInodes
<1>12. ~Live[i].isvalid /\ Live'[i] = n /\ Disk'[i] = n
       /\ \A j \in Inumbers \ {i} : Live'[j] = Live[j] /\ Disk'[j] = Disk[j]
  BY <1>1, <1>2, <1>7, <1>9, <1>11 DEF TableInv, is_mounted, Disk
<1>13. \A p \in AllPointers : Ptr(blocks, n, p) = 0
  BY <1>1, <1>4, NoPointers
<1>14. \A p \in AllPointers : Ptr(blocks, Live[i], p) = 0
  BY <1>1, <1>2, <1>12 DEF BlockInv, Sound
<1>15. \A j \in Inumbers : \A p \in AllPointers :
         Ptr(blocks', Live'[j], p) = Ptr(blocks, Live[j], p)
  BY <1>3, <1>12, <1>13, <1>14
<1>16. Once(blocks', Live') /\ Used(blocks', Live') = Used(blocks, Live)
  BY <1>1, <1>15, SamePointers DEF BlockInv
<1>17. Sound(blocks, n) /\ Within(n, n)
  BY <1>4, <1>13, PointerRange DEF Sound, Within
<1>18. BlockInv'
  BY <1>1, <1>3, <1>12, <1>16, <1>17 DEF BlockInv, is_mounted
<1>19. TableInv'
  BY <1>1, <1>2, <1>3, <1>4, <1>5, <1>8, <1>12 DEF TableInv, is_mounted
<1>20. CopyInv'
  BY <1>1, <1>3 DEF CopyInv
<1>21. Made(i)
  BY <1>3, <1>12 DEF Made, NewInode, n
<1> QED
  BY <1>2, <1>10, <1>18, <1>19, <1>20, <1>21 DEF FSInv

(* A deleted file's blocks are free again, and no other block is.          *)
LEMMA DeletedBlocks ==
  ASSUME NEW blks \in BlocksType, NEW table \in TableType, NEW table2 \in TableType,
         Once(blks, table), NEW i \in Inumbers,
         \A j \in Inumbers \ {i} : table2[j] = table[j],
         \A p \in AllPointers : Ptr(blks, table2[i], p) = 0
  PROVE  /\ Once(blks, table2)
         /\ \A b : b \in Used(blks, table2) <=>
                     /\ b \in Used(blks, table)
                     /\ ~\E p \in AllPointers : b = Ptr(blks, table[i], p)
<1>1. ASSUME NEW j \in Inumbers, NEW p \in AllPointers, Ptr(blks, table2[j], p) # 0
      PROVE  j # i /\ Ptr(blks, table2[j], p) = Ptr(blks, table[j], p)
  BY <1>1
<1>2. Once(blks, table2)
  BY <1>1 DEF Once
<1>3. ASSUME NEW b \in Used(blks, table2)
      PROVE  b \in Used(blks, table) /\ ~\E p \in AllPointers : b = Ptr(blks, table[i], p)
  <2>1. PICK j \in Inumbers, p \in AllPointers : Ptr(blks, table2[j], p) = b
    BY DEF Used
  <2>2. b # 0 /\ b \in DataBlocks
    BY Constants DEF Used
  <2>3. j # i /\ Ptr(blks, table[j], p) = b
    BY <1>1, <2>1, <2>2
  <2> QED
    BY <2>2, <2>3 DEF Used, Once
<1>4. ASSUME NEW b \in Used(blks, table),
             ~\E p \in AllPointers : b = Ptr(blks, table[i], p)
      PROVE  b \in Used(blks, table2)
  <2>1. PICK j \in Inumbers, p \in AllPointers : Ptr(blks, table[j], p) = b
    BY DEF Used
  <2>2. j # i
    BY <1>4, <2>1
  <2> QED
    BY <2>1, <2>2 DEF Used
<1> QED
  BY <1>2, <1>3, <1>4

(* Deleting a file empties its inode, in the cache or not.                 *)
LEMMA DeleteStep ==
  ASSUME FSInv, StrayNames = FALSE, NEW i \in Inumbers, fs_delete(i)
  PROVE  FSInv' /\ (Kept \/ Gone(i))
<1>1. /\ TypeOK /\ pc = "shell" /\ store \in StoreType /\ blocks \in BlocksType
      /\ job \in JobType /\ CacheOK(store) /\ cache = "live" /\ TableInv /\ BlockInv
      /\ Live \in TableType /\ Disk \in TableType
      /\ AtPrompt /\ is_mounted
  BY PromptState DEF fs_delete, is_mounted, FSInv
<1>2. inode_in_range(i) => i \in inode_freemap
  BY DEF fs_delete, Named
<1>3. CASE get_inode_frees(store, i)
  <2>1. LookAt(i)
    BY <1>3 DEF fs_delete, LookAt
  <2> QED
    BY <1>1, <1>2, <2>1, LookStep
<1>4. CASE ~get_inode_frees(store, i)
  <2> DEFINE inode == inode_of(store, i)
  <2>1. PICK garbage \in BOOLEAN :
          IF get_inode_fails(store, i) \/ ~inode.isvalid
            THEN /\ store' = get_inode(store, i, garbage)
                 /\ UNCHANGED <<block_freemap, inode_freemap>>
            ELSE /\ store' = remove_if_present(get_inode(store, i, garbage), i)
                 /\ block_freemap' = block_freemap \ inode_blocks(inode)
                 /\ inode_freemap' = inode_freemap \ {i}
    BY <1>4 DEF fs_delete
  <2>2. UNCHANGED <<capacity, formatted, blocks, cache, pc, job, proc, history>>
    BY <1>4 DEF fs_delete
  <2>3. CASE get_inode_fails(store, i) \/ ~inode.isvalid
    <3>1. LookAt(i)
      BY <1>4, <2>1, <2>2, <2>3 DEF LookAt, memory
    <3> QED
      BY <1>1, <1>2, <3>1, LookStep
  <2>4. CASE ~get_inode_fails(store, i) /\ inode.isvalid
    <3> DEFINE s == get_inode(store, i, garbage)
    <3>1. /\ store' = remove_if_present(s, i)
          /\ block_freemap' = block_freemap \ inode_blocks(inode)
          /\ inode_freemap' = inode_freemap \ {i}
      BY <2>1, <2>4
    <3>2. /\ CacheOK(s)
          /\ \A j \in Inumbers : inode_of(s, j) = inode_of(store, j)
          /\ \A j \in Inumbers : s.disk[j] \in {store.disk[j], inode_of(store, j)}
          /\ ToSet(s.lru) \subseteq ToSet(store.lru) \cup {i}
      <4>1. inode_in_range(i) => ToSet(store.lru) \cup (IF inode_in_range(i) THEN {i} ELSE {})
                                   \subseteq ToSet(store.lru) \cup {i}
        OBVIOUS
      <4> QED
        BY <1>1, GetInode
    <3> HIDE DEF s
    <3>3. \A j \in Inumbers : Live[j] = inode_of(store, j)
      BY <1>1, Types, LiveInodes
    <3>4. inode_in_range(i) /\ i \in inode_freemap
      <4>1. Live[i].isvalid
        BY <2>4, <3>3
      <4> QED
        BY <1>1, <4>1 DEF TableInv
    <3>5. /\ CacheOK(store') /\ ToSet(store'.lru) = ToSet(s.lru) \ {i}
          /\ store'.disk[i] = EmptyInode /\ inode_of(store', i) = EmptyInode
          /\ \A j \in Inumbers \ {i} : /\ store'.disk[j] = s.disk[j]
                                       /\ inode_of(store', j) = inode_of(s, j)
      BY <3>1, <3>2, <3>4, RemoveIfPresent
    <3>6. store' \in StoreType
      BY <3>5 DEF CacheOK
    <3>7. TypeOK'
      BY <1>1, <2>2, <3>1, <3>6 DEF TypeOK, StoreType, history
    <3>8. \A j \in Inumbers : Live'[j] = inode_of(store', j)
      BY <1>1, <2>2, <3>7, Types, LiveInodes
    <3>9. /\ Live'[i] = EmptyInode /\ Disk'[i] = EmptyInode
          /\ \A j \in Inumbers \ {i} : /\ Live'[j] = Live[j]
                                       /\ Disk'[j] \in {Disk[j], Live[j]}
      BY <3>2, <3>3, <3>5, <3>8 DEF Disk
    <3>10. \A p \in AllPointers : Ptr(blocks, EmptyInode, p) = 0
      BY <1>1, EmptyIsInode, NoPointers
    <3>11. Sound(blocks, EmptyInode) /\ Within(EmptyInode, EmptyInode)
      BY <3>10, EmptyIsInode, PointerRange DEF Sound, Within
    <3>12. Live' \in TableType
      BY <3>7, Types, LiveInodes
    <3>13. /\ Once(blocks, Live')
           /\ \A b : b \in Used(blocks, Live') <=>
                       /\ b \in Used(blocks, Live)
                       /\ ~\E p \in AllPointers : b = Ptr(blocks, Live[i], p)
      <4>1. Once(blocks, Live) /\ \A p \in AllPointers : Ptr(blocks, Live'[i], p) = 0
        BY <1>1, <3>9, <3>10 DEF BlockInv
      <4> QED
        BY <1>1, <3>9, <3>12, <4>1, DeletedBlocks
    <3>14. block_freemap' = 0 .. NUM_INODE_BLOCKS \cup Used(blocks, Live')
      <4>1. inode \in fs_inode /\ inode = Live[i] /\ Sound(blocks, inode)
        BY <1>1, <3>3 DEF TableType, BlockInv
      <4> HIDE DEF inode
      <4>2. \A b : b \in inode_blocks(inode) <=>
                     b # 0 /\ \E p \in AllPointers : b = Ptr(blocks, Live[i], p)
        BY <1>1, <4>1, InodeBlocks
      <4>3. block_freemap = 0 .. NUM_INODE_BLOCKS \cup Used(blocks, Live)
        BY <1>1 DEF BlockInv
      <4>4. \A p \in AllPointers : Ptr(blocks, Live[i], p) \in DataBlocks \cup {0}
        <5>1. ASSUME NEW p \in AllPointers
              PROVE  Ptr(blocks, inode, p) \in DataBlocks \cup {0}
          <6>1. CASE p = -1
            BY <1>1, <4>1, <6>1, PointerKinds
          <6>2. CASE p # -1
            BY <4>1, <6>2, PointerRange DEF Sound
          <6> QED
            BY <6>1, <6>2
        <5> QED
          BY <4>1, <5>1
      <4>5. ASSUME NEW b PROVE b \in block_freemap' <=>
                                 b \in 0 .. NUM_INODE_BLOCKS \cup Used(blocks, Live')
        <5>1. b \in block_freemap' <=> b \in block_freemap /\ b \notin inode_blocks(inode)
          BY <3>1
        <5>2. CASE b \in 0 .. NUM_INODE_BLOCKS
          <6>1. b \notin DataBlocks
            BY <5>2, Constants
          <6>2. b \notin inode_blocks(inode)
            BY <4>2, <4>4, <6>1
          <6> QED
            BY <4>3, <5>1, <5>2, <6>2
        <5>3. CASE b \notin 0 .. NUM_INODE_BLOCKS
          <6>1. b \in Used(blocks, Live) => b # 0
            BY Constants DEF Used
          <6> QED
            BY <3>13, <4>2, <4>3, <5>1, <5>3, <6>1
        <5> QED
          BY <5>2, <5>3
      <4> QED
        BY <4>5
    <3>15. ASSUME NEW j \in Inumbers
           PROVE  /\ Sound(blocks, Disk'[j]) /\ Sound(blocks, Live'[j])
                  /\ Within(Disk'[j], Live'[j])
                  /\ Disk'[j].isvalid => inode_in_range(j)
      <4>1. CASE j = i
        BY <3>9, <3>11, <4>1, EmptyIsInode
      <4>2. CASE j # i
        <5>1. Live'[j] = Live[j] /\ Disk'[j] \in {Disk[j], Live[j]}
          BY <3>9, <4>2
        <5>2. /\ Sound(blocks, Disk[j]) /\ Sound(blocks, Live[j])
              /\ Within(Disk[j], Live[j]) /\ Within(Live[j], Live[j])
          BY <1>1 DEF BlockInv, Within
        <5>3. /\ Disk[j].isvalid => inode_in_range(j)
              /\ Live[j].isvalid => inode_in_range(j)
          BY <1>1, LiveInRange DEF TableInv
        <5> QED
          BY <5>1, <5>2, <5>3
      <4> QED
        BY <4>1, <4>2
    <3>16. BlockInv'
      BY <2>2, <3>13, <3>14, <3>15 DEF BlockInv
    <3>17. TableInv'
      <4>1. ToSet(store'.lru) \subseteq inode_freemap'
        BY <1>1, <3>1, <3>2, <3>5 DEF TableInv
      <4>2. \A j \in Inumbers : j \in inode_freemap' <=> Live'[j].isvalid
        BY <1>1, <3>1, <3>9, EmptyIsInode DEF TableInv
      <4> QED
        BY <1>1, <2>2, <3>1, <3>5, <3>15, <4>1, <4>2 DEF TableInv, is_mounted
    <3>18. CopyInv'
      BY <1>1, <2>2 DEF CopyInv
    <3>19. Gone(i)
      BY <2>2, <2>4, <3>3, <3>9 DEF Gone
    <3> QED
      BY <3>7, <3>16, <3>17, <3>18, <3>19 DEF FSInv
  <2> QED
    BY <2>3, <2>4
<1> QED
  BY <1>3, <1>4
-----------------------------------------------------------------------------
(* Copyin.                                                                 *)

(* What is known while a copyin runs.                                      *)
LEMMA CopyState ==
  ASSUME FSInv, pc \in {"copyin", "write"}
  PROVE  /\ TypeOK /\ store \in StoreType /\ blocks \in BlocksType /\ job \in JobType
         /\ CacheOK(store) /\ cache = "live" /\ is_mounted
         /\ TableInv /\ BlockInv /\ CopyInv
         /\ Live \in TableType /\ Disk \in TableType
         /\ job.inumber \in Inumbers /\ job.offset \in Nat /\ job.length \in Nat
         /\ job.left \in Nat /\ job.inode \in fs_inode /\ job.write_inode \in BOOLEAN
         /\ job.inumber \in inode_freemap => /\ inode_in_range(job.inumber)
                                             /\ Live[job.inumber].isvalid
<1>1. TypeOK /\ TableInv /\ BlockInv /\ CopyInv
  BY DEF FSInv
<1>2. is_mounted /\ cache = "live"
  BY <1>1 DEF TableInv, is_mounted
<1>3. job \in JobType
  BY PromptState
<1> QED
  BY <1>1, <1>2, <1>3, PromptState DEF TableInv, JobType

(* fs_write finds the inode in the free map, so it is a file's.            *)
LEMMA BeginStep ==
  ASSUME FSInv, fs_write_begin
  PROVE  FSInv' /\ (job.offset <= Live[job.inumber].size => Kept)
<1>1. pc = "copyin" /\ proc = "running"
      /\ UNCHANGED <<capacity, formatted, blocks, memory, history>>
  BY DEF fs_write_begin, Copying
<1> DEFINE i == job.inumber
           inode == inode_of(store, i)
           n == IF job.left < BufferSize THEN job.left ELSE BufferSize
<1>2. CASE /\ ToPrompt
           /\ UNCHANGED <<store, proc>>
  <2>1. NoJob \in JobType
    BY Constants, EmptyIsInode, FileSystemAssumption DEF NoJob, JobType
  <2>2. TypeOK'
    BY <1>1, <1>2, <2>1, CopyState DEF TypeOK, ToPrompt, JobType, memory, history
  <2> QED
    BY <1>1, <1>2, <2>2, CopyState, PromptState, PromptStep
    DEF ToPrompt, memory, is_mounted
<1>3. CASE /\ proc' = "freed_inode"
           /\ UNCHANGED <<store, pc, job>>
  <2>1. TypeOK'
    BY <1>1, <1>3, CopyState DEF TypeOK, Faults, memory, history
  <2> QED
    BY <1>1, <1>3, <2>1, Frame DEF memory
<1>4. CASE /\ is_arg_valid(i, job.offset)
           /\ \E garbage \in BOOLEAN : store' = get_inode(store, i, garbage)
           /\ pc' = "write"
           /\ job' = [job EXCEPT !.left = @ - n,
                                 !.length = n,
                                 !.inode = [inode EXCEPT !.isvalid = TRUE],
                                 !.write_inode = ~inode.isvalid]
           /\ UNCHANGED proc
  <2>1. /\ i \in inode_freemap /\ i \in Inumbers /\ inode_in_range(i)
        /\ \A j \in Inumbers : Live[j] = inode_of(store, j)
    BY <1>1, <1>4, CopyState, Types, LiveInodes DEF is_arg_valid
  <2>2. inode \in fs_inode /\ inode.isvalid = TRUE
    <3>1. inode = Live[i] /\ Live[i] \in fs_inode /\ Live[i].isvalid
      BY <1>1, <2>1, CopyState DEF TableType
    <3> QED
      BY <3>1 DEF fs_inode
  <2>3. [inode EXCEPT !.isvalid = TRUE] = inode
    <3> HIDE DEF inode
    <3> QED
      BY <2>2 DEF fs_inode
  <2>4. n \in Nat /\ job.left - n \in Nat
    BY <1>1, CopyState, FileSystemAssumption
  <2>5. job' = [job EXCEPT !.left = job.left - n, !.length = n,
                           !.inode = inode, !.write_inode = FALSE]
    BY <1>4, <2>2, <2>3
  <2>6. /\ job' \in JobType /\ job'.inumber = i /\ job'.offset = job.offset
        /\ job'.inode = inode /\ job'.write_inode = FALSE /\ job'.word = job.word
    <3>1. job \in JobType
      BY <1>1, CopyState
    <3> HIDE DEF inode, n
    <3> QED
      BY <2>2, <2>4, <2>5, <3>1 DEF JobType
  <2>7. PICK garbage \in BOOLEAN : store' = get_inode(store, i, garbage)
    BY <1>4
  <2>8. /\ CacheOK(store')
        /\ \A j \in Inumbers : inode_of(store', j) = inode_of(store, j)
        /\ \A j \in Inumbers : store'.disk[j] \in {store.disk[j], inode_of(store, j)}
        /\ ToSet(store'.lru) \subseteq ToSet(store.lru) \cup {i}
    <3>1. CacheOK(store)
      BY <1>1, CopyState
    <3> DEFINE r == get_inode(store, i, garbage)
    <3>2. /\ CacheOK(r)
          /\ \A j \in Inumbers : inode_of(r, j) = inode_of(store, j)
          /\ \A j \in Inumbers : r.disk[j] \in {store.disk[j], inode_of(store, j)}
          /\ ToSet(r.lru) \subseteq
               ToSet(store.lru) \cup (IF inode_in_range(i) THEN {i} ELSE {})
      BY <2>1, <3>1, GetInode
    <3> QED
      BY <2>1, <2>7, <3>2
  <2>9. store' \in StoreType
    BY <2>8 DEF CacheOK
  <2> HIDE DEF n
  <2>10. TypeOK'
    BY <1>1, <1>4, <2>6, <2>9, CopyState DEF TypeOK, StoreType, JobType, memory, history
  <2>11. /\ Same(Live'[i], inode)
         /\ \A j \in Inumbers \ {i} : Live'[j] = inode_of(store', j)
    <3>1. Live' = LiveOf(store', pc', job')
      BY Types
    <3>2. Same(LiveOf(store', pc', job')[job'.inumber], job'.inode)
      BY <1>4, <2>6, <2>9, LiveInodes
    <3>3. \A j \in Inumbers : j # job'.inumber =>
            LiveOf(store', pc', job')[j] = inode_of(store', j)
      BY <2>6, <2>9, LiveInodes
    <3> QED
      BY <2>6, <3>1, <3>2, <3>3
  <2>12. \A j \in Inumbers : Same(Live'[j], Live[j])
    BY <2>1, <2>8, <2>11 DEF Same
  <2>13. \A j \in Inumbers : Same(Disk'[j], Disk[j]) \/ Same(Disk'[j], Live[j])
    BY <2>1, <2>8 DEF Same, Disk
  <2>14. ToSet(store'.lru) \subseteq inode_freemap
    BY <1>1, <2>1, <2>8, CopyState DEF TableInv
  <2>15. TableInv' /\ BlockInv'
    BY <1>1, <2>8, <2>10, <2>12, <2>13, <2>14, CopyState, QuietStep DEF memory
  <2>16. \A p \in AllPointers : Ptr(blocks, Live'[i], p) = Ptr(blocks, Live[i], p)
    BY <2>1, <2>12 DEF Same, Ptr
  <2>17. CopyInv'
    BY <1>1, <2>1, <2>6, <2>8, <2>16, CopyState, PointerRange DEF CopyInv, memory
  <2>18. ASSUME job.offset <= Live[i].size PROVE Kept
    <3>1. inode = Live[i] /\ ~(job'.offset > job'.inode.size)
      BY <1>1, <2>1, <2>2, <2>6, <2>18, CopyState DEF fs_inode
    <3>2. Live'[i] = Live[i]
      <4>1. LiveOf(store', "write", job')[job'.inumber] = job'.inode
        BY <2>6, <2>9, <3>1, LiveSize
      <4> QED
        BY <1>4, <2>6, <3>1, <4>1, Types
    <3>3. \A j \in Inumbers : Live'[j] = Live[j]
      BY <2>1, <2>8, <2>11, <3>2
    <3>4. \A j \in Inumbers : Disk'[j] \in {Disk[j], Live[j]}
      BY <2>1, <2>8 DEF Disk
    <3> QED
      BY <1>1, <2>6, <3>3, <3>4 DEF Kept
  <2> QED
    BY <2>10, <2>15, <2>17, <2>18 DEF FSInv
<1> QED
  BY <1>2, <1>3, <1>4 DEF fs_write_begin

(* After the loop the inode goes back to the cache, or to the disk when    *)
(* the cache has no room for it.                                           *)
LEMMA EndWriteStep == ASSUME FSInv, fs_write_end PROVE FSInv' /\ Kept
<1> DEFINE i == job.inumber
           n == [job.inode EXCEPT !.size = grown_size]
<1>1. /\ pc = "write" /\ proc = "running" /\ store' = set_dirty(store, i, must_save, n)
      /\ UNCHANGED <<capacity, formatted, blocks, memory, proc, history>>
  BY DEF fs_write_end, Copying
<1>2. /\ i \in Inumbers /\ i \in inode_freemap /\ inode_in_range(i)
      /\ job.inode \in fs_inode /\ job.write_inode \in BOOLEAN /\ job.offset \in Nat
  BY <1>1, CopyState DEF CopyInv
<1>3. grown_size \in Nat /\ must_save \in BOOLEAN
  BY <1>2 DEF grown_size, must_save, fs_inode
<1>4. n \in fs_inode /\ n = Live[i]
  <2>1. n \in fs_inode
    BY <1>2, <1>3 DEF fs_inode
  <2> QED
    BY <1>1, <1>2, <2>1 DEF Live
<1>5. ~must_save => n = inode_of(store, i)
  <2>1. SUFFICES ASSUME ~must_save PROVE n = inode_of(store, i)
    OBVIOUS
  <2>2. ~job.write_inode /\ grown_size = job.inode.size
    BY <2>1 DEF must_save, grown_size
  <2>3. job.inode = inode_of(store, i)
    BY <1>1, <2>2, CopyState DEF CopyInv
  <2>4. n = job.inode
    BY <1>2, <2>2 DEF fs_inode
  <2> QED
    BY <2>3, <2>4
<1> HIDE DEF n
<1>6. /\ CacheOK(store') /\ ToSet(store'.lru) = ToSet(store.lru)
      /\ inode_of(store', i) = n /\ store'.disk[i] \in {store.disk[i], n}
      /\ \A j \in Inumbers \ {i} : /\ store'.disk[j] = store.disk[j]
                                   /\ inode_of(store', j) = inode_of(store, j)
  BY <1>1, <1>2, <1>3, <1>4, <1>5, CopyState, SetDirty
<1>7. store' \in StoreType
  BY <1>6 DEF CacheOK
<1>8. /\ pc' \in {"copyin", "shell"} /\ job' \in JobType
      /\ pc' = "copyin" => /\ job'.inumber = i /\ job'.offset = job.offset
                           /\ job'.word = job.word
  <2>1. CASE job.length = 0 /\ job.left > 0
    <3>1. pc' = "copyin"
          /\ job' = [job EXCEPT !.inode = EmptyInode, !.write_inode = FALSE]
      BY <2>1 DEF fs_write_end
    <3> QED
      BY <1>1, <3>1, CopyState, EmptyIsInode DEF JobType
  <2>2. CASE ~(job.length = 0 /\ job.left > 0)
    <3>1. pc' = "shell" /\ job' = NoJob
      BY <2>2 DEF fs_write_end, ToPrompt
    <3> QED
      BY <3>1, Constants, EmptyIsInode, FileSystemAssumption DEF NoJob, JobType
  <2> QED
    BY <2>1, <2>2
<1>9. TypeOK'
  BY <1>1, <1>7, <1>8, CopyState DEF TypeOK, StoreType, JobType, memory, history
<1>10. \A j \in Inumbers : Live'[j] = inode_of(store', j)
  BY <1>7, <1>8, Types, LiveInodes
<1>11. \A j \in Inumbers \ {i} : Live[j] = inode_of(store, j)
  BY <1>1, CopyState, Types, LiveInodes
<1>12. \A j \in Inumbers : Live'[j] = Live[j]
  BY <1>2, <1>4, <1>6, <1>10, <1>11
<1>13. \A j \in Inumbers : Same(Live'[j], Live[j])
  BY <1>12 DEF Same
<1>14. \A j \in Inumbers : Same(Disk'[j], Disk[j]) \/ Same(Disk'[j], Live[j])
  BY <1>4, <1>6 DEF Same, Disk
<1>15. TableInv' /\ BlockInv'
  BY <1>1, <1>6, <1>9, <1>13, <1>14, CopyState, QuietStep DEF memory, TableInv
<1>16. CopyInv'
  BY <1>1, <1>2, <1>8, <1>12, CopyState DEF CopyInv
<1>17. Kept
  BY <1>1, <1>2, <1>4, <1>6, <1>8, <1>12 DEF Kept, Disk
<1> QED
  BY <1>9, <1>15, <1>16, <1>17 DEF FSInv

(* The pointers of an inode depend on its fields and its indirect block.   *)
LEMMA PointersFrom ==
  ASSUME NEW blks \in BlocksType, NEW blks2 \in BlocksType,
         NEW n \in fs_inode, NEW m \in fs_inode,
         m.direct = n.direct, m.indirect = n.indirect,
         n.indirect # 0 => blks2[n.indirect] = blks[n.indirect],
         NEW p \in AllPointers
  PROVE  Ptr(blks2, m, p) = Ptr(blks, n, p)
<1>1. n.indirect = 0 \/ blks2[n.indirect] = blks[n.indirect]
  OBVIOUS
<1> QED
  BY <1>1 DEF Ptr

(* A direct pointer to a block that was free.                              *)
LEMMA NewDirect ==
  ASSUME NEW blks \in BlocksType, NEW blks2 \in BlocksType,
         NEW table \in TableType, NEW table2 \in TableType,
         NEW i \in Inumbers, NEW k \in 0 .. POINTERS_PER_INODE - 1,
         NEW new \in DataBlocks \ Used(blks, table),
         \A c \in DataBlocks \ {new} : blks2[c] = blks[c],
         \A j \in Inumbers \ {i} : table2[j] = table[j],
         table2[i].indirect = table[i].indirect,
         table2[i].direct = [table[i].direct EXCEPT ![k] = new]
  PROVE  \A j \in Inumbers : \A p \in AllPointers :
           Ptr(blks2, table2[j], p) =
             IF j = i /\ p = k THEN new ELSE Ptr(blks, table[j], p)
<1>1. ASSUME NEW j \in Inumbers
      PROVE  /\ table[j] \in fs_inode /\ table2[j] \in fs_inode
             /\ table[j].indirect # 0 =>
                  blks2[table[j].indirect] = blks[table[j].indirect]
  <2>1. table[j] \in fs_inode /\ table2[j] \in fs_inode
    BY DEF TableType
  <2>2. table[j].indirect # 0 => table[j].indirect \in DataBlocks \ {new}
    BY <2>1, IndirectInUse, PointerKinds
  <2> QED
    BY <2>1, <2>2
<1>2. ASSUME NEW j \in Inumbers \ {i}, NEW p \in AllPointers
      PROVE  Ptr(blks2, table2[j], p) = Ptr(blks, table[j], p)
  BY <1>1, PointersFrom
<1>3. ASSUME NEW p \in AllPointers
      PROVE  Ptr(blks2, table2[i], p) = IF p = k THEN new ELSE Ptr(blks, table[i], p)
  <2> DEFINE n == table[i]
             m == table2[i]
  <2>1. /\ n \in fs_inode /\ m \in fs_inode /\ m.indirect = n.indirect
        /\ n.indirect # 0 => blks2[n.indirect] = blks[n.indirect]
        /\ m.direct = [n.direct EXCEPT ![k] = new]
        /\ n.direct \in [0 .. POINTERS_PER_INODE - 1 -> DataBlocks \cup {0}]
    BY <1>1, PointerKinds
  <2> SUFFICES Ptr(blks2, m, p) = IF p = k THEN new ELSE Ptr(blks, n, p)
    BY DEF n, m
  <2> HIDE DEF n, m
  <2>0. k # -1 /\ p \in Int
    BY PointerRange, Constants
  <2>2. CASE p = -1
    BY <2>0, <2>1, <2>2 DEF Ptr
  <2>3. CASE p \in 0 .. POINTERS_PER_INODE - 1
    <3>1. Ptr(blks2, m, p) = m.direct[p] /\ Ptr(blks, n, p) = n.direct[p]
      BY <2>3, Constants DEF Ptr
    <3> QED
      BY <2>1, <2>3, <3>1
  <2>4. ASSUME NEW q \in 0 .. POINTERS_PER_BLOCK - 1, p = POINTERS_PER_INODE + q
        PROVE  Ptr(blks2, m, p) = Ptr(blks, n, p) /\ p # k
    <3>1. /\ Ptr(blks2, m, p) = IF m.indirect = 0 THEN 0 ELSE blks2[m.indirect][q]
          /\ Ptr(blks, n, p) = IF n.indirect = 0 THEN 0 ELSE blks[n.indirect][q]
      BY <2>1, <2>4, PointerKinds
    <3>2. p # k
      BY <2>4, Constants
    <3> QED
      BY <2>1, <3>1, <3>2
  <2> QED
    BY <2>2, <2>3, <2>4, PointerRange
<1> QED
  BY <1>2, <1>3

(* A pointer to a block that was free, in the file's indirect block.       *)
LEMMA NewEntry ==
  ASSUME NEW blks \in BlocksType, NEW blks2 \in BlocksType,
         NEW table \in TableType, NEW table2 \in TableType, Once(blks, table),
         NEW i \in Inumbers, NEW k \in 0 .. POINTERS_PER_BLOCK - 1,
         NEW new \in DataBlocks \ Used(blks, table), NEW ind,
         ind = table[i].indirect, ind # 0,
         \A c \in DataBlocks \ {new, ind} : blks2[c] = blks[c],
         blks2[ind] = [blks[ind] EXCEPT ![k] = new],
         \A j \in Inumbers \ {i} : table2[j] = table[j],
         table2[i].indirect = table[i].indirect,
         table2[i].direct = table[i].direct
  PROVE  \A j \in Inumbers : \A p \in AllPointers :
           Ptr(blks2, table2[j], p) =
             IF j = i /\ p = POINTERS_PER_INODE + k THEN new
             ELSE Ptr(blks, table[j], p)
<1>1. \A j \in Inumbers : table[j] \in fs_inode /\ table2[j] \in fs_inode
  BY DEF TableType
<1>2. ASSUME NEW j \in Inumbers \ {i}, table[j].indirect # 0
      PROVE  table[j].indirect \in DataBlocks \ {new, ind}
  <2>1. table[j].indirect \in Used(blks, table) /\ table[j].indirect \in DataBlocks
    BY <1>2, IndirectInUse DEF Used
  <2>2. /\ Ptr(blks, table[j], -1) = table[j].indirect
        /\ Ptr(blks, table[i], -1) = ind /\ -1 \in AllPointers
    BY <1>1, PointerKinds, PointerRange
  <2>3. table[j].indirect # ind
    BY <1>2, <2>2 DEF Once
  <2> QED
    BY <2>1, <2>3
<1>3. ASSUME NEW j \in Inumbers \ {i}, NEW p \in AllPointers
      PROVE  Ptr(blks2, table2[j], p) = Ptr(blks, table[j], p)
  BY <1>1, <1>2, PointersFrom
<1>4. ASSUME NEW p \in AllPointers
      PROVE  Ptr(blks2, table2[i], p) =
               IF p = POINTERS_PER_INODE + k THEN new ELSE Ptr(blks, table[i], p)
  <2> DEFINE n == table[i]
             m == table2[i]
  <2>1. /\ n \in fs_inode /\ m \in fs_inode /\ m.indirect = n.indirect
        /\ n.indirect = ind /\ m.direct = n.direct /\ ind \in DataBlocks
        /\ blks[ind] \in [0 .. POINTERS_PER_BLOCK - 1 -> Nat]
    <3>1. ind \in DataBlocks
      BY <1>1, PointerKinds
    <3> QED
      BY <1>1, <3>1, Constants DEF BlocksType
  <2> SUFFICES Ptr(blks2, m, p) = IF p = POINTERS_PER_INODE + k THEN new
                                  ELSE Ptr(blks, n, p)
    BY DEF n, m
  <2> HIDE DEF n, m
  <2>2. CASE p = -1
    <3>1. p # POINTERS_PER_INODE + k
      BY <2>2, Constants
    <3> QED
      BY <2>1, <2>2, <3>1 DEF Ptr
  <2>3. CASE p \in 0 .. POINTERS_PER_INODE - 1
    <3>1. p # POINTERS_PER_INODE + k /\ p < POINTERS_PER_INODE /\ p # -1
      BY <2>3, Constants
    <3> QED
      BY <2>1, <3>1 DEF Ptr
  <2>4. ASSUME NEW q \in 0 .. POINTERS_PER_BLOCK - 1, p = POINTERS_PER_INODE + q
        PROVE  Ptr(blks2, m, p) = IF p = POINTERS_PER_INODE + k THEN new
                                  ELSE Ptr(blks, n, p)
    <3>1. Ptr(blks2, m, p) = blks2[ind][q] /\ Ptr(blks, n, p) = blks[ind][q]
      <4>1. p # -1 /\ ~(p < POINTERS_PER_INODE) /\ p - POINTERS_PER_INODE = q
        BY <2>4, Constants
      <4> QED
        BY <2>1, <4>1 DEF Ptr
    <3>2. p = POINTERS_PER_INODE + k <=> q = k
      BY <2>4, Constants
    <3> QED
      BY <2>1, <3>1, <3>2
  <2> QED
    BY <2>2, <2>3, <2>4, PointerRange
<1> QED
  BY <1>3, <1>4

(* A new indirect block with one pointer, both blocks free before.         *)
LEMMA NewIndirect ==
  ASSUME NEW blks \in BlocksType, NEW blks2 \in BlocksType,
         NEW table \in TableType, NEW table2 \in TableType,
         NEW i \in Inumbers,
         NEW new \in DataBlocks \ Used(blks, table),
         NEW first \in DataBlocks \ Used(blks, table),
         table[i].indirect = 0,
         \A c \in DataBlocks \ {new, first} : blks2[c] = blks[c],
         \A k \in 0 .. POINTERS_PER_BLOCK - 1 :
           blks2[first][k] = IF k = 0 THEN new ELSE 0,
         \A j \in Inumbers \ {i} : table2[j] = table[j],
         table2[i].indirect = first,
         table2[i].direct = table[i].direct
  PROVE  \A j \in Inumbers : \A p \in AllPointers :
           Ptr(blks2, table2[j], p) =
             IF j = i /\ p = POINTERS_PER_INODE THEN new
             ELSE IF j = i /\ p = -1 THEN first
             ELSE Ptr(blks, table[j], p)
<1>1. \A j \in Inumbers : table[j] \in fs_inode /\ table2[j] \in fs_inode
  BY DEF TableType
<1>2. ASSUME NEW j \in Inumbers \ {i}, table[j].indirect # 0
      PROVE  table[j].indirect \in DataBlocks \ {new, first}
  BY <1>2, IndirectInUse DEF Used
<1>3. ASSUME NEW j \in Inumbers \ {i}, NEW p \in AllPointers
      PROVE  Ptr(blks2, table2[j], p) = Ptr(blks, table[j], p)
  BY <1>1, <1>2, PointersFrom
<1>4. ASSUME NEW p \in AllPointers
      PROVE  Ptr(blks2, table2[i], p) =
               IF p = POINTERS_PER_INODE THEN new
               ELSE IF p = -1 THEN first ELSE Ptr(blks, table[i], p)
  <2> DEFINE n == table[i]
             m == table2[i]
  <2>1. /\ n \in fs_inode /\ m \in fs_inode /\ m.indirect = first
        /\ n.indirect = 0 /\ m.direct = n.direct /\ first # 0
    BY <1>1, Constants
  <2> HIDE DEF n, m
  <2>2. POINTERS_PER_INODE # -1
    BY Constants
  <2>3. CASE p = -1
    BY <2>1, <2>2, <2>3, PointerKinds DEF n, m
  <2>4. CASE p \in 0 .. POINTERS_PER_INODE - 1
    <3>1. p # POINTERS_PER_INODE /\ p # -1
      BY <2>4, Constants
    <3>2. Ptr(blks2, m, p) = Ptr(blks, n, p)
      BY <2>1, <2>4, PointerKinds
    <3> QED
      BY <3>1, <3>2 DEF n, m
  <2>5. ASSUME NEW q \in 0 .. POINTERS_PER_BLOCK - 1, p = POINTERS_PER_INODE + q
        PROVE  Ptr(blks2, m, p) = IF p = POINTERS_PER_INODE THEN new ELSE Ptr(blks, n, p)
    <3>1. Ptr(blks2, m, p) = blks2[first][q] /\ Ptr(blks, n, p) = 0
      BY <2>1, <2>5, PointerKinds
    <3>2. p = POINTERS_PER_INODE <=> q = 0
      BY <2>5, Constants
    <3> QED
      BY <3>1, <3>2
  <2> QED
    BY <2>2, <2>3, <2>4, <2>5, PointerRange DEF n, m
<1> QED
  BY <1>3, <1>4

(* The part of a block that one round of the loop writes ends in it.       *)
LEMMA Offsets ==
  ASSUME NEW o \in Nat, NEW length \in Nat, length > 0
  PROVE  LET pn == o \div DISK_BLOCK_SIZE
             room == DISK_BLOCK_SIZE - (o % DISK_BLOCK_SIZE)
             n == IF room < length THEN room ELSE length
         IN /\ pn \in Nat /\ n \in Nat /\ length - n \in Nat
            /\ \A p \in Nat : p < pn => p * DISK_BLOCK_SIZE < o
            /\ \A p \in Nat : p * DISK_BLOCK_SIZE < o + n => p <= pn
<1> DEFINE B == DISK_BLOCK_SIZE
           pn == o \div B
           start == o % B
           room == B - start
           n == IF room < length THEN room ELSE length
<1>1. B \in Nat /\ B > 0
  BY Constants
<1> HIDE DEF B
<1>2. pn \in Nat /\ start \in Nat /\ start < B /\ o = B * pn + start
  BY <1>1
<1> HIDE DEF pn, start
<1>3. n \in Nat /\ length - n \in Nat /\ start + n <= B
  BY <1>1, <1>2
<1> HIDE DEF n
<1>4. ASSUME NEW p \in Nat, p < pn PROVE p * B < o
  <2>1. (p + 1) * B <= pn * B /\ (p + 1) * B = p * B + B /\ pn * B = B * pn
    BY <1>1, <1>2, <1>4
  <2> QED
    BY <1>1, <1>2, <2>1
<1>5. ASSUME NEW p \in Nat, p * B < o + n PROVE p <= pn
  <2>1. SUFFICES ASSUME pn + 1 <= p PROVE FALSE
    BY <1>2
  <2>2. (pn + 1) * B <= p * B /\ (pn + 1) * B = B * pn + B
    BY <1>1, <1>2, <2>1
  <2> QED
    BY <1>1, <1>2, <1>3, <1>5, <2>2
<1> QED
  BY <1>2, <1>3, <1>4, <1>5 DEF B, pn, start, n

(* find_free_block returns a free block or 0.                              *)
LEMMA FreeBlock ==
  ASSUME NEW freemap, find_free_block(freemap) # 0
  PROVE  find_free_block(freemap) \in DataBlocks \ freemap
<1> DEFINE F == DataBlocks \ freemap
<1>1. ~(DataBlocks \subseteq freemap)
  BY DEF find_free_block
<1>2. find_free_block(freemap) = CHOOSE b \in F : \A c \in F : b <= c
  BY <1>1 DEF find_free_block
<1>3. F \in SUBSET Nat /\ F # {}
  BY <1>1, Constants
<1> HIDE DEF F
<1>4. \E b \in F : \A c \in F : b <= c
  BY <1>3, LeastNumber
<1>5. find_free_block(freemap) \in F
  BY <1>2, <1>4
<1> QED
  BY <1>5 DEF F

(* A round of the loop that keeps the file's inode sound.                  *)
LEMMA RoundStep ==
  ASSUME FSInv, pc = "write", pc' = "write", TypeOK',
         UNCHANGED <<store, inode_freemap, cache>>,
         NEW i \in Inumbers, i = job.inumber, job'.inumber = i,
         Once(blocks', Live'),
         \A j \in Inumbers : Sound(blocks', Live'[j]),
         Within(Live[i], Live'[i]),
         block_freemap' = 0 .. NUM_INODE_BLOCKS \cup Used(blocks', Live'),
         \A p \in DataPointers : p * DISK_BLOCK_SIZE < job'.offset
                                   => Ptr(blocks', Live'[i], p) # 0,
         ~job'.write_inode => job'.inode = inode_of(store, i)
  PROVE  FSInv'
<1>1. /\ i \in inode_freemap /\ Live[i].isvalid
      /\ CacheOK(store) /\ cache = "live" /\ TableInv /\ BlockInv /\ CopyInv
      /\ blocks \in BlocksType /\ Live \in TableType /\ Disk \in TableType
      /\ store \in StoreType /\ job \in JobType
  <2>1. i \in inode_freemap
    BY CopyState DEF CopyInv
  <2> QED
    BY <2>1, CopyState
<1>2. \A j \in Inumbers \ {i} : Live[j] = inode_of(store, j) /\ Live'[j] = inode_of(store, j)
  <2>1. \A j \in Inumbers \ {i} : Live[j] = inode_of(store, j)
    BY <1>1, Types, LiveInodes
  <2>2. \A j \in Inumbers \ {i} : Live'[j] = inode_of(store', j)
    BY Types, LiveInodes
  <2> QED
    BY <2>1, <2>2
<1>3. Live' \in TableType /\ blocks' \in BlocksType /\ Disk' = Disk
  BY Types, LiveInodes DEF Disk
<1>4. ASSUME NEW j \in Inumbers
      PROVE  /\ Within(Disk[j], Live'[j]) /\ Sound(blocks', Disk[j])
             /\ Live'[j].isvalid <=> Live[j].isvalid
  <2>1. /\ Within(Disk[j], Live[j]) /\ Sound(blocks, Disk[j])
        /\ Disk[j] \in fs_inode /\ Live[j] \in fs_inode /\ Live'[j] \in fs_inode
    BY <1>1, <1>3 DEF BlockInv, TableType
  <2>2. Within(Disk[j], Live'[j])
    <3>1. CASE j = i
      BY <2>1, <3>1 DEF Within
    <3>2. CASE j # i
      BY <1>2, <2>1, <3>2
    <3> QED
      BY <3>1, <3>2
  <2>3. Sound(blocks', Disk[j])
    BY <1>1, <1>3, <2>1, <2>2, OlderIsSound
  <2>4. Live'[j].isvalid <=> Live[j].isvalid
    <3>1. CASE j = i
      BY <1>1, <3>1 DEF Within
    <3>2. CASE j # i
      BY <1>2, <3>2
    <3> QED
      BY <3>1, <3>2
  <2> QED
    BY <2>2, <2>3, <2>4
<1>5. BlockInv'
  BY <1>3, <1>4 DEF BlockInv
<1>6. TableInv'
  BY <1>1, <1>3, <1>4 DEF TableInv, is_mounted
<1>7. CopyInv'
  BY <1>1 DEF CopyInv
<1> QED
  BY <1>5, <1>6, <1>7 DEF FSInv

\* The numbers of a round, as write_block has them.
pointer_number == job.offset \div DISK_BLOCK_SIZE
round_start == job.offset % DISK_BLOCK_SIZE
round_words == IF DISK_BLOCK_SIZE - round_start < job.length
                 THEN DISK_BLOCK_SIZE - round_start ELSE job.length
round_job == [job EXCEPT !.offset = @ + round_words, !.length = @ - round_words]
this_block == get_block_number_for_offset(job.inode, job.offset)

(* What a round starts from.                                               *)
LEMMA RoundState ==
  ASSUME FSInv, pc = "write", job.length > 0
  PROVE  LET i == job.inumber IN
         /\ pointer_number \in Nat
         /\ round_job \in JobType /\ round_job.inumber = i
         /\ round_job.inode = job.inode /\ round_job.write_inode = job.write_inode
         /\ this_block = Ptr(blocks, Live[i], pointer_number)
         /\ \A p \in DataPointers : p < pointer_number => Ptr(blocks, Live[i], p) # 0
         /\ \A p \in DataPointers :
              p * DISK_BLOCK_SIZE < round_job.offset => p <= pointer_number
         /\ Same(Live[i], job.inode)
         /\ i \in Inumbers /\ i \in inode_freemap /\ Live[i].isvalid
<1> DEFINE i == job.inumber
           w == round_words
<1>1. /\ blocks \in BlocksType /\ store \in StoreType /\ job \in JobType
      /\ job.offset \in Nat /\ job.length \in Nat /\ job.inode \in fs_inode
      /\ i \in Inumbers /\ CopyInv
  BY CopyState
<1>2. /\ pointer_number \in Nat /\ w \in Nat /\ job.length - w \in Nat
      /\ \A p \in Nat : p < pointer_number => p * DISK_BLOCK_SIZE < job.offset
      /\ \A p \in Nat : p * DISK_BLOCK_SIZE < job.offset + w => p <= pointer_number
  BY <1>1, Offsets DEF pointer_number, round_words, round_start
<1>3. i \in inode_freemap /\ Live[i].isvalid
  BY <1>1, CopyState DEF CopyInv
<1>4. Same(Live[i], job.inode)
  BY <1>1, Types, LiveInodes
<1>5. this_block = Ptr(blocks, Live[i], pointer_number)
  <2>1. this_block = Ptr(blocks, job.inode, pointer_number)
    BY <1>1, PointerIsPtr DEF this_block, pointer_number
  <2> QED
    BY <1>4, <2>1 DEF Same, Ptr
<1>6. /\ round_job \in JobType /\ round_job.inumber = i
      /\ round_job.inode = job.inode /\ round_job.write_inode = job.write_inode
      /\ round_job.offset = job.offset + w
  <2>1. round_job = [job EXCEPT !.offset = job.offset + w, !.length = job.length - w]
    BY DEF round_job
  <2>2. job.offset + w \in Nat
    BY <1>1, <1>2
  <2> HIDE DEF w
  <2> QED
    BY <1>1, <1>2, <2>1, <2>2 DEF JobType
<1>7. \A p \in DataPointers : p < pointer_number => Ptr(blocks, Live[i], p) # 0
  BY <1>1, <1>2, PointerRange DEF CopyInv
<1> HIDE DEF w
<1> QED
  BY <1>1, <1>2, <1>3, <1>4, <1>5, <1>6, <1>7, PointerRange

(* The copyin after a round.                                               *)
LEMMA RoundJob ==
  ASSUME FSInv, pc = "write", job.length > 0
  PROVE  /\ round_words \in Nat /\ job.offset \in Nat
         /\ round_job.offset = job.offset + round_words
         /\ round_job.word = job.word /\ round_job.inode = job.inode
<1>1. job \in JobType /\ job.offset \in Nat /\ job.length \in Nat
  BY CopyState
<1>2. round_words \in Nat
  BY <1>1, Offsets DEF round_words, round_start
<1>3. round_job = [job EXCEPT !.offset = job.offset + round_words,
                              !.length = job.length - round_words]
  BY DEF round_job
<1> QED
  BY <1>1, <1>2, <1>3 DEF JobType

\* A round has put its words into the block b of the file, which is the last
\* pointer's or a new one, and into no other block that holds data.
Wrote(b) ==
  /\ Disk' = Disk /\ pc' = "write" /\ job'.inumber = job.inumber
  /\ job'.word = job.word /\ job'.offset = job.offset + round_words
  /\ Live'[job.inumber].size = IF job.offset + round_words > Live[job.inumber].size
                                 THEN job.offset + round_words
                                 ELSE Live[job.inumber].size
  /\ Live'[job.inumber].isvalid
  /\ \A j \in Inumbers \ {job.inumber} : Live'[j] = Live[j]
  /\ \A j \in Inumbers : \A p \in DataPointers : j # job.inumber \/ p # pointer_number
       => /\ Ptr(blocks', Live'[j], p) = Ptr(blocks, Live[j], p)
          /\ Ptr(blocks, Live[j], p) # 0 =>
               blocks'[Ptr(blocks, Live[j], p)] = blocks[Ptr(blocks, Live[j], p)]
  /\ Ptr(blocks', Live'[job.inumber], pointer_number) = b /\ b # 0
  /\ \A k \in 0 .. DISK_BLOCK_SIZE - 1 :
       IF round_start <= k /\ k < round_start + round_words THEN blocks'[b][k] = job.word
       ELSE this_block # 0 => blocks'[b][k] = blocks[this_block][k]

(* The size of the file after a round.                                     *)
LEMMA RoundSize ==
  ASSUME FSInv, pc = "write", job.length > 0, pc' = "write", store' = store,
         job' \in JobType, job'.inumber = job.inumber,
         job'.offset = job.offset + round_words, job'.inode.size = job.inode.size
  PROVE  Live'[job.inumber].size = IF job.offset + round_words > Live[job.inumber].size
                                     THEN job.offset + round_words
                                     ELSE Live[job.inumber].size
<1>1. /\ store \in StoreType /\ job \in JobType /\ job.offset \in Nat
      /\ job.inode.size \in Nat /\ round_words \in Nat
  BY CopyState, RoundJob DEF fs_inode
<1>2. Live[job.inumber].size =
        IF job.offset > job.inode.size THEN job.offset ELSE job.inode.size
  BY <1>1, Types, LiveSize
<1>3. Live'[job.inumber].size =
        IF job'.offset > job'.inode.size THEN job'.offset ELSE job'.inode.size
  <2>1. LiveOf(store', "write", job')[job'.inumber].size =
          IF job'.offset > job'.inode.size THEN job'.offset ELSE job'.inode.size
    BY <1>1, LiveSize
  <2> QED
    BY <2>1, Types
<1> QED
  BY <1>1, <1>2, <1>3

(* The words of a block after a round.                                     *)
LEMMA FilledType ==
  ASSUME job \in JobType, NEW block \in [0 .. DISK_BLOCK_SIZE - 1 -> Nat],
         NEW start, NEW n
  PROVE  Filled(block, start, n) \in [0 .. DISK_BLOCK_SIZE - 1 -> Nat]
<1>1. job.word \in Nat
  BY FileSystemAssumption DEF JobType
<1> QED
  BY <1>1 DEF Filled

(* A round over a block the file has: data only.                           *)
LEMMA DataRound ==
  ASSUME FSInv, pc = "write", job.length > 0,
         pointer_number < MaxPointers, this_block # 0,
         blocks' = [blocks EXCEPT ![this_block] =
                      Filled(@, round_start, round_words)],
         job' = round_job,
         UNCHANGED <<capacity, store, formatted, memory, pc, proc, history>>
  PROVE  FSInv' /\ Wrote(this_block)
<1> DEFINE i == job.inumber
           b == this_block
           w == Filled(blocks[b], round_start, round_words)
<1>1. /\ TypeOK /\ blocks \in BlocksType /\ store \in StoreType /\ job \in JobType
      /\ Live \in TableType /\ BlockInv /\ CopyInv /\ is_mounted
  BY CopyState
<1>2. /\ pointer_number \in Nat
      /\ round_job \in JobType /\ round_job.inumber = i
      /\ round_job.inode = job.inode /\ round_job.write_inode = job.write_inode
      /\ b = Ptr(blocks, Live[i], pointer_number)
      /\ Same(Live[i], job.inode) /\ i \in Inumbers
  BY RoundState
<1>3. \A p \in DataPointers : p < pointer_number => Ptr(blocks, Live[i], p) # 0
  BY RoundState
<1>4. \A p \in DataPointers :
        p * DISK_BLOCK_SIZE < round_job.offset => p <= pointer_number
  BY RoundState
<1>5. pointer_number \in DataPointers
  BY <1>2, Constants DEF DataPointers
<1>6. Once(blocks, Live) /\ \A j \in Inumbers : Sound(blocks, Live[j])
  BY <1>1 DEF BlockInv
<1>7. b \in DataBlocks
  BY <1>2, <1>5, <1>6 DEF Sound
<1>8. w \in [0 .. DISK_BLOCK_SIZE - 1 -> Nat]
  BY <1>1, <1>7, FilledType DEF BlocksType
<1>9. blocks' = [blocks EXCEPT ![b] = w]
  OBVIOUS
<1> HIDE DEF b, w
<1>10. /\ blocks' \in BlocksType
       /\ \A j \in Inumbers : \A q \in AllPointers :
            Ptr(blocks', Live[j], q) = Ptr(blocks, Live[j], q)
  <2> DEFINE blks2 == [blocks EXCEPT ![b] = w]
  <2>1. /\ blks2 \in BlocksType
        /\ \A j \in Inumbers : \A q \in AllPointers :
             Ptr(blks2, Live[j], q) = Ptr(blocks, Live[j], q)
    BY <1>1, <1>2, <1>5, <1>6, <1>7, <1>8, DataKeepsPointers
  <2>2. blocks' = blks2
    BY <1>9
  <2> HIDE DEF blks2
  <2> QED
    BY <2>1, <2>2
<1>11. TypeOK'
  BY <1>1, <1>2, <1>10 DEF TypeOK, BlocksType, JobType, memory, history
<1>12. ASSUME NEW j \in Inumbers PROVE Same(Live'[j], Live[j])
  <2>1. Live' = LiveOf(store, pc, job')
    BY Types
  <2>2. CASE j = i
    <3>1. Same(LiveOf(store, pc, job')[job'.inumber], job'.inode)
      BY <1>1, <1>2, LiveInodes
    <3> QED
      BY <1>2, <2>1, <2>2, <3>1 DEF Same
  <2>3. CASE j # i
    <3>1. LiveOf(store, pc, job')[j] = inode_of(store, j)
      BY <1>1, <1>2, <2>3, LiveInodes
    <3>2. Live[j] = inode_of(store, j)
      BY <1>1, <2>3, Types, LiveInodes
    <3> QED
      BY <2>1, <3>1, <3>2 DEF Same
  <2> QED
    BY <2>2, <2>3
<1>13. \A j \in Inumbers : \A q \in AllPointers :
         Ptr(blocks', Live'[j], q) = Ptr(blocks, Live[j], q)
  <2>1. ASSUME NEW j \in Inumbers, NEW q \in AllPointers
        PROVE  Ptr(blocks', Live'[j], q) = Ptr(blocks', Live[j], q)
    <3>1. Same(Live'[j], Live[j])
      BY <1>12
    <3> QED
      BY <3>1 DEF Same, Ptr
  <2> QED
    BY <1>10, <2>1
<1>14. Once(blocks', Live') /\ Used(blocks', Live') = Used(blocks, Live)
  <2>1. Once(blocks', Live')
    BY <1>6, <1>13 DEF Once
  <2>2. ASSUME NEW c PROVE c \in Used(blocks', Live') <=> c \in Used(blocks, Live)
    BY <1>13 DEF Used
  <2> QED
    BY <2>1, <2>2
<1>15. \A j \in Inumbers : Sound(blocks', Live'[j])
  <2>1. ASSUME NEW j \in Inumbers PROVE Sound(blocks', Live'[j])
    <3>1. Live[j].isvalid => Live'[j].isvalid
      BY <1>12 DEF Same
    <3>2. \A q \in AllPointers : Ptr(blocks', Live'[j], q) = Ptr(blocks, Live[j], q)
      BY <1>13
    <3>3. Live'[j].indirect = Live[j].indirect
      BY <1>12 DEF Same
    <3> QED
      BY <1>6, <3>1, <3>2, <3>3, PointerRange DEF Sound
  <2> QED
    BY <2>1
<1>16. Within(Live[i], Live'[i])
  BY <1>2, <1>12 DEF Same, Within
<1>17. block_freemap' = 0 .. NUM_INODE_BLOCKS \cup Used(blocks', Live')
  BY <1>1, <1>14 DEF BlockInv, memory
<1>18. ASSUME NEW p \in DataPointers, p * DISK_BLOCK_SIZE < job'.offset
       PROVE  Ptr(blocks', Live'[i], p) # 0
  <2>1. p <= pointer_number
    BY <1>4, <1>18
  <2>2. Ptr(blocks, Live[i], p) # 0
    <3>1. CASE p < pointer_number
      BY <1>3, <3>1
    <3>2. CASE ~(p < pointer_number)
      <4>1. p = pointer_number
        BY <1>2, <2>1, <3>2, PointerRange
      <4> QED
        BY <1>2, <4>1 DEF b
    <3> QED
      BY <3>1, <3>2
  <2> QED
    BY <1>2, <1>13, <2>2, PointerRange
<1>19. ~job'.write_inode => job'.inode = inode_of(store, i)
  BY <1>1, <1>2 DEF CopyInv
<1>20. Wrote(b)
  <2>1. job'.word = job.word /\ job'.offset = job.offset + round_words
        /\ job'.inode.size = job.inode.size
    BY <1>2, RoundJob
  <2>2. Live'[i].size = IF job.offset + round_words > Live[i].size
                          THEN job.offset + round_words ELSE Live[i].size
    BY <1>2, <2>1, RoundSize
  <2>3. Live'[i].isvalid /\ Disk' = Disk
    BY <1>2, <1>12, RoundState DEF Same, Disk
  <2>4. \A j \in Inumbers \ {i} : Live'[j] = Live[j]
    <3>1. \A j \in Inumbers \ {i} : Live[j] = inode_of(store, j)
      BY <1>1, Types, LiveInodes
    <3>2. \A j \in Inumbers \ {i} : LiveOf(store, pc, job')[j] = inode_of(store, j)
      BY <1>1, <1>2, LiveInodes
    <3> QED
      BY <3>1, <3>2, Types
  <2>5. ASSUME NEW j \in Inumbers, NEW p \in DataPointers, j # i \/ p # pointer_number
        PROVE  /\ Ptr(blocks', Live'[j], p) = Ptr(blocks, Live[j], p)
               /\ Ptr(blocks, Live[j], p) # 0 =>
                    blocks'[Ptr(blocks, Live[j], p)] = blocks[Ptr(blocks, Live[j], p)]
    <3>1. p \in AllPointers /\ pointer_number \in AllPointers
      BY <1>5, PointerRange
    <3>2. Ptr(blocks, Live[j], p) # 0 =>
            Ptr(blocks, Live[j], p) \in DataBlocks /\ Ptr(blocks, Live[j], p) # b
      BY <1>2, <1>6, <2>5, <3>1 DEF Once, Sound
    <3>3. Ptr(blocks', Live'[j], p) = Ptr(blocks, Live[j], p)
      BY <1>13, <3>1
    <3> QED
      BY <1>1, <1>9, <3>2, <3>3 DEF BlocksType
  <2>6. Ptr(blocks', Live'[i], pointer_number) = b /\ b # 0
    BY <1>2, <1>5, <1>13, PointerRange DEF b
  <2>7. blocks'[b] = w
    BY <1>1, <1>7, <1>9 DEF BlocksType
  <2>8. ASSUME NEW k \in 0 .. DISK_BLOCK_SIZE - 1
        PROVE  IF round_start <= k /\ k < round_start + round_words THEN w[k] = job.word
               ELSE w[k] = blocks[b][k]
    BY DEF w, Filled
  <2> QED
    BY <1>2, <2>1, <2>2, <2>3, <2>4, <2>5, <2>6, <2>7, <2>8 DEF Wrote, b
<1> QED
  BY <1>2, <1>11, <1>14, <1>15, <1>16, <1>17, <1>18, <1>19, <1>20, RoundStep
  DEF memory, b

\* create_new_data_block, by the place of the new pointer.
new_block == data_block(pointer_number)
new_inode == created(pointer_number).inode
new_mark == created(pointer_number).write_inode
new_blocks == [with_pointer(pointer_number) EXCEPT
                 ![new_block] = Filled(ZeroBlock, round_start, round_words)]

PlacedDirect ==
  /\ pointer_number \in 0 .. POINTERS_PER_INODE - 1
  /\ new_block = first_block /\ new_mark = TRUE
  /\ new_inode.isvalid = job.inode.isvalid
  /\ new_inode.indirect = job.inode.indirect
  /\ new_inode.direct = [job.inode.direct EXCEPT ![pointer_number] = new_block]
  /\ \A c \in DataBlocks \ {new_block} : new_blocks[c] = blocks[c]

PlacedEntry ==
  /\ job.inode.indirect # 0 /\ job.inode.indirect # new_block
  /\ new_block = first_block /\ new_mark = job.write_inode /\ new_inode = job.inode
  /\ \E k \in 0 .. POINTERS_PER_BLOCK - 1 :
       /\ pointer_number = POINTERS_PER_INODE + k
       /\ new_blocks[job.inode.indirect] =
            [blocks[job.inode.indirect] EXCEPT ![k] = new_block]
  /\ \A c \in DataBlocks \ {new_block, job.inode.indirect} : new_blocks[c] = blocks[c]

PlacedIndirect ==
  /\ job.inode.indirect = 0 /\ pointer_number = POINTERS_PER_INODE
  /\ first_block # new_block /\ new_mark = TRUE
  /\ new_inode.isvalid = job.inode.isvalid
  /\ new_inode.indirect = first_block /\ new_inode.direct = job.inode.direct
  /\ \A k \in 0 .. POINTERS_PER_BLOCK - 1 :
       new_blocks[first_block][k] = IF k = 0 THEN new_block ELSE 0
  /\ \A c \in DataBlocks \ {new_block, first_block} : new_blocks[c] = blocks[c]

(* create_new_data_block takes free blocks and sets one pointer, in the    *)
(* inode, in its indirect block or in a new one.                           *)
LEMMA Created ==
  ASSUME FSInv, pc = "write", job.length > 0, pointer_number < MaxPointers,
         this_block = 0, can_create(pointer_number)
  PROVE  /\ new_inode \in fs_inode /\ new_mark \in BOOLEAN
         /\ new_blocks \in BlocksType
         /\ new_block \in DataBlocks \ block_freemap
         /\ first_block \in DataBlocks \ block_freemap
         /\ PlacedDirect \/ PlacedEntry \/ PlacedIndirect
<1> DEFINE pn == pointer_number
           i == job.inumber
           w == Filled(ZeroBlock, round_start, round_words)
<1>1. /\ blocks \in BlocksType /\ job \in JobType /\ Live \in TableType
      /\ job.inode \in fs_inode /\ job.write_inode \in BOOLEAN
      /\ BlockInv /\ is_mounted
  BY CopyState
<1>2. /\ pn \in Nat /\ Same(Live[i], job.inode) /\ i \in Inumbers
      /\ Ptr(blocks, Live[i], pn) = 0
  BY RoundState
<1>3. \A p \in DataPointers : p < pn => Ptr(blocks, Live[i], p) # 0
  BY RoundState
<1>4. w \in [0 .. POINTERS_PER_BLOCK - 1 -> Nat]
      /\ ZeroBlock \in [0 .. POINTERS_PER_BLOCK - 1 -> Nat]
      /\ \A k \in 0 .. POINTERS_PER_BLOCK - 1 : ZeroBlock[k] = 0
  <2>1. ZeroBlock \in [0 .. DISK_BLOCK_SIZE - 1 -> Nat]
    BY DEF ZeroBlock
  <2> QED
    BY <1>1, <2>1, FilledType, Constants DEF ZeroBlock
<1>5. first_block \in DataBlocks \ block_freemap
  BY FreeBlock DEF can_create, first_block
<1>6. needs_indirect(pn) =>
        second_block \in DataBlocks \ block_freemap /\ second_block # first_block
  BY FreeBlock DEF can_create, second_block
<1>7. blocks \in [DataBlocks -> [0 .. POINTERS_PER_BLOCK - 1 -> Nat]]
  BY <1>1, Constants DEF BlocksType
<1>8. DataBlocks \subseteq Nat /\ first_block \in DataBlocks
  BY <1>5, Constants
<1>9. CASE pn < POINTERS_PER_INODE
  <2>1. ~needs_indirect(pn) /\ pn \in 0 .. POINTERS_PER_INODE - 1
    BY <1>2, <1>9, Constants DEF needs_indirect
  <2>2. new_block = first_block
    BY <2>1 DEF new_block, data_block
  <2>3. /\ new_inode = [job.inode EXCEPT !.direct[pn] = first_block]
        /\ new_mark = TRUE
    BY <1>9, <2>2 DEF new_inode, new_mark, created, new_block
  <2>4. new_blocks = [blocks EXCEPT ![first_block] = w]
    BY <1>9, <2>2 DEF new_blocks, with_pointer
  <2> HIDE DEF w, pn
  <2>5. /\ new_inode \in fs_inode /\ new_inode.isvalid = job.inode.isvalid
        /\ new_inode.indirect = job.inode.indirect
        /\ new_inode.direct = [job.inode.direct EXCEPT ![pn] = first_block]
    BY <1>1, <1>8, <2>1, <2>3 DEF fs_inode
  <2>6. new_blocks \in [DataBlocks -> [0 .. POINTERS_PER_BLOCK - 1 -> Nat]]
        /\ \A c \in DataBlocks \ {first_block} : new_blocks[c] = blocks[c]
    BY <1>4, <1>7, <1>8, <2>4
  <2> QED
    BY <1>5, <2>1, <2>2, <2>3, <2>5, <2>6, Constants DEF PlacedDirect, BlocksType, pn
<1>10. CASE ~(pn < POINTERS_PER_INODE)
  <2> DEFINE k == pn - POINTERS_PER_INODE
  <2>1. k \in 0 .. POINTERS_PER_BLOCK - 1 /\ pn = POINTERS_PER_INODE + k
    BY <1>2, <1>10, Constants
  <2>2. CASE job.inode.indirect # 0
    <3> DEFINE ind == job.inode.indirect
               e == [blocks[ind] EXCEPT ![k] = first_block]
    <3>1. ~needs_indirect(pn)
      BY <2>2 DEF needs_indirect
    <3>2. new_block = first_block
      BY <3>1 DEF new_block, data_block
    <3>3. /\ created(pn) = [inode |-> job.inode, write_inode |-> job.write_inode]
          /\ new_inode = job.inode /\ new_mark = job.write_inode
      BY <1>10, <3>1 DEF new_inode, new_mark, created
    <3>4. ind \in DataBlocks /\ ind # first_block
      <4>1. Live[i].indirect = ind
        BY <1>2 DEF Same
      <4>2. ind \in Used(blocks, Live)
        BY <1>1, <1>2, <2>2, <4>1, IndirectInUse
      <4>3. ind \in block_freemap
        BY <1>1, <4>2 DEF BlockInv
      <4> QED
        BY <1>5, <4>2, <4>3 DEF Used
    <3>5. new_blocks = [[blocks EXCEPT ![ind] = e] EXCEPT ![first_block] = w]
      BY <1>10, <3>1, <3>2, <3>3 DEF new_blocks, with_pointer, old_pointers, new_block
    <3>6. e \in [0 .. POINTERS_PER_BLOCK - 1 -> Nat]
      BY <1>7, <1>8, <2>1, <3>4
    <3> HIDE DEF ind, e, w, k
    <3>7. /\ new_blocks \in [DataBlocks -> [0 .. POINTERS_PER_BLOCK - 1 -> Nat]]
          /\ \A c \in DataBlocks \ {first_block, ind} : new_blocks[c] = blocks[c]
          /\ new_blocks[ind] = e
      BY <1>4, <1>7, <1>8, <3>4, <3>5, <3>6
    <3>8. PlacedEntry
      BY <2>1, <2>2, <3>2, <3>3, <3>4, <3>7 DEF PlacedEntry, ind, e
    <3> QED
      BY <1>1, <1>5, <3>2, <3>3, <3>7, <3>8, Constants DEF BlocksType
  <2>3. CASE job.inode.indirect = 0
    <3> DEFINE e == [ZeroBlock EXCEPT ![k] = new_block]
    <3>1. needs_indirect(pn)
      BY <1>10, <1>2, <2>3, Constants DEF needs_indirect
    <3>2. new_block = second_block /\ new_block \in DataBlocks \ block_freemap
          /\ new_block # first_block
      BY <1>6, <3>1 DEF new_block, data_block
    <3>3. /\ created(pn) = [inode |-> [job.inode EXCEPT !.indirect = first_block],
                            write_inode |-> TRUE]
          /\ new_inode = [job.inode EXCEPT !.indirect = first_block]
          /\ new_mark = TRUE
      BY <1>10, <3>1 DEF new_inode, new_mark, created
    <3>4. /\ new_inode \in fs_inode /\ new_inode.isvalid = job.inode.isvalid
          /\ new_inode.indirect = first_block
          /\ new_inode.direct = job.inode.direct
      BY <1>1, <1>8, <3>3 DEF fs_inode
    <3>5. pn = POINTERS_PER_INODE
      <4>1. SUFFICES ASSUME POINTERS_PER_INODE < pn PROVE FALSE
        BY <1>2, <1>10, Constants
      <4>2. Ptr(blocks, Live[i], POINTERS_PER_INODE) # 0
        BY <1>3, <4>1, PointerRange
      <4>3. Live[i].indirect = 0
        BY <1>2, <2>3 DEF Same
      <4>4. POINTERS_PER_INODE # -1 /\ ~(POINTERS_PER_INODE < POINTERS_PER_INODE)
        BY Constants
      <4> QED
        BY <4>2, <4>3, <4>4 DEF Ptr
    <3>6. new_blocks = [[blocks EXCEPT ![first_block] = e] EXCEPT ![new_block] = w]
      <4>1. created(pn).inode.indirect = first_block
        BY <3>4 DEF new_inode
      <4>2. old_pointers(pn) = ZeroBlock
        BY <3>1 DEF old_pointers
      <4> QED
        BY <1>10, <4>1, <4>2 DEF new_blocks, with_pointer, new_block
    <3>7. k = 0
      BY <3>5, Constants
    <3>8. /\ e \in [0 .. POINTERS_PER_BLOCK - 1 -> Nat]
          /\ \A q \in 0 .. POINTERS_PER_BLOCK - 1 : e[q] = IF q = 0 THEN new_block ELSE 0
      <4> HIDE DEF k
      <4> QED
        BY <1>4, <1>8, <2>1, <3>2, <3>7
    <3> HIDE DEF e, w, k
    <3>9. /\ new_blocks \in [DataBlocks -> [0 .. POINTERS_PER_BLOCK - 1 -> Nat]]
          /\ \A c \in DataBlocks \ {new_block, first_block} : new_blocks[c] = blocks[c]
          /\ new_blocks[first_block] = e
      BY <1>4, <1>7, <1>8, <3>2, <3>6, <3>8
    <3>10. PlacedIndirect
      BY <2>3, <3>2, <3>3, <3>4, <3>5, <3>8, <3>9 DEF PlacedIndirect
    <3> QED
      BY <1>1, <1>5, <3>2, <3>3, <3>4, <3>9, <3>10, Constants DEF BlocksType
  <2> QED
    BY <2>2, <2>3
<1> QED
  BY <1>9, <1>10

(* A new block leaves the size of the inode to the end of the write, and   *)
(* has the words of the round.                                             *)
LEMMA CreatedWords ==
  ASSUME job.inode \in fs_inode, new_blocks \in BlocksType, new_block \in DataBlocks
  PROVE  /\ new_inode.size = job.inode.size
         /\ new_blocks[new_block] = Filled(ZeroBlock, round_start, round_words)
<1>1. new_inode.size = job.inode.size
  BY DEF new_inode, created, fs_inode
<1> DEFINE f == with_pointer(pointer_number)
           w == Filled(ZeroBlock, round_start, round_words)
<1>2. new_blocks = [f EXCEPT ![new_block] = w]
  BY DEF new_blocks
<1> HIDE DEF f, w
<1>3. DOMAIN new_blocks = DataBlocks
  BY DEF BlocksType
<1>4. DOMAIN new_blocks = DOMAIN f
  BY <1>2
<1>5. new_blocks[new_block] = w
  BY <1>2, <1>3, <1>4
<1> QED
  BY <1>1, <1>5 DEF w

(* A round that gives the file a new block.                                *)
LEMMA BlockRound ==
  ASSUME FSInv, pc = "write", job.length > 0,
         pointer_number < MaxPointers, this_block = 0, can_create(pointer_number),
         blocks' = new_blocks,
         block_freemap' = block_freemap \cup {first_block, new_block},
         job' = [round_job EXCEPT !.inode = new_inode, !.write_inode = new_mark],
         UNCHANGED <<capacity, store, formatted, inode_freemap, cache, pc, proc, history>>
  PROVE  FSInv' /\ Wrote(new_block)
<1> DEFINE i == job.inumber
           pn == pointer_number
           blks2 == blocks'
           table2 == Live'
<1>1. /\ TypeOK /\ blocks \in BlocksType /\ store \in StoreType /\ job \in JobType
      /\ Live \in TableType /\ BlockInv /\ CopyInv /\ is_mounted
      /\ job.inode \in fs_inode
  BY CopyState
<1>2. /\ pn \in Nat
      /\ round_job \in JobType /\ round_job.inumber = i
      /\ Ptr(blocks, Live[i], pn) = 0
      /\ Same(Live[i], job.inode) /\ i \in Inumbers /\ Live[i].isvalid
  BY RoundState
<1>3. \A p \in DataPointers : p < pn => Ptr(blocks, Live[i], p) # 0
  BY RoundState
<1>4. \A p \in DataPointers : p * DISK_BLOCK_SIZE < round_job.offset => p <= pn
  BY RoundState
<1>5. /\ new_inode \in fs_inode /\ new_mark \in BOOLEAN /\ new_blocks \in BlocksType
      /\ new_block \in DataBlocks \ block_freemap
      /\ first_block \in DataBlocks \ block_freemap
      /\ PlacedDirect \/ PlacedEntry \/ PlacedIndirect
  BY Created
<1>6. /\ job' \in JobType /\ job'.inumber = i /\ job'.offset = round_job.offset
      /\ job'.inode = new_inode /\ job'.write_inode = new_mark
  BY <1>2, <1>5 DEF JobType
<1>7. TypeOK'
  <2>1. DataBlocks \subseteq 0 .. nblocks - 1
    BY Constants DEF DataBlocks
  <2>2. block_freemap' \subseteq 0 .. nblocks - 1
    BY <1>1, <1>5, <2>1 DEF TypeOK
  <2> QED
    BY <1>1, <1>5, <1>6, <2>2 DEF TypeOK, BlocksType, JobType, history
<1>8. /\ Live' \in TableType /\ Same(Live'[i], new_inode)
      /\ \A j \in Inumbers \ {i} : Live'[j] = Live[j]
  <2>1. Live' = LiveOf(store, pc, job')
    BY Types
  <2>2. /\ Live' \in TableType
        /\ Same(LiveOf(store, pc, job')[job'.inumber], job'.inode)
    BY <1>1, <1>6, <2>1, LiveInodes
  <2>3. \A j \in Inumbers \ {i} : LiveOf(store, pc, job')[j] = inode_of(store, j)
    BY <1>1, <1>6, LiveInodes
  <2>4. \A j \in Inumbers \ {i} : Live[j] = inode_of(store, j)
    BY <1>1, Types, LiveInodes
  <2> QED
    BY <1>6, <2>1, <2>2, <2>3, <2>4
<1>9. /\ Once(blocks, Live) /\ \A j \in Inumbers : Sound(blocks, Live[j])
      /\ block_freemap = 0 .. NUM_INODE_BLOCKS \cup Used(blocks, Live)
  BY <1>1 DEF BlockInv
<1>10. /\ new_block \in DataBlocks \ Used(blocks, Live)
       /\ first_block \in DataBlocks \ Used(blocks, Live)
       /\ pn \in DataPointers
  BY <1>2, <1>5, <1>9, Constants DEF DataPointers
<1>11. /\ blks2 \in BlocksType /\ blks2 = new_blocks /\ table2 \in TableType
       /\ table2[i].direct = new_inode.direct /\ table2[i].indirect = new_inode.indirect
       /\ table2[i].isvalid = new_inode.isvalid
       /\ \A j \in Inumbers \ {i} : table2[j] = Live[j]
       /\ Live[i].direct = job.inode.direct /\ Live[i].indirect = job.inode.indirect
       /\ Live[i].isvalid = job.inode.isvalid
  BY <1>2, <1>5, <1>8 DEF Same
<1> HIDE DEF blks2, table2, pn
<1>12. /\ \A j \in Inumbers : \A p \in AllPointers :
            Ptr(blks2, table2[j], p) =
              IF j = i /\ p = pn THEN new_block
              ELSE IF j = i /\ p = -1 /\ first_block # new_block THEN first_block
              ELSE Ptr(blocks, Live[j], p)
       /\ Within(Live[i], table2[i])
       /\ table2[i].isvalid
       /\ first_block # new_block =>
            pn = POINTERS_PER_INODE /\ Live[i].indirect = 0
       /\ ~new_mark => ~job.write_inode /\ new_inode = job.inode
  <2>1. CASE PlacedDirect
    <3>1. /\ pn \in 0 .. POINTERS_PER_INODE - 1
          /\ new_block = first_block /\ new_mark = TRUE
          /\ table2[i].isvalid /\ table2[i].indirect = Live[i].indirect
          /\ table2[i].direct = [Live[i].direct EXCEPT ![pn] = new_block]
          /\ \A c \in DataBlocks \ {new_block} : blks2[c] = blocks[c]
      BY <1>2, <1>11, <2>1 DEF PlacedDirect, pn
    <3>3. \A j \in Inumbers : \A p \in AllPointers :
            Ptr(blks2, table2[j], p) =
              IF j = i /\ p = pn THEN new_block ELSE Ptr(blocks, Live[j], p)
      BY <1>1, <1>2, <1>10, <1>11, <3>1, NewDirect
    <3>4. Within(Live[i], table2[i])
      <4>1. Live[i].direct \in [0 .. POINTERS_PER_INODE - 1 -> DataBlocks \cup {0}]
        BY <1>1, <1>11 DEF fs_inode
      <4>2. Live[i].direct[pn] = 0
        <5>1. pn # -1 /\ pn < POINTERS_PER_INODE
          BY <3>1, Constants
        <5> QED
          BY <1>2, <5>1 DEF Ptr, pn
      <4> QED
        BY <3>1, <4>1, <4>2 DEF Within
    <3> QED
      BY <3>1, <3>3, <3>4
  <2>2. CASE PlacedEntry
    <3>1. /\ Live[i].indirect # 0
          /\ new_block = first_block /\ new_mark = job.write_inode /\ new_inode = job.inode
          /\ table2[i].isvalid /\ table2[i].indirect = Live[i].indirect
          /\ table2[i].direct = Live[i].direct
      BY <1>2, <1>11, <2>2 DEF PlacedEntry
    <3>2. PICK k \in 0 .. POINTERS_PER_BLOCK - 1 :
            /\ pn = POINTERS_PER_INODE + k
            /\ blks2[Live[i].indirect] = [blocks[Live[i].indirect] EXCEPT ![k] = new_block]
      BY <1>11, <2>2 DEF PlacedEntry, pn
    <3>3. \A c \in DataBlocks \ {new_block, Live[i].indirect} : blks2[c] = blocks[c]
      BY <1>11, <2>2 DEF PlacedEntry
    <3>5. \A j \in Inumbers : \A p \in AllPointers :
            Ptr(blks2, table2[j], p) =
              IF j = i /\ p = POINTERS_PER_INODE + k THEN new_block
              ELSE Ptr(blocks, Live[j], p)
      BY <1>1, <1>2, <1>9, <1>10, <1>11, <3>1, <3>2, <3>3, NewEntry
    <3>6. Within(Live[i], table2[i])
      BY <3>1 DEF Within
    <3> QED
      BY <3>1, <3>2, <3>5, <3>6
  <2>3. CASE PlacedIndirect
    <3>1. /\ Live[i].indirect = 0 /\ pn = POINTERS_PER_INODE
          /\ first_block # new_block /\ new_mark = TRUE
          /\ table2[i].isvalid /\ table2[i].indirect = first_block
          /\ table2[i].direct = Live[i].direct
      BY <1>2, <1>11, <2>3 DEF PlacedIndirect, pn
    <3>2. \A k \in 0 .. POINTERS_PER_BLOCK - 1 :
            blks2[first_block][k] = IF k = 0 THEN new_block ELSE 0
      BY <1>11, <2>3 DEF PlacedIndirect
    <3>3. \A c \in DataBlocks \ {new_block, first_block} : blks2[c] = blocks[c]
      BY <1>11, <2>3 DEF PlacedIndirect
    <3>5. \A j \in Inumbers : \A p \in AllPointers :
            Ptr(blks2, table2[j], p) =
              IF j = i /\ p = POINTERS_PER_INODE THEN new_block
              ELSE IF j = i /\ p = -1 THEN first_block
              ELSE Ptr(blocks, Live[j], p)
      BY <1>1, <1>2, <1>10, <1>11, <3>1, <3>2, <3>3, NewIndirect
    <3>6. Within(Live[i], table2[i])
      BY <3>1 DEF Within
    <3> QED
      BY <3>1, <3>5, <3>6
  <2> QED
    BY <1>5, <2>1, <2>2, <2>3
<1>13. first_block # new_block => pn = POINTERS_PER_INODE /\ Ptr(blocks, Live[i], -1) = 0
  BY <1>12 DEF Ptr
<1>15. \A j \in Inumbers : Live[j].isvalid => table2[j].isvalid
  BY <1>11, <1>12
<1>16. /\ Once(blks2, table2)
       /\ \A j \in Inumbers : Sound(blks2, table2[j])
       /\ Used(blks2, table2) = Used(blocks, Live) \cup {new_block, first_block}
  <2>1. Ptr(blocks, Live[i], pn) = 0
    BY <1>2 DEF pn
  <2>2. \A q \in DataPointers : q < pn => Ptr(blocks, Live[i], q) # 0
    BY <1>3 DEF pn
  <2>4. \A j \in Inumbers : \A p \in AllPointers :
          Ptr(blks2, table2[j], p) =
            IF j = i /\ p = pn THEN new_block
            ELSE IF j = i /\ p = -1 /\ first_block # new_block THEN first_block
            ELSE Ptr(blocks, Live[j], p)
    BY <1>12
  <2>5. Once(blocks, Live) /\ \A j \in Inumbers : Sound(blocks, Live[j])
    BY <1>9
  <2>6. pn \in DataPointers /\ i \in Inumbers /\ table2[i].isvalid
    BY <1>2, <1>10, <1>12
  <2> QED
    <3>1. Adds(blocks, Live, blks2, table2, i, pn, new_block, first_block)
      BY <1>10, <1>13, <1>15, <2>1, <2>2, <2>4, <2>5, <2>6 DEF Adds
    <3>2. Once(blks2, table2)
      BY <2>6, <3>1, AddedPointer
    <3>3. \A j \in Inumbers : Sound(blks2, table2[j])
      BY <2>6, <3>1, AddedPointer
    <3>4. Used(blks2, table2) = Used(blocks, Live) \cup {new_block, first_block}
      BY <2>6, <3>1, AddedPointer
    <3> QED
      BY <3>2, <3>3, <3>4
<1>17. block_freemap' = 0 .. NUM_INODE_BLOCKS \cup Used(blks2, table2)
  BY <1>9, <1>12, <1>16
<1>18. ASSUME NEW p \in DataPointers, p * DISK_BLOCK_SIZE < job'.offset
       PROVE  Ptr(blks2, table2[i], p) # 0
  <2>1. p <= pn /\ p \in AllPointers /\ p # -1 /\ p \in Nat
    BY <1>4, <1>6, <1>18, PointerRange DEF pn
  <2>2. CASE p = pn
    BY <1>2, <1>5, <1>12, <2>1, <2>2, Constants
  <2>3. CASE p # pn
    <3>1. Ptr(blocks, Live[i], p) # 0
      BY <1>2, <1>3, <2>1, <2>3 DEF pn
    <3> QED
      BY <1>2, <1>12, <2>1, <2>3, <3>1
  <2> QED
    BY <2>2, <2>3
<1>19. ~job'.write_inode => job'.inode = inode_of(store, i)
  BY <1>1, <1>6, <1>12 DEF CopyInv
<1>20. /\ Once(blocks', Live') /\ \A j \in Inumbers : Sound(blocks', Live'[j])
       /\ Within(Live[i], Live'[i])
       /\ block_freemap' = 0 .. NUM_INODE_BLOCKS \cup Used(blocks', Live')
       /\ \A p \in DataPointers : p * DISK_BLOCK_SIZE < job'.offset
                                    => Ptr(blocks', Live'[i], p) # 0
  BY <1>12, <1>16, <1>17, <1>18 DEF blks2, table2
<1>21. Wrote(new_block)
  <2>1. /\ new_inode.size = job.inode.size
        /\ blks2[new_block] = Filled(ZeroBlock, round_start, round_words)
    BY <1>1, <1>5, <1>11, CreatedWords
  <2>2. job'.word = job.word /\ job'.offset = job.offset + round_words
    <3>1. round_job.word = job.word /\ round_job.offset = job.offset + round_words
      BY RoundJob
    <3> QED
      BY <1>2, <3>1 DEF JobType
  <2>3. Live'[i].size = IF job.offset + round_words > Live[i].size
                          THEN job.offset + round_words ELSE Live[i].size
    BY <1>6, <2>1, <2>2, RoundSize
  <2>4. /\ Live'[i].isvalid /\ Disk' = Disk
        /\ \A j \in Inumbers \ {i} : Live'[j] = Live[j]
    BY <1>8, <1>12 DEF Disk, table2
  <2>5. ASSUME NEW j \in Inumbers, NEW p \in DataPointers, j # i \/ p # pn
        PROVE  /\ Ptr(blks2, table2[j], p) = Ptr(blocks, Live[j], p)
               /\ Ptr(blocks, Live[j], p) # 0 =>
                    blks2[Ptr(blocks, Live[j], p)] = blocks[Ptr(blocks, Live[j], p)]
    <3> DEFINE c == Ptr(blocks, Live[j], p)
    <3>1. p \in AllPointers /\ p # -1 /\ -1 \in AllPointers
      BY PointerRange
    <3>2. Ptr(blks2, table2[j], p) = c
      BY <1>12, <2>5, <3>1
    <3>3. c # 0 => /\ c \in DataBlocks /\ c \in Used(blocks, Live)
                   /\ c # Live[i].indirect
      <4>1. c # 0 => c \in DataBlocks
        BY <1>9 DEF Sound
      <4>2. Live[i].indirect = Ptr(blocks, Live[i], -1)
        BY DEF Ptr
      <4>3. c # 0 => c # Ptr(blocks, Live[i], -1)
        BY <1>2, <1>9, <3>1 DEF Once
      <4> QED
        BY <3>1, <4>1, <4>2, <4>3 DEF Used
    <3> HIDE DEF c
    <3>4. c # 0 => c # new_block /\ c # first_block
      BY <1>10, <3>3
    <3>5. c # 0 => blks2[c] = blocks[c]
      BY <1>5, <1>11, <3>3, <3>4 DEF PlacedDirect, PlacedEntry, PlacedIndirect
    <3> QED
      BY <3>2, <3>5 DEF c
  <2>6. Ptr(blks2, table2[i], pn) = new_block /\ new_block # 0
    BY <1>2, <1>5, <1>10, <1>12, PointerRange, Constants
  <2>7. \A k \in 0 .. DISK_BLOCK_SIZE - 1 :
          round_start <= k /\ k < round_start + round_words
            => blks2[new_block][k] = job.word
    BY <2>1 DEF Filled
  <2> QED
    BY <1>6, <2>2, <2>3, <2>4, <2>5, <2>6, <2>7 DEF Wrote, blks2, table2, pn
<1> QED
  BY <1>2, <1>6, <1>7, <1>19, <1>20, <1>21, RoundStep

(* One round of the loop of fs_write.                                      *)
LEMMA WriteStep ==
  ASSUME FSInv, write_block
  PROVE  /\ FSInv'
         /\ Kept \/ (pointer_number \in DataPointers /\ \E b : Wrote(b))
<1>1. /\ pc = "write" /\ job.length > 0
      /\ UNCHANGED <<capacity, store, formatted, inode_freemap, cache, pc, history>>
  BY DEF write_block, Copying
<1>2. pointer_number < MaxPointers => pointer_number \in DataPointers
  BY <1>1, RoundState, Constants DEF DataPointers
<1>3. CASE proc' = "overrun" /\ UNCHANGED <<blocks, block_freemap, job>>
  <2>1. TypeOK'
    BY <1>1, <1>3, CopyState DEF TypeOK, Faults, history
  <2> QED
    BY <1>1, <1>3, <2>1, Frame
<1>4. CASE /\ pointer_number < MaxPointers /\ this_block # 0
           /\ blocks' = [blocks EXCEPT ![this_block] =
                           Filled(@, round_start, round_words)]
           /\ job' = round_job
           /\ UNCHANGED <<block_freemap, proc>>
  BY <1>1, <1>2, <1>4, DataRound DEF memory
<1>5. CASE /\ pointer_number < MaxPointers /\ this_block = 0
           /\ can_create(pointer_number)
           /\ blocks' = new_blocks
           /\ block_freemap' = block_freemap \cup {first_block, new_block}
           /\ job' = [round_job EXCEPT !.inode = new_inode, !.write_inode = new_mark]
           /\ UNCHANGED proc
  BY <1>1, <1>2, <1>5, BlockRound
<1> QED
  BY <1>3, <1>4, <1>5
  DEF write_block, pointer_number, round_start, round_words, round_job, this_block,
      new_block, new_inode, new_mark, new_blocks
-----------------------------------------------------------------------------
(* The theorems.                                                           *)

(* Every step keeps the invariant.                                         *)
LEMMA FSStep ==
  ASSUME StrayNames = FALSE, FSInv, [Next]_vars
  PROVE  FSInv'
<1>1. CASE UNCHANGED vars
  <2>1. TypeOK'
    BY <1>1, PromptState DEF TypeOK, vars, memory, history
  <2> QED
    BY <1>1, <2>1, Frame DEF vars, memory
<1>2. CASE fs_format
  BY <1>2, FormatStep
<1>3. CASE fs_mount
  BY <1>3, MountStep
<1>4. CASE fs_unmount \/ quit
  BY <1>4, UnmountStep
<1>5. CASE fs_debug
  BY <1>5, DebugStep
<1>6. CASE fs_create
  BY <1>6, CreateStep
<1>7. ASSUME NEW i \in Inumbers, fs_delete(i) PROVE FSInv'
  BY <1>7, DeleteStep
<1>8. ASSUME NEW i \in Inumbers, fs_getsize(i) PROVE FSInv'
  BY <1>8, LookStep DEF fs_getsize, Named
<1>9. ASSUME NEW i \in Inumbers, do_copyout(i) PROVE FSInv'
  BY <1>9, LookStep DEF do_copyout
<1>10. ASSUME NEW i \in Inumbers, NEW n \in Lengths, do_copyin(i, n) PROVE FSInv'
  BY <1>10, CopyinStep
<1>11. CASE fs_write_begin
  BY <1>11, BeginStep
<1>12. CASE write_block
  BY <1>12, WriteStep
<1>13. CASE fs_write_end
  BY <1>13, EndWriteStep
<1>14. CASE disk_close \/ end_of_input \/ killed
  BY <1>14, EndStep DEF disk_close, end_of_input, killed
<1>15. ASSUME NEW c \in Capacities, main(c) PROVE FSInv'
  BY <1>15, MainStep
<1> QED
  BY <1>1, <1>2, <1>3, <1>4, <1>5, <1>6, <1>7, <1>8, <1>9, <1>10, <1>11, <1>12,
     <1>13, <1>14, <1>15 DEF Next

(* The invariant in terms of the properties.                               *)
LEMMA FSProperties ==
  ASSUME FSInv
  PROVE  /\ TypeOK /\ BlocksOwnedOnce /\ DiskRecoverable
         /\ CleanInodeMatchesDisk /\ CreatedFileIsValid
<1>1. /\ TypeOK /\ CacheOK(store) /\ store \in StoreType
      /\ blocks \in BlocksType /\ Disk \in TableType /\ Live \in TableType
      /\ TableInv /\ BlockInv
  BY PromptState DEF FSInv
<1>2. BlocksOwnedOnce
  <2>1. \A i \in Inumbers : Sound(blocks, Live[i])
    BY <1>1 DEF BlockInv
  <2>2. OwnedOnce(Live) <=> Once(blocks, Live)
    BY <1>1, <2>1, OwnedIsUsed
  <2>3. Owned(Live) = Used(blocks, Live)
    BY <1>1, <2>1, OwnedIsUsed
  <2> QED
    BY <1>1, <2>2, <2>3 DEF BlockInv, BlocksOwnedOnce
<1>3. DiskRecoverable
  <2>1. Once(blocks, Disk) /\ \A i \in Inumbers : Sound(blocks, Disk[i])
    BY DiskOwnsOnce
  <2>2. OwnedOnce(Disk) <=> Once(blocks, Disk)
    BY <1>1, <2>1, OwnedIsUsed
  <2>3. Owned(Disk) = Used(blocks, Disk)
    BY <1>1, <2>1, OwnedIsUsed
  <2>4. used_blocks(Disk) = 0 .. NUM_INODE_BLOCKS \cup Used(blocks, Disk)
    BY <1>1, <2>1, ScanFindsAll
  <2> QED
    BY <2>1, <2>2, <2>3, <2>4 DEF DiskRecoverable, Disk
<1>4. CleanInodeMatchesDisk
  BY <1>1, Cached DEF CacheOK, CleanInodeMatchesDisk
<1>5. CreatedFileIsValid
  BY <1>1 DEF TableInv, TypeOK, CreatedFileIsValid
<1> QED
  BY <1>1, <1>2, <1>3, <1>4, <1>5

(* The invariant of the file system.                                       *)
THEOREM FileSystemSound ==
  ASSUME StrayNames = FALSE PROVE Spec => []FSInv
<1>1. Init => FSInv
  BY FSInit
<1>2. FSInv /\ [Next]_vars => FSInv'
  BY FSStep
<1> QED
  BY <1>1, <1>2, PTL DEF Spec

(* The variables of fs.c, cache.c and shell.c keep their types.            *)
THEOREM FileSystemTypes ==
  ASSUME StrayNames = FALSE PROVE Spec => []TypeOK
<1>1. FSInv => TypeOK
  BY FSProperties
<1> QED
  BY <1>1, FileSystemSound, PTL

(* No block of the disk belongs to two files or twice to one, and the free *)
(* map in memory is exact, through create, delete, copyin, a full disk,    *)
(* eviction and remounting.                                                *)
THEOREM FilesShareNoBlock ==
  ASSUME StrayNames = FALSE PROVE Spec => []BlocksOwnedOnce
<1>1. FSInv => BlocksOwnedOnce
  BY FSProperties
<1> QED
  BY <1>1, FileSystemSound, PTL

(* A process that ends anywhere leaves a disk whose inodes share no block, *)
(* and fs_mount's scan finds every block they own.                         *)
THEOREM MountRecovers ==
  ASSUME StrayNames = FALSE PROVE Spec => []DiskRecoverable
<1>1. FSInv => DiskRecoverable
  BY FSProperties
<1> QED
  BY <1>1, FileSystemSound, PTL

(* The inode cache loses no change: what it may drop without writing is on *)
(* the disk.                                                               *)
THEOREM CacheWritesBack ==
  ASSUME StrayNames = FALSE PROVE Spec => []CleanInodeMatchesDisk
<1>1. FSInv => CleanInodeMatchesDisk
  BY FSProperties
<1> QED
  BY <1>1, FileSystemSound, PTL

(* The numbers marked in use, fs_create's among them, are those of the     *)
(* valid inodes, as long as no command names an inode without a file.      *)
THEOREM NumbersAreFiles ==
  ASSUME StrayNames = FALSE PROVE Spec => []CreatedFileIsValid
<1>1. FSInv => CreatedFileIsValid
  BY FSProperties
<1> QED
  BY <1>1, FileSystemSound, PTL
-----------------------------------------------------------------------------
(* The refinement of FileStore: sizes.                                     *)

\* Every word up to the size is in a block.
Fits(blks, n) ==
  \A k \in 0 .. n.size - 1 : /\ k \div DISK_BLOCK_SIZE \in DataPointers
                             /\ Ptr(blks, n, k \div DISK_BLOCK_SIZE) # 0

\* The disk has a shorter inode of each file, and its size is covered too.
Covered(blks, old, new) ==
  /\ Fits(blks, old) /\ Fits(blks, new)
  /\ old.size <= new.size
  /\ new.isvalid => old.isvalid

\* A copyin leaves no hole: it writes within the file or at its end.
SizeInv ==
  /\ \A i \in Inumbers : Covered(blocks, Disk[i], Live[i])
  /\ pc \in {"copyin", "write"} =>
       job.offset <= Live[job.inumber].size /\ job.word > 0

(* An inode without words needs no blocks.                                 *)
LEMMA NothingToFit ==
  ASSUME NEW blks, NEW n, n.size = 0
  PROVE  Fits(blks, n) /\ Covered(blks, n, n)
BY DEF Fits, Covered

(* The words a round writes are the words of its part of the block.        *)
LEMMA RoundRange ==
  ASSUME NEW o \in Nat, NEW length \in Nat, length > 0, NEW k \in Nat
  PROVE  LET start == o % DISK_BLOCK_SIZE
             n == IF DISK_BLOCK_SIZE - start < length THEN DISK_BLOCK_SIZE - start
                  ELSE length
         IN /\ k \div DISK_BLOCK_SIZE \in Nat
            /\ k % DISK_BLOCK_SIZE \in 0 .. DISK_BLOCK_SIZE - 1
            /\ (o <= k /\ k < o + n) <=>
                 /\ k \div DISK_BLOCK_SIZE = o \div DISK_BLOCK_SIZE
                 /\ start <= k % DISK_BLOCK_SIZE /\ k % DISK_BLOCK_SIZE < start + n
<1> DEFINE B == DISK_BLOCK_SIZE
           pn == o \div B
           start == o % B
           n == IF B - start < length THEN B - start ELSE length
           q == k \div B
           r == k % B
<1>1. B \in Nat /\ B > 0
  BY Constants
<1> HIDE DEF B
<1>2. pn \in Nat /\ start \in Nat /\ start < B /\ o = B * pn + start
  BY <1>1
<1>3. q \in Nat /\ r \in Nat /\ r < B /\ k = B * q + r
  BY <1>1
<1> HIDE DEF pn, start, q, r
<1>4. n \in Nat /\ start + n <= B
  BY <1>1, <1>2
<1> HIDE DEF n
<1>5. ASSUME o <= k, k < o + n PROVE q = pn
  <2>1. ~(q + 1 <= pn)
    <3>1. SUFFICES ASSUME q + 1 <= pn PROVE FALSE
      OBVIOUS
    <3>2. B * (q + 1) <= B * pn /\ B * (q + 1) = B * q + B
      BY <1>1, <1>2, <1>3, <3>1
    <3> QED
      BY <1>1, <1>2, <1>3, <1>5, <3>2
  <2>2. ~(pn + 1 <= q)
    <3>1. SUFFICES ASSUME pn + 1 <= q PROVE FALSE
      OBVIOUS
    <3>2. B * (pn + 1) <= B * q /\ B * (pn + 1) = B * pn + B
      BY <1>1, <1>2, <1>3, <3>1
    <3> QED
      BY <1>1, <1>2, <1>3, <1>4, <1>5, <3>2
  <2> QED
    BY <1>2, <1>3, <2>1, <2>2
<1>6. q = pn => (o <= k /\ k < o + n <=> start <= r /\ r < start + n)
  BY <1>1, <1>2, <1>3, <1>4
<1>7. (o <= k /\ k < o + n) <=> (q = pn /\ start <= r /\ r < start + n)
  BY <1>5, <1>6
<1> QED
  BY <1>1, <1>3, <1>7 DEF B, pn, start, n, q, r

(* A step that changes no file changes no size.                            *)
LEMMA KeptSizes ==
  ASSUME FSInv, SizeInv, FSInv', Kept
  PROVE  SizeInv'
<1>1. Live \in TableType /\ Disk \in TableType /\ blocks' = blocks
  BY PromptState DEF Kept
<1>2. ASSUME NEW i \in Inumbers PROVE Covered(blocks, Disk'[i], Live'[i])
  <2>1. Covered(blocks, Disk[i], Live[i]) /\ Live[i].size \in Nat
    BY <1>1 DEF SizeInv, TableType, fs_inode
  <2>2. Covered(blocks, Live[i], Live[i])
    BY <2>1 DEF Covered
  <2>3. Live'[i] = Live[i] /\ (Disk'[i] = Disk[i] \/ Disk'[i] = Live[i])
    BY DEF Kept
  <2> QED
    BY <2>1, <2>2, <2>3
<1>3. pc' \in {"copyin", "write"} =>
        job'.offset <= Live'[job'.inumber].size /\ job'.word > 0
  <2>1. SUFFICES ASSUME pc' \in {"copyin", "write"}
                 PROVE  job'.offset <= Live'[job'.inumber].size /\ job'.word > 0
    OBVIOUS
  <2>2. job'.inumber \in Inumbers /\ Live' \in TableType
    BY Types, LiveInodes DEF FSInv, JobType
  <2>3. Live'[job'.inumber].size \in Nat /\ Live'[job'.inumber] = Live[job'.inumber]
    BY <2>2 DEF TableType, fs_inode, Kept
  <2> QED
    BY <2>1, <2>3 DEF Kept, SizeInv
<1> QED
  BY <1>1, <1>2, <1>3 DEF SizeInv

(* A step that leaves every file with the size the disk has.               *)
LEMMA DiskSizes ==
  ASSUME FSInv', pc' \notin {"copyin", "write"},
         \A i \in Inumbers : Live'[i] = Disk'[i] /\ Fits(blocks', Disk'[i])
  PROVE  SizeInv'
<1>1. Disk' \in TableType
  BY Types DEF FSInv
<1>2. \A i \in Inumbers : Covered(blocks', Disk'[i], Live'[i])
  BY <1>1 DEF Covered, TableType, fs_inode
<1> QED
  BY <1>2 DEF SizeInv

(* The same for an end of the process, a mount and a format.               *)
LEMMA RestartedSizes ==
  ASSUME FSInv, SizeInv, FSInv', Restarted
  PROVE  SizeInv'
<1>1. \A i \in Inumbers : Fits(blocks, Disk[i])
  BY DEF SizeInv, Covered
<1> QED
  BY <1>1, DiskSizes DEF Restarted

(* Creating and deleting leave an inode without words.                     *)
LEMMA MadeSizes ==
  ASSUME FSInv, SizeInv, FSInv', pc' = "shell", NEW i \in Inumbers, Made(i) \/ Gone(i)
  PROVE  SizeInv'
<1>1. NewInode.size = 0 /\ EmptyInode.size = 0
  BY DEF NewInode, EmptyInode
<1>2. Covered(blocks, Disk'[i], Live'[i])
  BY <1>1, NothingToFit DEF Made, Gone
<1>3. ASSUME NEW j \in Inumbers \ {i} PROVE Covered(blocks, Disk'[j], Live'[j])
  <2>1. Covered(blocks, Disk[j], Live[j]) /\ Live[j].size \in Nat
    BY PromptState DEF SizeInv, TableType, fs_inode
  <2>2. Covered(blocks, Live[j], Live[j])
    BY <2>1 DEF Covered
  <2>3. Live'[j] = Live[j] /\ (Disk'[j] = Disk[j] \/ Disk'[j] = Live[j])
    BY DEF Made, Gone
  <2> QED
    BY <2>1, <2>2, <2>3
<1>4. blocks' = blocks
  BY DEF Made, Gone
<1> QED
  BY <1>2, <1>3, <1>4 DEF SizeInv

(* A pointer an older inode has stays the file's.                          *)
LEMMA OlderMapped ==
  ASSUME NEW blks \in BlocksType, NEW blks2 \in BlocksType,
         NEW old \in fs_inode, NEW new \in fs_inode,
         Within(old, new), NEW p \in DataPointers,
         Ptr(blks, old, p) # 0
  PROVE  Ptr(blks2, old, p) = Ptr(blks2, new, p)
<1>1. CASE p \in 0 .. POINTERS_PER_INODE - 1
  BY <1>1, PointerKinds DEF Within
<1>2. CASE \E k \in 0 .. POINTERS_PER_BLOCK - 1 : p = POINTERS_PER_INODE + k
  <2>1. PICK k \in 0 .. POINTERS_PER_BLOCK - 1 : p = POINTERS_PER_INODE + k
    BY <1>2
  <2>2. old.indirect # 0
    BY <2>1, PointerKinds
  <2>3. new.indirect = old.indirect
    BY <2>2 DEF Within
  <2> QED
    BY <2>1, <2>3, PointerKinds
<1> QED
  BY <1>1, <1>2, PointerRange

(* A round keeps the words of every file in blocks.                        *)
LEMMA WroteSizes ==
  ASSUME FSInv, SizeInv, FSInv', pc = "write", job.length > 0,
         pointer_number \in DataPointers, NEW b, Wrote(b)
  PROVE  SizeInv'
<1> DEFINE i == job.inumber
           pn == pointer_number
           B == DISK_BLOCK_SIZE
           o == job.offset
           to == job.offset + round_words
<1>1. /\ blocks \in BlocksType /\ Live \in TableType /\ Disk \in TableType
      /\ BlockInv /\ i \in Inumbers /\ o \in Nat /\ to \in Nat
      /\ job.length \in Nat
  BY CopyState, RoundJob
<1>2. blocks' \in BlocksType /\ Live' \in TableType /\ BlockInv'
  BY Types, LiveInodes DEF FSInv
<1>3. /\ Live'[i].size = IF to > Live[i].size THEN to ELSE Live[i].size
      /\ Live'[i].isvalid /\ Disk' = Disk
      /\ \A j \in Inumbers \ {i} : Live'[j] = Live[j]
  BY DEF Wrote
<1>4. ASSUME NEW j \in Inumbers, NEW p \in DataPointers, Ptr(blocks, Live[j], p) # 0
      PROVE  Ptr(blocks', Live'[j], p) # 0
  BY <1>4 DEF Wrote
<1>5. Live[i].size \in Nat /\ Live'[i].size \in Nat /\ o <= Live[i].size
  BY <1>1, <1>2 DEF TableType, fs_inode, SizeInv
<1>6. Fits(blocks', Live'[i])
  <2>1. ASSUME NEW k \in 0 .. Live'[i].size - 1
        PROVE  k \div B \in DataPointers /\ Ptr(blocks', Live'[i], k \div B) # 0
    <3>1. k \in Nat
      BY <1>5
    <3>2. CASE k < Live[i].size
      <4>1. k \in 0 .. Live[i].size - 1
        BY <1>5, <3>1, <3>2
      <4>2. k \div B \in DataPointers /\ Ptr(blocks, Live[i], k \div B) # 0
        BY <1>1, <4>1 DEF SizeInv, Covered, Fits
      <4> QED
        BY <1>1, <1>4, <4>2
    <3>3. CASE ~(k < Live[i].size)
      <4>1. o <= k /\ k < to
        BY <1>1, <1>3, <1>5, <2>1, <3>1, <3>3
      <4>2. k \div B = pn
        BY <1>1, <3>1, <4>1, RoundRange DEF pointer_number, round_words, round_start
      <4>3. Ptr(blocks', Live'[i], pn) # 0
        BY DEF Wrote
      <4> QED
        BY <4>2, <4>3
    <3> QED
      BY <3>2, <3>3
  <2> QED
    BY <2>1 DEF Fits
<1>7. ASSUME NEW j \in Inumbers \ {i} PROVE Fits(blocks', Live'[j])
  <2>1. Fits(blocks, Live[j]) /\ Live'[j] = Live[j]
    BY <1>3 DEF SizeInv, Covered
  <2> QED
    BY <1>4, <2>1 DEF Fits
<1>8. ASSUME NEW j \in Inumbers PROVE Fits(blocks', Disk[j])
  <2>1. ASSUME NEW k \in 0 .. Disk[j].size - 1
        PROVE  k \div B \in DataPointers /\ Ptr(blocks', Disk[j], k \div B) # 0
    <3> DEFINE p == k \div B
    <3>1. p \in DataPointers /\ Ptr(blocks, Disk[j], p) # 0
      BY <2>1 DEF SizeInv, Covered, Fits
    <3> HIDE DEF p
    <3>2. Within(Disk[j], Live[j]) /\ Within(Disk[j], Live'[j])
      BY <1>1, <1>2, <1>3 DEF BlockInv
    <3>3. Disk[j] \in fs_inode /\ Live[j] \in fs_inode /\ Live'[j] \in fs_inode
      BY <1>1, <1>2 DEF TableType
    <3>4. Ptr(blocks, Disk[j], p) = Ptr(blocks, Live[j], p)
      BY <1>1, <3>1, <3>2, <3>3, OlderMapped
    <3>5. Ptr(blocks', Disk[j], p) = Ptr(blocks', Live'[j], p)
      BY <1>1, <1>2, <3>1, <3>2, <3>3, OlderMapped
    <3> QED
      BY <1>4, <3>1, <3>4, <3>5 DEF p
  <2> QED
    BY <2>1 DEF Fits
<1>9. ASSUME NEW j \in Inumbers PROVE Covered(blocks', Disk[j], Live'[j])
  <2>1. /\ Disk[j].size <= Live[j].size
        /\ Live[j].isvalid => Disk[j].isvalid
        /\ Disk[j].size \in Nat /\ Live[j].size \in Nat
    BY <1>1 DEF SizeInv, Covered, TableType, fs_inode
  <2>2. CASE j = i
    <3>1. Live[i].isvalid
      BY RoundState
    <3> QED
      BY <1>1, <1>3, <1>6, <1>8, <2>1, <2>2, <3>1 DEF Covered
  <2>3. CASE j # i
    BY <1>3, <1>7, <1>8, <2>1, <2>3 DEF Covered
  <2> QED
    BY <2>2, <2>3
<1>10. job'.inumber = i /\ job'.offset = to /\ job'.word = job.word /\ job.word > 0
  BY DEF Wrote, SizeInv
<1>11. job'.offset <= Live'[job'.inumber].size
  BY <1>1, <1>3, <1>5, <1>10
<1> QED
  BY <1>3, <1>9, <1>10, <1>11 DEF SizeInv

StoreInv == FSInv /\ SizeInv

(* A new disk has no words.                                                *)
LEMMA StoreInvInit == Init => StoreInv
<1> SUFFICES ASSUME Init PROVE StoreInv
  OBVIOUS
<1>1. FSInv
  BY FSInit
<1> DEFINE none == [i \in Inumbers |-> EmptyInode]
<1>2. none \in [Inumbers -> fs_inode] /\ \A i \in Inumbers : none[i] = EmptyInode
  BY EmptyIsInode
<1>3. store = newCache(none) /\ pc = "shell"
  BY DEF Init
<1> HIDE DEF none
<1>4. \A i \in Inumbers : Disk[i] = EmptyInode /\ inode_of(store, i) = EmptyInode
  BY <1>2, <1>3, NewCache DEF Disk
<1>5. \A i \in Inumbers : Live[i] = EmptyInode
  BY <1>1, <1>3, <1>4, PromptState, Types, LiveInodes
<1>6. Covered(blocks, EmptyInode, EmptyInode)
  BY EmptyIsInode, NothingToFit
<1> QED
  BY <1>1, <1>3, <1>4, <1>5, <1>6 DEF StoreInv, SizeInv

(* Every step keeps the sizes covered.                                     *)
LEMMA StoreInvStep ==
  ASSUME StrayNames = FALSE, StoreInv, [Next]_vars
  PROVE  StoreInv'
<1>1. FSInv /\ SizeInv /\ FSInv'
  BY FSStep DEF StoreInv
<1> SUFFICES SizeInv'
  BY <1>1 DEF StoreInv
<1>2. CASE UNCHANGED vars
  <2>1. TypeOK'
    BY <1>1 DEF FSInv
  <2> QED
    BY <1>1, <1>2, <2>1, Frame, KeptSizes DEF vars, memory
<1>3. CASE fs_format
  <2>1. /\ \A i \in Inumbers : Live'[i] = EmptyInode /\ Disk'[i] = EmptyInode
        /\ pc' = "shell"
    BY <1>1, <1>3, FormatStep DEF fs_format, AtPrompt
  <2> QED
    BY <1>1, <2>1, EmptyIsInode, NothingToFit, DiskSizes
<1>4. CASE fs_mount \/ disk_close \/ end_of_input \/ killed
  BY <1>1, <1>4, MountStep, EndStep, RestartedSizes DEF disk_close, end_of_input, killed
<1>5. CASE fs_unmount \/ quit \/ fs_debug \/ fs_write_end
  BY <1>1, <1>5, UnmountStep, DebugStep, EndWriteStep, KeptSizes
<1>6. CASE fs_create
  BY <1>1, <1>6, CreateStep, MadeSizes DEF fs_create, AtPrompt
<1>7. ASSUME NEW i \in Inumbers, fs_delete(i) PROVE SizeInv'
  <2>1. Kept \/ Gone(i)
    BY <1>1, <1>7, DeleteStep
  <2>2. pc' = pc /\ pc = "shell"
    BY <1>7 DEF fs_delete, AtPrompt, Die
  <2> QED
    BY <1>1, <2>1, <2>2, KeptSizes, MadeSizes
<1>8. ASSUME NEW i \in Inumbers, fs_getsize(i) \/ do_copyout(i) PROVE SizeInv'
  BY <1>1, <1>8, LookStep, KeptSizes DEF fs_getsize, do_copyout, Named
<1>9. ASSUME NEW i \in Inumbers, NEW n \in Lengths, do_copyin(i, n) PROVE SizeInv'
  BY <1>1, <1>9, CopyinStep, KeptSizes
<1>10. CASE fs_write_begin
  <2>1. job.offset <= Live[job.inumber].size
    BY <1>1, <1>10 DEF SizeInv, fs_write_begin, Copying
  <2> QED
    BY <1>1, <1>10, <2>1, BeginStep, KeptSizes
<1>11. CASE write_block
  <2>1. pc = "write" /\ job.length > 0
    BY <1>11 DEF write_block, Copying
  <2> QED
    BY <1>1, <1>11, <2>1, WriteStep, KeptSizes, WroteSizes
<1>12. ASSUME NEW c \in Capacities, main(c) PROVE SizeInv'
  BY <1>1, <1>12, MainStep, KeptSizes
<1> QED
  BY <1>2, <1>3, <1>4, <1>5, <1>6, <1>7, <1>8, <1>9, <1>10, <1>11, <1>12 DEF Next

(* The inductive invariant of the refinement: every word of every file, in *)
(* memory and on the disk, is in a block of the file, the disk never has   *)
(* more of a file than there is, and fs_write leaves no hole.              *)
THEOREM SizesCovered ==
  ASSUME StrayNames = FALSE PROVE Spec => []StoreInv
<1>1. StoreInv /\ [Next]_vars => StoreInv'
  BY StoreInvStep
<1> QED
  BY <1>1, StoreInvInit, PTL DEF Spec
-----------------------------------------------------------------------------
(* The refinement of FileStore: contents.                                  *)

\* The word at an offset, and all the words of a file.
WordAt(blks, n, k) == blks[Ptr(blks, n, k \div DISK_BLOCK_SIZE)][k % DISK_BLOCK_SIZE]
WordsOf(blks, n) == [k \in 1 .. n.size |-> WordAt(blks, n, k - 1)]

FileOf(blks, n) == IF n.isvalid THEN WordsOf(blks, n) ELSE NoFile

\* The abstract state: files of FileStore as FileSystem maps it, and by words.
Files == [i \in Inumbers |-> IF Live[i].isvalid THEN fs_read(Live[i]) ELSE NoFile]
Contents == [i \in Inumbers |-> FileOf(blocks, Live[i])]

(* The words of a file are a sequence, by position, and no NoFile.         *)
LEMMA WordsSeq ==
  ASSUME NEW blks \in BlocksType, NEW n \in fs_inode, Sound(blks, n), Fits(blks, n)
  PROVE  /\ WordsOf(blks, n) \in Seq(Nat)
         /\ Len(WordsOf(blks, n)) = n.size
         /\ \A k \in 1 .. n.size : WordsOf(blks, n)[k] = WordAt(blks, n, k - 1)
         /\ WordsOf(blks, n) # NoFile
<1>1. n.size \in Nat /\ DISK_BLOCK_SIZE \in Nat /\ DISK_BLOCK_SIZE > 0
  BY Constants DEF fs_inode
<1>2. ASSUME NEW k \in 1 .. n.size PROVE WordAt(blks, n, k - 1) \in Nat
  <2> DEFINE p == (k - 1) \div DISK_BLOCK_SIZE
             r == (k - 1) % DISK_BLOCK_SIZE
  <2>1. k - 1 \in 0 .. n.size - 1 /\ k - 1 \in Nat
    BY <1>1
  <2>2. p \in DataPointers /\ Ptr(blks, n, p) # 0
    BY <2>1 DEF Fits
  <2>3. r \in 0 .. DISK_BLOCK_SIZE - 1
    BY <1>1, <2>1
  <2> HIDE DEF p, r
  <2>4. Ptr(blks, n, p) \in DataBlocks
    BY <2>2 DEF Sound
  <2>5. blks[Ptr(blks, n, p)][r] \in Nat
    BY <2>3, <2>4 DEF BlocksType
  <2> QED
    BY <2>5 DEF WordAt, p, r
<1>3. WordsOf(blks, n) \in [1 .. n.size -> Nat]
  BY <1>2 DEF WordsOf
<1>4. WordsOf(blks, n) \in Seq(Nat) /\ Len(WordsOf(blks, n)) = n.size
  BY <1>1, <1>3
<1>5. \A k \in 1 .. n.size : WordsOf(blks, n)[k] = WordAt(blks, n, k - 1)
  BY DEF WordsOf
<1> QED
  BY <1>4, <1>5, NoFileAssumption

(* Files with the same words.                                              *)
LEMMA SameWords ==
  ASSUME NEW blks, NEW blks2, NEW n, NEW n2, n.size \in Nat, n2.size = n.size,
         \A k \in 0 .. n.size - 1 : WordAt(blks2, n2, k) = WordAt(blks, n, k)
  PROVE  WordsOf(blks2, n2) = WordsOf(blks, n)
<1>1. \A k \in 1 .. n.size : k - 1 \in 0 .. n.size - 1
  OBVIOUS
<1>2. \A k \in 1 .. n.size : WordAt(blks2, n2, k - 1) = WordAt(blks, n, k - 1)
  BY <1>1
<1> QED
  BY <1>2 DEF WordsOf

(* fs_read stops at the end of the file: there is no hole before it.       *)
LEMMA ReadsAll ==
  ASSUME NEW n \in fs_inode, Fits(blocks, n)
  PROVE  fs_read(n) = WordsOf(blocks, n)
<1> DEFINE mapped(k) == get_block_number_for_offset(n, k) # 0
           stop(m) == /\ \A k \in 0 .. m - 1 : mapped(k)
                      /\ m = n.size \/ ~mapped(m)
           end == CHOOSE m \in 0 .. n.size : stop(m)
<1>1. n.size \in Nat
  BY DEF fs_inode
<1>2. \A k \in 0 .. n.size - 1 : mapped(k)
  <2>1. ASSUME NEW k \in 0 .. n.size - 1 PROVE mapped(k)
    <3>1. k \in Nat /\ Ptr(blocks, n, k \div DISK_BLOCK_SIZE) # 0
      BY <1>1 DEF Fits
    <3> QED
      BY <3>1, PointerIsPtr
  <2> QED
    BY <2>1
<1>3. fs_read(n) = [k \in 1 .. end |->
                      blocks[get_block_number_for_offset(n, k - 1)]
                            [(k - 1) % DISK_BLOCK_SIZE]]
  BY DEF fs_read
<1> HIDE DEF mapped
<1>4. n.size \in 0 .. n.size /\ stop(n.size)
  BY <1>1, <1>2
<1>5. \A m \in 0 .. n.size : stop(m) => m = n.size
  <2>1. ASSUME NEW m \in 0 .. n.size, stop(m), m # n.size PROVE FALSE
    <3>1. m \in 0 .. n.size - 1
      BY <1>1, <2>1
    <3> QED
      BY <1>2, <2>1, <3>1
  <2> QED
    BY <2>1
<1> HIDE DEF stop
<1>6. end = n.size
  BY <1>4, <1>5
<1> HIDE DEF end
<1>7. ASSUME NEW k \in 1 .. n.size
      PROVE  get_block_number_for_offset(n, k - 1) =
               Ptr(blocks, n, (k - 1) \div DISK_BLOCK_SIZE)
  <2>1. k - 1 \in Nat
    BY <1>1
  <2> QED
    BY <2>1, PointerIsPtr
<1>8. \A k \in 1 .. n.size :
        blocks[get_block_number_for_offset(n, k - 1)][(k - 1) % DISK_BLOCK_SIZE] =
          WordAt(blocks, n, k - 1)
  BY <1>7 DEF WordAt
<1> QED
  BY <1>3, <1>6, <1>8 DEF WordsOf

(* What the shell would copy out is what the invariant says.               *)
LEMMA FilesAreContents == ASSUME StoreInv PROVE Files = Contents
<1>1. ASSUME NEW i \in Inumbers PROVE fs_read(Live[i]) = WordsOf(blocks, Live[i])
  <2>1. Live[i] \in fs_inode /\ Fits(blocks, Live[i])
    BY PromptState DEF StoreInv, SizeInv, Covered, TableType
  <2> QED
    BY <2>1, ReadsAll
<1> QED
  BY <1>1 DEF Files, Contents, FileOf

(* What the disk has of a file is a prefix of it.                          *)
LEMMA OlderWords ==
  ASSUME NEW blks \in BlocksType, NEW old \in fs_inode, NEW new \in fs_inode,
         Sound(blks, old), Sound(blks, new), Within(old, new), Covered(blks, old, new)
  PROVE  Store!IsPrefix(WordsOf(blks, old), WordsOf(blks, new))
<1> DEFINE s == WordsOf(blks, old)
           t == WordsOf(blks, new)
<1>1. Fits(blks, old) /\ Fits(blks, new) /\ old.size <= new.size
  BY DEF Covered
<1>2. /\ s \in Seq(Nat) /\ Len(s) = old.size
      /\ \A k \in 1 .. old.size : s[k] = WordAt(blks, old, k - 1)
  BY <1>1, WordsSeq
<1>3. /\ t \in Seq(Nat) /\ Len(t) = new.size
      /\ \A k \in 1 .. new.size : t[k] = WordAt(blks, new, k - 1)
  BY <1>1, WordsSeq
<1>4. old.size \in Nat /\ new.size \in Nat
  BY DEF fs_inode
<1>5. ASSUME NEW k \in 1 .. old.size PROVE s[k] = t[k]
  <2>1. k - 1 \in 0 .. old.size - 1 /\ k \in 1 .. new.size
    BY <1>1, <1>4
  <2> DEFINE p == (k - 1) \div DISK_BLOCK_SIZE
  <2>2. p \in DataPointers /\ Ptr(blks, old, p) # 0
    BY <1>1, <2>1 DEF Fits
  <2> HIDE DEF p
  <2>3. Ptr(blks, old, p) = Ptr(blks, new, p)
    BY <2>2, OlderMapped
  <2>4. WordAt(blks, old, k - 1) = WordAt(blks, new, k - 1)
    BY <2>3 DEF WordAt, p
  <2> QED
    BY <1>2, <1>3, <2>1, <2>4
<1> HIDE DEF s, t
<1>6. SubSeq(s, 1, Len(s)) = SubSeq(t, 1, Len(s))
  <2>1. \A k \in 1 .. Len(s) : s[k] \in Nat /\ t[k] \in Nat
    BY <1>2, <1>3, <1>5
  <2>2. /\ SubSeq(s, 1, Len(s)) \in Seq(Nat) /\ SubSeq(t, 1, Len(s)) \in Seq(Nat)
        /\ Len(SubSeq(s, 1, Len(s))) = Len(s) /\ Len(SubSeq(t, 1, Len(s))) = Len(s)
        /\ \A k \in 1 .. Len(s) : SubSeq(s, 1, Len(s))[k] = s[k]
        /\ \A k \in 1 .. Len(s) : SubSeq(t, 1, Len(s))[k] = t[k]
    BY <1>2, <1>4, <2>1, SubSeqProperties
  <2> QED
    BY <1>2, <1>5, <2>2, SeqEqual
<1> QED
  BY <1>1, <1>2, <1>3, <1>6 DEF Store!IsPrefix, s, t

(* A round leaves the words of every other file alone.                     *)
LEMMA OtherWords ==
  ASSUME StoreInv, pc = "write", job.length > 0, pointer_number \in DataPointers,
         NEW b, Wrote(b), NEW j \in Inumbers \ {job.inumber}
  PROVE  WordsOf(blocks', Live'[j]) = WordsOf(blocks, Live[j])
<1>1. FSInv /\ SizeInv /\ Live'[j] = Live[j]
  BY DEF StoreInv, Wrote
<1>2. Fits(blocks, Live[j]) /\ Live[j].size \in Nat
  BY <1>1, PromptState DEF SizeInv, Covered, TableType, fs_inode
<1>3. ASSUME NEW k \in 0 .. Live[j].size - 1
      PROVE  WordAt(blocks', Live'[j], k) = WordAt(blocks, Live[j], k)
  <2> DEFINE p == k \div DISK_BLOCK_SIZE
  <2>1. p \in DataPointers /\ Ptr(blocks, Live[j], p) # 0
    BY <1>2 DEF Fits
  <2> HIDE DEF p
  <2>2. /\ Ptr(blocks', Live'[j], p) = Ptr(blocks, Live[j], p)
        /\ blocks'[Ptr(blocks, Live[j], p)] = blocks[Ptr(blocks, Live[j], p)]
    BY <2>1 DEF Wrote
  <2>3. blocks'[Ptr(blocks', Live'[j], p)] = blocks[Ptr(blocks, Live[j], p)]
    BY <2>2
  <2> QED
    BY <2>3 DEF WordAt, p
<1> DEFINE m == Live'[j]
           blks2 == blocks'
<1>4. m.size = Live[j].size
  BY <1>1
<1> HIDE DEF m, blks2
<1>5. \A k \in 0 .. Live[j].size - 1 : WordAt(blks2, m, k) = WordAt(blocks, Live[j], k)
  BY <1>3 DEF m, blks2
<1>6. WordsOf(blks2, m) = WordsOf(blocks, Live[j])
  BY <1>2, <1>4, <1>5, SameWords
<1> QED
  BY <1>6 DEF m, blks2

(* A round writes its word over the words from the offset on, or after the *)
(* last one.                                                               *)
LEMMA WrittenWords ==
  ASSUME StoreInv, StoreInv', pc = "write", job.length > 0,
         pointer_number \in DataPointers, NEW b, Wrote(b)
  PROVE  /\ WordsOf(blocks', Live'[job.inumber]) =
              Store!Splice(WordsOf(blocks, Live[job.inumber]), job.offset,
                           job.offset + round_words, job.word)
         /\ job.offset \in 0 .. Len(WordsOf(blocks, Live[job.inumber]))
         /\ job.offset + round_words \in
              job.offset .. Len(WordsOf(blocks', Live'[job.inumber]))
<1> DEFINE i == job.inumber
           n == Live[i]
           m == Live'[i]
           blks2 == blocks'
           from == job.offset
           to == job.offset + round_words
           s == WordsOf(blocks, n)
<1>1. /\ FSInv /\ SizeInv /\ i \in Inumbers /\ from \in Nat /\ to \in Nat /\ from <= to
      /\ n \in fs_inode /\ blocks \in BlocksType /\ Sound(blocks, n) /\ Fits(blocks, n)
      /\ n.size \in Nat /\ from <= n.size /\ job.length \in Nat
  BY CopyState, RoundJob DEF StoreInv, SizeInv, Covered, TableType, BlockInv, fs_inode
<1>2. /\ m \in fs_inode /\ blks2 \in BlocksType /\ Sound(blks2, m) /\ Fits(blks2, m)
  <2>1. blocks' \in BlocksType /\ Live' \in TableType
    BY Types, LiveInodes DEF StoreInv, FSInv
  <2> QED
    BY <1>1, <2>1 DEF StoreInv, FSInv, SizeInv, Covered, TableType, BlockInv
<1>3. m.size = IF to > n.size THEN to ELSE n.size
  BY DEF Wrote
<1>4. /\ s \in Seq(Nat) /\ Len(s) = n.size
      /\ \A k \in 1 .. n.size : s[k] = WordAt(blocks, n, k - 1)
  BY <1>1, WordsSeq
<1>5. Len(WordsOf(blks2, m)) = m.size
  BY <1>2, WordsSeq
<1>6. ASSUME NEW k \in 1 .. m.size
      PROVE  WordAt(blks2, m, k - 1) = IF from < k /\ k <= to THEN job.word ELSE s[k]
  <2> DEFINE h == k - 1
             p == h \div DISK_BLOCK_SIZE
             r == h % DISK_BLOCK_SIZE
  <2>1. h \in Nat /\ k \in Nat /\ (from < k /\ k <= to <=> from <= h /\ h < to)
    BY <1>1, <1>3
  <2>2. /\ r \in 0 .. DISK_BLOCK_SIZE - 1
        /\ (from <= h /\ h < to) <=>
             /\ p = pointer_number
             /\ round_start <= r /\ r < round_start + round_words
    <3> HIDE DEF h
    <3> QED
      BY <1>1, <2>1, RoundRange DEF pointer_number, round_words, round_start
  <2>3. Ptr(blks2, m, pointer_number) = b
    BY DEF Wrote
  <2>4. \A e \in 0 .. DISK_BLOCK_SIZE - 1 :
          IF round_start <= e /\ e < round_start + round_words THEN blks2[b][e] = job.word
          ELSE this_block # 0 => blks2[b][e] = blocks[this_block][e]
    BY DEF Wrote
  <2>5. ~(from <= h /\ h < to) => h < n.size
    BY <1>1, <1>3, <2>1
  <2>6. h \in 0 .. n.size - 1 => /\ p \in DataPointers /\ Ptr(blocks, n, p) # 0
                                 /\ s[k] = WordAt(blocks, n, h)
    <3>1. h \in 0 .. n.size - 1 => k \in 1 .. n.size
      BY <1>1, <2>1
    <3> QED
      BY <1>1, <1>4, <3>1 DEF Fits
  <2>7. this_block = Ptr(blocks, n, pointer_number)
    BY <1>1, RoundState
  <2>8. \A q \in DataPointers : q # pointer_number =>
          /\ Ptr(blks2, m, q) = Ptr(blocks, n, q)
          /\ Ptr(blocks, n, q) # 0 => blks2[Ptr(blocks, n, q)] = blocks[Ptr(blocks, n, q)]
    BY <1>1 DEF Wrote
  <2>9. WordAt(blks2, m, h) = blks2[Ptr(blks2, m, p)][r]
        /\ WordAt(blocks, n, h) = blocks[Ptr(blocks, n, p)][r]
    BY DEF WordAt
  <2>10. CASE from <= h /\ h < to
    <3>1. WordAt(blks2, m, h) = job.word
      <4> HIDE DEF h, p, r, m, blks2, n
      <4> QED
        BY <2>2, <2>3, <2>4, <2>9, <2>10
    <3> QED
      BY <2>1, <2>10, <3>1
  <2>11. CASE ~(from <= h /\ h < to)
    <3>1. h \in 0 .. n.size - 1
      BY <1>1, <2>1, <2>5, <2>11
    <3>2. WordAt(blks2, m, h) = WordAt(blocks, n, h)
      <4> HIDE DEF h, p, r, m, blks2, n, from, to
      <4>1. CASE p = pointer_number
        BY <2>2, <2>3, <2>4, <2>6, <2>7, <2>9, <2>11, <3>1, <4>1
      <4>2. CASE p # pointer_number
        BY <2>6, <2>8, <2>9, <3>1, <4>2
      <4> QED
        BY <4>1, <4>2
    <3>3. s[k] = WordAt(blks2, m, h)
      BY <2>6, <3>1, <3>2
    <3> QED
      BY <2>1, <2>11, <3>3
  <2> QED
    BY <2>10, <2>11
<1> HIDE DEF n, m, blks2, s, from, to
<1>7. WordsOf(blks2, m) =
        [k \in 1 .. m.size |-> IF from < k /\ k <= to THEN job.word ELSE s[k]]
  BY <1>6 DEF WordsOf
<1>8. WordsOf(blks2, m) = Store!Splice(s, from, to, job.word)
  BY <1>3, <1>4, <1>7 DEF Store!Splice
<1>9. from \in 0 .. Len(s) /\ to \in from .. Len(WordsOf(blks2, m))
  BY <1>1, <1>3, <1>4, <1>5
<1> QED
  BY <1>8, <1>9 DEF n, m, blks2, s, from, to

(* A step that changes no inode and no block.                              *)
LEMMA KeptFiles == ASSUME Kept PROVE Contents' = Contents
BY DEF Kept, Contents

(* What is known of every file.                                            *)
LEMMA FileFacts ==
  ASSUME StoreInv, NEW i \in Inumbers
  PROVE  /\ Contents[i] = FileOf(blocks, Live[i])
         /\ Live[i].isvalid <=> Contents[i] # NoFile
         /\ Live[i].isvalid => Contents[i] = WordsOf(blocks, Live[i])
<1>1. Live[i] \in fs_inode /\ Sound(blocks, Live[i]) /\ Fits(blocks, Live[i])
      /\ blocks \in BlocksType
  BY PromptState DEF StoreInv, FSInv, SizeInv, Covered, TableType, BlockInv
<1>2. WordsOf(blocks, Live[i]) # NoFile
  BY <1>1, WordsSeq
<1>3. Contents[i] = FileOf(blocks, Live[i])
  BY DEF Contents
<1> QED
  BY <1>2, <1>3 DEF FileOf

(* The disk has a prefix of every file, and all of it when the disk is not *)
(* mounted.                                                                *)
LEMMA RestartedFiles ==
  ASSUME StoreInv, Restarted
  PROVE  /\ Store!CutShort(Contents, Contents')
         /\ ~is_mounted => Contents' = Contents
<1>1. FSInv /\ SizeInv /\ blocks \in BlocksType /\ Live \in TableType /\ Disk \in TableType
  BY PromptState DEF StoreInv
<1>2. ASSUME NEW i \in Inumbers
      PROVE  IF Contents[i] = NoFile THEN Contents'[i] = NoFile
             ELSE Contents'[i] # NoFile /\ Store!IsPrefix(Contents'[i], Contents[i])
  <2>1. Contents'[i] = FileOf(blocks, Disk[i])
    BY DEF Restarted, Contents
  <2>2. /\ Sound(blocks, Disk[i]) /\ Sound(blocks, Live[i]) /\ Within(Disk[i], Live[i])
        /\ Covered(blocks, Disk[i], Live[i])
        /\ Disk[i] \in fs_inode /\ Live[i] \in fs_inode
    BY <1>1 DEF FSInv, BlockInv, SizeInv, TableType
  <2>3. Live[i].isvalid <=> Disk[i].isvalid
    BY <2>2 DEF Within, Covered
  <2>4. CASE ~Live[i].isvalid
    BY <2>1, <2>3, <2>4, FileFacts DEF FileOf
  <2>5. CASE Live[i].isvalid
    <3>1. Contents[i] # NoFile /\ Contents[i] = WordsOf(blocks, Live[i])
      BY <2>5, FileFacts
    <3>2. Contents'[i] = WordsOf(blocks, Disk[i])
      BY <2>1, <2>3, <2>5 DEF FileOf
    <3>3. WordsOf(blocks, Disk[i]) # NoFile
      <4>1. Fits(blocks, Disk[i])
        BY <2>2 DEF Covered
      <4> QED
        BY <1>1, <2>2, <4>1, WordsSeq
    <3>4. Store!IsPrefix(WordsOf(blocks, Disk[i]), WordsOf(blocks, Live[i]))
      BY <1>1, <2>2, OlderWords
    <3> QED
      BY <3>1, <3>2, <3>3, <3>4
  <2> QED
    BY <2>4, <2>5
<1>3. ASSUME ~is_mounted PROVE Contents' = Contents
  <2>1. store.lru = << >> /\ store \in StoreType /\ pc # "write" /\ job \in JobType
    BY <1>1, <1>3, PromptState DEF FSInv, TableInv
  <2>2. ToSet(store.lru) = {}
    BY <2>1 DEF ToSet
  <2>3. ASSUME NEW i \in Inumbers PROVE Live[i] = Disk[i]
    <3>1. Live[i] = inode_of(store, i) /\ ~InCache(store, i)
      BY <2>1, <2>2, Types, LiveInodes, Cached
    <3> QED
      BY <3>1 DEF inode_of, Disk
  <2> QED
    BY <2>3 DEF Restarted, Contents
<1> QED
  BY <1>2, <1>3 DEF Store!CutShort

(* A format leaves no file.                                                *)
LEMMA FormatFiles ==
  ASSUME \A i \in Inumbers : Live'[i] = EmptyInode
  PROVE  Contents' = [i \in Inumbers |-> NoFile]
BY EmptyIsInode DEF Contents, FileOf

(* A new file is empty.                                                    *)
LEMMA MadeFiles ==
  ASSUME StoreInv, NEW i \in Inumbers, Made(i)
  PROVE  Contents[i] = NoFile /\ Contents' = [Contents EXCEPT ![i] = << >>]
<1>1. NewInode.isvalid /\ NewInode.size = 0
  BY DEF NewInode, EmptyInode
<1>2. WordsOf(blocks, NewInode) = << >>
  BY <1>1 DEF WordsOf
<1>3. Contents'[i] = << >>
  BY <1>1, <1>2 DEF Made, Contents, FileOf
<1>4. \A j \in Inumbers \ {i} : Contents'[j] = Contents[j]
  BY DEF Made, Contents
<1>5. Contents[i] = NoFile
  BY DEF Made, Contents, FileOf
<1>6. /\ Contents = [j \in Inumbers |-> Contents[j]]
      /\ Contents' = [j \in Inumbers |-> Contents'[j]]
  BY DEF Contents
<1> QED
  BY <1>3, <1>4, <1>5, <1>6

(* A deleted file is no more.                                              *)
LEMMA GoneFiles ==
  ASSUME StoreInv, NEW i \in Inumbers, Gone(i)
  PROVE  Contents[i] # NoFile /\ Contents' = [Contents EXCEPT ![i] = NoFile]
<1>1. Contents[i] # NoFile
  BY FileFacts DEF Gone
<1>2. Contents'[i] = NoFile
  BY EmptyIsInode DEF Gone, Contents, FileOf
<1>3. \A j \in Inumbers \ {i} : Contents'[j] = Contents[j]
  BY DEF Gone, Contents
<1>4. /\ Contents = [j \in Inumbers |-> Contents[j]]
      /\ Contents' = [j \in Inumbers |-> Contents'[j]]
  BY DEF Contents
<1> QED
  BY <1>1, <1>2, <1>3, <1>4

(* A round writes to one file.                                             *)
LEMMA WroteFiles ==
  ASSUME StoreInv, StoreInv', pc = "write", job.length > 0,
         pointer_number \in DataPointers, NEW b, Wrote(b)
  PROVE  /\ Contents[job.inumber] # NoFile /\ Contents'[job.inumber] # NoFile
         /\ \E w \in 1 .. MaxCopies, from \in 0 .. Len(Contents[job.inumber]) :
              \E to \in from .. Len(Contents'[job.inumber]) :
                Contents' = [Contents EXCEPT ![job.inumber] =
                               Store!Splice(@, from, to, w)]
<1> DEFINE i == job.inumber
           from == job.offset
           to == job.offset + round_words
           w == job.word
           s == Contents[i]
           t == Contents'[i]
<1>1. i \in Inumbers /\ Live[i].isvalid /\ Live'[i].isvalid /\ blocks \in BlocksType
  BY RoundState, CopyState DEF StoreInv, Wrote
<1>2. s # NoFile /\ s = WordsOf(blocks, Live[i])
  BY <1>1, FileFacts
<1>3. t = WordsOf(blocks', Live'[i])
  BY <1>1 DEF Contents, FileOf
<1>4. t # NoFile
  <2>1. blocks' \in BlocksType /\ Live' \in TableType
    BY Types, LiveInodes DEF StoreInv, FSInv
  <2>2. /\ Live'[i] \in fs_inode /\ Sound(blocks', Live'[i]) /\ Fits(blocks', Live'[i])
    BY <1>1, <2>1 DEF StoreInv, FSInv, SizeInv, Covered, TableType, BlockInv
  <2> QED
    BY <1>3, <2>1, <2>2, WordsSeq
<1>5. /\ t = Store!Splice(s, from, to, w)
      /\ from \in 0 .. Len(s) /\ to \in from .. Len(t)
  BY <1>2, <1>3, WrittenWords
<1>6. w \in 1 .. MaxCopies
  <2>1. job \in JobType /\ w > 0
    BY CopyState DEF StoreInv, SizeInv
  <2> QED
    BY <2>1, FileSystemAssumption DEF JobType
<1>7. ASSUME NEW j \in Inumbers \ {i} PROVE Contents'[j] = Contents[j]
  <2>1. Live'[j] = Live[j] /\ WordsOf(blocks', Live'[j]) = WordsOf(blocks, Live[j])
    BY OtherWords DEF Wrote
  <2> QED
    BY <2>1 DEF Contents, FileOf
<1>8. /\ Contents = [j \in Inumbers |-> Contents[j]]
      /\ Contents' = [j \in Inumbers |-> Contents'[j]]
  BY DEF Contents
<1> HIDE DEF s, t, from, to, w
<1>9. Contents' = [Contents EXCEPT ![i] = t]
  BY <1>1, <1>7, <1>8 DEF t
<1>10. Contents' = [Contents EXCEPT ![i] = Store!Splice(@, from, to, w)]
  BY <1>5, <1>9 DEF s
<1> QED
  BY <1>2, <1>4, <1>5, <1>6, <1>10 DEF s, t

(* Every step of the file system is a step of the store or leaves it as it *)
(* is.                                                                     *)
LEMMA StoreStep ==
  ASSUME StrayNames = FALSE, StoreInv, StoreInv', [Next]_vars,
         Files = Contents, Files' = Contents'
  PROVE  Store!StoreNext \/ UNCHANGED <<Files, is_mounted, proc = "running", mounts>>
<1> DEFINE Quiet == UNCHANGED <<Files, is_mounted, proc = "running", mounts>>
           Died == /\ proc = "running" /\ proc' # "running"
                   /\ UNCHANGED <<Files, is_mounted, mounts>>
<1>1. FSInv /\ SizeInv /\ FSInv'
  BY DEF StoreInv
<1>2. Died => Store!StoreNext
  BY DEF Store!StoreNext, Store!Die, Files
<1>3. CASE UNCHANGED vars
  <2>1. Contents' = Contents /\ UNCHANGED <<cache, proc, mounts>>
    BY <1>3 DEF Contents, Live, grown_size, vars, memory, history
  <2> QED
    BY <2>1 DEF is_mounted
<1>4. CASE fs_format
  <2>1. Files' = [i \in Inumbers |-> NoFile]
    BY <1>1, <1>4, FormatStep, FormatFiles
  <2>2. /\ ~is_mounted /\ proc = "running" /\ proc' = "running"
        /\ UNCHANGED <<cache, mounts>>
    BY <1>4 DEF fs_format, AtPrompt, memory, history
  <2>3. Store!Format
    BY <2>1, <2>2 DEF Store!Format, Files, is_mounted
  <2> QED
    BY <2>2, <2>3 DEF Store!StoreNext
<1>5. CASE fs_mount
  <2>1. Store!CutShort(Files, Files') /\ (~is_mounted => Files' = Files)
    BY <1>1, <1>5, MountStep, RestartedFiles
  <2>2. /\ proc = "running" /\ proc' = "running" /\ cache' = "live"
        /\ mounts' = 1 - mounts
    BY <1>5 DEF fs_mount, AtPrompt
  <2>3. Store!Mount
    BY <2>1, <2>2 DEF Store!Mount, Files, is_mounted
  <2> QED
    BY <2>2, <2>3 DEF Store!StoreNext
<1>6. CASE disk_close \/ end_of_input \/ killed
  <2>1. EndOfProcess /\ proc = "running"
    BY <1>6 DEF disk_close, end_of_input, killed, Copying, AtPrompt
  <2>2. Store!CutShort(Files, Files') /\ (~is_mounted => Files' = Files)
    BY <1>1, <2>1, EndStep, RestartedFiles
  <2>3. proc' = "ended" /\ cache' = "null" /\ mounts' = mounts
    BY <2>1 DEF EndOfProcess, history
  <2>4. Store!End
    BY <2>1, <2>2, <2>3 DEF Store!End, Files, is_mounted
  <2> QED
    BY <2>4 DEF Store!StoreNext
<1>7. CASE fs_unmount \/ quit
  <2>1. Files' = Files
    BY <1>1, <1>7, UnmountStep, KeptFiles
  <2>2. /\ proc = "running" /\ proc' = "running" /\ mounts' = mounts
        /\ IF is_mounted THEN cache' = "freed" ELSE cache' = cache
    BY <1>7 DEF fs_unmount, quit, AtPrompt, unmounted, memory, history
  <2>3. CASE is_mounted
    <3>1. Store!Unmount
      BY <2>1, <2>2, <2>3 DEF Store!Unmount, Files, is_mounted
    <3> QED
      BY <2>2, <3>1 DEF Store!StoreNext
  <2>4. CASE ~is_mounted
    BY <2>1, <2>2, <2>4 DEF is_mounted
  <2> QED
    BY <2>3, <2>4
<1>8. CASE fs_debug
  <2>1. Files' = Files
    BY <1>1, <1>8, DebugStep, KeptFiles
  <2>2. /\ proc = "running" /\ proc' \in {"running", "freed_cache"}
        /\ UNCHANGED <<cache, mounts>>
    BY <1>8 DEF fs_debug, AtPrompt, Die, memory, history
  <2> QED
    BY <1>2, <2>1, <2>2 DEF is_mounted
<1>9. CASE fs_create
  <2>1. PICK i \in Inumbers : Made(i)
    BY <1>1, <1>9, CreateStep
  <2>2. Files[i] = NoFile /\ Files' = [Files EXCEPT ![i] = << >>]
    BY <2>1, MadeFiles
  <2>3. is_mounted /\ proc = "running" /\ UNCHANGED <<cache, proc, mounts>>
    BY <1>9 DEF fs_create, AtPrompt, history
  <2>4. Store!Create(i)
    BY <2>2, <2>3 DEF Store!Create, Files, is_mounted
  <2> QED
    BY <2>3, <2>4 DEF Store!StoreNext
<1>10. ASSUME NEW i \in Inumbers, fs_delete(i) PROVE Store!StoreNext \/ Quiet
  <2>1. Kept \/ Gone(i)
    BY <1>1, <1>10, DeleteStep
  <2>2. /\ is_mounted /\ proc = "running" /\ proc' \in {"running", "freed_inode"}
        /\ UNCHANGED <<cache, mounts>>
    BY <1>10 DEF fs_delete, AtPrompt, Die, memory, history
  <2>3. CASE Kept
    BY <1>2, <2>2, <2>3, KeptFiles DEF is_mounted
  <2>4. CASE Gone(i)
    <3>1. Files[i] # NoFile /\ Files' = [Files EXCEPT ![i] = NoFile]
      BY <2>4, GoneFiles
    <3>2. proc' = "running"
      <4>1. CASE get_inode_frees(store, i)
        <5>1. store' = store /\ pc' = pc /\ job' = job
          BY <1>10, <4>1 DEF fs_delete, Die
        <5>2. Live' = Live
          BY <5>1 DEF Live, grown_size
        <5> QED
          BY <2>4, <5>2, EmptyIsInode DEF Gone
      <4>2. CASE ~get_inode_frees(store, i)
        BY <1>10, <2>2, <4>2 DEF fs_delete
      <4> QED
        BY <4>1, <4>2
    <3>3. Store!Delete(i)
      BY <2>2, <3>1, <3>2 DEF Store!Delete, Files, is_mounted
    <3> QED
      BY <2>2, <3>3 DEF Store!StoreNext
  <2> QED
    BY <2>1, <2>3, <2>4
<1>11. ASSUME NEW i \in Inumbers, fs_getsize(i) \/ do_copyout(i)
       PROVE  Store!StoreNext \/ Quiet
  <2>1. AtPrompt /\ is_mounted /\ LookAt(i) /\ (inode_in_range(i) => i \in inode_freemap)
    BY <1>11 DEF fs_getsize, do_copyout, Named
  <2>2. Files' = Files
    BY <1>1, <2>1, LookStep, KeptFiles
  <2>3. /\ proc = "running" /\ proc' \in {"running", "freed_inode"}
        /\ UNCHANGED <<cache, mounts>>
    BY <2>1 DEF LookAt, AtPrompt, Die, memory, history
  <2> QED
    BY <1>2, <2>2, <2>3 DEF is_mounted
<1>12. ASSUME NEW i \in Inumbers, NEW n \in Lengths, do_copyin(i, n)
       PROVE  Store!StoreNext \/ Quiet
  <2>1. Files' = Files
    BY <1>1, <1>12, CopyinStep, KeptFiles
  <2>2. UNCHANGED <<cache, proc, mounts>>
    BY <1>12 DEF do_copyin, memory
  <2> QED
    BY <2>1, <2>2 DEF is_mounted
<1>13. CASE fs_write_begin
  <2>1. job.offset <= Live[job.inumber].size
    BY <1>1, <1>13 DEF SizeInv, fs_write_begin, Copying
  <2>2. Files' = Files
    BY <1>1, <1>13, <2>1, BeginStep, KeptFiles
  <2>3. /\ proc = "running" /\ proc' \in {"running", "freed_inode"}
        /\ UNCHANGED <<cache, mounts>>
    BY <1>13 DEF fs_write_begin, Copying, memory, history
  <2> QED
    BY <1>2, <2>2, <2>3 DEF is_mounted
<1>14. CASE write_block
  <2>1. /\ pc = "write" /\ job.length > 0 /\ proc = "running"
        /\ proc' \in {"running", "overrun"} /\ UNCHANGED <<cache, mounts>>
    BY <1>14 DEF write_block, Copying, history
  <2>2. CASE Kept
    BY <1>2, <2>1, <2>2, KeptFiles DEF is_mounted
  <2>3. CASE ~Kept
    <3>1. PICK b : pointer_number \in DataPointers /\ Wrote(b)
      BY <1>1, <1>14, <2>3, WriteStep
    <3>2. /\ Files[job.inumber] # NoFile /\ Files'[job.inumber] # NoFile
          /\ \E w \in 1 .. MaxCopies, from \in 0 .. Len(Files[job.inumber]) :
               \E to \in from .. Len(Files'[job.inumber]) :
                 Files' = [Files EXCEPT ![job.inumber] = Store!Splice(@, from, to, w)]
      BY <2>1, <3>1, WroteFiles
    <3>3. proc' = "running"
      <4>1. job'.offset = job.offset + round_words
        BY <3>1 DEF Wrote
      <4>2. SUFFICES ASSUME proc' = "overrun" PROVE Kept
        BY <2>1, <2>3
      <4>3. UNCHANGED <<store, blocks, block_freemap, inode_freemap, cache, pc, job>>
        BY <1>14, <2>1, <4>2 DEF write_block
      <4> QED
        BY <1>1, <4>3, Frame DEF FSInv
    <3>4. is_mounted /\ job.inumber \in Inumbers
      BY <1>1, <2>1, CopyState
    <3>5. PICK i \in Inumbers : i = job.inumber
      BY <3>4
    <3>6. PICK w \in 1 .. MaxCopies, from \in 0 .. Len(Files[i]) :
            \E to \in from .. Len(Files'[i]) :
              Files' = [Files EXCEPT ![job.inumber] = Store!Splice(@, from, to, w)]
      BY <3>2, <3>5, Zenon
    <3>7. PICK to \in from .. Len(Files'[i]) :
            Files' = [Files EXCEPT ![job.inumber] = Store!Splice(@, from, to, w)]
      BY <3>6
    <3>8. Files' = [Files EXCEPT ![i] = Store!Splice(@, from, to, w)]
      BY <3>5, <3>7
    <3>9. Files[i] # NoFile /\ Files'[i] # NoFile
      BY <3>2, <3>5
    <3>10. Store!Write(i)
      BY <2>1, <3>3, <3>8, <3>9 DEF Store!Write, Files, is_mounted
    <3> QED
      BY <2>1, <3>4, <3>10 DEF Store!StoreNext
  <2> QED
    BY <2>2, <2>3
<1>15. CASE fs_write_end
  <2>1. Files' = Files
    BY <1>1, <1>15, EndWriteStep, KeptFiles
  <2>2. UNCHANGED <<cache, proc, mounts>>
    BY <1>15 DEF fs_write_end, memory, history
  <2> QED
    BY <2>1, <2>2 DEF is_mounted
<1>16. ASSUME NEW c \in Capacities, main(c) PROVE Store!StoreNext \/ Quiet
  <2>1. Files' = Files
    BY <1>1, <1>16, MainStep, KeptFiles
  <2>2. /\ proc = "ended" /\ proc' = "running" /\ UNCHANGED <<cache, mounts>>
    BY <1>16 DEF main, memory, history
  <2>3. Store!Run
    BY <2>1, <2>2 DEF Store!Run, Files, is_mounted
  <2> QED
    BY <2>3 DEF Store!StoreNext
<1> QED
  BY <1>3, <1>4, <1>5, <1>6, <1>7, <1>8, <1>9, <1>10, <1>11, <1>12, <1>13, <1>14,
     <1>15, <1>16 DEF Next

(* The file system implements the map from inode numbers to contents:      *)
(* create, delete, copyin and copyout see one file each, a remount changes *)
(* nothing, and a process that ends with the disk mounted leaves a prefix  *)
(* of every file.                                                          *)
THEOREM FilesAreKept ==
  ASSUME StrayNames = FALSE PROVE Spec => ImplementsFileStore
<1> DEFINE Read == Files = Contents
<1>1. StoreInv => Read
  BY FilesAreContents
<1>2. Init => Store!StoreInit
  <2> SUFFICES ASSUME Init PROVE Store!StoreInit
    OBVIOUS
  <2>1. \A i \in Inumbers : ~Live[i].isvalid
    <3>1. FSInv /\ SizeInv
      BY StoreInvInit DEF StoreInv
    <3> DEFINE none == [i \in Inumbers |-> EmptyInode]
    <3>2. none \in [Inumbers -> fs_inode] /\ \A i \in Inumbers : none[i] = EmptyInode
      BY EmptyIsInode
    <3>3. store = newCache(none) /\ pc = "shell"
      BY DEF Init
    <3> HIDE DEF none
    <3>4. \A i \in Inumbers : inode_of(store, i) = EmptyInode
      BY <3>2, <3>3, NewCache
    <3> QED
      BY <3>1, <3>3, <3>4, PromptState, Types, LiveInodes, EmptyIsInode
  <2>2. cache = "null" /\ proc = "running" /\ mounts = 0
    BY DEF Init
  <2> QED
    BY <2>1, <2>2 DEF Store!StoreInit, is_mounted
<1>3. StoreInv /\ StoreInv' /\ [Next]_vars /\ Read /\ Read' =>
        [Store!StoreNext]_<<Files, is_mounted, proc = "running", mounts>>
  BY StoreStep
<1> QED
  BY <1>1, <1>2, <1>3, SizesCovered, PTL
  DEF Spec, ImplementsFileStore, Store!StoreSpec, Files
=============================================================================
