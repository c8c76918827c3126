----------------------------- MODULE InodeCache -----------------------------
(***************************************************************************)
(* project_4/cache.c: an LRU list of inodes in front of the inode table on *)
(* the disk, written back when a dirty node leaves the list.  store is the *)
(* table and the list together; an operator takes the store to the store   *)
(* after the function of its name.  The head of lru is the next to go.     *)
(* An inode that is not in the list has EmptyInode in store.inode.         *)
(***************************************************************************)
EXTENDS Integers, FiniteSets, SequencesExt

CONSTANTS
  nblocks,             \* disk_size()
  INODES_PER_BLOCK,
  POINTERS_PER_INODE,
  POINTERS_PER_BLOCK   \* also the words of a block: a pointer is a word

ASSUME DiskAssumption ==
  /\ nblocks \in Nat /\ nblocks > 1
  /\ INODES_PER_BLOCK \in Nat \ {0}
  /\ POINTERS_PER_INODE \in Nat \ {0}
  /\ POINTERS_PER_BLOCK \in Nat \ {0}

NUM_INODE_BLOCKS == 1 + (nblocks \div 10)
numinodes == NUM_INODE_BLOCKS * INODES_PER_BLOCK

Inumbers == 0 .. numinodes - 1
DataBlocks == 1 + NUM_INODE_BLOCKS .. nblocks - 1

fs_inode == [isvalid  : BOOLEAN,
             size     : Nat,
             direct   : [0 .. POINTERS_PER_INODE - 1 -> DataBlocks \cup {0}],
             indirect : DataBlocks \cup {0}]

EmptyInode == [isvalid  |-> FALSE,
               size     |-> 0,
               direct   |-> [k \in 0 .. POINTERS_PER_INODE - 1 |-> 0],
               indirect |-> 0]

VARIABLES
  capacity,  \* of the cache, from the command line
  store      \* [disk, lru, inode, is_dirty, current_size]
-----------------------------------------------------------------------------
(* inode_utilities.h.                                                      *)

\* numinodes / INODES_PER_BLOCK is the number of the last inode block.
inode_in_range(i) ==
  1 + (i \div INODES_PER_BLOCK) < numinodes \div INODES_PER_BLOCK

inode_save(s, i, inode) ==
  IF inode_in_range(i) THEN [s EXCEPT !.disk[i] = inode] ELSE s
-----------------------------------------------------------------------------
(* The list.                                                               *)

InCache(s, i) == Contains(s.lru, i)

newCache(disk) ==
  [disk |-> disk,
   lru |-> << >>,
   inode |-> [i \in Inumbers |-> EmptyInode],
   is_dirty |-> [i \in Inumbers |-> FALSE],
   current_size |-> 0]

\* Mutant: the node is dropped without being written back.
written_backNever(s, i) == s
written_back(s, i) ==
  IF s.is_dirty[i] THEN inode_save(s, i, s.inode[i]) ELSE s

\* remove_node(ele, 0) and the frees that follow it.
remove_node(s, i) ==
  [written_back(s, i) EXCEPT !.lru = RemoveFirst(@, i),
                             !.inode[i] = EmptyInode,
                             !.is_dirty[i] = FALSE]

\* insert_in_the_end leaves is_dirty as malloc returns it.
insert_in_the_end(s, i, garbage) ==
  [s EXCEPT !.lru = Append(@, i),
            !.inode[i] = s.disk[i],
            !.is_dirty[i] = garbage,
            !.current_size = @ + 1]

evict_first(s) ==
  [remove_node(s, Head(s.lru)) EXCEPT !.current_size = @ - 1]

get_inode(s, i, garbage) ==
  LET inserted == insert_in_the_end(s, i, garbage) IN
    IF InCache(s, i) THEN [s EXCEPT !.lru = Append(RemoveFirst(@, i), i)]
    ELSE IF ~inode_in_range(i) THEN s
    ELSE IF inserted.current_size > capacity THEN evict_first(inserted)
    ELSE inserted

\* What get_inode returns points to: the node's inode, or with no capacity a
\* copy that belongs to the caller.
inode_of(s, i) == IF InCache(s, i) THEN s.inode[i] ELSE s.disk[i]

get_inode_fails(s, i) == ~InCache(s, i) /\ ~inode_in_range(i)

\* remove_if_present has left current_size above the length of the list, and
\* the list is empty: the node just inserted is evicted and its inode freed.
get_inode_frees(s, i) ==
  /\ ~InCache(s, i) /\ inode_in_range(i)
  /\ s.lru = << >>
  /\ s.current_size + 1 > capacity
  /\ capacity # 0

\* Mutant: a dirty inode is written over the empty one.
remove_if_presentLate(s, i) ==
  LET r == inode_save(s, i, EmptyInode) IN
    IF InCache(s, i) THEN remove_node(r, i) ELSE r
\* current_size stays as it is.
remove_if_present(s, i) ==
  inode_save(IF InCache(s, i) THEN remove_node(s, i) ELSE s, i, EmptyInode)

\* inode is what the caller has made of the inode it was given; a node in the
\* list is that inode, marked or not.
set_dirty(s, i, mark, inode) ==
  IF InCache(s, i)
    THEN [s EXCEPT !.inode[i] = inode, !.is_dirty[i] = mark \/ @]
    ELSE IF mark THEN inode_save(s, i, inode) ELSE s

Dirty(s) == {i \in Inumbers : InCache(s, i) /\ s.is_dirty[i]}

flush_cache(s) ==
  [s EXCEPT !.disk = [i \in Inumbers |->
                        IF i \in Dirty(s) /\ inode_in_range(i)
                          THEN s.inode[i] ELSE s.disk[i]],
            !.is_dirty = [i \in Inumbers |-> FALSE]]

destroy(s) == newCache(flush_cache(s).disk)
=============================================================================
