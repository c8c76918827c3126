----------------------------- MODULE FileSystem -----------------------------
(***************************************************************************)
(* project_4: fs.c over the inode cache and the emulated disk (disk.c),    *)
(* driven by the commands of shell.c.  The shell is sequential, so a       *)
(* command is one action, except for copyin: do_copyin calls fs_write for  *)
(* each buffer of the source file and fs_write goes from block to block,   *)
(* and the process may be killed between two of these steps.  Data and     *)
(* pointer blocks are written to the disk at once; an inode reaches it     *)
(* when the cache lets it go.                                              *)
(*                                                                         *)
(* A block is a function from word positions to words: the same words are  *)
(* data or, in an indirect block, pointers (union fs_block).  Sizes and    *)
(* offsets count words.  A source file repeats one word, which no other    *)
(* source file has: contents that differ are the case that matters.        *)
(***************************************************************************)
EXTENDS InodeCache

CONSTANTS
  Capacities,  \* cache sizes the command line may give
  Lengths,     \* lengths of source files
  BufferSize,  \* the buffer of do_copyin
  MaxCopies,   \* bound: copyins in a behaviour
  StrayNames,  \* may a command name any inode number that has no file
  NoFile       \* an inode number without a file, in FileStore

ASSUME FileSystemAssumption ==
  /\ Capacities \subseteq Nat
  /\ Lengths \subseteq Nat \ {0}
  /\ BufferSize \in Nat \ {0}
  /\ MaxCopies \in Nat
  /\ StrayNames \in BOOLEAN

ASSUME NoFileAssumption == NoFile \notin Seq(Nat)

DISK_BLOCK_SIZE == POINTERS_PER_BLOCK
MaxPointers == POINTERS_PER_INODE + POINTERS_PER_BLOCK
MaxSize == MaxPointers * DISK_BLOCK_SIZE

VARIABLES
  formatted,      \* the superblock has FS_MAGIC
  blocks,         \* contents of the data blocks on the disk
  block_freemap,  \* the blocks marked in use
  inode_freemap,  \* the inodes marked in use
  cache,          \* "null", "live", or "freed" once destroyed by an unmount
  pc,             \* what the shell is doing
  job,            \* the copyin in progress
  proc,           \* "running", "ended", or the fault the process died of
  mounts,         \* history: flips at every mount
  copies          \* history: copyins begun

history == <<mounts, copies>>
memory == <<block_freemap, inode_freemap, cache>>
vars == <<capacity, store, formatted, blocks, memory, pc, job, proc, history>>

ZeroBlock == [k \in 0 .. DISK_BLOCK_SIZE - 1 |-> 0]

NoJob == [inumber |-> 0, word |-> 0, left |-> 0, length |-> 0, offset |-> 0,
          inode |-> EmptyInode, write_inode |-> FALSE]

is_mounted == cache = "live"

\* A new disk file reads as zeros.
Init ==
  /\ capacity \in Capacities
  /\ store = newCache([i \in Inumbers |-> EmptyInode])
  /\ formatted = FALSE
  /\ blocks = [b \in DataBlocks |-> ZeroBlock]
  /\ block_freemap = {}
  /\ inode_freemap = {}
  /\ cache = "null"
  /\ pc = "shell"
  /\ job = NoJob
  /\ proc = "running"
  /\ mounts = 0
  /\ copies = 0

AtPrompt == proc = "running" /\ pc = "shell"

Die(fault) ==
  /\ proc' = fault
  /\ UNCHANGED <<capacity, store, formatted, blocks, memory, pc, job, history>>
-----------------------------------------------------------------------------
(* Pointers of an inode.                                                   *)

get_block_number_for_offset(inode, offset) ==
  LET pointer_number == offset \div DISK_BLOCK_SIZE IN
    IF pointer_number < POINTERS_PER_INODE THEN inode.direct[pointer_number]
    ELSE IF inode.indirect = 0 THEN 0
    ELSE blocks[inode.indirect][pointer_number - POINTERS_PER_INODE]

\* The values of f on 0 .. n-1 up to the first zero, as mount and delete walk
\* a list of pointers.
UntilZero(f, n) ==
  {f[k] : k \in {k \in 0 .. n - 1 : \A j \in 0 .. k : f[j] # 0}}

inode_blocks(inode) ==
  UntilZero(inode.direct, POINTERS_PER_INODE) \cup
  IF inode.indirect = 0 THEN {}
  ELSE {inode.indirect}
         \cup UntilZero(blocks[inode.indirect], POINTERS_PER_BLOCK)

\* Mutant: the search goes one block too far.
find_free_blockPastEnd(freemap) ==
  CHOOSE b \in (DataBlocks \cup {nblocks}) \ freemap :
    \A c \in DataBlocks \ freemap : b <= c
\* Number of the lowest free block, 0 if there is none.
find_free_block(freemap) ==
  IF DataBlocks \subseteq freemap THEN 0
  ELSE CHOOSE b \in DataBlocks \ freemap :
         \A c \in DataBlocks \ freemap : b <= c
-----------------------------------------------------------------------------
(* Format, mount, unmount, debug.                                          *)

fs_format ==
  /\ AtPrompt /\ ~is_mounted
  /\ formatted' = TRUE
  /\ store' = [store EXCEPT !.disk = [i \in Inumbers |-> EmptyInode]]
  /\ UNCHANGED <<capacity, blocks, memory, pc, job, proc, history>>

valid_inodes(disk) == {i \in Inumbers : disk[i].isvalid}

used_blocks(disk) ==
  0 .. NUM_INODE_BLOCKS
    \cup UNION {inode_blocks(disk[i]) : i \in valid_inodes(disk)}

\* Nothing is flushed if the disk is mounted already.
fs_mount ==
  /\ AtPrompt /\ formatted
  /\ store' = newCache(store.disk)
  /\ block_freemap' = used_blocks(store.disk)
  /\ inode_freemap' = valid_inodes(store.disk)
  /\ cache' = "live"
  /\ mounts' = 1 - mounts
  /\ UNCHANGED <<capacity, formatted, blocks, pc, job, proc, copies>>

unmounted ==
  IF is_mounted
    THEN /\ store' = destroy(store)
         /\ block_freemap' = {} /\ inode_freemap' = {}
         /\ cache' = "freed"
    ELSE UNCHANGED <<store, memory>>

fs_unmount ==
  /\ AtPrompt /\ unmounted
  /\ UNCHANGED <<capacity, formatted, blocks, pc, job, proc, history>>

\* After an unmount fs_debug walks a list that has been freed.
fs_debug ==
  /\ AtPrompt /\ formatted
  /\ IF cache = "freed" THEN Die("freed_cache")
     ELSE /\ store' = IF cache = "live" THEN flush_cache(store) ELSE store
          /\ UNCHANGED <<capacity, formatted, blocks, memory, pc, job, proc,
                         history>>
-----------------------------------------------------------------------------
(* Create, delete, getsize, copyout.                                       *)

Free == Inumbers \ inode_freemap

fs_create ==
  /\ AtPrompt /\ is_mounted
  /\ Free # {}
  /\ LET i == CHOOSE i \in Free : \A j \in Free : i <= j IN
       /\ inode_in_range(i)
       /\ store' = inode_save(store, i, [EmptyInode EXCEPT !.isvalid = TRUE])
       /\ inode_freemap' = inode_freemap \cup {i}
  /\ UNCHANGED <<capacity, formatted, blocks, block_freemap, cache, pc, job,
                 proc, history>>

\* The inode a command names: a file's, or one in the block no inode can be
\* loaded from.
Named(i) == StrayNames \/ (inode_in_range(i) => i \in inode_freemap)

fs_delete(i) ==
  /\ AtPrompt /\ is_mounted /\ Named(i)
  /\ IF get_inode_frees(store, i) THEN Die("freed_inode")
     ELSE /\ \E garbage \in BOOLEAN :
               LET s == get_inode(store, i, garbage)
                   inode == inode_of(store, i)
               IN IF get_inode_fails(store, i) \/ ~inode.isvalid
                    THEN /\ store' = s
                         /\ UNCHANGED <<block_freemap, inode_freemap>>
                    ELSE /\ store' = remove_if_present(s, i)
                         /\ block_freemap' = block_freemap \ inode_blocks(inode)
                         /\ inode_freemap' = inode_freemap \ {i}
          /\ UNCHANGED <<capacity, formatted, blocks, cache, pc, job, proc,
                         history>>

\* A command that only looks at an inode moves it in the cache.
LookAt(i) ==
  IF get_inode_frees(store, i) THEN Die("freed_inode")
  ELSE /\ \E garbage \in BOOLEAN : store' = get_inode(store, i, garbage)
       /\ UNCHANGED <<capacity, formatted, blocks, memory, pc, job, proc,
                      history>>

fs_getsize(i) == AtPrompt /\ is_mounted /\ Named(i) /\ LookAt(i)

\* do_copyout; what it copies is fs_read below.
do_copyout(i) == AtPrompt /\ is_mounted /\ i \in inode_freemap /\ LookAt(i)

\* The words fs_read returns: to the end of the file or the first offset that
\* has no block.
fs_read(inode) ==
  LET mapped(k) == get_block_number_for_offset(inode, k) # 0
      n == CHOOSE n \in 0 .. inode.size :
             /\ \A k \in 0 .. n - 1 : mapped(k)
             /\ n = inode.size \/ ~mapped(n)
  IN [k \in 1 .. n |-> blocks[get_block_number_for_offset(inode, k - 1)]
                             [(k - 1) % DISK_BLOCK_SIZE]]
-----------------------------------------------------------------------------
(* Copyin and fs_write.                                                    *)

do_copyin(i, n) ==
  /\ AtPrompt /\ is_mounted /\ Named(i)
  /\ copies < MaxCopies /\ copies' = copies + 1
  /\ pc' = "copyin"
  /\ job' = [NoJob EXCEPT !.inumber = i, !.word = copies', !.left = n]
  /\ UNCHANGED <<capacity, store, formatted, blocks, memory, proc, mounts>>

Copying(where) == proc = "running" /\ pc = where

ToPrompt == pc' = "shell" /\ job' = NoJob

is_arg_valid(i, offset) == i \in inode_freemap /\ offset <= MaxSize

\* The next buffer of the source file: fs_write up to its loop.
fs_write_begin ==
  /\ Copying("copyin")
  /\ LET i == job.inumber
         inode == inode_of(store, i)
         n == IF job.left < BufferSize THEN job.left ELSE BufferSize
     IN \/ /\ ~is_arg_valid(i, job.offset) \/ get_inode_fails(store, i)
           /\ ToPrompt
           /\ UNCHANGED <<store, proc>>
        \/ /\ is_arg_valid(i, job.offset)
           /\ get_inode_frees(store, i)
           /\ proc' = "freed_inode"
           /\ UNCHANGED <<store, pc, job>>
        \/ /\ is_arg_valid(i, job.offset)
           /\ ~get_inode_fails(store, i) /\ ~get_inode_frees(store, i)
           /\ \E garbage \in BOOLEAN : store' = get_inode(store, i, garbage)
           /\ pc' = "write"
           /\ job' = [job EXCEPT !.left = @ - n,
                                 !.length = n,
                                 !.inode = [inode EXCEPT !.isvalid = TRUE],
                                 !.write_inode = ~inode.isvalid]
           /\ UNCHANGED proc
  /\ UNCHANGED <<capacity, formatted, blocks, memory, history>>

\* create_new_data_block: the blocks it takes, the indirect block first.
needs_indirect(pointer_number) ==
  pointer_number >= POINTERS_PER_INODE /\ job.inode.indirect = 0

first_block == find_free_block(block_freemap)
second_block == find_free_block(block_freemap \cup {first_block})

can_create(pointer_number) ==
  first_block # 0 /\ (needs_indirect(pointer_number) => second_block # 0)

data_block(pointer_number) ==
  IF needs_indirect(pointer_number) THEN second_block ELSE first_block

\* What create_new_data_block leaves in the inode and in *write_inode.
created(pointer_number) ==
  IF pointer_number < POINTERS_PER_INODE
    THEN [inode |-> [job.inode EXCEPT
                       !.direct[pointer_number] = data_block(pointer_number)],
          write_inode |-> TRUE]
    ELSE IF needs_indirect(pointer_number)
      THEN [inode |-> [job.inode EXCEPT !.indirect = first_block],
            write_inode |-> TRUE]
    ELSE [inode |-> job.inode, write_inode |-> job.write_inode]

\* The pointer block as it is written back: a new one starts with zeros.
\* Mutant: it keeps what its last owner left in it.
old_pointersKept(pointer_number) ==
  IF needs_indirect(pointer_number) THEN blocks[first_block]
  ELSE blocks[job.inode.indirect]
old_pointers(pointer_number) ==
  IF needs_indirect(pointer_number) THEN ZeroBlock
  ELSE blocks[job.inode.indirect]

with_pointer(pointer_number) ==
  IF pointer_number < POINTERS_PER_INODE THEN blocks
  ELSE [blocks EXCEPT ![created(pointer_number).inode.indirect] =
          [old_pointers(pointer_number) EXCEPT
             ![pointer_number - POINTERS_PER_INODE] = data_block(pointer_number)]]

\* The words written to one block, over what it holds.
Filled(block, start, n) ==
  [k \in 0 .. DISK_BLOCK_SIZE - 1 |->
     IF start <= k /\ k < start + n THEN job.word ELSE block[k]]

\* One round of the loop of fs_write.
write_block ==
  /\ Copying("write") /\ job.length > 0
  /\ LET pointer_number == job.offset \div DISK_BLOCK_SIZE
         start == job.offset % DISK_BLOCK_SIZE
         room == DISK_BLOCK_SIZE - start
         n == IF room < job.length THEN room ELSE job.length
         advanced == [job EXCEPT !.offset = @ + n, !.length = @ - n]
         b == get_block_number_for_offset(job.inode, job.offset)
         new == data_block(pointer_number)
     IN \/ /\ pointer_number >= MaxPointers
           /\ proc' = "overrun"
           /\ UNCHANGED <<blocks, block_freemap, job>>
        \/ /\ pointer_number < MaxPointers /\ b # 0
           /\ blocks' = [blocks EXCEPT ![b] = Filled(@, start, n)]
           /\ job' = advanced
           /\ UNCHANGED <<block_freemap, proc>>
        \/ /\ pointer_number < MaxPointers /\ b = 0 /\ can_create(pointer_number)
           /\ blocks' = [with_pointer(pointer_number) EXCEPT
                           ![new] = Filled(ZeroBlock, start, n)]
           /\ block_freemap' = block_freemap \cup {first_block, new}
           /\ job' = [advanced EXCEPT
                        !.inode = created(pointer_number).inode,
                        !.write_inode = created(pointer_number).write_inode]
           /\ UNCHANGED proc
  /\ UNCHANGED <<capacity, store, formatted, inode_freemap, cache, pc, history>>

OutOfBlocks ==
  /\ job.length > 0
  /\ job.offset \div DISK_BLOCK_SIZE < MaxPointers
  /\ get_block_number_for_offset(job.inode, job.offset) = 0
  /\ ~can_create(job.offset \div DISK_BLOCK_SIZE)

grown_size == IF job.offset > job.inode.size THEN job.offset ELSE job.inode.size

\* Mutant: growth within the last block does not mark the inode.
must_saveNoGrowth == job.write_inode
must_save == job.write_inode \/ job.offset > job.inode.size

\* After the loop; do_copyin goes on unless the write was cut short.
fs_write_end ==
  /\ Copying("write") /\ (job.length = 0 \/ OutOfBlocks)
  /\ store' = set_dirty(store, job.inumber, must_save,
                        [job.inode EXCEPT !.size = grown_size])
  /\ IF job.length = 0 /\ job.left > 0
       THEN /\ pc' = "copyin"
            /\ job' = [job EXCEPT !.inode = EmptyInode, !.write_inode = FALSE]
       ELSE ToPrompt
  /\ UNCHANGED <<capacity, formatted, blocks, memory, proc, history>>
-----------------------------------------------------------------------------
(* The life of the process.                                                *)

quit ==
  /\ AtPrompt /\ unmounted
  /\ pc' = "closing"
  /\ UNCHANGED <<capacity, formatted, blocks, job, proc, history>>

\* What is in memory is gone.
EndOfProcess ==
  /\ proc' = "ended"
  /\ store' = newCache(store.disk)
  /\ block_freemap' = {} /\ inode_freemap' = {}
  /\ cache' = "null"
  /\ ToPrompt
  /\ UNCHANGED <<capacity, formatted, blocks, history>>

disk_close == Copying("closing") /\ EndOfProcess

\* End of input: the shell leaves its loop without unmounting.
end_of_input == AtPrompt /\ EndOfProcess

\* The process is killed in the middle of a copyin.
killed == proc = "running" /\ pc \in {"copyin", "write"} /\ EndOfProcess

main(c) ==
  /\ proc = "ended"
  /\ proc' = "running"
  /\ capacity' = c
  /\ UNCHANGED <<store, formatted, blocks, memory, pc, job, history>>

Next ==
  \/ fs_format \/ fs_mount \/ fs_unmount \/ fs_debug
  \/ fs_create
  \/ \E i \in Inumbers : fs_delete(i) \/ fs_getsize(i) \/ do_copyout(i)
  \/ \E i \in Inumbers, n \in Lengths : do_copyin(i, n)
  \/ fs_write_begin \/ write_block \/ fs_write_end
  \/ quit \/ disk_close \/ end_of_input \/ killed
  \/ \E c \in Capacities : main(c)

Spec == Init /\ [][Next]_vars
-----------------------------------------------------------------------------
\* An inode as the running process has it.
Live ==
  [i \in Inumbers |->
     IF pc = "write" /\ i = job.inumber
       THEN [job.inode EXCEPT !.size = grown_size]
       ELSE inode_of(store, i)]

AllPointers == -1 .. MaxPointers - 1
Pointer(inode, p) ==
  IF p = -1 THEN inode.indirect
  ELSE get_block_number_for_offset(inode, p * DISK_BLOCK_SIZE)

Owners(table) ==
  {o \in Inumbers \X AllPointers : Pointer(table[o[1]], o[2]) # 0}

OwnedOnce(table) ==
  \A o1, o2 \in Owners(table) :
    Pointer(table[o1[1]], o1[2]) = Pointer(table[o2[1]], o2[2]) => o1 = o2

Owned(table) == {Pointer(table[o[1]], o[2]) : o \in Owners(table)}

Faults == {"freed_cache", "freed_inode", "overrun"}

(* Every variable keeps its type.                                          *)
TypeOK ==
  /\ capacity \in Capacities
  /\ store \in [disk : [Inumbers -> fs_inode],
                lru : Seq(Inumbers),
                inode : [Inumbers -> fs_inode],
                is_dirty : [Inumbers -> BOOLEAN],
                current_size : Nat]
  /\ formatted \in BOOLEAN
  /\ blocks \in [DataBlocks -> [0 .. DISK_BLOCK_SIZE - 1 -> Nat]]
  /\ block_freemap \subseteq 0 .. nblocks - 1
  /\ inode_freemap \subseteq Inumbers
  /\ cache \in {"null", "live", "freed"}
  /\ pc \in {"shell", "copyin", "write", "closing"}
  /\ job \in [inumber : Inumbers, word : 0 .. MaxCopies, left : Nat,
              length : Nat, offset : Nat, inode : fs_inode,
              write_inode : BOOLEAN]
  /\ proc \in Faults \cup {"running", "ended"}
  /\ mounts \in {0, 1}
  /\ copies \in 0 .. MaxCopies

(* No block belongs to two files or twice to one, and the free map built   *)
(* by fs_mount and kept by fs_write and fs_delete shows exactly the blocks *)
(* of the files: nothing is leaked by a write that runs out of blocks.     *)
BlocksOwnedOnce ==
  is_mounted =>
    /\ OwnedOnce(Live)
    /\ block_freemap = 0 .. NUM_INODE_BLOCKS \cup Owned(Live)

(* Whenever the process ends, in the middle of a copyin too, the inodes    *)
(* that happen to be on the disk own their blocks once, and the scan of    *)
(* fs_mount, which stops at the first zero pointer, sees them all.         *)
DiskRecoverable ==
  /\ OwnedOnce(store.disk)
  /\ used_blocks(store.disk) = 0 .. NUM_INODE_BLOCKS \cup Owned(store.disk)

(* Write back: an inode in the cache that differs from the one on the disk *)
(* is marked dirty, so no way out of the cache loses it.                   *)
CleanInodeMatchesDisk ==
  \A i \in Inumbers :
    InCache(store, i) /\ ~store.is_dirty[i] => store.inode[i] = store.disk[i]

(* fs.h:21-22: "Create an empty file.  Returns newly allocated inode       *)
(* number": the number fs_create returns names a valid inode.              *)
CreatedFileIsValid ==
  is_mounted => \A i \in inode_freemap : Live[i].isvalid

Store == INSTANCE FileStore WITH
  Names <- Inumbers,
  Words <- 1 .. MaxCopies,
  files <- [i \in Inumbers |-> IF Live[i].isvalid THEN fs_read(Live[i])
                               ELSE NoFile],
  mounted <- is_mounted,
  running <- proc = "running"

(* copyin, copyout, delete and remounting behave like a map from inode     *)
(* numbers to contents through cache eviction, deletion, full disks and    *)
(* unmounting; a process that ends without unmounting leaves of every file *)
(* a prefix.                                                               *)
ImplementsFileStore == Store!StoreSpec
=============================================================================
