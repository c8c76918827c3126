\* Two files of up to four blocks in seven: full disks, indirect blocks,
\* evictions, writes that are too long.
CONSTANTS
  nblocks = 10
  INODES_PER_BLOCK = 2
  POINTERS_PER_INODE = 1
  POINTERS_PER_BLOCK = 2
  Capacities = {0, 1, 2}
  Lengths = {5, 7}
  BufferSize = 3
  MaxCopies = 2
  StrayNames = FALSE
  NoFile = NoFile
SPECIFICATION Spec
CHECK_DEADLOCK FALSE
INVARIANTS TypeOK BlocksOwnedOnce DiskRecoverable CleanInodeMatchesDisk
PROPERTY ImplementsFileStore
