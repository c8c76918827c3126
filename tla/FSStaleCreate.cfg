\* A command names an inode number before it has a file.
CONSTANTS
  nblocks = 10
  INODES_PER_BLOCK = 2
  POINTERS_PER_INODE = 1
  POINTERS_PER_BLOCK = 2
  Capacities = {0, 1, 2}
  Lengths = {5, 7}
  BufferSize = 3
  MaxCopies = 2
  StrayNames = TRUE
  NoFile = NoFile
SPECIFICATION Spec
CHECK_DEADLOCK FALSE
INVARIANT CreatedFileIsValid
