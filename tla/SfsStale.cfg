SPECIFICATION Spec
CONSTANTS
  Files = {f1}
  Fds = {d1, d2}
  NBLOCKS = 4
  SFS_BLKSIZE = 2
  SFS_NDIRECT = 1
  SFS_BLK_NENTRY = 2
  SFS_MAX_FILE_SIZE = 7
  Lengths = {1, 3}
  NULL = NULL
INVARIANTS
  IndexWithinBlocks
