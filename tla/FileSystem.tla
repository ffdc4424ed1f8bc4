----------------------------- MODULE FileSystem -----------------------------
(* The file system SFS checked in one run: the block maps of files (this       *)
(* module's own state is that of SfsFile), the image that mksfs writes and the *)
(* kernel mounts, and the bytes that reads and writes carry between a user's   *)
(* buffer and the disk.  They look at one file system each, at a different     *)
(* grain.  In a behaviour one of them takes steps, the others stay in their    *)
(* initial states.                                                             *)
EXTENDS SfsFile, TLC

VARIABLES
  phase, next_ino, img_unused, img, ci, stack, host, mount,
  sectors, free, inode, pos, ret, given,
  part          \* the component that takes steps

\* An image of 18 blocks, whose freemap fills two blocks and two bits of a third; names that
\* fit, that are cut, refused or passed over, three directories deep.
I == INSTANCE SfsImage WITH
       unused_blocks <- img_unused, NINOS <- 18, SFS_BLKBITS <- 8, SFS_NDIRECT <- 2,
       SFS_BLK_NENTRY <- 2, SFS_LN_NBLKS <- 5, SFS_MAX_FNAME_LEN <- 3, INO_SIZE <- 2,
       NAMES <- {<<"a">>, <<"a", "b">>, <<"a", "b", "c">>, <<"a", "b", "c", "d">>, <<".", "a">>},
       MAXDEPTH <- 3

\* A disk of two blocks of two sectors; a sector stands for its bytes.
F == INSTANCE FileIo WITH
       disk <- sectors, din <- inode, NBLOCKS <- 2, IOBUF_SIZE <- 2,
       SFS_MAX_FILE_SIZE <- 6, MAXLEN <- 3,
       Texts <- {<<>>, <<1>>, <<2>>, <<1, 2>>, <<2, 1>>, <<1, 2, 1>>, <<2, 2, 1>>}

imagevars == <<phase, next_ino, img_unused, img, ci, stack, host, mount>>
iovars == <<sectors, free, inode, pos, ret, given>>
fsvars == <<vars, imagevars, iovars, part>>

FsInit == part \in {"files", "image", "io"} /\ Init /\ I!Init /\ F!Init

FsNext ==
  \/ part = "files" /\ Next /\ UNCHANGED <<imagevars, iovars, part>>
  \/ part = "image" /\ I!Next /\ UNCHANGED <<vars, iovars, part>>
  \/ part = "io" /\ F!Next /\ UNCHANGED <<vars, imagevars, part>>

FsSpec == FsInit /\ [][FsNext]_fsvars

\* Files and descriptors are interchangeable.
Symmetry == Permutations(Files) \cup Permutations(Fds)

-----------------------------------------------------------------------------
\* The kernel finds in a mounted image what mksfs was given: files with their blocks under
\* each of their names, directories with their path names and their entries.
ImageIsFaithful == I!ImageIsFaithful

\* Reads and writes of any length at any position act on a sequence of bytes, whatever
\* blocks they touch and wherever the user's buffer or the space on disk ends; only
\* opening an empty file to empty it may stop the kernel.
ImplementsByteFile == F!ImplementsByteFile
=============================================================================
