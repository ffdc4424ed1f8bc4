------------------------------ MODULE SfsFile -------------------------------
(* Regular files of the simple file system (kern/fs/sfs/sfs_inode.c) under the *)
(* open files of kern/fs/file.c: the block map of an inode with its direct and *)
(* indirect blocks, block allocation on a disk that can be full, and reading,  *)
(* writing, seeking and truncating through file positions.  One operation runs *)
(* at a time (the kernel is not preempted and the transfers do not sleep), one *)
(* action per block.  Contents are left out, but for entry blocks.             *)
EXTENDS Integers, FiniteSets, FiniteSetsExt

CONSTANTS Files, Fds,
          NBLOCKS,             \* blocks of the disk that files can use
          SFS_BLKSIZE, SFS_NDIRECT, SFS_BLK_NENTRY, SFS_MAX_FILE_SIZE,
          Lengths,             \* lengths of reads and writes
          NULL

ASSUME SfsAssumption ==
  /\ NBLOCKS \in Nat /\ SFS_BLKSIZE \in Nat \ {0}
  /\ SFS_NDIRECT \in Nat \ {0} /\ SFS_BLK_NENTRY \in Nat \ {0}
  /\ SFS_MAX_FILE_SIZE \in Nat /\ Lengths \subseteq Nat \ {0}
  /\ NULL \notin Files

VARIABLES
  freemap,        \* the free blocks
  unused_blocks,  \* the counter in the super block
  din,            \* the inodes: size, blocks, direct, indirect
  ents,           \* ents[b]: the entries of b if it is an entry block
  fds,            \* fds[d]: file and pos of an open file, or NULL
  op,             \* the operation that is under way
  panicked,       \* the assertion that failed, or "no"
  marred          \* history: files with an enlargement that ran out of space, or a
                  \* write that began behind the end, since they were last truncated

disk == <<freemap, unused_blocks, ents>>
vars == <<disk, din, fds, op, panicked, marred>>

Blocks == 1..NBLOCKS
Direct == 0..(SFS_NDIRECT - 1)
Entries == 0..(SFS_BLK_NENTRY - 1)
Indices == 0..(SFS_NDIRECT + SFS_BLK_NENTRY - 1)

Idle == [run |-> "idle"]

ROUNDUP_DIV(a, n) == (a + n - 1) \div n

\* The block at an index of a file, 0 if there is none.
BlockAt(f, index) ==
  IF index < SFS_NDIRECT THEN din[f].direct[index]
  ELSE IF din[f].indirect = 0 THEN 0
  ELSE ents[din[f].indirect][index - SFS_NDIRECT]

Init ==
  /\ freemap = Blocks /\ unused_blocks = NBLOCKS
  /\ din = [f \in Files |-> [size |-> 0, blocks |-> 0, indirect |-> 0,
                             direct |-> [i \in Direct |-> 0]]]
  /\ ents = [b \in Blocks |-> [i \in Entries |-> 0]]
  /\ fds = [d \in Fds |-> NULL]
  /\ op = Idle /\ panicked = "no" /\ marred = {}

-----------------------------------------------------------------------------
\* sfs_block_alloc takes the lowest free block.
sfs_block_alloc(B) == Min(B)

\* The blocks sfs_bmap_get_nolock allocates for index: none if there is one, or
\* one, and one more for the entries if no index before was indirect.
Needed(f, index) ==
  IF BlockAt(f, index) # 0 THEN 0
  ELSE IF index >= SFS_NDIRECT /\ din[f].indirect = 0 THEN 2 ELSE 1

\* A direct block, with sfs_bmap_load_nolock counting it.
NewDirect(f, index) ==
  LET b == sfs_block_alloc(freemap) IN
  /\ din' = [din EXCEPT ![f].direct[index] = b, ![f].blocks = @ + 1]
  /\ freemap' = freemap \ {b}
  /\ UNCHANGED ents

\* Faulty: the entry block is not set aside before the data block is taken.
NewIndirect_SharesBlock(f, index) ==
  LET ent == IF din[f].indirect = 0 THEN sfs_block_alloc(freemap)
             ELSE din[f].indirect
      b == sfs_block_alloc(freemap)
  IN /\ din' = [din EXCEPT ![f].indirect = ent, ![f].blocks = @ + 1]
     /\ ents' = [ents EXCEPT ![ent][index - SFS_NDIRECT] = b]
     /\ freemap' = freemap \ {ent, b}

\* An indirect block.  The entry block comes first; it is cleared, and it is
\* given back if there is no second block.
NewIndirect(f, index) ==
  LET new == din[f].indirect = 0
      ent == IF new THEN sfs_block_alloc(freemap) ELSE din[f].indirect
      b == sfs_block_alloc(freemap \ {ent})
      cleared == IF new THEN [i \in Entries |-> 0] ELSE ents[ent]
  IN /\ din' = [din EXCEPT ![f].indirect = ent, ![f].blocks = @ + 1]
     /\ ents' = [ents EXCEPT ![ent] = [cleared EXCEPT ![index - SFS_NDIRECT] = b]]
     /\ freemap' = freemap \ {ent, b}

\* The outcomes of sfs_bmap_load_nolock(f, index): the block is there, ...
Loaded(f, index) ==
  /\ index < din[f].blocks /\ BlockAt(f, index) # 0
  /\ UNCHANGED <<disk, din>>

\* ... or it is the next one and is created, ...
Created(f, index) ==
  /\ index = din[f].blocks /\ index \in Indices
  /\ Cardinality(freemap) >= Needed(f, index)
  /\ unused_blocks' = unused_blocks - Needed(f, index)
  /\ IF BlockAt(f, index) # 0
     THEN din' = [din EXCEPT ![f].blocks = @ + 1] /\ UNCHANGED <<freemap, ents>>
     ELSE IF index < SFS_NDIRECT THEN NewDirect(f, index) ELSE NewIndirect(f, index)

\* ... or there is no space for it, ...
NoSpace(f, index) ==
  /\ index = din[f].blocks /\ index \in Indices
  /\ Cardinality(freemap) < Needed(f, index)
  /\ UNCHANGED <<disk, din>>

\* ... or an assertion fails: a hole, an index the inode cannot hold, or no block
\* where there should be one.
LoadPanics(f, index) ==
  /\ panicked' = CASE index > din[f].blocks -> "hole"
                   [] index = din[f].blocks /\ index \notin Indices -> "range"
                   [] index < din[f].blocks /\ BlockAt(f, index) = 0 -> "unmapped"
                   [] OTHER -> "no"
  /\ panicked' # "no"
  /\ UNCHANGED <<disk, din, fds, op, marred>>

\* Faulty: the freed block stays mapped.
Drop_KeepsEntry(f) ==
  LET index == din[f].blocks - 1
      b == BlockAt(f, index)
  IN /\ freemap' = freemap \cup ({b} \ {0})
     /\ unused_blocks' = unused_blocks + 1
     /\ din' = [din EXCEPT ![f].blocks = index]
     /\ UNCHANGED ents

\* sfs_bmap_truncate_nolock: the last block goes.
Drop(f) ==
  LET index == din[f].blocks - 1
      b == BlockAt(f, index)
  IN /\ freemap' = freemap \cup ({b} \ {0})
     /\ unused_blocks' = unused_blocks + (IF b = 0 THEN 0 ELSE 1)
     /\ IF index < SFS_NDIRECT
        THEN /\ din' = [din EXCEPT ![f].direct[index] = 0, ![f].blocks = index]
             /\ UNCHANGED ents
        ELSE /\ din' = [din EXCEPT ![f].blocks = index]
             /\ ents' = [ents EXCEPT ![din[f].indirect][index - SFS_NDIRECT] = 0]

-----------------------------------------------------------------------------
\* sfs_truncfile is done: file_open or file_seek sets the position.
Position(d, f, len) == fds' = [fds EXCEPT ![d] = [file |-> f, pos |-> len]]

\* sfs_truncfile(f, len) on behalf of fd d.  If the size is right already, the
\* number of blocks is asserted to be, too.
sfs_truncfile(d, f, len) ==
  \/ /\ din[f].size = len
     /\ din[f].blocks = ROUNDUP_DIV(len, SFS_BLKSIZE)
     /\ Position(d, f, len)
     /\ UNCHANGED <<disk, din, op, panicked, marred>>
  \/ /\ din[f].size = len
     /\ din[f].blocks # ROUNDUP_DIV(len, SFS_BLKSIZE)
     /\ panicked' = "size"
     /\ UNCHANGED <<disk, din, fds, op, marred>>
  \/ /\ din[f].size # len
     /\ op' = [run |-> "truncate", fd |-> d, file |-> f, len |-> len]
     /\ UNCHANGED <<disk, din, fds, panicked, marred>>

\* Enlarging by one block.  A failure ends the loop and leaves size as it was.
TruncGrow ==
  /\ op.run = "truncate"
  /\ LET f == op.file
         index == din[f].blocks
     IN /\ index < ROUNDUP_DIV(op.len, SFS_BLKSIZE)
        /\ \/ Created(f, index) /\ UNCHANGED <<fds, op, panicked, marred>>
           \/ /\ NoSpace(f, index)
              /\ op' = Idle
              /\ marred' = marred \cup {f}
              /\ UNCHANGED <<fds, panicked>>
           \/ LoadPanics(f, index)

TruncShrink ==
  /\ op.run = "truncate"
  /\ din[op.file].blocks > ROUNDUP_DIV(op.len, SFS_BLKSIZE)
  /\ Drop(op.file)
  /\ UNCHANGED <<fds, op, panicked, marred>>

TruncDone ==
  /\ op.run = "truncate"
  /\ din[op.file].blocks = ROUNDUP_DIV(op.len, SFS_BLKSIZE)
  /\ din' = [din EXCEPT ![op.file].size = op.len]
  /\ Position(op.fd, op.file, op.len)
  /\ op' = Idle
  /\ marred' = marred \ {op.file}
  /\ UNCHANGED <<disk, panicked>>

-----------------------------------------------------------------------------
\* sfs_io_nolock from the position of fd d, up to endpos.
StartIo(d, endpos) ==
  /\ endpos > fds[d].pos
  /\ op' = [run |-> "io", fd |-> d, file |-> fds[d].file,
            offset |-> fds[d].pos, endpos |-> endpos, alen |-> 0]
  /\ marred' = marred \cup {f \in {fds[d].file} : fds[d].pos > din[f].size}
  /\ UNCHANGED <<disk, din, fds, panicked>>

\* The part of the transfer in the next block; without space it ends here.
IoBlock ==
  /\ op.run = "io"
  /\ LET f == op.file
         pos == op.offset + op.alen
         blkno == pos \div SFS_BLKSIZE
         end == Min({op.endpos, (blkno + 1) * SFS_BLKSIZE})
     IN /\ pos < op.endpos
        /\ \/ /\ Loaded(f, blkno) \/ Created(f, blkno)
              /\ op' = [op EXCEPT !.alen = end - op.offset]
              /\ UNCHANGED <<fds, panicked, marred>>
           \/ /\ NoSpace(f, blkno)
              /\ op' = [op EXCEPT !.endpos = pos]
              /\ UNCHANGED <<fds, panicked, marred>>
           \/ LoadPanics(f, blkno)

\* Faulty: the size follows the transfer even where the file is longer.
IoDone_WholeSize ==
  /\ op.run = "io" /\ op.offset + op.alen = op.endpos
  /\ din' = [din EXCEPT ![op.file].size = op.endpos]
  /\ fds' = [fds EXCEPT ![op.fd].pos = @ + op.alen]
  /\ op' = Idle
  /\ UNCHANGED <<disk, panicked, marred>>

\* The size grows to what was written, and the position moves.
IoDone ==
  /\ op.run = "io" /\ op.offset + op.alen = op.endpos
  /\ din' = [din EXCEPT ![op.file].size = Max({@, op.endpos})]
  /\ fds' = [fds EXCEPT ![op.fd].pos = @ + op.alen]
  /\ op' = Idle
  /\ UNCHANGED <<disk, panicked, marred>>

-----------------------------------------------------------------------------
Ready == op = Idle /\ panicked = "no"

\* O_TRUNC and O_CREAT empty the file; O_APPEND starts at its end.
file_open(d, f) ==
  /\ Ready /\ fds[d] = NULL
  /\ \/ sfs_truncfile(d, f, 0)
     \/ /\ \E pos \in {0, din[f].size} : Position(d, f, pos)
        /\ UNCHANGED <<disk, din, op, panicked, marred>>

file_close(d) ==
  /\ Ready /\ fds[d] # NULL
  /\ fds' = [fds EXCEPT ![d] = NULL]
  /\ UNCHANGED <<disk, din, op, panicked, marred>>

file_write(d, len) ==
  /\ Ready /\ fds[d] # NULL
  /\ fds[d].pos < SFS_MAX_FILE_SIZE
  /\ StartIo(d, Min({fds[d].pos + len, SFS_MAX_FILE_SIZE}))

file_read(d, len) ==
  /\ Ready /\ fds[d] # NULL
  /\ fds[d].pos < Min({SFS_MAX_FILE_SIZE, din[fds[d].file].size})
  /\ StartIo(d, Min({fds[d].pos + len, din[fds[d].file].size}))

\* sfs_tryseek enlarges the file if the new position is behind its end.
file_seek(d, pos) ==
  /\ Ready /\ fds[d] # NULL
  /\ \/ /\ pos <= din[fds[d].file].size
        /\ fds' = [fds EXCEPT ![d].pos = pos]
        /\ UNCHANGED <<disk, din, op, panicked, marred>>
     \/ /\ pos > din[fds[d].file].size
        /\ sfs_truncfile(d, fds[d].file, pos)

\* panic does not return.
panic == panicked # "no" /\ UNCHANGED vars

Next ==
  \/ \E d \in Fds :
       \/ \E f \in Files : file_open(d, f)
       \/ file_close(d)
       \/ \E len \in Lengths : file_write(d, len) \/ file_read(d, len)
       \/ \E pos \in 0..(SFS_MAX_FILE_SIZE - 1) : file_seek(d, pos)
  \/ panicked = "no" /\ (TruncGrow \/ TruncShrink \/ TruncDone \/ IoBlock \/ IoDone)
  \/ panic

Spec == Init /\ [][Next]_vars

-----------------------------------------------------------------------------
\* Every block in use belongs to one place: a direct entry, an entry of an
\* indirect block, or the indirect block of one file; the others are free, and
\* the counter of the super block is right.  Were a block in two places, or freed
\* and still mapped, files would overwrite each other later on.
BlocksHaveOneOwner ==
  LET places == {<<f, i>> : f \in Files, i \in Indices \cup {-1}}
      at == [p \in places |-> IF p[2] = -1 THEN din[p[1]].indirect
                              ELSE BlockAt(p[1], p[2])]
  IN /\ \A p, q \in places : at[p] = at[q] /\ at[p] # 0 => p = q
     /\ freemap = Blocks \ {at[p] : p \in places}
     /\ unused_blocks = Cardinality(freemap)

\* The blocks of a file are those at the indices below din->blocks, also when a
\* full disk ends a write or an enlargement half-way.
IndicesAreDense ==
  \A f \in Files, i \in Indices : BlockAt(f, i) # 0 <=> i < din[f].blocks

\* Between operations a file has just the blocks its size needs, which is what
\* sfs_truncfile asserts and reading relies on, unless an enlargement ran out of
\* space or another open of the file truncated it under a position that is used
\* for writing afterwards.  A write that a full disk cuts short is no exception.
BlocksMatchSize ==
  op = Idle => \A f \in Files \ marred :
                 din[f].blocks = ROUNDUP_DIV(din[f].size, SFS_BLKSIZE)

\* No block is shared, lost or freed while in use, the block map of a file has no holes,
\* and a file has the blocks that its size needs (sfs_inode.c), also when the disk fills
\* up in the middle of a write or an enlargement.
BlocksAreSound == BlocksHaveOneOwner /\ IndicesAreDense /\ BlocksMatchSize

\* sfs_bmap_load_nolock asserts index <= din->blocks: nobody reads or writes
\* behind the end of a file.  A file position can be behind the end, though, when
\* another open of the file has truncated it.
IndexWithinBlocks == panicked # "hole"
=============================================================================
