------------------------------- MODULE FileIo -------------------------------
(* The way of the bytes of a read or a write: the loop of sysfile.c over a     *)
(* kernel buffer and a user buffer that may end early, the position of file.c, *)
(* the pieces of sfs_io_nolock, the block transfers of sfs_io.c, dev_disk0.c   *)
(* and ide.c.  A sector is a byte here.  One process has the file open; nobody *)
(* else runs during a call.  The block map is a sequence (SfsFile has its      *)
(* layout on disk).                                                            *)
EXTENDS Integers, Sequences, FiniteSets, SequencesExt, FiniteSetsExt

CONSTANTS NBLOCKS,             \* blocks of the disk
          SFS_BLKSIZE,         \* bytes of a block
          IOBUF_SIZE,          \* the kernel buffer
          SFS_MAX_FILE_SIZE,
          Texts,               \* what is written: sequences of bytes; 0 is the byte of a new block
          MAXLEN               \* bound on the length of a read

DISK0_BLK_NSECT == SFS_BLKSIZE      \* sectors of a block
Sectors == 0..(NBLOCKS * DISK0_BLK_NSECT - 1)

VARIABLES
  disk,     \* the sectors
  free,     \* the free blocks
  din,      \* the inode: size and blocks
  pos,      \* position of the open file
  ret,      \* what the last call did: its kind, the count, the bytes delivered
  given     \* the bytes that the last write was given

vars == <<disk, free, din, pos, ret, given>>

-----------------------------------------------------------------------------
\* Transfers.  An error of the disk ends in a panic.

ide_read_secs(d, secno, nsecs) == [i \in 1..nsecs |-> d[secno + i - 1]]

ide_write_secs(d, secno, src) ==
  [s \in Sectors |-> IF s \in secno..(secno + Len(src) - 1) THEN src[s - secno + 1] ELSE d[s]]

\* disk0_io: sfs_io.c asks for one block at a time, which fits into the buffer.
disk0_read_blks_nolock(d, blkno) == ide_read_secs(d, blkno * DISK0_BLK_NSECT, DISK0_BLK_NSECT)
disk0_write_blks_nolock(d, blkno, buf) == ide_write_secs(d, blkno * DISK0_BLK_NSECT, buf)

disk0_io_read(d, offset) == disk0_read_blks_nolock(d, offset \div SFS_BLKSIZE)
disk0_io(d, offset, buf) == disk0_write_blks_nolock(d, offset \div SFS_BLKSIZE, buf)

sfs_rblock(d, blkno) == disk0_io_read(d, blkno * SFS_BLKSIZE)
sfs_wblock(d, blkno, buf) == disk0_io(d, blkno * SFS_BLKSIZE, buf)

sfs_rbuf(d, len, blkno, offset) == SubSeq(sfs_rblock(d, blkno), offset + 1, offset + len)

\* Faulty sfs_wbuf: the rest of the block is not read first.
sfs_wbuf_NoRead(d, buf, blkno, offset) ==
  sfs_wblock(d, blkno, [i \in 1..SFS_BLKSIZE |->
    IF i \in (offset + 1)..(offset + Len(buf)) THEN buf[i - offset] ELSE 0])

\* A part of a block is written with the rest of it.
sfs_wbuf(d, buf, blkno, offset) ==
  LET old == sfs_rblock(d, blkno)
  IN  sfs_wblock(d, blkno, [i \in 1..SFS_BLKSIZE |->
        IF i \in (offset + 1)..(offset + Len(buf)) THEN buf[i - offset] ELSE old[i]])

sfs_clear_block(d, blkno) == sfs_wblock(d, blkno, [i \in 1..SFS_BLKSIZE |-> 0])

-----------------------------------------------------------------------------
\* The file.  "w" is the state a call works on, with the bytes alen it has moved, its
\* error and the bytes it has read.

\* sfs_bmap_load_nolock: the block of an index, a new one behind the last.
sfs_bmap_load_nolock(w, index) ==
  IF index < Len(w.blocks) THEN w
  ELSE IF w.free = {} THEN [w EXCEPT !.err = "E_NO_MEM"]
  ELSE [w EXCEPT !.blocks = Append(@, Min(w.free)), !.free = @ \ {Min(w.free)},
                 !.disk = sfs_clear_block(@, Min(w.free))]

\* The parts of offset..endpos-1: the end of a first block, whole blocks, the
\* beginning of a last one.
Pieces(offset, endpos) ==
  LET blkno == offset \div SFS_BLKSIZE
      nblks == endpos \div SFS_BLKSIZE - blkno
      blkoff == offset % SFS_BLKSIZE
      head == IF blkoff = 0 THEN <<>>
              ELSE <<[blk |-> blkno, off |-> blkoff,
                      size |-> IF nblks # 0 THEN SFS_BLKSIZE - blkoff ELSE endpos - offset]>>
      whole == [i \in 1..(nblks - Len(head)) |->
                 [blk |-> blkno + Len(head) + i - 1, off |-> 0, size |-> SFS_BLKSIZE]]
      tail == [blk |-> blkno + nblks, off |-> 0, size |-> endpos % SFS_BLKSIZE]
  IN  IF blkoff # 0 /\ nblks = 0 THEN head
      ELSE IF tail.size = 0 THEN head \o whole ELSE Append(head \o whole, tail)

\* One of them; buf is what is written, and not used to read.
IoPiece(w, piece, buf, write) ==
  LET w1 == sfs_bmap_load_nolock(w, piece.blk)
      ino == w1.blocks[piece.blk + 1]
      part == SubSeq(buf, w.alen + 1, w.alen + piece.size)
  IN  IF w.err # "ok" THEN w
      ELSE IF w1.err # "ok" THEN w1
      ELSE IF write THEN [w1 EXCEPT !.disk = sfs_wbuf(@, part, ino, piece.off), !.alen = @ + piece.size]
      ELSE [w1 EXCEPT !.out = @ \o sfs_rbuf(w1.disk, piece.size, ino, piece.off), !.alen = @ + piece.size]

sfs_io_nolock(w, buf, offset, len, write) ==
  LET limit == IF write THEN SFS_MAX_FILE_SIZE ELSE Min({SFS_MAX_FILE_SIZE, w.size})
      endpos == Min({offset + len, limit})
      done == FoldLeft(LAMBDA acc, piece : IoPiece(acc, piece, buf, write),
                       [w EXCEPT !.alen = 0], Pieces(offset, endpos))
  IN  IF offset >= SFS_MAX_FILE_SIZE THEN [w EXCEPT !.alen = 0, !.err = "E_INVAL"]
      ELSE IF len = 0 \/ (~write /\ offset >= w.size) THEN [w EXCEPT !.alen = 0]
      ELSE [done EXCEPT !.size = Max({@, offset + done.alen})]

\* file_read and file_write.
file_io(w, buf, len, write) ==
  LET r == sfs_io_nolock(w, buf, w.pos, len, write) IN [r EXCEPT !.pos = @ + r.alen]

\* A pass of the loop of sysfile_read; ok bytes of the user's buffer exist.  The bytes
\* that have been read when the copy fails are lost, the position has moved on.
ReadPass(w, ok) ==
  LET r == file_io([w EXCEPT !.out = <<>>], <<>>, Min({IOBUF_SIZE, w.len}), FALSE)
      fits == w.copied + r.alen <= ok
  IN  IF w.over THEN w
      ELSE IF r.alen = 0 THEN [r EXCEPT !.over = TRUE, !.out = w.out]
      ELSE IF fits THEN [r EXCEPT !.out = w.out \o @, !.copied = @ + r.alen, !.len = @ - r.alen,
                                  !.over = r.err # "ok"]
      ELSE [r EXCEPT !.out = w.out, !.over = TRUE, !.err = IF @ = "ok" THEN "E_INVAL" ELSE @]

WritePass(w, data, ok) ==
  LET alen == Min({IOBUF_SIZE, w.len})
      r == file_io(w, SubSeq(data, w.copied + 1, w.copied + alen), alen, TRUE)
  IN  IF w.over THEN w
      ELSE IF w.copied + alen > ok THEN [w EXCEPT !.err = "E_INVAL", !.over = TRUE]
      ELSE [r EXCEPT !.copied = @ + r.alen, !.len = @ - r.alen, !.over = r.err # "ok" \/ r.alen = 0]

\* The passes that len bytes take at most; once it is over a pass changes nothing.
Passes(len) == [i \in 1..(len + 1) |-> i]

Start(len) == [disk |-> disk, free |-> free, blocks |-> din.blocks, size |-> din.size, pos |-> pos,
               alen |-> 0, err |-> "ok", out |-> <<>>, len |-> len, copied |-> 0, over |-> len = 0]

\* The call returns what was copied, or the error if that is nothing: also when a read
\* has moved the position and could not copy its first bytes.
Return(kind, w) ==
  /\ disk' = w.disk /\ free' = w.free /\ din' = [size |-> w.size, blocks |-> w.blocks]
  /\ pos' = w.pos
  /\ ret' = IF w.err = "panic" THEN <<"panic", 0, <<>> >>
            ELSE IF w.copied = 0 /\ w.err # "ok" THEN <<"error", 0, <<>> >>
            ELSE <<kind, w.copied, w.out>>

sysfile_read(len, ok) ==
  LET w == FoldLeft(LAMBDA acc, i : IF acc.len = 0 THEN acc ELSE ReadPass(acc, ok), Start(len), Passes(len))
      kind == IF w.pos - pos > w.copied THEN "read, buffer ended" ELSE "read"
  IN  Return(kind, w) /\ given' = <<>>

sysfile_write(data, ok) ==
  LET w == FoldLeft(LAMBDA acc, i : IF acc.len = 0 THEN acc ELSE WritePass(acc, data, ok),
                    Start(Len(data)), Passes(Len(data)))
  IN  Return("write", w) /\ given' = data

\* sfs_truncfile: blocks are added one by one or the last ones freed, then the size is
\* set.  An enlargement that fails keeps the blocks it got; a file that holds such blocks
\* fails the assertion for a file that already has the length.
sfs_truncfile(w, length) ==
  LET nblks == Len(w.blocks)
      tblks == (length + SFS_BLKSIZE - 1) \div SFS_BLKSIZE
      grown == FoldLeft(LAMBDA acc, i : IF acc.err = "ok" THEN sfs_bmap_load_nolock(acc, nblks + i - 1) ELSE acc,
                        w, [i \in 1..(tblks - nblks) |-> i])
      cut == [w EXCEPT !.blocks = SubSeq(@, 1, tblks), !.free = @ \cup ToSet(SubSeq(w.blocks, tblks + 1, nblks))]
      done == IF nblks < tblks THEN grown ELSE cut
  IN  IF w.size = length THEN [w EXCEPT !.err = IF tblks = nblks THEN "ok" ELSE "panic"]
      ELSE IF done.err # "ok" THEN done ELSE [done EXCEPT !.size = length]

\* file_seek with sfs_tryseek: behind the end the file is enlarged.
seek(p) ==
  LET w == IF p > din.size THEN sfs_truncfile(Start(0), p) ELSE Start(0)
  IN  /\ p < SFS_MAX_FILE_SIZE
      /\ Return("seek", IF w.err = "ok" THEN [w EXCEPT !.pos = p] ELSE w)
      /\ given' = <<>>

\* Opened again with O_TRUNC.
open_trunc == Return("open", [sfs_truncfile(Start(0), 0) EXCEPT !.pos = 0]) /\ given' = <<>>

Init ==
  /\ disk = [s \in Sectors |-> 0] /\ free = 0..(NBLOCKS - 1)
  /\ din = [size |-> 0, blocks |-> <<>>] /\ pos = 0
  /\ ret = <<"none", 0, <<>> >> /\ given = <<>>

Runs == ret[1] # "panic"

Next ==
  \/ \E len \in 0..MAXLEN : \E ok \in 0..len : Runs /\ sysfile_read(len, ok)
  \/ \E data \in Texts : \E ok \in 0..Len(data) : Runs /\ sysfile_write(data, ok)
  \/ \E p \in 0..SFS_MAX_FILE_SIZE : Runs /\ seek(p)
  \/ Runs /\ open_trunc
  \/ ~Runs /\ UNCHANGED vars

Spec == Init /\ [][Next]_vars

-----------------------------------------------------------------------------
Content ==
  [i \in 1..din.size |-> disk[din.blocks[(i - 1) \div SFS_BLKSIZE + 1] * DISK0_BLK_NSECT + ((i - 1) % SFS_BLKSIZE)]]

B == INSTANCE ByteFile WITH content <- Content

\* Reads and writes of any length at any position act on a sequence of bytes, whatever
\* blocks they touch and wherever the user's buffer or the space on disk ends; only
\* opening an empty file to empty it may stop the kernel.
ImplementsByteFile == B!Spec
=============================================================================
