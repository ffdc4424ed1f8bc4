------------------------------ MODULE SfsImage ------------------------------
(* A disk image from its making to its use: tools/mksfs.c copies a directory   *)
(* of the host into an image, the kernel mounts it (kern/fs/sfs/sfs_fs.c,      *)
(* bitmap.c), looks up names, lists directories and computes path names        *)
(* (kern/fs/sfs/sfs_inode.c).  readdir may return any names, in any order: the *)
(* model builds every small tree.  A name is a sequence of characters.         *)
EXTENDS Integers, Sequences, FiniteSets, SequencesExt, FiniteSetsExt, TLC

CONSTANTS
  NINOS,              \* blocks of the image
  SFS_BLKBITS,        \* bits in a block
  SFS_NDIRECT, SFS_BLK_NENTRY,
  SFS_LN_NBLKS,       \* blocks of the largest file, in mksfs
  SFS_MAX_FNAME_LEN,
  INO_SIZE,           \* bytes of the ino in an entry
  NAMES,              \* names on the host
  MAXDEPTH            \* directories within each other

SFS_BLKN_ROOT == 1
SFS_BLKN_FREEMAP == 2
ROUNDUP_DIV(a, n) == (a + n - 1) \div n
L1_NBLKS == SFS_NDIRECT + SFS_BLK_NENTRY

VARIABLES
  phase,      \* "mksfs", "closed", "mounted", or how it ended: "bug", "mount assertion"
  next_ino, unused_blocks,
  img,        \* blocks written: data, index blocks, entries, inodes, freemap
  ci,         \* cache_inode by ino, until close_sfs flushes them
  stack,      \* the directories that open_dir is in, outermost first
  host,       \* the files of the host seen so far
  mount       \* the file system in the kernel's memory

vars == <<phase, next_ino, unused_blocks, img, ci, stack, host, mount>>

Inode(type) == [type |-> type, nlinks |-> 0, blocks |-> 0,
                direct |-> <<>>, indirect |-> <<>>, db_indirect |-> <<>>]

\* create_sfs: behind the super block and the root come the blocks of the freemap.
FirstIno == SFS_BLKN_FREEMAP + ROUNDUP_DIV(NINOS, SFS_BLKBITS)

-----------------------------------------------------------------------------
\* mksfs.  The state that its functions work on: next_ino, ci and img.
Work == [next |-> next_ino, unused |-> unused_blocks, ci |-> ci, img |-> img, big |-> FALSE]

\* sfs_alloc_ino: the next block; the caller sees to it that there is one.
sfs_alloc_ino(w) == [w EXCEPT !.next = @ + 1, !.unused = @ - 1]

\* append_block: a block for the inode, with its index blocks.  These are written
\* when the image is closed, and hold what the inode's sequences say here.  A file with
\* too many blocks ends mksfs.
append_block(w, n, blk) ==
  LET c == w.ci[n]
      first == IF c.blocks \in {SFS_NDIRECT, L1_NBLKS} THEN 1 ELSE 0
      more == IF c.blocks >= L1_NBLKS /\ (c.blocks - L1_NBLKS) % SFS_BLK_NENTRY = 0 THEN 1 ELSE 0
      w1 == FoldLeft(LAMBDA acc, i : sfs_alloc_ino(acc), w, [i \in 1..(first + more) |-> i])
      at == IF c.blocks < SFS_NDIRECT THEN [c EXCEPT !.direct = Append(@, blk)]
            ELSE IF c.blocks < L1_NBLKS THEN [c EXCEPT !.indirect = Append(@, blk)]
            ELSE [c EXCEPT !.db_indirect = Append(@, blk)]
  IN  IF c.blocks >= SFS_LN_NBLKS THEN [w EXCEPT !.big = TRUE]
      ELSE [w1 EXCEPT !.ci[n] = [at EXCEPT !.blocks = @ + 1]]

\* Faulty add_entry: the directory is not told of the entry.
add_entry_Lost(w, dir, n, name) ==
  [sfs_alloc_ino(w) EXCEPT !.ci[n].nlinks = @ + 1]

\* add_entry writes sizeof(entry->name) bytes of the entry, the ino among them: the
\* last bytes of a long name are missing.
Cut(name) == SubSeq(name, 1, Min({Len(name), SFS_MAX_FNAME_LEN + 1 - INO_SIZE}))

add_entry(w, dir, n, name) ==
  LET w1 == sfs_alloc_ino(w)
      w2 == [w1 EXCEPT !.img = @ @@ (w.next :> [ino |-> n, name |-> Cut(name)])]
      w3 == append_block(w2, dir, w.next)
  IN  [w3 EXCEPT !.ci[n].nlinks = @ + 1]

alloc_cache_inode(w, type) ==
  LET w1 == sfs_alloc_ino(w) IN [w1 EXCEPT !.ci = @ @@ (w.next :> Inode(type))]

\* open_file and open_link: the blocks of data.
open_file(w, n, real, nblks) ==
  FoldLeft(LAMBDA acc, i :
             LET a == sfs_alloc_ino(acc)
             IN  append_block([a EXCEPT !.img = @ @@ (acc.next :> <<real, i>>)], n, acc.next),
           w, [i \in 1..nblks |-> i])

\* bug() and open_bug() end mksfs; nothing is left to use.
bug == phase' = "bug" /\ UNCHANGED <<next_ino, unused_blocks, img, ci, stack, host, mount>>

\* A step of mksfs, which needs the space on the image.
Make(w, st, seen) ==
  /\ phase = "mksfs"
  /\ IF w.next > NINOS \/ w.big THEN bug
     ELSE /\ next_ino' = w.next /\ unused_blocks' = w.unused /\ img' = w.img /\ ci' = w.ci
          /\ stack' = st /\ host' = seen
          /\ UNCHANGED <<phase, mount>>

Dir == Last(stack)
Path == [i \in 1..(Len(stack) - 1) |-> stack[i + 1].name]
Seen(path, name) == \E h \in host : h.path = path /\ h.name = name

\* The loop of open_dir: readdir returns another name.  Names that begin with a dot, and
\* special files, are passed over; a name that is too long ends mksfs.
readdir(name) == phase = "mksfs" /\ stack # <<>> /\ ~Seen(Path, name)
Taken(name) == readdir(name) /\ name[1] # "." /\ Len(name) <= SFS_MAX_FNAME_LEN
skip_entry(name) == (Taken(name) \/ (readdir(name) /\ name[1] = ".")) /\ UNCHANGED vars
name_too_long(name) == readdir(name) /\ name[1] # "." /\ Len(name) > SFS_MAX_FNAME_LEN /\ bug

\* open_dir: the entries "." and "..".
DotDot(w, n, parent) == add_entry(add_entry(w, n, n, <<".">>), n, parent, <<".", ".">>)

\* A regular file, new or known by another name (the same real inode).
add_file(name, nblks) ==
  /\ Taken(name)
  /\ LET w == open_file(alloc_cache_inode(Work, "file"), next_ino, next_ino, nblks)
         h == [path |-> Path, name |-> name, kind |-> "file", real |-> next_ino, nblks |-> nblks]
     IN  Make(add_entry(w, Dir.ino, next_ino, name), stack, host \cup {h})

add_file_again(name, old) ==
  /\ Taken(name) /\ old.kind = "file"
  /\ Make(add_entry(Work, Dir.ino, old.real, name), stack,
          host \cup {[old EXCEPT !.path = Path, !.name = name]})

add_link(name) ==
  /\ Taken(name)
  /\ LET w == open_file(alloc_cache_inode(Work, "link"), next_ino, next_ino, 1)
         h == [path |-> Path, name |-> name, kind |-> "link", real |-> next_ino, nblks |-> 1]
     IN  Make(add_entry(w, Dir.ino, next_ino, name), stack, host \cup {h})

\* add_dir: the directory is filled first, its entry added when that is done.
add_dir(name) ==
  /\ Taken(name) /\ Len(stack) < MAXDEPTH
  /\ LET w == DotDot(alloc_cache_inode(Work, "dir"), next_ino, Dir.ino)
         h == [path |-> Path, name |-> name, kind |-> "dir", real |-> next_ino, nblks |-> 0]
     IN  Make(w, Append(stack, [ino |-> next_ino, name |-> name]), host \cup {h})

dir_done ==
  /\ Len(stack) > 1
  /\ Make(add_entry(Work, stack[Len(stack) - 1].ino, Dir.ino, Dir.name), Front(stack), host)

\* close_sfs: block by block of the freemap the bits from next_ino up to ninos.
FreemapBits ==
  UNION {LET i == b * SFS_BLKBITS
             start == IF i < next_ino THEN next_ino - i ELSE 0
             end == IF i + SFS_BLKBITS > NINOS THEN NINOS - i ELSE SFS_BLKBITS
         IN  IF i + SFS_BLKBITS > next_ino THEN {i + j : j \in start..(end - 1)} ELSE {}
         : b \in 0..(ROUNDUP_DIV(NINOS, SFS_BLKBITS) - 1)}

close_sfs ==
  /\ phase = "mksfs" /\ Len(stack) = 1
  /\ img' = img @@ ci @@ (0 :> [blocks |-> NINOS, unused_blocks |-> unused_blocks])
                   @@ (SFS_BLKN_FREEMAP :> FreemapBits)
  /\ phase' = "closed" /\ ci' = <<>> /\ stack' = <<>>
  /\ UNCHANGED <<next_ino, unused_blocks, host, mount>>

-----------------------------------------------------------------------------
\* The kernel.

\* sfs_do_mount: the free blocks are counted against the super block.
sfs_do_mount ==
  /\ phase = "closed"
  /\ LET super == img[0]
         free == img[SFS_BLKN_FREEMAP]
     IN  IF Cardinality(free) = super.unused_blocks
         THEN phase' = "mounted" /\ mount' = [freemap |-> free, unused_blocks |-> super.unused_blocks]
         ELSE phase' = "mount assertion" /\ UNCHANGED mount
  /\ UNCHANGED <<next_ino, unused_blocks, img, ci, stack, host>>

\* sfs_bmap_get_nolock without create: the block of an inode at an index, 0 for the
\* panic on an index that direct and indirect entries do not reach.
BlockAt(din, index) ==
  IF index < SFS_NDIRECT THEN din.direct[index + 1]
  ELSE IF index < L1_NBLKS THEN din.indirect[index - SFS_NDIRECT + 1] ELSE 0

\* sfs_dirent_read_nolock.
Entries(din) == [slot \in 1..Min({din.blocks, L1_NBLKS}) |-> img[BlockAt(din, slot - 1)]]

\* A directory too large to be read to its end.
TooLarge(din) == din.blocks > L1_NBLKS

\* sfs_dirent_search_nolock: the ino of a name, 0 for -E_NOENT.
sfs_dirent_search_nolock(dir, name) ==
  LET found == SelectSeq(Entries(img[dir]), LAMBDA e : e.name = name)
  IN  IF found = <<>> THEN 0 ELSE found[1].ino

\* sfs_load_inode asserts that the block is in use and has links; sfs_get_ops panics
\* for a link.
Loads(ino) == ino \notin mount.freemap /\ img[ino].nlinks # 0 /\ img[ino].type # "link"

\* sfs_lookup from the root, name by name, as chdir does.
Walk(path) ==
  FoldLeft(LAMBDA dir, name : IF dir = 0 THEN 0 ELSE sfs_dirent_search_nolock(dir, name),
           SFS_BLKN_ROOT, path)

\* sfs_dirent_findino_nolock: the name under which a directory knows ino.
sfs_dirent_findino_nolock(dir, ino) ==
  SelectSeq(Entries(img[dir]), LAMBDA e : e.ino = ino)[1].name

\* sfs_namefile into a buffer of len bytes: names from the last to the first, each
\* with a slash.  "full" stands for -E_NO_MEM.
sfs_namefile(ino, len) ==
  LET up(acc, i) ==
        LET parent == sfs_dirent_search_nolock(acc.ino, <<".", ".">>)
            name == sfs_dirent_findino_nolock(parent, acc.ino)
        IN  IF acc.full \/ parent = acc.ino THEN acc
            ELSE IF Len(name) + 1 > acc.resid THEN [acc EXCEPT !.full = TRUE]
            ELSE [ino |-> parent, full |-> FALSE, resid |-> acc.resid - Len(name) - 1,
                  text |-> name \o <<"/">> \o acc.text]
      done == FoldLeft(up, [ino |-> ino, text |-> <<>>, resid |-> len - 2, full |-> len <= 2],
                       [i \in 1..MAXDEPTH |-> i])
  IN  IF done.full THEN "full" ELSE <<"/">> \o done.text

\* sfs_getdirentry of the slot-th entry.
sfs_getdirentry(dir, slot) == Entries(img[dir])[slot + 1].name

-----------------------------------------------------------------------------
Init ==
  /\ phase = "mksfs" /\ host = {} /\ mount = <<>>
  /\ stack = <<[ino |-> SFS_BLKN_ROOT, name |-> <<>>]>>
  /\ LET w == DotDot([next |-> FirstIno, unused |-> NINOS - FirstIno, img |-> <<>>, big |-> FALSE,
                      ci |-> (SFS_BLKN_ROOT :> Inode("dir"))], SFS_BLKN_ROOT, SFS_BLKN_ROOT)
     IN  next_ino = w.next /\ unused_blocks = w.unused /\ ci = w.ci /\ img = w.img

Next ==
  \/ \E name \in NAMES :
       \/ skip_entry(name) \/ name_too_long(name)
       \/ \E nblks \in 0..(SFS_LN_NBLKS + 1) : add_file(name, nblks)
       \/ \E old \in host : add_file_again(name, old)
       \/ add_link(name) \/ add_dir(name)
  \/ dir_done \/ close_sfs \/ sfs_do_mount
  \/ phase \notin {"mksfs", "closed"} /\ UNCHANGED vars

Spec == Init /\ [][Next]_vars

-----------------------------------------------------------------------------
\* No directory on the way to h is too large, or holds a name that was cut.
Reachable(h) ==
  \A j \in 0..Len(h.path) :
    LET dir == SubSeq(h.path, 1, j)
    IN  /\ \A g \in host : g.path = dir => Cut(g.name) = g.name
        /\ ~TooLarge(img[Walk(dir)])
FullName(h) == <<"/">> \o FoldLeft(LAMBDA acc, name : acc \o name \o <<"/">>, <<>>, Append(h.path, h.name))

\* The kernel finds in a mounted image what mksfs was given: every file by its path
\* with the blocks the host has, under each of its names and with that many links,
\* every directory with its path name, which namefile puts into a buffer only if it
\* fits.  Not so for names that mksfs cuts, links, which the kernel cannot load, and
\* files or directories with more blocks than the kernel's inode reaches, which
\* mksfs accepts.  mksfs and the kernel agree on the blocks in use.
ImageIsFaithful ==
  /\ phase # "mount assertion"
  /\ phase = "mounted" =>
       /\ mount.freemap = next_ino..(NINOS - 1)
       /\ \A h \in host : Reachable(h) =>
            LET ino == Walk(Append(h.path, h.name))
                len == Len(FullName(h))
            IN /\ ino = h.real /\ (Loads(ino) <=> h.kind # "link")
               /\ h.kind = "file" =>
                    /\ img[ino].nlinks = Cardinality({g \in host : g.real = ino})
                    /\ \A i \in 0..(h.nblks - 1) :
                         IF i < L1_NBLKS THEN img[BlockAt(img[ino], i)] = <<ino, i + 1>>
                         ELSE BlockAt(img[ino], i) = 0
               /\ h.kind = "dir" /\ ~TooLarge(img[ino]) =>
                    /\ sfs_namefile(ino, len + 1) = FullName(h)
                    /\ sfs_namefile(ino, len) = "full"
                    /\ {sfs_getdirentry(ino, slot) : slot \in 2..(img[ino].blocks - 1)}
                         = {Cut(g.name) : g \in {x \in host : x.path = Append(h.path, h.name)}}
=============================================================================
