------------------------------- MODULE Files --------------------------------
(* Open files: the tables of the processes (kern/fs/file.c, fs.c, sysfile.c),  *)
(* the VFS layer (kern/fs/vfs) with its list of devices, the inodes in memory  *)
(* with their counts, and the cache of SFS inodes (kern/fs/sfs/sfs_inode.c).   *)
(* The kernel is not preempted, disk I/O polls, and a holder of a file system  *)
(* lock never sleeps: every system call is one action, which works on "k", the *)
(* kernel's inodes, in the order of the code.  SfsFile has the blocks of a     *)
(* file, SfsImage the names, Stdin the wait for input.                         *)
EXTENDS Integers, Sequences, FiniteSets, SequencesExt, FiniteSetsExt

CONSTANTS Procs, Regular, Dirs, Devs,     \* the inodes that exist; devices go by name
          ROOT,                           \* root directory of disk0
          NENTRY,                         \* FILES_STRUCT_NENTRY
          NSTD,                           \* descriptors that exec keeps: 2
          MAX_INODE_COUNT,
          MAXSIZE,                        \* bound on the size of a file, in blocks
          MAXLEAK,                        \* bound on the references lost
          Flags,                          \* the flags that open is called with
          OpenPaths, ChdirPaths,          \* the paths of open and chdir
          NULL

Sfs == Regular \cup Dirs
Nodes == Sfs \cup Devs
Fds == 0..NENTRY-1

FilesAssumption ==
  /\ ROOT \in Dirs
  /\ {NENTRY, NSTD, MAX_INODE_COUNT, MAXSIZE, MAXLEAK} \subseteq Nat
  /\ Regular \cap Dirs = {} /\ NULL \notin Sfs
  /\ Devs \subseteq {"stdin", "stdout"}

VARIABLES
  k,        \* mem: the inodes in memory; disk: the inodes on disk; panic
  files,    \* files_struct of a process: pwd and fd_array, NULL if it has exited
  bootfs,   \* bootfs_node
  vdevs,    \* vdev_list
  leaked    \* references nobody holds

vars == <<k, files, bootfs, vdevs, leaked>>

-----------------------------------------------------------------------------
\* Inodes.

dirops == {"open", "close", "fstat", "fsync", "namefile", "getdirentry",
           "reclaim", "gettype", "lookup"}
fileops == {"open", "close", "read", "write", "fstat", "fsync", "reclaim",
            "gettype", "tryseek", "truncate"}
devops == {"open", "close", "read", "write", "fstat", "ioctl", "gettype",
           "tryseek", "lookup"}

Ops(n) == IF n \in Dirs THEN dirops ELSE IF n \in Regular THEN fileops ELSE devops

\* After a panic it does not matter any more what is in memory.
Panic(s, why) == [s EXCEPT !.panic = why, !.mem = [n \in Nodes |-> NULL], !.disk = [n \in Sfs |-> NULL]]
assert(s, cond) == IF s.panic = "no" /\ ~cond THEN Panic(s, "assert") ELSE s

\* inode_check: the counts are sane and below their limit.
inode_check(s, n) ==
  IF s.mem[n].ref < s.mem[n].open \/ s.mem[n].open < 0 THEN Panic(s, "assert")
  ELSE IF s.mem[n].ref >= MAX_INODE_COUNT \/ s.mem[n].open >= MAX_INODE_COUNT THEN Panic(s, "count")
  ELSE s

\* __vop_op: the inode is there and has the operation, and inode_check.
vop(s, n, op) ==
  IF s.panic # "no" THEN s
  ELSE IF s.mem[n] = NULL THEN Panic(s, "assert")
  ELSE IF op \notin Ops(n) THEN Panic(s, "unsupported")
  ELSE inode_check(s, n)

Fine(s) == s.panic = "no"

inode_ref_inc(s, n) == IF Fine(s) THEN [s EXCEPT !.mem[n].ref = @ + 1] ELSE s
inode_open_inc(s, n) == IF Fine(s) THEN [s EXCEPT !.mem[n].open = @ + 1] ELSE s

\* sfs_fsync: a dirty inode is written.
sfs_fsync(s, n) ==
  IF Fine(s) /\ s.mem[n].dirty
  THEN [s EXCEPT !.mem[n].dirty = FALSE, !.disk[n] = s.mem[n].din] ELSE s

\* sfs_reclaim with inode_kill.  No SFS operation changes nlinks, which is not 0.
sfs_reclaim(s, n) ==
  LET killed(s1) == IF Fine(s1) THEN [s1 EXCEPT !.mem[n] = NULL] ELSE s1
      unless_busy(s1) ==
        IF ~Fine(s1) THEN s1
        ELSE IF s1.mem[n].reclaim_count # 1 \/ s1.mem[n].ref # 0
        THEN [s1 EXCEPT !.mem[n].reclaim_count = @ - 1]
        ELSE killed(assert(sfs_fsync(s1, n), s1.mem[n].open = 0))
  IN  unless_busy(assert(s, s.mem[n].reclaim_count > 0))

inode_ref_dec(s, n) ==
  LET reclaimed(s1) == IF s1.mem[n].ref > 0 THEN s1 ELSE sfs_reclaim(vop(s1, n, "reclaim"), n)
      dropped(s1) == IF Fine(s1) THEN reclaimed([s1 EXCEPT !.mem[n].ref = @ - 1]) ELSE s1
  IN  dropped(assert(s, s.mem[n] # NULL /\ s.mem[n].ref > 0))


\* The last close of an SFS inode syncs it.
inode_open_dec(s, n) ==
  LET synced(s1) == IF n \in Sfs THEN sfs_fsync(s1, n) ELSE s1
      closed(s1) == IF s1.mem[n].open > 0 THEN s1 ELSE synced(vop(s1, n, "close"))
      dropped(s1) == IF Fine(s1) THEN closed([s1 EXCEPT !.mem[n].open = @ - 1]) ELSE s1
  IN  dropped(assert(s, s.mem[n] # NULL /\ s.mem[n].open > 0))

\* inode_init and sfs_create_inode: one reference.  Of the inode on disk there are the
\* size, in blocks, and the number of blocks.
NoBlocks == [size |-> 0, blocks |-> 0]
sfs_create_inode(din) == [ref |-> 1, open |-> 0, dirty |-> FALSE, reclaim_count |-> 1, din |-> din]

lookup_sfs_nolock(s, n) ==
  LET s1 == inode_ref_inc(s, n)
  IN  IF s1.mem[n].ref = 1 THEN [s1 EXCEPT !.mem[n].reclaim_count = @ + 1] ELSE s1

sfs_load_inode(s, n) ==
  IF ~Fine(s) THEN s
  ELSE IF s.mem[n] # NULL THEN lookup_sfs_nolock(s, n)
  ELSE [s EXCEPT !.mem[n] = sfs_create_inode(s.disk[n])]

\* vop_truncate of a regular file, sfs_truncfile, when the disk has "room" free blocks.
\* An enlargement that fails keeps the blocks it got.  The result is the new k and
\* whether it succeeded.
Truncate(s, n, len, room) ==
  LET resized(s1, din) ==
        IF len = din.size
        THEN [k |-> IF len = din.blocks THEN s1 ELSE Panic(s1, "blocks"), ok |-> TRUE]
        ELSE IF din.blocks + room < len
        THEN [k |-> [s1 EXCEPT !.mem[n].din.blocks = @ + room, !.mem[n].dirty = @ \/ room > 0], ok |-> FALSE]
        ELSE [k |-> [s1 EXCEPT !.mem[n].din = [size |-> len, blocks |-> len], !.mem[n].dirty = TRUE],
              ok |-> TRUE]
      s2 == vop(s, n, "truncate")
  IN  IF Fine(s2) THEN resized(s2, s2.mem[n].din) ELSE [k |-> s2, ok |-> TRUE]

-----------------------------------------------------------------------------
\* Names.  The result of a lookup is the new k and the inode, or an error.

Result(s, n, err) == [k |-> s, node |-> n, err |-> err]
Error(s, err) == Result(s, NULL, err)

\* vfs_get_root: the file system on a device, or a device without one.
vfs_get_root(s, devname) ==
  LET found == SelectSeq(vdevs, LAMBDA v : v.devname = devname)
  IN  IF found = <<>> THEN Error(s, "E_NO_DEV")
      ELSE IF found[1].mounted THEN Result(sfs_load_inode(s, ROOT), ROOT, "ok")
      ELSE IF ~found[1].mountable THEN Result(inode_ref_inc(s, devname), devname, "ok")
      ELSE Error(s, "E_NA_DEV")

vfs_get_curdir(s, p) ==
  IF files[p].pwd = NULL THEN Error(s, "E_NOENT")
  ELSE Result(inode_ref_inc(s, files[p].pwd), files[p].pwd, "ok")

vfs_get_bootfs(s) ==
  IF bootfs = NULL THEN Error(s, "E_NOENT") ELSE Result(inode_ref_inc(s, bootfs), bootfs, "ok")

\* A path: where it starts ("cwd", "/", ":" or a device), and the name after that,
\* "" if there is none.  The name is an inode here, NULL for one that is not there and
\* "long" for one of more than SFS_MAX_FNAME_LEN characters.
AllPaths == {<<"cwd", n>> : n \in Sfs \cup {NULL, "long"}} \cup {<<"/", n>> : n \in Sfs \cup {"", NULL}}
            \cup {<<":", "">>} \cup ((Devs \cup {"disk0"}) \X {"", NULL})

PathsAssumption == OpenPaths \cup ChdirPaths \subseteq AllPaths

get_device(s, p, path) ==
  CASE path[1] = "cwd" -> vfs_get_curdir(s, p)
    [] path[1] = "/" -> vfs_get_bootfs(s)
    [] path[1] = ":" ->
         LET root_of(dir) == IF dir.err # "ok" THEN dir
                             ELSE Result(inode_ref_dec(sfs_load_inode(dir.k, ROOT), dir.node), ROOT, "ok")
         IN  root_of(vfs_get_curdir(s, p))
    [] OTHER -> vfs_get_root(s, path[1])

\* sfs_lookup of one name, with sfs_lookup_once and sfs_dirent_search_nolock.
sfs_lookup(s, dir, name) ==
  LET s2 == inode_ref_inc(s, dir)
      s3 == IF name = NULL THEN s2 ELSE sfs_load_inode(s2, name)
  IN  IF name = "long" THEN Error(Panic(s2, "name"), "E_NOENT") ELSE Result(inode_ref_dec(s3, dir), name, IF name = NULL THEN "E_NOENT" ELSE "ok")

\* vop_lookup; dev_lookup finds nothing.
vop_lookup(s, dir, name) ==
  LET found(s1) == IF ~Fine(s1) \/ dir \in Devs THEN Error(s1, "E_NOENT") ELSE sfs_lookup(s1, dir, name)
  IN  found(vop(s, dir, "lookup"))

vfs_lookup(s, p, path) ==
  LET from(dir) == IF dir.err # "ok" \/ path[2] = "" THEN dir
                   ELSE [vop_lookup(dir.k, dir.node, path[2]) EXCEPT !.k = inode_ref_dec(@, dir.node)]
  IN  from(get_device(s, p, path))

-----------------------------------------------------------------------------
\* vfs_open.  Flags are an access mode and any of creat, excl, trunc and append.
Modes == {"rdonly", "wronly", "rdwr"}
AllFlags == {{m} \cup more : m \in Modes, more \in SUBSET {"creat", "excl", "trunc", "append"}}

FlagsAssumption == Flags \subseteq AllFlags

CanWrite(flags) == flags \cap {"wronly", "rdwr"} # {}

sfs_opendir(flags) == ~CanWrite(flags) /\ "append" \notin flags

\* dev_open passes on to stdin_open or stdout_open.
dev_open(n, flags) ==
  /\ flags \cap {"creat", "trunc", "excl", "append"} = {}
  /\ flags = {IF n = "stdin" THEN "rdonly" ELSE "wronly"}

\* vop_open; sfs_openfile opens any file.
vop_open(n, flags) ==
  CASE n \in Dirs -> sfs_opendir(flags)
    [] n \in Devs -> dev_open(n, flags)
    [] OTHER -> TRUE

\* What is done with the inode found.  With O_EXCL its reference is lost.
OpenFound(s, n, flags) ==
  IF {"excl", "creat"} \subseteq flags THEN Result(s, n, "E_EXISTS")
  ELSE IF ~vop_open(n, flags) THEN Error(inode_ref_dec(vop(s, n, "open"), n), "E_INVAL")
  ELSE LET s1 == inode_open_inc(vop(s, n, "open"), n)
           cut == Truncate(s1, n, 0, 0)
       IN  IF flags \cap {"trunc", "creat"} = {} THEN Result(s1, n, "ok")
           ELSE IF cut.ok THEN Result(cut.k, n, "ok")
           ELSE Error(inode_ref_dec(inode_open_dec(cut.k, n), n), "E_NO_MEM")

vfs_open(s, p, path, flags) ==
  LET \* vfs_lookup_parent and vop_create in the directory.
      create(dir) == IF dir.err # "ok" THEN dir ELSE Error(vop(dir.k, dir.node, "create"), "E_NOENT")
      opened(found) ==
        IF found.err = "E_NOENT" /\ "creat" \in flags THEN create(get_device(s, p, path))
        ELSE IF found.err # "ok" THEN found
        ELSE OpenFound(found.k, found.node, flags)
  IN  IF "trunc" \in flags /\ ~CanWrite(flags) THEN Error(s, "E_INVAL")
      ELSE opened(vfs_lookup(s, p, path))

vfs_close(s, n) == inode_ref_dec(inode_open_dec(s, n), n)

-----------------------------------------------------------------------------
\* Devices and start-up.

\* A device has one reference, from the list.
dev_create_inode == sfs_create_inode(NoBlocks)

\* dev_init_stdin, ..., vfs_add_dev: list_add puts a device at the front.
vfs_do_add(devname, mountable) ==
  /\ \A i \in DOMAIN vdevs : vdevs[i].devname # devname
  /\ vdevs' = <<[devname |-> devname, mountable |-> mountable, mounted |-> FALSE]>> \o vdevs
  /\ k' = IF devname \in Devs THEN [k EXCEPT !.mem[devname] = dev_create_inode] ELSE k
  /\ UNCHANGED <<files, bootfs, leaked>>

\* The first of the devices, in the order of dev_init, that is not there yet.
DevOrder == SelectSeq(<<"stdin", "stdout", "disk0">>, LAMBDA d : d \in Devs \cup {"disk0"})

dev_init ==
  /\ Len(vdevs) < Len(DevOrder)
  /\ vfs_do_add(DevOrder[Len(vdevs) + 1], DevOrder[Len(vdevs) + 1] = "disk0")

\* sfs_mount and vfs_mount of disk0.
vfs_mount ==
  /\ Len(vdevs) = Len(DevOrder)
  /\ \E i \in DOMAIN vdevs :
       /\ vdevs[i].devname = "disk0" /\ vdevs[i].mountable /\ ~vdevs[i].mounted
       /\ vdevs' = [vdevs EXCEPT ![i].mounted = TRUE]
  /\ UNCHANGED <<k, files, bootfs, leaked>>

-----------------------------------------------------------------------------
\* Entries of the tables of open files.

Entry(p, fd) == files[p].fd_array[fd]

\* fd_array_init.
NoFile == [status |-> "FD_NONE", open_count |-> 0, node |-> NULL, pos |-> 0, readable |-> FALSE,
           writable |-> FALSE]

\* The functions on an entry return the new k and the new entry.
With(s, file) == [k |-> s, file |-> file]

\* fd_array_alloc: the entry found becomes FD_INIT.
fd_array_alloc(s, file) ==
  With(assert(s, file.open_count = 0), [file EXCEPT !.status = "FD_INIT", !.node = NULL])

fd_array_free(s, file) ==
  LET s1 == assert(s, file.status \in {"FD_INIT", "FD_CLOSED"} /\ file.open_count = 0)
  IN  With(IF Fine(s1) /\ file.status = "FD_CLOSED" THEN vfs_close(s1, file.node) ELSE s1, NoFile)

fd_array_acquire(s, file) ==
  With(assert(s, file.status = "FD_OPENED"), [file EXCEPT !.open_count = @ + 1])

\* fopen_count_dec, and fd_array_free at 0.
Dropped(s, file) ==
  IF file.open_count = 1 THEN fd_array_free(s, [file EXCEPT !.open_count = 0])
  ELSE With(s, [file EXCEPT !.open_count = @ - 1])

fd_array_release(s, file) ==
  Dropped(assert(s, file.status \in {"FD_OPENED", "FD_CLOSED"} /\ file.open_count > 0), file)

fd_array_open(s, file) ==
  With(assert(s, file.status = "FD_INIT" /\ file.node # NULL),
       [file EXCEPT !.status = "FD_OPENED", !.open_count = @ + 1])

fd_array_close(s, file) ==
  Dropped(assert(s, file.status = "FD_OPENED" /\ file.open_count > 0),
          [file EXCEPT !.status = "FD_CLOSED"])

\* Faulty fd_array_dup: the inode is not told.
fd_array_dup_Silent(s, to, from) ==
  fd_array_open(assert(s, to.status = "FD_INIT" /\ from.status = "FD_OPENED"),
                [from EXCEPT !.status = to.status, !.open_count = to.open_count])

fd_array_dup(s, to, from) ==
  LET s1 == assert(s, to.status = "FD_INIT" /\ from.status = "FD_OPENED")
  IN  fd_array_open(inode_open_inc(inode_ref_inc(s1, from.node), from.node),
                    [from EXCEPT !.status = to.status, !.open_count = to.open_count])

-----------------------------------------------------------------------------
\* System calls of process p.  One that reads standard input may be asleep in it,
\* with the entry acquired.

Asleep(p) == \E fd \in Fds : Entry(p, fd).open_count > 1
Running(p) == k.panic = "no" /\ files[p] # NULL /\ bootfs # NULL /\ ~Asleep(p)

\* What a call changes, unless it panics.
Done(s, newfiles) ==
  k' = s /\ files' = (IF Fine(s) THEN newfiles ELSE files) /\ UNCHANGED <<bootfs, vdevs>>

Call(s) == Done(s, files) /\ UNCHANGED leaked

\* A call that leaves an entry as it is in x.
Leaves(p, fd, x) == Done(x.k, [files EXCEPT ![p].fd_array[fd] = x.file]) /\ UNCHANGED leaked

\* The directory that results: the new one, or the old one with an error.
vfs_set_curdir(s, p, n) ==
  LET old == files[p].pwd
      s1 == vop(s, n, "gettype")
      s2 == inode_ref_inc(s1, n)
  IN  IF n = old THEN Result(s, old, "ok")
      ELSE IF n \notin Dirs THEN Result(s1, old, "E_NOTDIR")
      ELSE Result(IF old = NULL THEN s2 ELSE inode_ref_dec(s2, old), n, "ok")

vfs_chdir(s, p, path) ==
  LET to(found) == IF found.err # "ok" THEN Result(found.k, files[p].pwd, found.err)
                   ELSE [vfs_set_curdir(found.k, p, found.node) EXCEPT !.k = inode_ref_dec(@, found.node)]
  IN  to(vfs_lookup(s, p, path))

\* sysfile_chdir.
chdir(p, path) ==
  /\ Running(p)
  /\ \E r \in {vfs_chdir(k, p, path)} : Done(r.k, [files EXCEPT ![p].pwd = r.node])
  /\ UNCHANGED leaked

\* init_main: vfs_set_bootfs("disk0:") changes the directory and keeps one more
\* reference to it.
vfs_set_bootfs(p) ==
  /\ bootfs = NULL /\ files[p] # NULL /\ \E i \in DOMAIN vdevs : vdevs[i].mounted
  /\ \E r \in {vfs_chdir(k, p, <<"disk0", "">>)} :
         /\ k' = inode_ref_inc(r.k, r.node)
         /\ files' = [files EXCEPT ![p].pwd = r.node]
         /\ bootfs' = r.node
  /\ UNCHANGED <<vdevs, leaked>>

\* The first entry that is free, if there is one.
FirstFree(p) ==
  {fd \in Fds : Entry(p, fd).status = "FD_NONE" /\ \A d \in 0..fd-1 : Entry(p, d).status # "FD_NONE"}

\* sysfile_open, file_open: the entry is found first.
open(p, path, flags) ==
  /\ Running(p)
  /\ \E fd \in FirstFree(p) :
       \E a \in {fd_array_alloc(k, Entry(p, fd))} : \E r \in {vfs_open(a.k, p, path, flags)} :
       LET s == IF "append" \in flags THEN vop(r.k, r.node, "fstat") ELSE r.k
           file == [a.file EXCEPT !.node = r.node,
                                  !.pos = IF "append" \in flags THEN s.mem[r.node].din.size ELSE 0,
                                  !.readable = "wronly" \notin flags, !.writable = CanWrite(flags)]
           x == IF r.err # "ok" THEN fd_array_free(r.k, a.file)
                ELSE IF ~Fine(s) THEN With(s, a.file) ELSE fd_array_open(s, file)
       IN  /\ Done(x.k, [files EXCEPT ![p].fd_array[fd] = x.file])
           /\ leaked' = IF r.err = "E_EXISTS" THEN [leaked EXCEPT ![r.node] = @ + 1] ELSE leaked
           /\ MapThenSumSet(LAMBDA n : leaked'[n], Nodes) <= MAXLEAK

\* file_testfd and fd2file.
Opened(p, fd) == Running(p) /\ Entry(p, fd).status = "FD_OPENED"

\* file_close.
close(p, fd) == Opened(p, fd) /\ Leaves(p, fd, fd_array_close(k, Entry(p, fd)))

\* A call that works on an inode does so between fd_array_acquire and fd_array_release:
\* what it begins with, and its end, with the inodes as it leaves them and a new position.
Acquired(p, fd) == fd_array_acquire(k, Entry(p, fd)).k
Within(p, fd, s, pos) ==
  LET a == fd_array_acquire(k, Entry(p, fd))
  IN  Leaves(p, fd, fd_array_release(s, [a.file EXCEPT !.pos = pos]))

\* file_read of one block; at the end of the file it moves nothing.
read(p, fd) ==
  /\ Opened(p, fd) /\ Entry(p, fd).readable /\ Entry(p, fd).node \notin Devs
  /\ LET e == Entry(p, fd)
     IN  Within(p, fd, vop(Acquired(p, fd), e.node, "read"),
                IF e.node \in Regular /\ e.pos < k.mem[e.node].din.size THEN e.pos + 1 ELSE e.pos)

\* file_read of a device: the reader sleeps (see Stdin), and wakes.
readdev(p, fd) ==
  /\ Opened(p, fd) /\ Entry(p, fd).readable /\ Entry(p, fd).node \in Devs
  /\ LET a == fd_array_acquire(k, Entry(p, fd))
     IN  Leaves(p, fd, With(vop(a.k, a.file.node, "read"), a.file))

wakes(p, fd) ==
  /\ k.panic = "no" /\ files[p] # NULL /\ Entry(p, fd).open_count > 1
  /\ Leaves(p, fd, fd_array_release(k, Entry(p, fd)))

\* sfs_io of one block at pos: behind the last block the assertion of sfs_bmap_load_nolock
\* fails (see SfsFile); a block that is not there yet may be got or not.
sfs_write(s, n, pos, room) ==
  LET din == s.mem[n].din
      grown(size) == IF size <= din.size THEN s
                     ELSE [s EXCEPT !.mem[n].din.size = size, !.mem[n].dirty = TRUE]
  IN  IF pos > din.blocks THEN Panic(s, "hole")
      ELSE IF pos < din.blocks THEN grown(pos + 1)
      ELSE IF room = 0 THEN grown(pos)
      ELSE [grown(pos + 1) EXCEPT !.mem[n].din.blocks = @ + 1, !.mem[n].dirty = TRUE]

\* file_write of one block, when the disk has room for it or not.
write(p, fd, room) ==
  /\ Opened(p, fd) /\ Entry(p, fd).writable
  /\ LET e == Entry(p, fd)
         ends == e.node \in Regular /\ (e.pos < k.mem[e.node].din.blocks \/ room > 0)
         s == vop(Acquired(p, fd), e.node, "write")
     IN  /\ e.pos < MAXSIZE \/ e.pos > k.mem[e.node].din.blocks
         /\ Within(p, fd, IF Fine(s) /\ e.node \in Regular THEN sfs_write(s, e.node, e.pos, room) ELSE s,
                   IF ends THEN e.pos + 1 ELSE e.pos)

\* vop_tryseek: sfs_tryseek enlarges the file, dev_tryseek refuses.
sfs_tryseek(s, n, pos, room) ==
  IF Fine(s) /\ n \in Regular /\ pos > s.mem[n].din.size THEN Truncate(s, n, pos, room)
  ELSE [k |-> s, ok |-> n \notin Devs]

\* file_seek.
seek(p, fd, pos, room) ==
  /\ Opened(p, fd)
  /\ LET e == Entry(p, fd)
         sought == sfs_tryseek(vop(Acquired(p, fd), e.node, "tryseek"), e.node, pos, room)
     IN  Within(p, fd, sought.k, IF sought.ok THEN pos ELSE e.pos)

fsync(p, fd) ==
  LET e == Entry(p, fd)
  IN  Opened(p, fd) /\ Within(p, fd, sfs_fsync(vop(Acquired(p, fd), e.node, "fsync"), e.node), e.pos)

\* fstat and getdirentry change nothing, if the inode supports them.
ask(p, fd, op) ==
  LET e == Entry(p, fd)
  IN  Opened(p, fd) /\ op \in {"fstat", "getdirentry"} /\ Within(p, fd, vop(Acquired(p, fd), e.node, op), e.pos)

\* The references sfs_namefile takes and drops: ".." of a directory is the root here.
sfs_namefile(s, n) ==
  LET s2 == inode_ref_dec(sfs_load_inode(inode_ref_inc(s, n), ROOT), n)
      s3 == IF n = ROOT THEN s2 ELSE inode_ref_dec(sfs_load_inode(s2, ROOT), ROOT)
  IN  inode_ref_dec(s3, ROOT)

\* vfs_getcwd.
getcwd(p) ==
  /\ Running(p)
  /\ LET n == files[p].pwd
     IN  Call(inode_ref_dec(sfs_namefile(vop(vfs_get_curdir(k, p).k, n, "namefile"), n), n))

\* file_dup to an entry that is free.
dup(p, fd1, fd2) ==
  /\ Opened(p, fd1) /\ Entry(p, fd2).status = "FD_NONE"
  /\ LET a == fd_array_alloc(k, Entry(p, fd2))
     IN  Leaves(p, fd2, fd_array_dup(a.k, a.file, Entry(p, fd1)))

OpenFds(p) == SetToSortSeq({fd \in Fds : Entry(p, fd).status = "FD_OPENED"}, <)

\* A change of the entries of a table one after the other: k and the table.
Table(s, fd_array) == [k |-> s, fd_array |-> fd_array]
Put(t, fd, x) == Table(x.k, [t.fd_array EXCEPT ![fd] = x.file])

\* The new table starts from fd_array_init.
dup_fs(s, p) ==
  FoldLeft(LAMBDA t, fd : Put(t, fd, fd_array_dup(t.k, [NoFile EXCEPT !.status = "FD_INIT"], Entry(p, fd))),
           Table(inode_ref_inc(s, files[p].pwd), [fd \in Fds |-> NoFile]), OpenFds(p))

\* do_fork: copy_fs.  Nobody forks with CLONE_FS.
fork(p, c) ==
  /\ Running(p) /\ files[c] = NULL
  /\ \E t \in {dup_fs(k, p)} :
       Done(t.k, [files EXCEPT ![c] = [pwd |-> files[p].pwd, fd_array |-> t.fd_array]])
  /\ UNCHANGED leaked

CloseAll(s, p, fds) ==
  FoldLeft(LAMBDA t, fd : Put(t, fd, fd_array_close(t.k, t.fd_array[fd])),
           Table(s, files[p].fd_array), fds)

\* files_closeall spares the first NSTD.
files_closeall(s, p) == CloseAll(s, p, SelectSeq(OpenFds(p), LAMBDA fd : fd >= NSTD))

\* do_execve.
exec(p) ==
  /\ Running(p)
  /\ \E t \in {files_closeall(k, p)} : Done(t.k, [files EXCEPT ![p].fd_array = t.fd_array])
  /\ UNCHANGED leaked

\* Every entry is free in the end.
files_destroy(s, p) ==
  LET t == CloseAll(inode_ref_dec(s, files[p].pwd), p, OpenFds(p))
  IN  assert(t.k, \A fd \in Fds : t.fd_array[fd].status = "FD_NONE")

\* do_exit: put_fs.  The first process does not exit.
exit(p) ==
  /\ Running(p) /\ \E q \in Procs \ {p} : files[q] # NULL
  /\ \E s \in {files_destroy(k, p)} : Done(s, [files EXCEPT ![p] = NULL])
  /\ UNCHANGED leaked

\* sfs_sync: every inode in memory.
sfs_sync(s) == FoldSet(LAMBDA n, acc : sfs_fsync(acc, n), s, {n \in Sfs : s.mem[n] # NULL})

\* fs_cleanup, once the first process is alone: vfs_cleanup, sfs_cleanup.
fs_cleanup(p) ==
  /\ Running(p) /\ \A q \in Procs \ {p} : files[q] = NULL
  /\ Call(sfs_sync(k))

\* panic does not return.
panic == k.panic # "no" /\ UNCHANGED vars

-----------------------------------------------------------------------------
Init ==
  /\ k = [mem |-> [n \in Nodes |-> NULL], disk |-> [n \in Sfs |-> NoBlocks], panic |-> "no"]
  /\ \E p \in Procs :
       files = [q \in Procs |-> IF q = p THEN [pwd |-> NULL, fd_array |-> [fd \in Fds |-> NoFile]]
                                ELSE NULL]
  /\ bootfs = NULL /\ vdevs = <<>>
  /\ leaked = [n \in Nodes |-> 0]

Next ==
  \/ dev_init \/ vfs_mount \/ panic
  \/ \E p \in Procs :
       \/ vfs_set_bootfs(p) \/ getcwd(p) \/ exec(p) \/ exit(p) \/ fs_cleanup(p)
       \/ \E path \in ChdirPaths : chdir(p, path)
       \/ \E path \in OpenPaths, flags \in Flags : open(p, path, flags)
       \/ \E fd \in Fds :
            \/ close(p, fd) \/ read(p, fd) \/ readdev(p, fd) \/ wakes(p, fd) \/ fsync(p, fd)
            \/ \E room \in 0..1 : write(p, fd, room)
            \/ \E pos, room \in 0..MAXSIZE : seek(p, fd, pos, room)
            \/ \E op \in {"fstat", "getdirentry"} : ask(p, fd, op)
            \/ \E fd2 \in Fds : dup(p, fd, fd2)
       \/ \E c \in Procs : fork(p, c)

Spec == Init /\ [][Next]_vars

-----------------------------------------------------------------------------
\* The references to an inode: entries, working directories, the boot file
\* system, the device list, and those lost by vfs_open with O_EXCL.
Holders(n) ==
  LET live == {p \in Procs : files[p] # NULL}
      entries == {x \in live \X Fds : Entry(x[1], x[2]).node = n}
  IN  [open |-> Cardinality(entries),
       ref |-> Cardinality(entries) + Cardinality({p \in live : files[p].pwd = n})
               + (IF bootfs = n THEN 1 ELSE 0) + (IF n \in Devs THEN 1 ELSE 0) + leaked[n]]

\* The counts of an inode are the number of its users through any sequence of
\* lookup, open, dup, fork, exec and exit, and it is in memory as long as it has
\* one: an inode is neither freed in use nor kept for ever, save for the references
\* vfs_open loses when O_EXCL refuses.
CountsMatchHolders ==
  k.panic = "no" /\ Len(vdevs) = Len(DevOrder) =>
    \A n \in Nodes :
      IF k.mem[n] = NULL THEN Holders(n).ref = 0
      ELSE /\ k.mem[n].ref = Holders(n).ref /\ Holders(n).ref > 0
           /\ k.mem[n].open = Holders(n).open


\* Of the assertions of file.c, fs.c and inode.c on the states and counts of entries and
\* inodes none ever fails, but that an inode has fewer than MAX_INODE_COUNT references:
\* that one fails, and only when it has them, the lost ones included.  The other panics a
\* program can cause are an operation an inode does not support (creating a file, reading
\* or seeking a directory, listing a file, syncing a device), a write behind the last
\* block of a file, a name that is too long, and a truncation to the size a file already
\* has, after an enlargement failed and left it with more blocks.
AssertionsHold ==
  /\ k.panic \in {"no", "count", "unsupported", "hole", "name", "blocks"}
  /\ k.panic = "count" => \E n \in Nodes : Holders(n).ref + 1 >= MAX_INODE_COUNT
  /\ k.panic = "no" => \A p \in Procs : files[p] # NULL =>
       \A fd \in Fds :
         LET e == Entry(p, fd)
         IN  IF e.status = "FD_OPENED" THEN e.node # NULL /\ e.open_count \in 1..2
             ELSE e = NoFile
=============================================================================
