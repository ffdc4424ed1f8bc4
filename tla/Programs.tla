------------------------------ MODULE Programs ------------------------------
(* The way from the boot loader to a running program, checked in one run:      *)
(* booting, loading a program, the traps that it takes, the files that it      *)
(* opens, and the shell.  Each is looked at by itself: in a behaviour one of   *)
(* them takes steps, the others stay in an initial state.  This module's own   *)
(* state is that of Traps and Boot.                                            *)
EXTENDS Traps, Boot

CONSTANTS f, sub, root, NULL,      \* a file, directories
          Openers                  \* the processes that open them

VARIABLES
  prog, argv, magic, filelen, pc, kargv, buffers, fd, mm, phnum, la, start, esp,
  k, files, bootfs, vdevs, leaked,
  keys, line, procs, log, intact, had, sh_panicked,
  part          \* the component that takes steps

-----------------------------------------------------------------------------
\* Boot: text, anywhere in its page, and data on the next page (kernel.ld), which is four
\* sectors of two bytes; the headers before them; sometimes an empty program header.
Seg(at, off, x, y) == [p_va |-> at, p_offset |-> off, p_filesz |-> x, p_memsz |-> y]
SomeImages ==
  {<<Seg(16 + o, 16 + o, t, t), Seg(24, off, x, y)>> : o \in 0..3, t \in 1..5, off \in {24, 32}, x \in 1..4, y \in 4..7}
    \cup {<<Seg(16, 16, t, t), Seg(32, 32, x, y)>> : t \in 9..12, x \in 1..4, y \in 4..7}
    \cup {<<Seg(17, 17, 4, 4), Seg(24, 24, x, 7), Seg(0, 0, 0, 0)>> : x \in 1..4}

\* Loader: data and bss that end before, on and behind borders of pages, followed by another
\* segment, which may touch, overlap or lie below the first; argument strings that end
\* before, at and behind the last readable byte.
Segment(at, filesz, memsz) == [p_type |-> "load", p_va |-> at, p_filesz |-> filesz, p_memsz |-> memsz]
Ones == {Segment(at, x, y) : at \in {4, 5, 7}, x \in 0..6, y \in 0..9}
Firsts == {Segment(at, x, y) : at \in {5, 8, 12}, x \in {0, 2, 4}, y \in {4, 6}}
Seconds == {Segment(at, x, y) : at \in {4, 8, 13}, x \in {0, 3}, y \in {3, 6}}
Note == [p_type |-> "note", p_va |-> 0, p_filesz |-> 2, p_memsz |-> 0]
SomePrograms == {<<a>> : a \in Ones} \cup {<<a, b>> : a \in Firsts, b \in Seconds} \cup {<<Note, Segment(5, 2, 3)>>}
Arg(s, n) == [src |-> s, len |-> n]
SomeArgLists ==
  {<<Arg(s, n)>> : s \in 2..9, n \in 0..6} \cup {<<Arg(0, a), Arg(4, b)>> : a \in 0..4, b \in 0..4}
    \cup {<<Arg(0, 1), Arg(3, 0), Arg(1, 5)>>, <<Arg(0, 1), Arg(9, 7), Arg(1, 2)>>}

Ld == INSTANCE Loader WITH
       PGSIZE <- 4, WORD <- 2, USERBASE <- 4, USTACKTOP <- 60, USTACKPAGES <- 6, READABLE <- 12,
       EXEC_MAX_ARG_LEN <- 6, Programs <- SomePrograms, ArgLists <- SomeArgLists

\* Files: one regular file, a directory below the root, standard input; the ways of starting
\* a path, with a name, without one and with one that is not there; every flag, with a mode
\* that allows it and with one that does not.  The file is opened together with the device
\* (F), and the device together with the directories (D), each until the limit on references
\* is met; a file of several blocks is written, enlarged and truncated on a disk that may be
\* full (S).
SomeFlags == {{"rdonly"}, {"rdonly", "creat"}, {"rdwr", "creat", "excl"}, {"rdwr", "append"}}
SomeDirs == {<<"/", sub>>, <<"disk0", "">>, <<"/", f>>, <<"stdin", NULL>>}

F == INSTANCE Files WITH Procs <- Openers,
       Regular <- {f}, Dirs <- {root, sub}, Devs <- {"stdin"}, ROOT <- root,
       NENTRY <- 2, NSTD <- 1, MAX_INODE_COUNT <- 5, MAXSIZE <- 1, MAXLEAK <- 1,
       Flags <- SomeFlags \cup {{"rdwr", "trunc"}}, ChdirPaths <- {<<"/", f>>},
       OpenPaths <- {<<"cwd", f>>, <<"cwd", NULL>>, <<"stdin", "">>}

D == INSTANCE Files WITH Procs <- Openers,
       Regular <- {f}, Dirs <- {root, sub}, Devs <- {"stdin"}, ROOT <- root,
       NENTRY <- 2, NSTD <- 1, MAX_INODE_COUNT <- 9, MAXSIZE <- 1, MAXLEAK <- 2,
       Flags <- SomeFlags \cup {{"rdonly", "trunc"}}, ChdirPaths <- SomeDirs,
       OpenPaths <- {<<":", "">>, <<"cwd", sub>>, <<"cwd", NULL>>, <<"cwd", "long">>, <<"stdin", "">>}

S == INSTANCE Files WITH Procs <- Openers,
       Regular <- {f}, Dirs <- {root, sub}, Devs <- {"stdin"}, ROOT <- root,
       NENTRY <- 2, NSTD <- 1, MAX_INODE_COUNT <- 9, MAXSIZE <- 2, MAXLEAK <- 0,
       Flags <- {{"rdwr"}, {"rdwr", "trunc"}, {"rdwr", "append"}}, ChdirPaths <- {}, OpenPaths <- {<<"cwd", f>>}

ASSUME FilesFit == F!FilesAssumption /\ F!PathsAssumption /\ F!FlagsAssumption /\ D!PathsAssumption

\* Shell: all short lines, two commands in a line, rubbing out, too many words, and cd.
Alphabet == {"a", "b", " ", "<", ">", ";", "\""}
SomeTyped == UNION {[1..n -> Alphabet] : n \in 0..4}
             \cup {<<"a", ";">> \o t : t \in [1..3 -> Alphabet]}
             \cup {<<"a", "BS", "b">>, <<"a", "BS", "BS", "a">>, <<"a", "^C">>, <<"a", "&", "b">>,
                   <<"a", ";", "b", " ", "a", "a", "a">>, <<"c", "d">>, <<"c", "d", " ", "b">>,
                   <<"c", "d", ";", "a">>, <<"a", ">", "c", "d">>}

Sh == INSTANCE Shell WITH
       panicked <- sh_panicked, Typed <- SomeTyped, Files <- {<<"a">>, <<"b">>, <<"c", "d">>}, BUFSIZE <- 6,
       EXEC_MAX_ARG_NUM <- 2

-----------------------------------------------------------------------------
loadvars == <<prog, argv, magic, filelen, pc, kargv, buffers, fd, mm, phnum, la, start, esp>>
filevars == <<k, files, bootfs, vdevs, leaked>>
shellvars == <<keys, line, procs, log, intact, had, sh_panicked>>
allvars == <<bootvars, loadvars, trapvars, filevars, shellvars, part>>

OneProgram == <<Note, Segment(5, 2, 3)>>
OneArgList == <<Arg(2, 1)>>

\* Any program is loaded with one list of arguments, and any list handed to one program.
\* Of the components that take no steps one initial state will do.
AllInit ==
  /\ part \in {"boot", "load", "trap", "files", "dirs", "sizes", "shell"}
  /\ IF part = "boot" THEN TRUE
     ELSE image = <<Seg(16, 16, 1, 1), Seg(24, 24, 1, 4)>> /\ magic_ok = TRUE /\ serial_exists = FALSE
  /\ IF part = "load" THEN prog = OneProgram \/ argv = OneArgList
     ELSE prog = OneProgram /\ argv = OneArgList /\ magic = TRUE /\ filelen = 3
  /\ IF part = "shell" THEN TRUE ELSE keys = <<<<>>, <<"a">>>>
  /\ BootInit /\ Ld!Init /\ TrapInit /\ F!Init /\ Sh!Init
  /\ current = CHOOSE p \in Procs : TRUE        \* they are alike
  /\ IF part = "shell" THEN TRUE ELSE procs[1].fds = Sh!StdFds

AllNext ==
  /\ UNCHANGED part
  /\ \/ part = "boot" /\ BootNext /\ UNCHANGED <<loadvars, trapvars, filevars, shellvars>>
     \/ part = "load" /\ Ld!Next /\ UNCHANGED <<bootvars, trapvars, filevars, shellvars>>
     \/ part = "trap" /\ TrapNext /\ UNCHANGED <<bootvars, loadvars, filevars, shellvars>>
     \/ part = "files" /\ F!Next /\ UNCHANGED <<bootvars, loadvars, trapvars, shellvars>>
     \/ part = "dirs" /\ D!Next /\ UNCHANGED <<bootvars, loadvars, trapvars, shellvars>>
     \/ part = "sizes" /\ S!Next /\ UNCHANGED <<bootvars, loadvars, trapvars, shellvars>>
     \/ part = "shell" /\ Sh!Next /\ UNCHANGED <<bootvars, loadvars, trapvars, filevars>>
     \/ part = "shell" /\ UNCHANGED <<bootvars, loadvars, trapvars, filevars, shellvars>>    \* no more lines

AllSpec == AllInit /\ [][AllNext]_allvars

\* Processes that open files are interchangeable.
Interchangeable == Permutations(Openers)

-----------------------------------------------------------------------------
\* do_execve (proc.c) puts every byte of a program where its headers say, hands over the
\* arguments, and frees its buffers, its file and the unfinished address space on each
\* of its ways out.
ProgramIsLoaded == Ld!ImageIsExact /\ Ld!ArgumentsArrive /\ Ld!ExecCleansUp

\* The counts of an inode (inode.c, vfs.c, file.c) are the descriptors, working directories,
\* devices and mounts that refer to it, apart from the references that vfs_open loses; and
\* no assertion of file.c, fs.c and inode.c on counts and states fails but for the limit of
\* inode_check, which takes that many references: system calls on files panic only there
\* and where Files says a program can make them.
InodesAreSound ==
  F!CountsMatchHolders /\ (IF part = "files" THEN F!AssertionsHold ELSE D!AssertionsHold)


\* The programs that sh.c runs are those of the line typed, in order, each with its own
\* words as arguments and the console (umain.c), unless a redirection emptied them; and
\* the files emptied are those behind ">".
RunsWhatWasTyped == Sh!RunsWhatWasTyped
=============================================================================
