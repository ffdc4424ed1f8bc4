------------------------------- MODULE Loader -------------------------------
(* exec of a program file: do_execve, copy_kargv, load_icode and put_kargv of  *)
(* kern/process/proc.c, copy_string and mm_map of kern/mm/vmm.c.  One process, *)
(* whose address space nobody else sees; memory is modelled byte by byte       *)
(* because the borders of pages and segments are what matters here.            *)
EXTENDS Integers, Sequences, FiniteSets, FiniteSetsExt, TLC

CONSTANTS PGSIZE, WORD,          \* bytes of a page and of a pointer
          USERBASE, USTACKTOP, USTACKPAGES,
          READABLE,              \* the caller's areas end here, on a page border
          EXEC_MAX_ARG_LEN,
          Programs,              \* sequences of program headers
          ArgLists               \* argument lists, sequences of [src, len]

VARIABLES
  prog, argv,     \* what is executed
  magic,          \* the file begins with ELF_MAGIC
  filelen,        \* program headers that the file has the bytes for
  pc,
  kargv,          \* the kernel's copies of the arguments
  buffers,        \* kmalloc'ed copies not yet freed
  fd,             \* the program file is open
  mm,             \* areas and memory of the new address space, NO_MM without one
  phnum, la, start,
  esp

lvars == <<prog, argv, magic, filelen, pc, kargv, buffers, fd, mm, phnum, la, start, esp>>

NO_MM == [mmap |-> {}, mem |-> <<>>, none |-> TRUE]
Zero == <<"zero">>
Junk == <<"junk">>
Nul == <<"nul">>
ROUNDDOWN(a) == (a \div PGSIZE) * PGSIZE
ROUNDUP(a) == ROUNDDOWN(a + PGSIZE - 1)
Ph == prog[phnum + 1]
Byte(n, i) == <<"file", n, i>>       \* byte i of the data of header n
Char(i, j) == <<"char", i, j>>       \* character j of argument i

-----------------------------------------------------------------------------
\* copy_string of the string at a.src, page by page: the parts that are looked at, and
\* whether each can be read.
copy_string(a, maxn) ==
  LET End(k) == Min({ROUNDDOWN(a.src + PGSIZE) + k * PGSIZE, a.src + maxn})  \* of part k
      last == Min({k \in 0..maxn : a.src + a.len < End(k) \/ End(k) = a.src + maxn})
  IN  /\ \A k \in 0..last : End(k) <= READABLE
      /\ a.src + a.len < End(last)

\* One argument of copy_kargv.
copy_kargv ==
  /\ pc = "args" /\ Len(kargv) < Len(argv)
  /\ LET a == argv[Len(kargv) + 1]
     IN  IF copy_string(a, EXEC_MAX_ARG_LEN + 1)
         THEN kargv' = Append(kargv, a.len) /\ buffers' = buffers + 1 /\ UNCHANGED pc
         ELSE \* put_kargv of the copies so far; exec returns an error.
              buffers' = 0 /\ kargv' = <<>> /\ pc' = "refused"
  /\ UNCHANGED <<prog, argv, magic, filelen, fd, mm, phnum, la, start, esp>>

\* files_closeall, then sysfile_open, which may fail.
execve_open ==
  /\ pc = "args" /\ Len(kargv) = Len(argv)
  /\ \/ pc' = "header" /\ fd' = TRUE /\ UNCHANGED buffers
     \/ pc' = "dead" /\ buffers' = 0 /\ UNCHANGED fd         \* execve_exit
  /\ UNCHANGED <<prog, argv, magic, filelen, kargv, mm, phnum, la, start, esp>>

\* The labels bad_*: the new address space goes, put_kargv, do_exit closes the file.
Bad == mm' = NO_MM /\ buffers' = 0 /\ fd' = FALSE /\ pc' = "dead" /\ UNCHANGED <<phnum, la, start, esp>>

Panic == pc' = "panic" /\ UNCHANGED <<mm, buffers, fd, phnum, la, start, esp>>

load_icode_header ==
  /\ pc = "header"
  /\ IF magic THEN mm' = [mmap |-> {}, mem |-> <<>>, none |-> FALSE] /\ pc' = "segment"
                   /\ UNCHANGED <<buffers, fd, phnum, la, start, esp>>
     ELSE Bad
  /\ UNCHANGED <<prog, argv, magic, filelen, kargv>>

-----------------------------------------------------------------------------
\* mm_map: an error where the area that begins at the start of the new one is taken,
\* and the assertion of insert_vma_struct for any other overlap.
mm_map(addr, len) ==
  LET s == ROUNDDOWN(addr)
      e == ROUNDUP(addr + len)
  IN  [area |-> <<s, e>>,
       ret |-> IF ~(USERBASE <= s /\ s < e /\ e <= USTACKTOP) \/ \E v \in mm.mmap : v[1] <= s /\ s < v[2] THEN "bad"
               ELSE IF \E v \in mm.mmap : s < v[2] /\ v[1] < e THEN "assert" ELSE "ok"]

pgdir_alloc_page(mem, a) == [b \in a..(a + PGSIZE - 1) |-> Junk] @@ mem
load_icode_read(mem, from, size) == [b \in from..(from + size - 1) |-> Byte(phnum + 1, b - Ph.p_va)] @@ mem
memset(mem, from, size) == [b \in from..(from + size - 1) |-> Zero] @@ mem

NextHeader == phnum' = phnum + 1 /\ pc' = "segment" /\ UNCHANGED <<buffers, fd, la, esp>>

\* The next program header.  One without data in the file is passed over, and so is
\* its part of the bss.
load_icode_ph ==
  /\ pc = "segment" /\ phnum < Len(prog)
  /\ IF phnum >= filelen \/ (Ph.p_type = "load" /\ Ph.p_filesz > Ph.p_memsz) THEN Bad
     ELSE IF Ph.p_type # "load" \/ Ph.p_filesz = 0 THEN NextHeader /\ UNCHANGED <<mm, start>>
     ELSE LET r == mm_map(Ph.p_va, Ph.p_memsz)
          IN  CASE r.ret = "bad" -> Bad
                [] r.ret = "assert" -> Panic
                [] r.ret = "ok" ->
                     /\ mm' = [mm EXCEPT !.mmap = @ \cup {r.area}]
                     /\ start' = Ph.p_va /\ la' = ROUNDDOWN(Ph.p_va) /\ pc' = "text"
                     /\ UNCHANGED <<buffers, fd, phnum, esp>>
  /\ UNCHANGED <<prog, argv, magic, filelen, kargv>>

\* The bytes of the page at la, from start on, that lie before end.
Size(end) == Min({la + PGSIZE, end}) - start

\* One page of text and data; the read of its part of the file may fail.
load_icode_text ==
  /\ pc = "text" /\ start < Ph.p_va + Ph.p_filesz
  /\ \/ /\ mm' = [mm EXCEPT !.mem = load_icode_read(pgdir_alloc_page(@, la), start, Size(Ph.p_va + Ph.p_filesz))]
        /\ start' = start + Size(Ph.p_va + Ph.p_filesz) /\ la' = la + PGSIZE
        /\ UNCHANGED <<pc, buffers, fd, phnum, esp>>
     \/ filelen = phnum + 1 /\ Bad
  /\ UNCHANGED <<prog, argv, magic, filelen, kargv>>

\* Faulty: the page with the end of the data keeps what was behind it.
load_icode_rest_Skipped ==
  /\ pc = "text" /\ start = Ph.p_va + Ph.p_filesz
  /\ start' = IF start < la THEN Min({la, Ph.p_va + Ph.p_memsz}) ELSE start
  /\ pc' = "bss" /\ UNCHANGED <<prog, argv, magic, filelen, kargv, mm, buffers, fd, phnum, la, esp>>

\* The rest of the last page of data belongs to the bss.
load_icode_rest ==
  LET end == Ph.p_va + Ph.p_memsz
      off == start + PGSIZE - la
      size == (PGSIZE - off) - (IF end < la THEN la - end ELSE 0)
      to == start + size
  IN  /\ pc = "text" /\ start = Ph.p_va + Ph.p_filesz
      /\ IF start >= la \/ start = end THEN pc' = "bss" /\ UNCHANGED <<mm, buffers, fd, phnum, la, start, esp>>
         ELSE IF ~((end < la /\ to = end) \/ (end >= la /\ to = la)) THEN Panic
         ELSE /\ mm' = [mm EXCEPT !.mem = memset(@, la - PGSIZE + off, size)]
              /\ start' = to /\ pc' = "bss" /\ UNCHANGED <<buffers, fd, phnum, la, esp>>
      /\ UNCHANGED <<prog, argv, magic, filelen, kargv>>

\* One more page of bss, or the end of the segment.
load_icode_bss ==
  LET end == Ph.p_va + Ph.p_memsz
  IN  /\ pc = "bss"
      /\ IF start >= end THEN NextHeader /\ UNCHANGED <<mm, start>>
         ELSE /\ mm' = [mm EXCEPT !.mem = memset(pgdir_alloc_page(@, la), start, Size(end))]
              /\ start' = start + Size(end) /\ la' = la + PGSIZE
              /\ UNCHANGED <<pc, buffers, fd, phnum, esp>>
      /\ UNCHANGED <<prog, argv, magic, filelen, kargv>>

-----------------------------------------------------------------------------
\* strnlen + 1 for each of the first n arguments.
argv_size(n) == MapThenSumSet(LAMBDA i : kargv[i] + 1, 1..n)

\* Above the stack pointer: argc, the pointers, and the strings they point to.
Arguments(mem) ==
  LET argc == Len(kargv)
      stacktop == USTACKTOP - (argv_size(argc) \div WORD + 1) * WORD
      uargv == stacktop - argc * WORD
      At(i) == stacktop + argv_size(i - 1)
      strings == [b \in UNION {At(i)..(At(i) + kargv[i]) : i \in 1..argc} |->
                    LET i == CHOOSE k \in 1..argc : b \in At(k)..(At(k) + kargv[k])
                    IN  IF b = At(i) + kargv[i] THEN Nul ELSE Char(i, b - At(i))]
      pointers == [b \in {uargv + (i - 1) * WORD : i \in 1..argc} |-> <<"ptr", At((b - uargv) \div WORD + 1)>>]
  IN  [esp |-> uargv - WORD, mem |-> ((uargv - WORD) :> <<"int", argc>>) @@ pointers @@ strings @@ mem]

\* The file is closed, the stack mapped with its four topmost pages, the arguments are
\* written into the new space, and the trap frame is set to its entry point.
load_icode_stack ==
  /\ pc = "segment" /\ phnum = Len(prog)
  /\ LET r == mm_map(USTACKTOP - USTACKPAGES * PGSIZE, USTACKPAGES * PGSIZE)
         pages == (USTACKTOP - 4 * PGSIZE)..(USTACKTOP - 1)
         user == Arguments([b \in pages |-> Junk] @@ mm.mem)
     IN  CASE r.ret = "bad" -> Bad
           [] r.ret = "assert" -> Panic
           [] r.ret = "ok" ->
                /\ mm' = [mm EXCEPT !.mmap = @ \cup {r.area}, !.mem = user.mem]
                /\ esp' = user.esp /\ fd' = FALSE /\ buffers' = 0      \* put_kargv
                /\ pc' = "running" /\ UNCHANGED <<phnum, la, start>>
  /\ UNCHANGED <<prog, argv, magic, filelen, kargv>>

Finished == pc \in {"running", "dead", "refused", "panic"} /\ UNCHANGED lvars

Init ==
  /\ prog \in Programs /\ argv \in ArgLists /\ magic \in BOOLEAN /\ filelen \in 0..(Len(prog) + 1)
  /\ filelen = Len(prog) + 1 \/ (magic /\ Len(argv) = 1)      \* one fault at a time
  /\ pc = "args" /\ kargv = <<>> /\ buffers = 0 /\ fd = FALSE /\ mm = NO_MM
  /\ phnum = 0 /\ la = 0 /\ start = 0 /\ esp = 0

Next ==
  \/ copy_kargv \/ execve_open \/ load_icode_header \/ load_icode_ph
  \/ load_icode_text \/ load_icode_rest \/ load_icode_bss \/ load_icode_stack \/ Finished

Spec == Init /\ [][Next]_lvars

-----------------------------------------------------------------------------
Loaded == {n \in DOMAIN prog : prog[n].p_type = "load" /\ prog[n].p_filesz > 0}

\* A program that runs has every byte of its segments: the data as it is in the file
\* and zeros for the bss, whatever the borders of pages.  (A segment of bss only is not
\* loaded at all.)
ImageIsExact ==
  pc = "running" =>
    \A n \in Loaded : \A b \in prog[n].p_va..(prog[n].p_va + prog[n].p_memsz - 1) :
      /\ b \in DOMAIN mm.mem
      /\ mm.mem[b] = IF b < prog[n].p_va + prog[n].p_filesz THEN Byte(n, b - prog[n].p_va) ELSE Zero

\* A program that runs finds its arguments as the caller had them: argc at esp, a
\* pointer for each argument behind it, and an unbroken string where that points.  Only
\* strings that can be read to their end and are short enough get that far.
ArgumentsArrive ==
  pc = "running" =>
    /\ esp % WORD = 0 /\ mm.mem[esp] = <<"int", Len(argv)>>
    /\ \A i \in DOMAIN argv :
         /\ argv[i].src + argv[i].len < READABLE /\ argv[i].len <= EXEC_MAX_ARG_LEN
         /\ LET p == mm.mem[esp + i * WORD]
            IN  /\ p[1] = "ptr" /\ p[2] + argv[i].len < USTACKTOP
                /\ \A j \in 0..(argv[i].len - 1) : mm.mem[p[2] + j] = Char(i, j)
                /\ mm.mem[p[2] + argv[i].len] = Nul

\* However exec ends, the kernel's copies of the arguments are freed and the file is
\* closed, and a failed one leaves no address space behind.  Readable and short
\* arguments are never refused.
ExecCleansUp ==
  /\ pc \in {"running", "dead", "refused"} => buffers = 0 /\ ~fd
  /\ pc \in {"dead", "refused"} => mm = NO_MM
  /\ pc = "refused" => \E i \in DOMAIN argv : argv[i].src + argv[i].len >= READABLE \/ argv[i].len > EXEC_MAX_ARG_LEN
=============================================================================
