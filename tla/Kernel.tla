------------------------------- MODULE Kernel -------------------------------
(* The inside of the kernel checked in one run: the start-up checks and the    *)
(* page allocator, and swapping (this module's own state is that of BootChecks *)
(* and Swap), the address spaces of processes, the kernel heap, the console,   *)
(* the backtrace of the kernel debugger, and the libraries for text and        *)
(* memory.  Each is looked at by itself: in a behaviour one of them takes      *)
(* steps, the others stay in an initial state.                                 *)
EXTENDS BootChecks, Swap, TLC

CONSTANTS Procs, Mms      \* processes and mm_structs

VARIABLES
  m, mms, proc, current, space_panicked,
  h, blocks, failed,
  keys_held, dib, com, irq, shift, cons, is_panic, buf, crt_buf, crt_pos, budget, due, overrun,
  passed, decoded, meant, twice,
  stabs, chain, phase, arg, l, r, any_matches, addr, region_left, region_right, info, printed,
  parts, fmt, at, ap, dir, b, size, ret, strtol_val,
  mem, call, was, regs,
  part          \* the component that takes steps

-----------------------------------------------------------------------------
\* AddressSpace: programs with a segment of one page, writable or not, and a stack of two
\* pages, one of which is mapped when it is first touched.
Pages(flags) == [vm_start |-> 0, vm_end |-> 1, vm_flags |-> flags]
OnePagers == {<<Pages({"read", "exec"})>>, <<Pages({"read", "write"})>>}

A == INSTANCE AddressSpace WITH
       panicked <- space_panicked, NPAGES <- 8, NPDE <- 1, NPTE <- 3, Values <- {0, 1},
       Programs <- OnePagers, USTACKPAGES <- 2

ASSUME SpacesFit == A!SpaceAssumption

\* Slob: a heap of four pages; small and big requests, and one that find_order rounds down.
H == INSTANCE Slob WITH
       HEAPPAGES <- 4, SLOB_UNIT <- 2, PAGE_SIZE <- 16, BIGBLOCK <- 3,
       Sizes <- {3, 11, 13, 14, 33}, MAXBLOCKS <- 3

\* Console: each budget brings other keys together; a ring of three and a screen of two rows.
Budget(keys, presses, chars, may) == [keys |-> keys, presses |-> presses, chars |-> chars, panic |-> may]
SomeBudgets ==
  {Budget({"lshift", "rshift", "a", "caps"}, 4, 0, FALSE),
   Budget({"lctl", "rctl", "enter", "bs"}, 3, 0, FALSE),
   Budget({"rctl", "ralt", "del", "print", "a"}, 3, 0, FALSE),
   Budget({"a", "bs"}, 2, 1, TRUE),
   Budget({}, 0, 7, TRUE)}

Co == INSTANCE Console WITH
       held <- keys_held, CONSBUFSIZE <- 3, CRT_ROWS <- 2, CRT_COLS <- 4, BUFSIZE <- 5, PENDING <- 3,
       Budgets <- SomeBudgets

\* Kdebug: traces of one or two frames in tables of two files, with return addresses in and
\* around the functions that they describe.
Entry(type, value) == [n_type |-> type, n_value |-> value]
Header == <<Entry("N_HEADER", 0)>>
\* Functions at v with up to two arguments, lines at offsets 0 and a later one, and
\* perhaps a line of an included file.
Functions(v) ==
  {<<Entry("N_FUN", v)>> \o p \o <<Entry("N_SLINE", 0)>> \o q :
     p \in {<<>>, <<Entry("N_PSYM", 8), Entry("N_PSYM", 12)>>},
     q \in {<<>>, <<Entry("N_SLINE", 1)>>, <<Entry("N_SOL", v + 2), Entry("N_SLINE", 2)>>}}
SomeTables ==
  {Header \o <<Entry("N_SO", 10)>> \o f \o g \o <<Entry("N_SO", 20)>> \o e \o <<Entry("N_SO", 26)>> :
     f \in Functions(12), g \in {<<>>} \cup Functions(16), e \in {x \in Functions(20) : Len(x) = 4}}
SomeEips == {12, 13, 14, 15, 17, 19, 21, 23}

Kd == INSTANCE Kdebug WITH Tables <- SomeTables, Eips <- SomeEips, STACKFRAME_DEPTH <- 2

\* What the formats of Text are made of, as the programmer means them.
UNSET == -1                 \* no width or precision
STAR == -2                  \* the width is passed as an argument,
PASSED == 3                 \* which is 3
NullString == <<"NULL">>    \* a NULL pointer for a string
UNPRINTABLE == "^A"

\* A character of text, or a conversion with its flag, width, precision and argument: a
\* number for some conversions, a string or a character for the others.
Conv(flag, width, precision, long, conv, num, str) ==
  [flag |-> flag, width |-> width, precision |-> precision, long |-> long, conv |-> conv, num |-> num, str |-> str]
Numeric(flag, width, long, conv, num) == Conv(flag, width, UNSET, long, conv, num, <<>>)
Textual(flag, width, precision, conv, str) == Conv(flag, width, precision, FALSE, conv, 0, str)
Plain(c) == Textual("", UNSET, UNSET, "text", <<c>>)

\* Text: numbers around the powers of the bases and the ends of their types, strings that
\* are shorter and longer than their fields, and buffers that are too small.
Numbers ==
  {Numeric(f, w, FALSE, c, n) : f \in {"", "0", "-"}, w \in {UNSET, STAR, 2, 10},
     c \in {"d", "u", "o", "x", "p"}, n \in {0, 7, 8, 9, 10, 15, 16, 31, 32, 63}}
  \cup {Numeric("0", UNSET, TRUE, c, n) : c \in {"d", "u", "o", "x"}, n \in {0, 64, 99, 128, 255}}
Strings ==
  {Textual(f, w, p, "s", str) : f \in {"", "0", "-", "#"}, w \in {UNSET, STAR, 1, 4}, p \in {UNSET, 0, 1, 2},
     str \in {<<>>, <<"z">>, <<"x", UNPRINTABLE, "y">>, NullString}}
Others ==
  {Textual(f, UNSET, UNSET, c, <<"z">>) : f \in {"", "0"}, c \in {"c", "%", "q"}}
  \cup {Numeric("", UNSET, FALSE, "e", n) : n \in {0, 1, 2, 3, 61, 63}}
SomeFormats ==
  {<<p>> : p \in Numbers \cup Strings \cup Others}
  \cup {<<Plain("z"), p, Numeric("", 2, FALSE, "d", 63), Plain("z")>> : p \in Others}

Tx == INSTANCE Text WITH
       INT_MOD <- 64, LL_MOD <- 256, error_string <- (1 :> <<"b", "a", "d">>) @@ (2 :> <<"n", "o">>),
       Formats <- SomeFormats, Sizes <- {0, 1, 4, 20}

\* Memory: three words and a byte, with and without terminators.
SomeContents ==
  {[x \in 0..6 |-> c[x + 1]] : c \in {<<1, 2, 3, 4, 5, 6, 7>>, <<1, 2, 0, 1, 2, 0, 1>>, <<2, 0, 0, 2, 1, 0, 1>>}}

My == INSTANCE Memory WITH r <- regs, MEMSIZE <- 7, WORDSIZE <- 2, Contents <- SomeContents

-----------------------------------------------------------------------------
spacevars == <<m, mms, proc, current, space_panicked>>
heapvars == <<h, blocks, failed>>
consvars == <<keys_held, dib, com, irq, shift, cons, is_panic, buf, crt_buf, crt_pos, budget, due, overrun,
              passed, decoded, meant, twice>>
stabvars == <<stabs, chain, phase, arg, l, r, any_matches, addr, region_left, region_right, info, printed>>
textvars == <<parts, fmt, at, ap, dir, b, size, ret, strtol_val>>
memvars == <<mem, call, was, regs>>
libvars == <<textvars, memvars>>
allvars == <<bvars, spacevars, heapvars, swapvars, consvars, stabvars, libvars, part>>

\* Of the components that take no steps one initial state will do.
AllInit ==
  /\ part \in {"pages", "space", "heap", "swap", "console", "debug", "text", "memory"}
  /\ part # "pages" => memmap = <<[addr |-> 0, end |-> 3, type |-> E820_ARM],
                                  [addr |-> 29, end |-> 31, type |-> E820_ARM]>>
  /\ part # "swap" => mode = "any"
  /\ part # "console" => budget = Budget({}, 0, 7, TRUE)
  /\ part # "debug" => stabs = (CHOOSE t \in SomeTables : TRUE) /\ chain = <<12>>
  /\ part # "memory" => mem = [x \in 0..6 |-> x + 1]
  /\ BInit /\ A!Init /\ H!Init /\ SwapInit /\ Co!Init /\ Kd!Init /\ Tx!Init /\ My!Init

AllNext ==
  /\ UNCHANGED part
  /\ \/ part = "pages" /\ BNext /\ UNCHANGED <<spacevars, heapvars, swapvars, consvars, stabvars, libvars>>
     \/ part = "space" /\ A!Next /\ UNCHANGED <<bvars, heapvars, swapvars, consvars, stabvars, libvars>>
     \/ part = "heap" /\ H!Next /\ UNCHANGED <<bvars, spacevars, swapvars, consvars, stabvars, libvars>>
     \/ part = "swap" /\ SwapNext /\ UNCHANGED <<bvars, spacevars, heapvars, consvars, stabvars, libvars>>
     \/ part = "console" /\ Co!Next /\ UNCHANGED <<bvars, spacevars, heapvars, swapvars, stabvars, libvars>>
     \/ part = "debug" /\ Kd!Next /\ UNCHANGED <<bvars, spacevars, heapvars, swapvars, consvars, libvars>>
     \/ part = "text" /\ Tx!Next /\ UNCHANGED <<bvars, spacevars, heapvars, swapvars, consvars, stabvars, memvars>>
     \/ part = "memory" /\ My!Next /\ UNCHANGED <<bvars, spacevars, heapvars, swapvars, consvars, stabvars, textvars>>
     \* No key is pressed any more, the trace is complete, or the function has returned.
     \/ /\ part \in {"console", "debug", "text", "memory"}
        /\ UNCHANGED <<bvars, spacevars, heapvars, swapvars, consvars, stabvars, libvars>>

AllSpec == AllInit /\ [][AllNext]_allvars

\* Processes are interchangeable.
Interchangeable == Permutations(Procs)

-----------------------------------------------------------------------------
\* Start-up (pmm.c, default_pmm.c, vmm.c, swap.c): page_init makes exactly the usable whole
\* pages free, every assertion of check_alloc_page, check_pgdir, check_boot_pgdir, check_vmm
\* and check_swap holds, and the checks leave the allocator as if they had never run, but
\* for the five pages that check_swap loses.
StartupIsRight == OnlyUsablePages /\ BootChecksPass /\ SwapCheckPasses

\* Every page is free, a directory, a table or data of exactly one address space, through
\* fork, exec, failed exec, exit and page faults (vmm.c, pmm.c, proc.c); a cached translation
\* says what the page table says; and the kernel panics over user memory only for want of
\* pages or when a program touches what its areas forbid.
SpacesAreSound == A!PagesAreAccountedFor /\ A!TranslationsAreCurrent /\ A!OnlyMemoryRunsOut

\* Processes that do not share an address space never see each other's stores, and a forked
\* process starts with a copy of all that its parent has in memory.
ImplementsIsolation == A!ImplementsIsolation

\* The kernel heap (kmalloc.c): blocks in use, free blocks, headers and free pages partition
\* the memory, whatever is taken and given back, and a block has room for what was asked
\* for, apart from the sizes that find_order rounds down.
HeapIsSound == H!HeapIsPartitioned /\ H!BlocksAreLargeEnough

\* What is typed is decoded with the modifiers of that moment, passes the ring once and in
\* order, and the monitor's line is what one sees on the screen (console.c, readline.c).
ConsoleIsFaithful == Co!KeysAreDecoded /\ Co!RingKeepsOrder /\ Co!LineIsOnScreen

\* Every frame of a backtrace whose address lies in a function is printed with that function,
\* its line, its file and the number of its arguments (kdebug.c).
BacktraceIsRight == Kd!BacktraceIsRight

\* As the comment on stab_binsearch (kdebug.c) has it: the search returns the region of the
\* last entry at or below the address, and an empty one if there is none.
SearchAsDocumented == Kd!SearchAsDocumented

\* snprintf returns the length of the text that a format stands for and leaves what fits of
\* it in the buffer, and strtol reads numbers back (printfmt.c, string.c); memory and
\* strings are copied as they were at the call, however the areas overlap, and compared
\* in their order (string.c, x86.h).
LibrariesAreRight == Tx!TextIsRight /\ My!CopiesAreRight
=============================================================================
