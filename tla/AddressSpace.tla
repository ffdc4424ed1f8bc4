---------------------------- MODULE AddressSpace ----------------------------
(* User memory: areas and page faults (kern/mm/vmm.c), page directories and    *)
(* page tables (kern/mm/pmm.c), and what fork, exec, exit and the switch of    *)
(* processes do with them (kern/process/proc.c).  An address is the number of  *)
(* a page.  The kernel is not preempted and nothing here sleeps, so that each  *)
(* operation is one action; it works on "m", the memory, page by page.  When   *)
(* no page is free, alloc_page ends in a panic (see PageAlloc).                *)
EXTENDS Integers, Sequences, FiniteSets, SequencesExt, FiniteSetsExt

CONSTANTS Procs, Mms,
          NPAGES,          \* pages of physical memory
          NPDE, NPTE,      \* entries of a page directory and of a page table
          Values,          \* what a page can hold
          Programs,        \* sequences of areas: the segments of ELF files
          USTACKPAGES,     \* size of the stack area
          NULL

Pages == 1..NPAGES
Las == 0..(NPDE * NPTE - 1)
PDX(la) == la \div NPTE
PTX(la) == la % NPTE
USTACKTOP == NPDE * NPTE

\* An area with the flags VM_READ, VM_WRITE, VM_EXEC and VM_STACK.
Areas == [vm_start : Las, vm_end : 1..USTACKTOP,
          vm_flags : SUBSET {"read", "write", "exec", "stack"}]

SpaceAssumption ==
  /\ NPAGES \in Nat /\ NPDE \in Nat \ {0} /\ NPTE \in Nat \ {0}
  /\ 0 \in Values
  /\ \A prog \in Programs : \A i \in DOMAIN prog : prog[i] \in Areas
  /\ NULL \notin Procs \cup Mms \cup Values
  /\ Cardinality(Mms) >= Cardinality(Procs)

VARIABLES
  m,          \* the memory: free pages, ref, and pages as directories (pde), as
              \* tables (pte) and as data; the translation cache tlb; cr3
  mms,        \* mm_structs: mm_count, mmap_list, pgdir
  proc,       \* mm and cr3 of a process, NULL if there is none
  current,
  panicked

vars == <<m, mms, proc, current, panicked>>

NoPte == [page |-> 0, w |-> FALSE]
NoMm == [mm_count |-> 0, mmap_list |-> <<>>, pgdir |-> 0]

\* A kernel thread runs that will exec the first program.
Init ==
  /\ m = [free |-> Pages, ref |-> [p \in Pages |-> 0],
          pde |-> [p \in Pages |-> [i \in 0..NPDE-1 |-> 0]],
          pte |-> [p \in Pages |-> [j \in 0..NPTE-1 |-> NoPte]],
          data |-> [p \in Pages |-> 0],
          tlb |-> {}, cr3 |-> 0]
  /\ mms = [x \in Mms |-> NoMm]
  /\ \E p \in Procs :
       /\ proc = [q \in Procs |-> IF q = p THEN [mm |-> NULL, cr3 |-> 0] ELSE NULL]
       /\ current = p
  /\ panicked = "no"

-----------------------------------------------------------------------------
\* Pages and page tables.

\* The page the pool gives out next.
FreePage(h) == Min(h.free)

\* What a free page holds is forgotten: it is any value when the page is next used.
free_page(h, p) == [h EXCEPT !.free = @ \cup {p}, !.ref[p] = 0, !.data[p] = 0]

\* lcr3 empties the translation cache.
lcr3(h, pgdir) == [h EXCEPT !.cr3 = pgdir, !.tlb = {}]

\* Only the directory in use is cached.
tlb_invalidate(h, pgdir, la) ==
  IF h.cr3 = pgdir THEN [h EXCEPT !.tlb = {t \in @ : t.la # la}] ELSE h

\* get_pte without create: the entry, NoPte if there is no table.
Pte(h, pgdir, la) ==
  LET table == h.pde[pgdir][PDX(la)]
  IN  IF table = 0 THEN NoPte ELSE h.pte[table][PTX(la)]

\* get_pte with create: the table is there afterwards.
get_pte(h, pgdir, la) ==
  LET p == FreePage(h)
  IN  IF h.pde[pgdir][PDX(la)] # 0 THEN h
      ELSE [h EXCEPT !.free = @ \ {p}, !.ref[p] = 1,
                     !.pte[p] = [j \in 0..NPTE-1 |-> NoPte],
                     !.pde[pgdir][PDX(la)] = p]

SetPte(h, pgdir, la, e) == [h EXCEPT !.pte[h.pde[pgdir][PDX(la)]][PTX(la)] = e]

page_remove_pte(h, pgdir, la) ==
  LET p == Pte(h, pgdir, la).page
      h1 == IF h.ref[p] = 1 THEN free_page(h, p) ELSE [h EXCEPT !.ref[p] = @ - 1]
  IN  IF p = 0 THEN h ELSE tlb_invalidate(SetPte(h1, pgdir, la, NoPte), pgdir, la)

page_insert(h, pgdir, page, la, w) ==
  LET h1 == get_pte(h, pgdir, la)
      h2 == IF Pte(h1, pgdir, la).page = page THEN h1
            ELSE page_remove_pte([h1 EXCEPT !.ref[page] = @ + 1], pgdir, la)
  IN  tlb_invalidate(SetPte(h2, pgdir, la, [page |-> page, w |-> w]), pgdir, la)

\* pgdir_alloc_page does not clear the page, which holds v.
pgdir_alloc_page(h, pgdir, la, w, v) ==
  LET p == FreePage(h)
  IN  page_insert([h EXCEPT !.free = @ \ {p}, !.data[p] = v], pgdir, p, la, w)

Span(vma) == [k \in 1..(vma.vm_end - vma.vm_start) |-> vma.vm_start + k - 1]

unmap_range(h, pgdir, vma) ==
  FoldLeft(LAMBDA acc, la : page_remove_pte(acc, pgdir, la), h, Span(vma))

\* Faulty exit_range: a directory entry is left behind.
exit_range_Last(h, pgdir, vma) == h

\* exit_range frees the page tables.
exit_range(h, pgdir, vma) ==
  FoldLeft(LAMBDA acc, la :
             LET table == acc.pde[pgdir][PDX(la)]
             IN  IF table = 0 THEN acc
                 ELSE [free_page(acc, table) EXCEPT !.pde[pgdir][PDX(la)] = 0],
           h, Span(vma))

\* Faulty copy_range: the contents are not copied.
copy_range_Blank(h, to, from, vma) ==
  FoldLeft(LAMBDA acc, la :
             LET h1 == get_pte(acc, to, la)
                 p == FreePage(h1)
                 h2 == [h1 EXCEPT !.free = @ \ {p}, !.data[p] = 0]
             IN  IF Pte(acc, from, la).page = 0 THEN acc
                 ELSE page_insert(h2, to, p, la, Pte(acc, from, la).w),
           h, Span(vma))

\* copy_range: a new page with the same contents for every page that is there.
copy_range(h, to, from, vma) ==
  FoldLeft(LAMBDA acc, la :
             LET e == Pte(acc, from, la)
                 h1 == get_pte(acc, to, la)
                 p == FreePage(h1)
                 h2 == [h1 EXCEPT !.free = @ \ {p}, !.data[p] = h1.data[e.page]]
             IN  IF e.page = 0 THEN acc ELSE page_insert(h2, to, p, la, e.w),
           h, Span(vma))

-----------------------------------------------------------------------------
\* Address spaces.

\* setup_pgdir: no user entries.
setup_pgdir(h) ==
  LET p == FreePage(h)
  IN  [h EXCEPT !.free = @ \ {p}, !.pde[p] = [i \in 0..NPDE-1 |-> 0]]

\* find_vma: the area that holds la, as a set with at most one element.
find_vma(list, la) == {v \in ToSet(list) : v.vm_start <= la /\ la < v.vm_end}

\* insert_vma_struct keeps the list sorted.
insert_vma_struct(list, vma) ==
  LET before(v) == v.vm_start <= vma.vm_start
  IN  SelectSeq(list, before) \o <<vma>> \o SelectSeq(list, LAMBDA v : ~before(v))

exit_mmap(h, x) ==
  LET unmapped == FoldLeft(LAMBDA acc, v : unmap_range(acc, x.pgdir, v), h, x.mmap_list)
  IN  FoldLeft(LAMBDA acc, v : exit_range(acc, x.pgdir, v), unmapped, x.mmap_list)

put_pgdir(h, x) == free_page(h, x.pgdir)

\* Leaving an address space, as do_exit and do_execve do: the last one out takes
\* it down.
LeaveMm(h, x) ==
  IF x = NULL THEN h
  ELSE LET h1 == lcr3(h, 0)
       IN  IF mms[x].mm_count = 1 THEN put_pgdir(exit_mmap(h1, mms[x]), mms[x]) ELSE h1

LeftMms(x) ==
  IF x = NULL THEN mms
  ELSE IF mms[x].mm_count = 1 THEN [mms EXCEPT ![x] = NoMm]
  ELSE [mms EXCEPT ![x].mm_count = @ - 1]

Unused(M) == CHOOSE x \in Mms : M[x].mm_count = 0

Panic(why) == panicked' = why /\ UNCHANGED <<m, mms, proc, current>>

Running == panicked = "no" /\ proc[current] # NULL
Mm == proc[current].mm

-----------------------------------------------------------------------------
\* do_fork with CLONE_VM, or by a kernel thread: copy_mm shares.
fork_share(c) ==
  /\ Running /\ proc[c] = NULL
  /\ mms' = IF Mm = NULL THEN mms ELSE [mms EXCEPT ![Mm].mm_count = @ + 1]
  /\ proc' = [proc EXCEPT ![c] = [mm |-> Mm, cr3 |-> IF Mm = NULL THEN 0 ELSE mms[Mm].pgdir]]
  /\ UNCHANGED <<m, current, panicked>>

\* The pages a copy of x needs: directory, tables and data.
CopySize(x) ==
  LET tables == {m.pde[mms[x].pgdir][i] : i \in 0..NPDE-1}
      used == {t \in tables \ {0} : \E j \in 0..NPTE-1 : m.pte[t][j] # NoPte}
      mapped == {la \in Las : Pte(m, mms[x].pgdir, la) # NoPte}
  IN  1 + Cardinality(used) + Cardinality(mapped)

\* do_fork without CLONE_VM: dup_mmap copies area by area, from the last one.
fork_dup(c) ==
  /\ Running /\ proc[c] = NULL /\ Mm # NULL
  /\ IF Cardinality(m.free) < CopySize(Mm) THEN Panic("memory")
     ELSE LET to == FreePage(m)
              from == mms[Mm].pgdir
              n == Unused(mms)
          IN /\ m' = FoldLeft(LAMBDA acc, v : copy_range(acc, to, from, v),
                              setup_pgdir(m), Reverse(mms[Mm].mmap_list))
             /\ mms' = [mms EXCEPT ![n] = [mm_count |-> 1, pgdir |-> to,
                          mmap_list |-> FoldLeft(insert_vma_struct, <<>>,
                                                 Reverse(mms[Mm].mmap_list))]]
             /\ proc' = [proc EXCEPT ![c] = [mm |-> n, cr3 |-> to]]
             /\ UNCHANGED <<current, panicked>>

\* do_exit, with proc_run of the process that schedule() picks.  The zombie keeps
\* its cr3 but never runs again.
ExitWith(h, M) ==
  /\ mms' = M
  /\ proc' = [proc EXCEPT ![current] = NULL]
  /\ LET others == {q \in Procs \ {current} : proc[q] # NULL}
     IN  IF others = {} THEN current' = current /\ m' = h
         ELSE \E q \in others : current' = q /\ m' = lcr3(h, proc[q].cr3)
  /\ UNCHANGED panicked

do_exit == Running /\ ExitWith(LeaveMm(m, Mm), LeftMms(Mm))

Stack == [vm_start |-> USTACKTOP - USTACKPAGES, vm_end |-> USTACKTOP,
          vm_flags |-> {"read", "write", "stack"}]

\* load_icode maps the segments, with a page for each address, ...
Loaded(h, pgdir, segments) ==
  FoldLeft(LAMBDA acc, v :
             FoldLeft(LAMBDA a, la : pgdir_alloc_page(a, pgdir, la, "write" \in v.vm_flags, 0),
                      acc, Span(v)),
           setup_pgdir(h), segments)

\* ... and the pages it needs with the stack, of which one page is mapped (four in
\* the code).
LoadSize(segments) ==
  LET las == UNION {ToSet(Span(segments[i])) : i \in DOMAIN segments} \cup {USTACKTOP - 1}
  IN  1 + Cardinality({PDX(la) : la \in las}) + Cardinality(las)

\* do_execve: the old space is left before the new one is built.
do_execve(prog) ==
  /\ Running
  /\ LET h == LeaveMm(m, Mm)
         M == LeftMms(Mm)
         n == Unused(M)
         to == FreePage(h)
         list == FoldLeft(insert_vma_struct, <<>>, Append(prog, Stack))
     IN  IF Cardinality(h.free) < LoadSize(prog) THEN Panic("memory")
         ELSE /\ \E v \in Values :
                   m' = lcr3(pgdir_alloc_page(Loaded(h, to, prog), to, USTACKTOP - 1, TRUE, v), to)
              /\ mms' = [M EXCEPT ![n] = [mm_count |-> 1, mmap_list |-> list, pgdir |-> to]]
              /\ proc' = [proc EXCEPT ![current] = [mm |-> n, cr3 |-> to]]
              /\ UNCHANGED <<current, panicked>>

\* The file turns out to be no program after k of its segments: what was built is
\* taken down again and the process exits.
exec_fails(prog, k) ==
  /\ Running
  /\ LET h == LeaveMm(m, Mm)
         to == FreePage(h)
         part == SubSeq(prog, 1, k)
         new == [mm_count |-> 0, mmap_list |-> part, pgdir |-> to]
     IN  IF Cardinality(h.free) < LoadSize(part) THEN Panic("memory")
         ELSE ExitWith(put_pgdir(exit_mmap(Loaded(h, to, part), new), new), LeftMms(Mm))

\* schedule() and proc_run: q gets the CPU.
switch_to(q) ==
  /\ Running /\ q # current /\ proc[q] # NULL
  /\ current' = q
  /\ m' = lcr3(m, proc[q].cr3)
  /\ UNCHANGED <<mms, proc, panicked>>

-----------------------------------------------------------------------------
\* Page faults.

\* What the processor finds for la: a cached translation, or the entry.
Translation(h, la) ==
  LET cached == {t \in h.tlb : t.la = la}
  IN  IF cached # {} THEN [page |-> (CHOOSE t \in cached : TRUE).page,
                           w |-> (CHOOSE t \in cached : TRUE).w]
      ELSE IF h.cr3 = 0 THEN NoPte ELSE Pte(h, h.cr3, la)

Permits(e, write) == e.page # 0 /\ (write => e.w)

\* The checks of do_pgfault on the area and the kind of access.
FaultAllowed(list, la, write) ==
  \E v \in find_vma(list, la) :
    IF write THEN "write" \in v.vm_flags ELSE v.vm_flags \cap {"read", "exec"} # {}

\* How an access to la ends if the entry does not permit it: the page is added
\* (do_pgfault succeeds), or why not.
FaultOutcome(h, list, la, write) ==
  CASE ~FaultAllowed(list, la, write) -> "refused"
    [] Pte(h, h.cr3, la).page # 0 -> "pte"
    [] Cardinality(h.free) < (IF h.pde[h.cr3][PDX(la)] = 0 THEN 2 ELSE 1) -> "memory"
    [] OTHER -> "added"

\* do_pgfault adds a page that holds v, with get_pte first.
do_pgfault(h, list, la, v) ==
  LET vma == CHOOSE x \in find_vma(list, la) : TRUE
  IN  pgdir_alloc_page(get_pte(h, h.cr3, la), h.cr3, la, "write" \in vma.vm_flags, v)

\* The access itself: the translation is cached.  The cache holds one translation
\* here; which others a larger one would hold makes no difference to this one.
Touch(h, la) ==
  LET e == Translation(h, la)
  IN  [h EXCEPT !.tlb = {[la |-> la, page |-> e.page, w |-> e.w]}]

Store(h, la, v) == [Touch(h, la) EXCEPT !.data[Translation(h, la).page] = v]

\* A user program loads or stores v; a new page holds v before.  A fault that is
\* refused ends in a panic: trap_dispatch does not get to its do_exit.
access(la, write, v) ==
  /\ Running /\ Mm # NULL
  /\ LET list == mms[Mm].mmap_list
         outcome == FaultOutcome(m, list, la, write)
         fine == Permits(Translation(m, la), write)
         h == IF fine THEN m ELSE do_pgfault(m, list, la, v)
     IN  IF fine \/ outcome = "added"
         THEN /\ m' = IF write THEN Store(h, la, v) ELSE Touch(h, la)
              /\ UNCHANGED <<mms, proc, current, panicked>>
         ELSE Panic(IF outcome = "refused" THEN "user" ELSE outcome)

\* user_mem_check of the addresses start..end-1 (end is not part of them).  On a
\* stack the kernel does not write to the lowest page.
user_mem_check(list, start, end, write) ==
  \A la \in start..(end - 1) :
    \E v \in find_vma(list, la) :
      /\ (IF write THEN "write" ELSE "read") \in v.vm_flags
      /\ write /\ "stack" \in v.vm_flags /\ la = Max({start, v.vm_start}) => la > v.vm_start

CopyAllowed(list, start, end) == user_mem_check(list, start, end, TRUE)

\* copy_to_user of v: the kernel checks the areas and then stores; a fault that
\* is not resolved now ends in a panic.
copy_to_user(start, end, v) ==
  /\ Running /\ Mm # NULL
  /\ CopyAllowed(mms[Mm].mmap_list, start, end)
  /\ LET list == mms[Mm].mmap_list
         step(acc, la) ==
           LET fine == Permits(Translation(acc.h, la), TRUE)
               outcome == FaultOutcome(acc.h, list, la, TRUE)
               h == IF fine THEN acc.h ELSE do_pgfault(acc.h, list, la, v)
           IN  IF acc.end # "no" THEN acc
               ELSE IF fine \/ outcome = "added"
               THEN [acc EXCEPT !.h = Store(h, la, v)]
               ELSE [acc EXCEPT !.end = outcome]
         done == FoldLeft(step, [h |-> m, end |-> "no"],
                          Span([vm_start |-> start, vm_end |-> end]))
     IN  IF done.end # "no" THEN Panic(done.end)
         ELSE m' = done.h /\ UNCHANGED <<mms, proc, current, panicked>>

\* panic does not return; without a process the kernel idles.
Stopped == ~Running /\ UNCHANGED vars

Next ==
  \/ \E c \in Procs : fork_share(c) \/ fork_dup(c) \/ switch_to(c)
  \/ \E prog \in Programs : do_execve(prog) \/ \E k \in 0..Len(prog) : exec_fails(prog, k)
  \/ do_exit
  \/ \E la \in Las, v \in Values : access(la, TRUE, v) \/ access(la, FALSE, v)
  \/ \E start \in Las, end \in 1..USTACKTOP, v \in Values :
       start < end /\ copy_to_user(start, end, v)
  \/ Stopped

Spec == Init /\ [][Next]_vars

-----------------------------------------------------------------------------
\* The mm_structs in use.
Live == {x \in Mms : mms[x].mm_count > 0}
Tables(x) == {m.pde[mms[x].pgdir][i] : i \in 0..NPDE-1} \ {0}
Mapped(x) == {la \in Las : Pte(m, mms[x].pgdir, la).page # 0}

\* Every page is free, a directory, a table or data of exactly one address space,
\* and its reference count is the number of its entries: nothing leaks and nothing
\* is freed while in use, through fork, exec, failed exec, exit and faults.  An
\* mm_struct counts the processes that use it.
PagesAreAccountedFor ==
  /\ LET dirs == {mms[x].pgdir : x \in Live}
         tables == UNION {Tables(x) : x \in Live}
         data == {Pte(m, mms[x].pgdir, la).page : <<x, la>> \in {y \in Live \X Las : y[2] \in Mapped(y[1])}}
     IN /\ Pages \ m.free = dirs \cup tables \cup data
        /\ Cardinality(dirs) + Cardinality(tables) + Cardinality(data)
             = Cardinality(Live)
               + Cardinality({y \in Live \X (0..NPDE-1) : m.pde[mms[y[1]].pgdir][y[2]] # 0})
               + Cardinality({y \in Live \X Las : y[2] \in Mapped(y[1])})
        /\ \A p \in data \cup tables : m.ref[p] = 1
  /\ \A x \in Mms : mms[x].mm_count = Cardinality({q \in Procs : proc[q] # NULL /\ proc[q].mm = x})

\* The processor translates with the directory of the running process, which is
\* not freed, and a cached translation says what the page table says, though the
\* kernel invalidates single entries only for the directory in use.
TranslationsAreCurrent ==
  Running =>
    /\ m.cr3 = IF Mm = NULL THEN 0 ELSE mms[Mm].pgdir
    /\ \A t \in m.tlb : Pte(m, m.cr3, t.la) = [page |-> t.page, w |-> t.w]

\* The kernel panics over user memory only for want of pages, or when a program
\* touches what its areas forbid: a copy that user_mem_check lets pass finds or gets
\* all its pages, and do_pgfault never meets a present entry that forbids what the
\* area allows.
OnlyMemoryRunsOut == panicked \in {"no", "memory", "user"}

I == INSTANCE Isolation WITH
       Spaces <- Mms, Addrs <- Las, NONE <- NULL,
       view <- [x \in Mms |-> [la \in Las |->
                  IF x \in Live /\ la \in Mapped(x)
                  THEN m.data[Pte(m, mms[x].pgdir, la).page] ELSE NULL]],
       active <- IF Running THEN Mm ELSE NULL

\* Processes that do not share an address space never see each other's stores, and
\* a forked process starts with a copy of all that its parent has in memory.
ImplementsIsolation == I!Spec
=============================================================================
