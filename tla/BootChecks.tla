----------------------------- MODULE BootChecks -----------------------------
(* Start-up of memory: page_init turns the memory map of the BIOS into free    *)
(* pages (kern/mm/pmm.c), and the kernel checks itself before it runs any      *)
(* process: default_check of default_pmm.c, check_pgdir and check_boot_pgdir   *)
(* of pmm.c, check_vma_struct and check_pgfault of vmm.c, check_swap of swap.c *)
(* (its stores are in Swap).  The checks share one allocator, take its list    *)
(* away and put it back; what one of them leaves behind the next one meets.    *)
EXTENDS PageAlloc

CONSTANTS Edges,       \* addresses at which entries of the memory map begin and end
          PGSIZE, KMEMSIZE,
          FREEMEM      \* the end of the kernel image and of the array of struct Page

VARIABLES
  memmap,    \* e820map: entries with addr, end and type
  entry,     \* entries that page_init has seen
  pc,        \* steps of the checks that are done
  store,     \* free_list_store and nr_free_store
  ref,       \* ref of every page
  table,     \* the page table at pgdir[0]: its page and two entries, or NULL
  kept,      \* pages that stay allocated: page directory, page tables, heap, stacks
  lost,      \* pages that are in no list and have no owner
  ok         \* no assertion has failed

bvars == <<free_list, nr_free, property, reserved, held, got, known, panicked,
           memmap, entry, pc, store, ref, table, kept, lost, ok>>
listvars == <<free_list, nr_free, property, reserved>>
idle == <<held, panicked, memmap, entry>>

-----------------------------------------------------------------------------
E820_ARM == "usable"
ROUNDUP(a) == ((a + PGSIZE - 1) \div PGSIZE) * PGSIZE
ROUNDDOWN(a) == (a \div PGSIZE) * PGSIZE

\* The pages that struct Page describes.
npage ==
  LET ends == {memmap[i].end : i \in {j \in DOMAIN memmap :
                 memmap[j].type = E820_ARM /\ memmap[j].addr < KMEMSIZE}}
  IN  IF ends = {} THEN 0 ELSE Min({Max(ends), KMEMSIZE}) \div PGSIZE

\* Faulty: the last page is taken even if it is not whole.
Usable_Ragged(e) == [begin |-> ROUNDUP(Max({e.addr, FREEMEM})), end |-> ROUNDUP(Min({e.end, KMEMSIZE}))]

\* The part of an entry that can be used.
Usable(e) == [begin |-> ROUNDUP(Max({e.addr, FREEMEM})), end |-> ROUNDDOWN(Min({e.end, KMEMSIZE}))]

page_init ==
  /\ entry < Len(memmap)
  /\ LET e == memmap[entry + 1]
         u == Usable(e)
     IN  IF e.type = E820_ARM /\ u.begin < u.end
         THEN default_init_memmap(u.begin \div PGSIZE, (u.end - u.begin) \div PGSIZE)
         ELSE UNCHANGED <<listvars, known>>
  /\ entry' = entry + 1
  /\ UNCHANGED <<held, got, panicked, memmap, pc, store, ref, table, kept, lost, ok>>

-----------------------------------------------------------------------------
\* The steps of the checks.  Pages are numbered from the first free one.
get(n, p) == [op |-> "alloc", n |-> n, p |-> p]
put(p, n) == [op |-> "free", n |-> n, p |-> p]
Hide == [op |-> "hide"]
Zero == [op |-> "zero"]
Back == [op |-> "back"]
Count(n) == [op |-> "count", n |-> n]
Total == [op |-> "total"]
Same == [op |-> "same"]
Block(p, n) == [op |-> "block", p |-> p, n |-> n]
PageTable(p) == [op |-> "get_pte", p |-> p]
Mapped(p, slot) == [op |-> "insert", p |-> p, slot |-> slot]
Unmapped(slot) == [op |-> "remove", slot |-> slot]
Refs(p, n) == [op |-> "refs", p |-> p, n |-> n]
DropTable == [op |-> "drop"]
Keep(p, n) == [op |-> "keep", p |-> p, n |-> n]
none == -1

\* An empty list has no page left; the pages that are freed onto it come back in order.
basic_check ==
  <<get(1, 0), get(1, 1), get(1, 2), Hide, Zero, get(1, none),
    put(0, 1), put(1, 1), put(2, 1), Count(3),
    get(1, 0), get(1, 1), get(1, 2), get(1, none),
    put(0, 1), get(1, 0), get(1, none), Count(0), Back,
    put(0, 1), put(1, 1), put(2, 1)>>

\* The blocks of the list add up, before and after; a block of five pages is given
\* back in parts.
default_check ==
  <<Total>> \o basic_check \o
  <<get(5, 0), Hide, get(1, none), Zero,
    put(2, 3), get(4, none), Block(2, 3), get(3, 2), get(1, none),
    put(0, 1), put(2, 3), Block(0, 1), Block(2, 3),
    get(1, 0), put(0, 1), get(2, 2), put(2, 2), put(1, 1),
    get(5, 0), get(1, none), Count(0), Back, put(0, 5), Same>>

\* Behind the page directory: two pages, mapped, replaced and removed.
check_pgdir ==
  <<get(1, 1), PageTable(2), Mapped(1, 0), Refs(1, 1), get(1, 3), Mapped(3, 1), Refs(3, 1),
    Mapped(1, 1), Refs(1, 2), Refs(3, 0), Unmapped(0), Refs(1, 1), Unmapped(1), Refs(1, 0),
    Refs(2, 1), DropTable>>

\* Behind the page tables of the kernel: one page mapped twice and freed as it is.
check_boot_pgdir ==
  <<get(1, 2), PageTable(3), Mapped(2, 0), Refs(2, 1), Mapped(2, 1), Refs(2, 2),
    put(2, 1), DropTable>>

\* mm_create and vma_create of check_vma_struct take pages for the heap, which keeps
\* them: check_pgfault finds its mm and vma there and can count the pages.
check_vma_struct == <<Keep(2, 1)>>
check_pgfault == <<PageTable(3), get(1, 4), Mapped(4, 0), Unmapped(0), DropTable>>

\* The kernel stack of the first thread.
proc_init == <<Keep(3, 2)>>

\* Four pages are all the memory there is; the first faults get them in order, and each
\* of the others swaps the oldest one out.  All four and the page table are freed onto
\* the list that is then thrown away.  The references of the pages are left out.
swap(p) == <<put(p, 1), get(1, p)>>
check_swap_pages ==
  <<Total, PageTable(5), get(1, 6), get(1, 7), get(1, 8), get(1, 9), Hide, Zero,
    put(6, 1), put(7, 1), put(8, 1), put(9, 1), Count(4),
    get(1, 6), get(1, 7), get(1, 8), get(1, 9), Count(0)>>
  \o swap(6) \o swap(7) \o swap(8) \o swap(9) \o swap(6)
  \o <<put(6, 1), put(7, 1), put(8, 1), put(9, 1), DropTable, Back>>

\* pmm_init, vmm_init, proc_init and swap_init.
Checks ==
  default_check \o <<Keep(0, 1)>> \o check_pgdir \o <<Keep(1, 1)>> \o check_boot_pgdir
    \o check_vma_struct \o check_pgfault \o proc_init \o check_swap_pages

-----------------------------------------------------------------------------
First == Min(known)
Page(p) == First + p
Enough == known # {} /\ RunLength(known, First) >= 10
Done == pc' = pc + 1 /\ UNCHANGED <<idle, known>>

\* The flag PG_property is set and cleared whenever PG_reserved is cleared and set.
PageProperty(p) == p \notin reserved

Expect(cond) == ok' = cond

\* alloc_pages before swap_init: without a block NULL is returned.
DoAlloc(step) ==
  /\ step.op = "alloc" /\ Done
  /\ \/ default_alloc_pages(step.n) /\ Expect(step.p # none /\ got' = Page(step.p))
     \/ /\ (step.n > nr_free \/ Fits(step.n) = {}) /\ Expect(step.p = none)
        /\ got' = NULL /\ UNCHANGED listvars
  /\ UNCHANGED <<store, ref, table, kept, lost>>

\* free_pages sets the reference count to 0.
Release(p, n) == default_free_pages(p, n) /\ ref' = [ref EXCEPT ![p] = 0]

DoFree(step) == step.op = "free" /\ Done /\ Release(Page(step.p), step.n) /\ Expect(TRUE) /\ UNCHANGED <<got, store, table, kept, lost>>

DoHide(step) ==
  /\ step.op = "hide" /\ Done
  /\ store' = <<free_list, nr_free>> /\ free_list' = <<>>
  /\ UNCHANGED <<nr_free, property, reserved, got, ref, table, kept, lost, ok>>

DoZero(step) ==
  /\ step.op = "zero" /\ Done /\ nr_free' = 0
  /\ UNCHANGED <<free_list, property, reserved, got, store, ref, table, kept, lost, ok>>

\* Whatever is in the list at that moment is lost.
DoBack(step) ==
  /\ step.op = "back" /\ Done
  /\ free_list' = store[1] /\ nr_free' = store[2] /\ store' = <<>>
  /\ lost' = lost \cup Free
  /\ UNCHANGED <<property, reserved, got, ref, table, kept, ok>>

Sum == MapThenSumSet(LAMBDA p : property[p], Free)

DoAssert(step) ==
  /\ \/ step.op = "count" /\ Expect(nr_free = step.n)
     \/ step.op = "block" /\ Expect(property[Page(step.p)] = step.n /\ PageProperty(Page(step.p)))
     \/ step.op = "total" /\ Expect(Sum = nr_free /\ \A p \in Free : PageProperty(p))
     \/ step.op = "same" /\ Expect(Len(free_list) = Cardinality(known) /\ Sum = Cardinality(known))
     \/ step.op = "refs" /\ Expect(ref[Page(step.p)] = step.n)
  /\ Done /\ UNCHANGED <<listvars, got, store, ref, table, kept, lost>>

DoTable(step) ==
  /\ step.op = "get_pte" /\ Done /\ default_alloc_pages(1)
  /\ Expect(got' = Page(step.p) /\ table = NULL)
  /\ table' = [page |-> got', pte |-> [slot \in 0..1 |-> NULL]]
  /\ ref' = [ref EXCEPT ![got'] = 1]
  /\ UNCHANGED <<store, kept, lost>>

\* page_insert and page_remove: the page that was there goes when nobody refers to it.
Unmap(slot, r) ==
  LET old == table.pte[slot]
  IN  IF old # NULL /\ r[old] = 1 THEN default_free_pages(old, 1) /\ ref' = [r EXCEPT ![old] = 0]
      ELSE UNCHANGED listvars /\ ref' = (IF old = NULL THEN r ELSE [r EXCEPT ![old] = @ - 1])

DoInsert(step) ==
  /\ step.op = "insert" /\ Done
  /\ Unmap(step.slot, [ref EXCEPT ![Page(step.p)] = @ + 1])
  /\ table' = [table EXCEPT !.pte[step.slot] = Page(step.p)]
  /\ UNCHANGED <<got, store, kept, lost, ok>>

DoRemove(step) ==
  /\ step.op = "remove" /\ Done
  /\ Unmap(step.slot, ref)
  /\ table' = [table EXCEPT !.pte[step.slot] = NULL]
  /\ UNCHANGED <<got, store, kept, lost, ok>>

DoDrop(step) ==
  /\ step.op = "drop" /\ Done /\ Release(table.page, 1) /\ table' = NULL
  /\ UNCHANGED <<got, store, kept, lost, ok>>

\* boot_alloc_page, boot_map_segment, the heap and setup_kstack.
DoKeep(step) ==
  /\ step.op = "keep" /\ Done /\ default_alloc_pages(step.n) /\ Expect(got' = Page(step.p))
  /\ kept' = kept \cup Span(got', step.n)
  /\ UNCHANGED <<store, ref, table, lost>>

\* The next step of the checks.
check ==
  /\ entry = Len(memmap) /\ pc < Len(Checks) /\ ok /\ Enough
  /\ \E step \in {Checks[pc + 1]} :
       \/ DoAlloc(step) \/ DoFree(step) \/ DoHide(step) \/ DoZero(step) \/ DoBack(step) \/ DoAssert(step)
       \/ DoTable(step) \/ DoInsert(step) \/ DoRemove(step) \/ DoDrop(step) \/ DoKeep(step)

\* The maps that the BIOS may give: two entries, in order, with any edges.  Usable
\* memory is not cut in two: entries that touch are of different types.
BInit ==
  /\ Init
  /\ memmap \in {<<[addr |-> a, end |-> b, type |-> t1], [addr |-> c, end |-> d, type |-> t2]>> :
                   a, b, c, d \in Edges, t1, t2 \in {E820_ARM, "reserved"}}
  /\ memmap[1].addr < memmap[1].end /\ memmap[1].end <= memmap[2].addr /\ memmap[2].addr < memmap[2].end
  /\ memmap[1].end = memmap[2].addr => memmap[1].type # memmap[2].type
  /\ entry = 0 /\ pc = 0 /\ store = <<>>
  /\ ref = [p \in Memory |-> 0] /\ table = NULL /\ kept = {} /\ lost = {} /\ ok = TRUE

\* From here on the allocator serves the kernel.
boot_done ==
  /\ pc = Len(Checks) /\ ok
  /\ pc' = pc + 1 /\ got' = NULL
  /\ UNCHANGED <<listvars, held, panicked, known, memmap, entry, store, ref, table, kept, lost, ok>>

Booted == pc > Len(Checks)

operation == Booted /\ Running /\ UNCHANGED <<memmap, entry, pc, store, ref, table, kept, lost, ok>>

\* Too little memory to start with, or a failed assertion.
Halt == entry = Len(memmap) /\ ~Booted /\ (~Enough \/ ~ok) /\ UNCHANGED bvars

BNext == boot_done \/ operation \/ Halt \/ page_init \/ check

BSpec == BInit /\ [][BNext]_bvars

-----------------------------------------------------------------------------
\* Whole pages of usable memory behind the kernel's own become free, all of them and
\* no others, wherever the entries of the map begin and end, and each of them has a
\* struct Page.
OnlyUsablePages ==
  entry = Len(memmap) =>
    known = {p \in Memory :
               /\ p < npage /\ p * PGSIZE >= FREEMEM
               /\ \E i \in DOMAIN memmap : /\ memmap[i].type = E820_ARM
                                           /\ memmap[i].addr <= p * PGSIZE
                                           /\ (p + 1) * PGSIZE <= memmap[i].end}

\* The allocator as the self-checks leave it behind: all pages are free again, in maximal
\* blocks, except those that were to be kept and those that were lost.
Handover ==
  /\ pc \in Nat /\ pc = Len(Checks) /\ entry \in Nat /\ entry = Len(memmap)
  /\ free_list \in Seq(Memory) /\ property \in [Memory -> Nat]
  /\ Free = known \ (kept \cup lost) /\ nr_free = Len(free_list) /\ BlocksAreMaximal
  /\ held = {}

\* Every assertion of the self-checks holds on every memory map with ten free pages in a
\* row in front.  When they are done the allocator is as if they had never run, except for
\* five pages: check_swap, and no other check, throws away the list onto which it freed
\* its page table and its four pages.
BootChecksPass ==
  /\ ok
  /\ pc < Len(Checks) => lost = {}
  /\ pc = Len(Checks) =>
       /\ Handover /\ table = NULL
       /\ kept = {Page(p) : p \in 0..4} /\ lost = {Page(p) : p \in 5..9}

\* A page is free, or in exactly one held block, or kept or lost since start-up: none is
\* given out twice and no other is lost.  nr_free counts the free ones, and freeing a held
\* block passes the assertion PageReserved(base) of default_free_pages.
EveryPageHasOneOwner ==
  Booted =>
    /\ \A g, h \in held : g # h => Span(g[1], g[2]) \cap Span(h[1], h[2]) = {}
    /\ LET taken == UNION {Span(h[1], h[2]) : h \in held}
       IN Free \cap taken = {} /\ Free \cup taken = known \ (kept \cup lost) /\ taken \subseteq reserved
    /\ nr_free = Len(free_list) /\ nr_free = Cardinality(Free)
    /\ BlocksAreMaximal

P == INSTANCE PagePool WITH free <- IF Booted THEN Free ELSE {}, got <- IF Booted THEN got ELSE NULL

\* The manager implements first fit on a plain set of pages: a request gets the
\* lowest run of free pages that is long enough, and NULL only if there is none,
\* however the memory has been split and joined before.
ImplementsPool == P!Spec
=============================================================================
