-------------------------------- MODULE Swap --------------------------------
(* Swapping: swap.c, the FIFO manager of swap_fifo.c, swapfs.c, and the parts  *)
(* of pmm.c and vmm.c that call them.  Pages of one address space, more than   *)
(* there are frames, are written in any order ("any"), or in the order of the  *)
(* self-check of start-up ("script"), which is the only client of swapping in  *)
(* this kernel: afterwards check_mm_struct is NULL.                            *)
EXTENDS Integers, Sequences, FiniteSets, SequencesExt, FiniteSetsExt

CONSTANTS NFRAMES,       \* CHECK_VALID_PHY_PAGE_NUM
          NVPAGES,       \* CHECK_VALID_VIR_PAGE_NUM
          MAXFAULTS      \* bound on the faults of a run in any order

ASSUME SwapAssumption == {NFRAMES, NVPAGES, MAXFAULTS} \subseteq Nat

Frames == 1..NFRAMES
VPages == 1..NVPAGES
Values == 1..2
Absent == [at |-> "none", no |-> 0]
Present(f) == [at |-> "frame", no |-> f]

VARIABLES
  mode,       \* "any" or "script"
  vm,         \* the memory, see Start
  step,       \* accesses of the script that are done
  written,    \* what the program wrote to each page last, 0 for nothing
  misfiled    \* a frame was swapped out under an address that it does not hold

swapvars == <<mode, vm, step, written, misfiled>>

\* check_swap: the frames are put on an empty free list, the area is mapped nowhere.
Start ==
  [pte |-> [v \in VPages |-> Absent],
   pra_vaddr |-> [f \in Frames |-> 0],     \* of struct Page
   data |-> [f \in Frames |-> 0],
   free |-> Frames,
   pra_list |-> <<>>,                      \* pra_list_head, the latest page first
   disk |-> [n \in 1..(NVPAGES + 1) |-> 0],
   tlb |-> <<>>,
   pgfault_num |-> 0,
   panic |-> FALSE]

-----------------------------------------------------------------------------
tlb_invalidate_Never(h, v) == h

tlb_invalidate(h, v) == [h EXCEPT !.tlb = [w \in DOMAIN @ \ {v} |-> @[w]]]

\* list_add behind the head.
_fifo_map_swappable(h, f) == [h EXCEPT !.pra_list = <<f>> \o @]

\* The earliest page is at the tail.
_fifo_swap_out_victim(h) == [page |-> Last(h.pra_list), rest |-> Front(h.pra_list)]

\* The entry (v/PGSIZE + 1) << 8 of swap_out is block v + 1 of the swap disk.
swapfs_write(h, entry, f) == [h EXCEPT !.disk[entry] = h.data[f]]
swapfs_read(h, entry, f) == [h EXCEPT !.data[f] = h.disk[entry]]

\* swap_out of one page, by the address that its struct Page gives.
swap_out(h) ==
  LET victim == _fifo_swap_out_victim(h)
      f == victim.page
      v == h.pra_vaddr[f]
      h1 == swapfs_write([h EXCEPT !.pra_list = victim.rest], v + 1, f)
  IN  IF h.pra_list = <<>> \/ h.pte[v].at # "frame" THEN [h EXCEPT !.panic = TRUE]
      ELSE tlb_invalidate([h1 EXCEPT !.pte[v] = [at |-> "swap", no |-> v + 1],
                                     !.free = @ \cup {f}], v)

\* alloc_pages(1): without a free page one is swapped out first.
alloc_page(h) == IF h.free = {} THEN swap_out(h) ELSE h
Taken(h) == [h EXCEPT !.free = @ \ {Min(h.free)}]

page_insert(h, f, v) == tlb_invalidate([h EXCEPT !.pte[v] = Present(f)], v)

\* Only pgdir_alloc_page notes the address.
pgdir_alloc_page(h, v) ==
  LET into(g, f) == [_fifo_map_swappable(page_insert(Taken(g), f, v), f) EXCEPT !.pra_vaddr[f] = v]
      mapped(g) == IF g.panic THEN g ELSE into(g, Min(g.free))
  IN  mapped(alloc_page(h))

\* The page is read into a new frame, which swap_in returns too.
swap_in(h, v) ==
  LET read(g) == IF g.panic THEN [h |-> g, page |-> 0]
                 ELSE [h |-> swapfs_read(Taken(g), g.pte[v].no, Min(g.free)), page |-> Min(g.free)]
  IN  read(alloc_page(h))

\* do_pgfault for an address of the area.
do_pgfault(h, v) ==
  LET mapped(in) == IF in.h.panic THEN in.h ELSE _fifo_map_swappable(page_insert(in.h, in.page, v), in.page)
  IN  [(IF h.pte[v].at = "none" THEN pgdir_alloc_page(h, v) ELSE mapped(swap_in(h, v)))
         EXCEPT !.pgfault_num = @ + 1]

\* A store: through the TLB, through the page table, or after a page fault.
Translated(h, v) ==
  LET cached(g) == IF g.panic THEN g ELSE [g EXCEPT !.tlb = [w \in DOMAIN @ \cup {v} |-> IF w = v THEN g.pte[v].no ELSE @[w]]]
  IN  IF v \in DOMAIN h.tlb THEN h
      ELSE cached(IF h.pte[v].at = "frame" THEN h ELSE do_pgfault(h, v))

Store(h, v, x) ==
  LET stored(g) == IF g.panic THEN g ELSE [g EXCEPT !.data[g.tlb[v]] = x]
  IN  stored(Translated(h, v))

\* The frame that a fault on v would swap out, if it is filed under a wrong address.
Misfiles(v) ==
  /\ v \notin DOMAIN vm.tlb /\ vm.pte[v].at # "frame" /\ vm.free = {}
  /\ LET f == _fifo_swap_out_victim(vm).page IN vm.pte[vm.pra_vaddr[f]] # Present(f)

-----------------------------------------------------------------------------
\* check_content_set and _fifo_check_swap: the pages written, with the number of page
\* faults that is asserted after each.
check_content_set ==
  <<<<1, 1>>, <<1, 1>>, <<2, 2>>, <<2, 2>>, <<3, 3>>, <<3, 3>>, <<4, 4>>, <<4, 4>>>>
_fifo_check_swap ==
  <<<<3, 4>>, <<1, 4>>, <<4, 4>>, <<2, 4>>, <<5, 5>>, <<2, 5>>, <<1, 6>>, <<2, 7>>, <<3, 8>>, <<4, 9>>>>
Script == check_content_set \o _fifo_check_swap

write(v, x) ==
  /\ mode = "any" /\ ~vm.panic /\ vm.pgfault_num < MAXFAULTS
  /\ vm' = Store(vm, v, x)
  /\ written' = [written EXCEPT ![v] = x]
  /\ misfiled' = (misfiled \/ Misfiles(v))
  /\ UNCHANGED <<mode, step>>

\* The next store of check_swap, with its assertions: the faults so far, and, when the
\* first part is done, page i in frame i.
check_swap ==
  /\ mode = "script" /\ step < Len(Script) /\ ~vm.panic
  /\ LET v == Script[step + 1][1]
         placed(h) == step + 1 = Len(check_content_set) => \A i \in Frames : h.pte[i] = Present(i)
         checked(h) == [h EXCEPT !.panic = @ \/ h.pgfault_num # Script[step + 1][2] \/ ~placed(h)]
     IN  /\ vm' = checked(Store(vm, v, 1))
         /\ written' = [written EXCEPT ![v] = 1]
         /\ misfiled' = (misfiled \/ Misfiles(v))
  /\ step' = step + 1 /\ UNCHANGED mode

Stop ==
  /\ vm.panic \/ (mode = "script" /\ step = Len(Script)) \/ vm.pgfault_num >= MAXFAULTS
  /\ UNCHANGED swapvars

SwapInit ==
  /\ mode \in {"any"} \cup (IF NFRAMES = 4 /\ NVPAGES = 5 THEN {"script"} ELSE {})
  /\ vm = Start /\ step = 0
  /\ written = [v \in VPages |-> 0] /\ misfiled = FALSE

SwapNext == check_swap \/ Stop \/ \E v \in VPages, x \in Values : write(v, x)

SwapSpec == SwapInit /\ [][SwapNext]_swapvars

-----------------------------------------------------------------------------
Content(v) ==
  IF v \in DOMAIN vm.tlb THEN vm.data[vm.tlb[v]]
  ELSE IF vm.pte[v].at = "frame" THEN vm.data[vm.pte[v].no] ELSE vm.disk[vm.pte[v].no]

\* Whatever is swapped out comes back: a page has the contents last written to it, in
\* its frame or in its block of the disk.
PagesKeepContents == vm.panic \/ \A v \in VPages : written[v] # 0 => Content(v) = written[v]

\* The same as long as every frame that swap_out takes still holds the page whose
\* address is in its pra_vaddr, which swap_in does not set.
SwappedPagesKeepContents == ~misfiled => PagesKeepContents

\* The self-check passes: its accesses fault exactly when the script says so, and it
\* ends before a frame is taken under a stale address.
SwapCheckPasses == mode = "script" => ~vm.panic /\ ~misfiled
=============================================================================
