----------------------------- MODULE PageAlloc ------------------------------
(* The physical page allocator: the first-fit manager of kern/mm/default_pmm.c *)
(* behind alloc_pages and free_pages of kern/mm/pmm.c.  A page is its number.  *)
(* Every free page is linked into free_list; the first page of a free block    *)
(* has the size of the block in its field property.  Callers give back the     *)
(* blocks they got: kernel stacks, blocks of kmalloc, page tables, user pages. *)
EXTENDS Integers, Sequences, FiniteSets, SequencesExt

CONSTANTS Memory,    \* the pages of physical memory
          Requests,  \* the sizes that are asked for
          NULL

ASSUME PageAssumption ==
  /\ Memory \subseteq Nat /\ IsFiniteSet(Memory)
  /\ Requests \subseteq Nat \ {0}
  /\ NULL \notin Nat

VARIABLES
  free_list,   \* the free pages as linked
  nr_free,
  property,    \* property[p] for every page
  reserved,    \* the pages with the flag PG_reserved
  held,        \* the blocks <<base, n>> that callers own
  got,         \* what the last request returned
  known,       \* the pages page_init has passed to init_memmap so far
  panicked     \* an allocation of one page failed

vars == <<free_list, nr_free, property, reserved, held, got, known, panicked>>

Span(b, n) == b..(b + n - 1)

\* The length of the run of consecutive members of S that starts at b.
RunLength(S, b) == Max({n \in 0..Cardinality(S) : Span(b, n) \subseteq S})

\* page_init reserves every page, default_init empties the list.
Init ==
  /\ free_list = <<>> /\ nr_free = 0
  /\ property = [p \in Memory |-> 0]
  /\ reserved = Memory
  /\ held = {} /\ got = NULL
  /\ known = {}
  /\ panicked = FALSE

default_init_memmap(base, n) ==
  /\ free_list' = free_list \o [i \in 1..n |-> base + i - 1]
  /\ nr_free' = nr_free + n
  /\ property' = [p \in Memory |->
                    IF p = base THEN n
                    ELSE IF p \in Span(base, n) THEN 0 ELSE property[p]]
  /\ reserved' = reserved \ Span(base, n)
  /\ known' = known \cup Span(base, n)

\* Faulty: only the smallest blocks that are large enough.
Fits_Best(n) ==
  LET sizes == {property[free_list[i]] : i \in DOMAIN free_list} \ 0..(n - 1)
  IN  {i \in DOMAIN free_list : sizes # {} /\ property[free_list[i]] = Min(sizes)}

\* The positions in free_list at which first fit can stop.
Fits(n) == {i \in DOMAIN free_list : property[free_list[i]] >= n}

\* What is left of the block at position i when its first n pages are taken: the
\* next page in the list is its head.  The taken page keeps its own field.
Split(i, n) ==
  IF property[free_list[i]] > n
  THEN [property EXCEPT ![free_list[i + n]] = property[free_list[i]] - n]
  ELSE property

\* default_alloc_pages finds a block.
default_alloc_pages(n) ==
  /\ n <= nr_free
  /\ Fits(n) # {}
  /\ LET i == Min(Fits(n)) IN
       /\ got' = free_list[i]
       /\ free_list' = SubSeq(free_list, 1, i - 1)
                         \o SubSeq(free_list, i + n, Len(free_list))
       /\ property' = Split(i, n)
       /\ reserved' = reserved \cup ToSet(SubSeq(free_list, i, i + n - 1))
  /\ nr_free' = nr_free - n

Take(n) ==
  /\ default_alloc_pages(n)
  /\ held' = held \cup {<<got', n>>}
  /\ UNCHANGED <<known, panicked>>

\* default_alloc_pages returns NULL.  alloc_pages hands that on if n > 1; for one
\* page it calls swap_out with check_mm_struct, which is NULL once the kernel has
\* checked itself, and the access ends in a panic.
Fail(n) ==
  /\ n > nr_free \/ Fits(n) = {}
  /\ got' = NULL
  /\ panicked' = (n = 1)
  /\ UNCHANGED <<free_list, nr_free, property, reserved, held, known>>

alloc_pages(n) == ~panicked /\ (Take(n) \/ Fail(n))

-----------------------------------------------------------------------------
\* Where base goes: before the first page with a higher number.
Position(base) == Min({i \in DOMAIN free_list : free_list[i] > base}
                        \cup {Len(free_list) + 1})

\* The fields property once n pages from base are linked at position i, joined
\* to the block that begins right behind them.
JoinNext(base, n, i) ==
  IF i <= Len(free_list) /\ free_list[i] = base + n
  THEN [property EXCEPT ![base] = n + property[base + n], ![base + n] = 0]
  ELSE [property EXCEPT ![base] = n]

\* Faulty: the walk back to the head of the block gives up after two pages.
JoinPrevious_Near(prop, base, i) ==
  LET heads == {j \in (i - 2)..(i - 1) : j > 0 /\ prop[free_list[j]] # 0}
  IN IF i > 1 /\ free_list[i - 1] = base - 1 /\ heads # {}
     THEN [prop EXCEPT ![free_list[Max(heads)]] = @ + prop[base], ![base] = 0]
     ELSE prop

\* ... and then to the block that ends right before base: the list is walked
\* backwards to the head of that block.
JoinPrevious(prop, base, i) ==
  LET heads == {j \in 1..(i - 1) : prop[free_list[j]] # 0}
  IN IF i > 1 /\ free_list[i - 1] = base - 1 /\ heads # {}
     THEN [prop EXCEPT ![free_list[Max(heads)]] = @ + prop[base], ![base] = 0]
     ELSE prop

\* The list with the n pages from base linked before position i.
Linked(base, n, i) ==
  SubSeq(free_list, 1, i - 1) \o [k \in 1..n |-> base + k - 1]
    \o SubSeq(free_list, i, Len(free_list))

\* The assertion PageReserved(base) guards it.  The flags of base are reset; the other
\* pages of the block keep PG_reserved.
default_free_pages(base, n) ==
  LET i == Position(base)
  IN /\ base \in reserved
     /\ free_list' = Linked(base, n, i)
     /\ property' = JoinPrevious(JoinNext(base, n, i), base, i)
     /\ reserved' = reserved \ {base}
     /\ nr_free' = nr_free + n

free_pages(h) ==
  /\ ~panicked
  /\ h \in held
  /\ default_free_pages(h[1], h[2])
  /\ held' = held \ {h}
  /\ UNCHANGED <<got, known, panicked>>

\* panic does not return.
panic == panicked /\ UNCHANGED vars

\* The kernel in operation, when page_init and the self-checks are done (BootChecks).
Running ==
  \/ \E n \in Requests : alloc_pages(n)
  \/ \E h \in held : free_pages(h)
  \/ panic

-----------------------------------------------------------------------------
Free == ToSet(free_list)

\* The list is in ascending order without repetition, and a free page has a
\* property other than 0 exactly if it is the first of a run of free pages; then
\* it is the length of the run.  So blocks are as large as they can be, and the
\* scans of default_alloc_pages and default_free_pages, which look no further
\* than the field and the order, are right.
BlocksAreMaximal ==
  /\ \A i, j \in DOMAIN free_list : i < j => free_list[i] < free_list[j]
  /\ \A p \in Free : property[p] = IF p - 1 \in Free THEN 0 ELSE RunLength(Free, p)
=============================================================================
