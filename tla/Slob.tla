-------------------------------- MODULE Slob --------------------------------
(* The kernel heap: slob_alloc, slob_free, kmalloc and kfree of                *)
(* kern/mm/kmalloc.c.  Addresses count in units of the allocator; the arena is *)
(* at address 0, page p begins at p * PAGE_UNITS.  Sizes are in bytes.         *)
EXTENDS Integers, Sequences, FiniteSets, SequencesExt, FiniteSetsExt, TLC

CONSTANTS HEAPPAGES,       \* pages that alloc_pages can give
          SLOB_UNIT,       \* sizeof(slob_t)
          PAGE_SIZE,
          BIGBLOCK,        \* sizeof(bigblock_t)
          Sizes,           \* sizes that the kernel asks for, not 0
          MAXBLOCKS        \* bound on the blocks in use

PAGE_UNITS == PAGE_SIZE \div SLOB_UNIT
arena == 0
SLOB_UNITS(size) == (size + SLOB_UNIT - 1) \div SLOB_UNIT
Addresses == {0} \cup PAGE_UNITS..((HEAPPAGES + 1) * PAGE_UNITS)

VARIABLES
  h,        \* the heap: next and units of the blocks of the free list, slobfree,
            \* bigblocks, the pages that alloc_pages still has, the headers
  blocks,   \* what kmalloc has returned: address and size asked for
  failed    \* the reason for a panic, and the size asked for

heapvars == <<h, blocks, failed>>

-----------------------------------------------------------------------------
\* The free list as slob_alloc meets it, from slobfree->next to slobfree.
Walk(g) ==
  LET follow(acc, i) == IF Last(acc) = g.slobfree THEN acc ELSE Append(acc, g.next[Last(acc)])
  IN  FoldLeft(follow, <<g.next[g.slobfree]>>, SetToSeq(DOMAIN g.next))

Before(g, cur) == CHOOSE p \in DOMAIN g.next : g.next[p] = cur

\* Faulty slob_free: the block is not joined with the one in front of it.
slob_free_Loose(g, b) ==
  LET cur == CHOOSE c \in DOMAIN g.next : (c < b /\ b < g.next[c]) \/ (c >= g.next[c] /\ (c < b \/ b < g.next[c]))
  IN  [g EXCEPT !.next = (b :> g.next[cur]) @@ [@ EXCEPT ![cur] = b], !.slobfree = cur]

\* b is put where the addresses around it, or the turn of the circle, say.  units[b]
\* is in the block: set by the caller, or left from its allocation.
slob_free(g, b) ==
  LET place == CHOOSE c \in DOMAIN g.next : (c < b /\ b < g.next[c]) \/ (c >= g.next[c] /\ (c < b \/ b < g.next[c]))
      joined(cur, nx) ==
        LET joinsNext == b + g.units[b] = nx
            joinsPrev == cur + g.units[cur] = b
            head == IF joinsPrev THEN cur ELSE b
            tail == IF joinsNext THEN g.next[nx] ELSE nx
            gone == (IF joinsNext THEN {nx} ELSE {}) \cup (IF joinsPrev THEN {b} ELSE {})
            units == g.units[b] + (IF joinsNext THEN g.units[nx] ELSE 0) + (IF joinsPrev THEN g.units[cur] ELSE 0)
            list == (head :> tail) @@ (IF joinsPrev THEN g.next ELSE [g.next EXCEPT ![cur] = b])
        IN  [g EXCEPT !.next = Restrict(list, DOMAIN list \ gone),
                      !.units = [a \in Addresses |-> IF a \in gone THEN 0 ELSE IF a = head THEN units ELSE @[a]],
                      !.slobfree = cur]
  IN  joined(place, g.next[place])

\* alloc_pages(1 << order): the first run of free pages.
Runs(g, n) == {p \in g.pages : \A i \in 0..(n - 1) : p + i \in g.pages}
Without(g, p, n) == [g EXCEPT !.pages = @ \ (p..(p + n - 1))]

\* The first block on the way that is large enough, cut down to size or unlinked.
Unlinked(g, cur, prev, units) ==
  LET rest == cur + units
      exact == g.units[cur] = units
      list == IF exact THEN [g.next EXCEPT ![prev] = g.next[cur]]
              ELSE (rest :> g.next[cur]) @@ [g.next EXCEPT ![prev] = rest]
  IN  [g EXCEPT !.next = Restrict(list, DOMAIN list \ {cur}),
                !.units = IF exact THEN @ ELSE [@ EXCEPT ![cur] = units, ![rest] = g.units[cur] - units],
                !.slobfree = prev]

Search(g, units) ==
  LET first(fit) == IF fit = <<>> THEN [g |-> g, at |-> -1]
                    ELSE [g |-> Unlinked(g, fit[1], Before(g, fit[1]), units), at |-> fit[1]]
  IN  first(SelectSeq(Walk(g), LAMBDA c : g.units[c] >= units))

\* slob_alloc with align = 0.  Without room a page is added to the list; that alloc_pages
\* has none for it ends in swap_out, and the kernel with it: at = -2.
slob_alloc(g, size) ==
  LET units == SLOB_UNITS(size)
      grown(page) ==
        slob_free([Without(g, page, 1) EXCEPT !.units[page * PAGE_UNITS] = PAGE_UNITS], page * PAGE_UNITS)
      or_grown(found) == IF found.at # -1 THEN found
                         ELSE IF g.pages = {} THEN [g |-> g, at |-> -2]
                         ELSE Search(grown(Min(g.pages)), units)
  IN  IF size + SLOB_UNIT >= PAGE_SIZE THEN [g |-> g, at |-> -3] ELSE or_grown(Search(g, units))

-----------------------------------------------------------------------------
\* size > PAGE_SIZE is halved until it is not.
find_order(size) == Min({o \in 0..8 : size \div 2^o <= PAGE_SIZE})

Given(g, addr, size) ==
  h' = g /\ blocks' = blocks \cup {[addr |-> addr, size |-> size]} /\ UNCHANGED failed

Panic(why, size) == failed' = <<why, size>> /\ UNCHANGED <<h, blocks>>

Why(at) == IF at = -3 THEN "assert" ELSE "memory"

\* kmalloc: a header in front of small blocks, whole pages for the others.
kmalloc_small(size) ==
  /\ size < PAGE_SIZE - SLOB_UNIT
  /\ \E r \in {slob_alloc(h, size + SLOB_UNIT)} :
         IF r.at < 0 THEN Panic(Why(r.at), size) ELSE Given(r.g, r.at + 1, size)

kmalloc_big(size) ==
  /\ size >= PAGE_SIZE - SLOB_UNIT
  /\ \E r \in {slob_alloc(h, BIGBLOCK)}, order \in {find_order(size)} :
       LET runs == Runs(r.g, 2^order)
           big(p) == [bb |-> r.at, order |-> order, pages |-> p * PAGE_UNITS]
           given(p) == Given([Without(r.g, p, 2^order) EXCEPT !.bigblocks = <<big(p)>> \o @], p * PAGE_UNITS, size)
       IN  IF r.at < 0 \/ (runs = {} /\ order = 0) THEN Panic(IF r.at < 0 THEN Why(r.at) ELSE "memory", size)
           ELSE IF runs = {} THEN h' = slob_free(r.g, r.at) /\ UNCHANGED <<blocks, failed>>
           ELSE given(Min(runs))

\* kfree: whole pages are known by their address being on the list of big blocks.
kfree(b) ==
  LET big == {i \in DOMAIN h.bigblocks : h.bigblocks[i].pages = b.addr}
      first(bb) == bb.pages \div PAGE_UNITS
      without(i, bb) ==
        slob_free([h EXCEPT !.bigblocks = RemoveAt(@, i), !.pages = @ \cup (first(bb)..(first(bb) + 2^bb.order - 1)),
                            !.units[bb.bb] = SLOB_UNITS(BIGBLOCK)], bb.bb)
  IN  /\ h' = IF b.addr % PAGE_UNITS = 0 /\ big # {} THEN without(Min(big), h.bigblocks[Min(big)])
              ELSE slob_free(h, b.addr - 1)
      /\ blocks' = blocks \ {b} /\ UNCHANGED failed

Init ==
  /\ h = [next |-> (arena :> arena), units |-> [a \in Addresses |-> IF a = arena THEN 1 ELSE 0],
          slobfree |-> arena, bigblocks |-> <<>>, pages |-> 1..HEAPPAGES]
  /\ blocks = {} /\ failed = <<>>

\* panic does not return.
Stopped == failed # <<>> /\ UNCHANGED heapvars

Next ==
  \/ /\ failed = <<>>
     /\ \/ \E size \in Sizes : Cardinality(blocks) < MAXBLOCKS /\ (kmalloc_small(size) \/ kmalloc_big(size))
        \/ \E b \in blocks : kfree(b)
  \/ Stopped

Spec == Init /\ [][Next]_heapvars

-----------------------------------------------------------------------------
Big(b) == {bb \in ToSet(h.bigblocks) : bb.pages = b.addr}
Extent(b) ==
  IF Big(b) = {} THEN (b.addr - 1)..(b.addr - 2 + h.units[b.addr - 1])
  ELSE b.addr..(b.addr + PAGE_UNITS * 2^(CHOOSE bb \in Big(b) : TRUE).order - 1)
Owned ==
  {<<"used", b.size, Extent(b)>> : b \in blocks}
    \cup {<<"bigblock", 0, bb.bb..(bb.bb + SLOB_UNITS(BIGBLOCK) - 1)>> : bb \in ToSet(h.bigblocks)}
    \cup {<<"free", 0, a..(a + h.units[a] - 1)>> : a \in DOMAIN h.next}
    \cup {<<"page", 0, (p * PAGE_UNITS)..((p + 1) * PAGE_UNITS - 1)>> : p \in h.pages}

\* The heap is a partition: blocks in use, free blocks, headers of big blocks and free
\* pages never overlap, and none of the memory is lost, in whatever order blocks of
\* whatever size are taken and given back; adjacent free blocks are joined.
HeapIsPartitioned ==
  /\ UNION {x[3] : x \in Owned} = Addresses \ {(HEAPPAGES + 1) * PAGE_UNITS}
  /\ MapThenSumSet(LAMBDA x : Cardinality(x[3]), Owned) = Cardinality(Addresses) - 1
  /\ \A a \in DOMAIN h.next : a + h.units[a] \notin DOMAIN h.next

\* A block has room for what was asked for, except that find_order forgets what it
\* shifts out: sizes a little above a power of two of pages come out too small.  The
\* assertion of slob_alloc fails only for the sizes that kmalloc still takes for small
\* although they leave no room for the header.
BlocksAreLargeEnough ==
  /\ \A b \in blocks :
       IF Big(b) = {} THEN (h.units[b.addr - 1] - 1) * SLOB_UNIT >= b.size
       ELSE LET o == (CHOOSE bb \in Big(b) : TRUE).order
            IN  b.size < (PAGE_SIZE + 1) * 2^o
  /\ failed # <<>> /\ failed[1] = "assert" => failed[2] \in (PAGE_SIZE - 2 * SLOB_UNIT)..(PAGE_SIZE - SLOB_UNIT - 1)
=============================================================================
