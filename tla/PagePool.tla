------------------------------ MODULE PagePool ------------------------------
(* What the physical memory manager (kern/mm/pmm.c) promises: a page is free   *)
(* or part of a block somebody holds, a request for n pages gets the lowest n  *)
(* consecutive free ones, and fails only if there are none.                    *)
EXTENDS Integers, FiniteSetsExt

CONSTANTS Memory, Requests, NULL

VARIABLES free,   \* the set of free pages
          held,   \* the blocks <<base, n>> given out
          got     \* the answer to the last request: a page or NULL

vars == <<free, held, got>>

Span(b, n) == b..(b + n - 1)

Runs(n) == {b \in free : Span(b, n) \subseteq free}

Init == free = {} /\ held = {} /\ got = NULL

\* More of the memory becomes known while the kernel starts.
Add ==
  /\ held = {}
  /\ free \subseteq free' /\ free' \subseteq Memory
  /\ UNCHANGED <<held, got>>

Grant(n) ==
  /\ Runs(n) # {}
  /\ got' = Min(Runs(n))
  /\ free' = free \ Span(got', n)
  /\ held' = held \cup {<<got', n>>}

Refuse(n) ==
  /\ Runs(n) = {}
  /\ got' = NULL
  /\ UNCHANGED <<free, held>>

Return(h) ==
  /\ free' = free \cup Span(h[1], h[2])
  /\ held' = held \ {h}
  /\ UNCHANGED got

Next ==
  \/ Add
  \/ \E n \in Requests : Grant(n) \/ Refuse(n)
  \/ \E h \in held : Return(h)

Spec == Init /\ [][Next]_vars
=============================================================================
