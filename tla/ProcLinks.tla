------------------------------ MODULE ProcLinks ------------------------------
(* The family links of processes in kern/process/proc.c: parent, cptr (the     *)
(* youngest child), optr and yptr (the next older and the next younger         *)
(* sibling).  do_fork, do_exit and do_wait change them with interrupts         *)
(* disabled; the loop of do_exit that hands the children to initproc is one    *)
(* action per iteration, with "exits" the process that is in it.               *)
EXTENDS Integers, FiniteSets, Sequences

CONSTANTS Procs, idleproc, initproc, NULL

VARIABLES linked,   \* processes in proc_list
          zombie,   \* those in state PROC_ZOMBIE
          parent, cptr, optr, yptr,
          exits     \* the process inside the loop of do_exit, or NULL

vars == <<linked, zombie, parent, cptr, optr, yptr, exits>>

Nobody == [p \in Procs |-> NULL]

\* proc_init has forked initproc.
Init ==
  /\ linked = {initproc}
  /\ zombie = {}
  /\ parent = [Nobody EXCEPT ![initproc] = idleproc]
  /\ cptr = [Nobody EXCEPT ![idleproc] = initproc]
  /\ optr = Nobody /\ yptr = Nobody
  /\ exits = NULL

Runs(p) == p \in linked \ zombie /\ exits = NULL

\* "if ((proc->optr = q->cptr) != NULL) proc->optr->yptr = proc", where c has
\* just been given no younger sibling.
Elder(p, c) ==
  /\ optr' = [optr EXCEPT ![c] = cptr[p]]
  /\ yptr' = IF cptr[p] = NULL
             THEN [yptr EXCEPT ![c] = NULL]
             ELSE [yptr EXCEPT ![c] = NULL, ![cptr[p]] = c]

\* do_fork: alloc_proc and set_links.
set_links(p, c) ==
  /\ Runs(p)
  /\ c \notin linked \cup {idleproc}
  /\ linked' = linked \cup {c}
  /\ parent' = [parent EXCEPT ![c] = p]
  /\ Elder(p, c)
  /\ cptr' = [cptr EXCEPT ![c] = NULL, ![p] = c]
  /\ UNCHANGED <<zombie, exits>>

\* do_exit becomes a zombie and enters the loop.
do_exit(p) ==
  /\ Runs(p) /\ p # initproc
  /\ zombie' = zombie \cup {p}
  /\ exits' = p
  /\ UNCHANGED <<linked, parent, cptr, optr, yptr>>

\* One iteration: the youngest child goes to initproc.
Adopt ==
  LET p == exits c == cptr[exits] IN
  /\ exits # NULL /\ cptr[exits] # NULL
  /\ cptr' = [cptr EXCEPT ![p] = optr[c], ![initproc] = c]
  /\ Elder(initproc, c)
  /\ parent' = [parent EXCEPT ![c] = initproc]
  /\ UNCHANGED <<linked, zombie, exits>>

AdoptDone ==
  /\ exits # NULL /\ cptr[exits] = NULL
  /\ exits' = NULL
  /\ UNCHANGED <<linked, zombie, parent, cptr, optr, yptr>>

\* kfree(c): what was in the freed proc_struct is gone.
Freed(f, c) == [f EXCEPT ![c] = NULL]

\* Faulty remove_links: the parent's pointer is always moved on.
remove_links_MovesParent(c) ==
  /\ linked' = linked \ {c}
  /\ zombie' = zombie \ {c}
  /\ yptr' = Freed(IF optr[c] = NULL THEN yptr ELSE [yptr EXCEPT ![optr[c]] = yptr[c]], c)
  /\ optr' = Freed(IF yptr[c] = NULL THEN optr ELSE [optr EXCEPT ![yptr[c]] = optr[c]], c)
  /\ cptr' = [cptr EXCEPT ![parent[c]] = optr[c]]
  /\ parent' = Freed(parent, c)
  /\ UNCHANGED exits

\* do_wait unlinks zombie c and frees it.
remove_links(c) ==
  /\ linked' = linked \ {c}
  /\ zombie' = zombie \ {c}
  /\ yptr' = Freed(IF optr[c] = NULL THEN yptr ELSE [yptr EXCEPT ![optr[c]] = yptr[c]], c)
  /\ optr' = Freed(IF yptr[c] = NULL THEN optr ELSE [optr EXCEPT ![yptr[c]] = optr[c]], c)
  /\ cptr' = IF yptr[c] = NULL THEN [cptr EXCEPT ![parent[c]] = optr[c]] ELSE cptr
  /\ parent' = Freed(parent, c)
  /\ UNCHANGED exits

\* s is the list that starts at q and goes on along the pointers older.
Chain(s, q, older) ==
  /\ q = IF Len(s) = 0 THEN NULL ELSE s[1]
  /\ \A k \in 1..Len(s) : older[s[k]] = IF k < Len(s) THEN s[k + 1] ELSE NULL

\* The children of p, as the loops of do_wait and do_exit walk over them.
Children(p) ==
  LET n == CHOOSE n \in 0..Cardinality(linked) : \E s \in [1..n -> linked] : Chain(s, cptr[p], optr)
  IN  CHOOSE s \in [1..n -> linked] : Chain(s, cptr[p], optr)

\* do_wait for a given child.
do_wait_pid(p, c) ==
  /\ Runs(p)
  /\ c \in zombie /\ parent[c] = p
  /\ remove_links(c)

\* do_wait for any child: the first zombie of the list.
do_wait_any(p) ==
  /\ Runs(p)
  /\ LET kids == Children(p) IN
     \E k \in 1..Len(kids) :
       /\ kids[k] \in zombie
       /\ \A j \in 1..k-1 : kids[j] \notin zombie
       /\ remove_links(kids[k])

Next ==
  \/ \E p, c \in Procs : set_links(p, c) \/ do_wait_pid(p, c)
  \/ \E p \in Procs : do_exit(p) \/ do_wait_any(p)
  \/ Adopt \/ AdoptDone

Spec == Init /\ [][Next]_vars

-----------------------------------------------------------------------------
Pointer == [Procs -> Procs \cup {NULL}]

TypeOK ==
  /\ linked \subseteq Procs /\ zombie \subseteq linked
  /\ parent \in Pointer /\ cptr \in Pointer /\ optr \in Pointer /\ yptr \in Pointer
  /\ exits \in Procs \cup {NULL}

\* The sibling lists are doubly linked and hang off the right parent: the older
\* sibling of a process has the same parent and points back, a process without a
\* younger sibling is the one its parent points at, and no link leads to a
\* process that has been freed.  The list that do_exit is taking apart has no
\* back pointer at its head.
LinksAreSound ==
  /\ \A p \in linked \cup {idleproc} :
       cptr[p] # NULL => cptr[p] \in linked /\ parent[cptr[p]] = p
  /\ \A c \in linked :
       /\ optr[c] # NULL => optr[c] \in linked /\ parent[optr[c]] = parent[c]
                            /\ yptr[optr[c]] = c
       /\ parent[c] # exits =>
            IF yptr[c] = NULL
            THEN cptr[parent[c]] = c
            ELSE yptr[c] \in linked /\ optr[yptr[c]] = c
=============================================================================
