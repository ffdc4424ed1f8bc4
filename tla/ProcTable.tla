----------------------------- MODULE ProcTable -----------------------------
(* The process table of kern/process/proc.c: pid allocation (module GetPid)    *)
(* and the family links (module ProcLinks) together, as do_fork, do_exit and   *)
(* do_wait change them, with the hash table that leads from a pid to its       *)
(* process.  do_fork takes a pid and links the child with interrupts disabled. *)
EXTENDS GetPid, FiniteSets

CONSTANTS Procs, idleproc, initproc,   \* the proc_structs, with the two that always exist
          NULL                         \* the null pointer

ASSUME NamesAssumption ==
  /\ idleproc \in Procs /\ initproc \in Procs /\ idleproc # initproc
  /\ NULL \notin Procs /\ IsFiniteSet(Procs)

VARIABLES linked, zombie, parent, cptr, optr, yptr, exits,   \* as in ProcLinks
          pid,     \* the pid of each proc_struct, 0 if it is free
          forks    \* <<parent, child>> while get_pid scans for them

links == <<linked, zombie, parent, cptr, optr, yptr, exits>>
table == <<proc_list, last_pid, next_safe, scanning, le>>
allVars == <<links, table, pid, forks>>

L == INSTANCE ProcLinks

\* proc_init has forked initproc, which got pid 1.
ProcInit ==
  /\ L!Init
  /\ proc_list = <<1>>
  /\ last_pid = 1 /\ next_safe = MAX_PID
  /\ scanning = FALSE /\ le = 0
  /\ pid = [p \in Procs |-> IF p = initproc THEN 1 ELSE 0]
  /\ forks = <<>>

\* The processes in the hash table under pid n.
find_proc(n) == {p \in linked : pid[p] = n}

\* Faulty order: the child is hashed before it has its pid.
Hash_BeforePid(p, c) ==
  /\ L!set_links(p, c)
  /\ pid' = [pid EXCEPT ![c] = last_pid]
  /\ forks' = <<>>

\* do_fork by p for child c: hash_proc and set_links with the new pid.
Hash(p, c) ==
  /\ L!set_links(p, c)
  /\ pid' = [pid EXCEPT ![c] = last_pid']
  /\ forks' = <<>>

fork_fast(p, c) == get_pid_fast /\ Hash(p, c)

fork_scan(p, c) ==
  /\ get_pid_scan
  /\ L!Runs(p) /\ c \notin linked \cup {idleproc}
  /\ forks' = <<p, c>>
  /\ UNCHANGED <<links, pid>>

fork_loop == get_pid_loop /\ UNCHANGED <<links, pid, forks>>

fork_done == get_pid_done /\ Hash(forks[1], forks[2])

\* do_exit becomes a zombie and hands its children over.
exit ==
  /\ ~scanning
  /\ (\E p \in Procs : L!do_exit(p)) \/ L!Adopt \/ L!AdoptDone
  /\ UNCHANGED <<table, pid, forks>>

\* do_wait: unhash_proc and remove_links of c, which is then freed.
Unhash(c) ==
  /\ remove_links /\ pid[c] \notin InUse'
  /\ pid' = [pid EXCEPT ![c] = 0]
  /\ UNCHANGED forks

wait_pid(p, n) == \E c \in find_proc(n) : L!do_wait_pid(p, c) /\ Unhash(c)

wait_any(p) ==
  /\ L!do_wait_any(p)
  /\ \E c \in linked : linked' = linked \ {c} /\ Unhash(c)

TableNext ==
  \/ \E p, c \in Procs : fork_fast(p, c) \/ fork_scan(p, c)
  \/ fork_loop \/ fork_done
  \/ exit
  \/ \E p \in Procs : wait_any(p) \/ \E n \in 1..MAX_PID-1 : wait_pid(p, n)

TableSpec == ProcInit /\ [][TableNext]_allVars

-----------------------------------------------------------------------------
\* The hash table, proc_list and the family tree hold the same processes: the pid
\* of a process leads to it and to no other, and a pid that is in the list leads
\* to some process, whatever has been reaped and forked again in between; the pointers
\* of set_links and remove_links (proc.c) are sound.
TablesAgree ==
  /\ L!LinksAreSound
  /\ \A p \in linked : find_proc(pid[p]) = {p}
  /\ InUse = {pid[p] : p \in linked}
  /\ nr_process = Cardinality(linked) + 1

\* The lists of children that the pointers make up.
children == [p \in Procs |-> IF p \in linked \cup {idleproc} THEN L!Children(p) ELSE <<>>]

Tree == INSTANCE ProcTree

\* The pointers cptr, optr, yptr and parent of set_links and remove_links implement lists
\* of children: nobody gets lost or linked twice when siblings are forked, orphaned and
\* reaped in any order.
ImplementsTree == Tree!Spec
=============================================================================
