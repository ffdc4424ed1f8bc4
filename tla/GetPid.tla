------------------------------- MODULE GetPid -------------------------------
(* Allocation of process ids: get_pid and find_proc of kern/process/proc.c.    *)
(* get_pid remembers that the ids strictly between last_pid and next_safe are  *)
(* free, so that most calls need not look at the processes at all; only when   *)
(* the interval is used up does it scan proc_list.                             *)
(*                                                                             *)
(* get_pid runs with interrupts disabled in do_fork, so proc_list does not     *)
(* change during a scan.  One step of the scan is one action.                  *)
EXTENDS Integers, Sequences

CONSTANTS MAX_PROCESS, MAX_PID

\* static_assert(MAX_PID > MAX_PROCESS).
ASSUME PidAssumption ==
  /\ MAX_PROCESS \in Nat /\ MAX_PID \in Nat
  /\ MAX_PID > MAX_PROCESS /\ MAX_PID > 1

VARIABLES proc_list,   \* pids of the processes in the list, newest first
          last_pid, next_safe,
          scanning,    \* is get_pid in its loop?
          le           \* number of list entries the loop has passed

vars == <<proc_list, last_pid, next_safe, scanning, le>>

\* idleproc, which has pid 0, is counted and is not in the list.
nr_process == Len(proc_list) + 1

InUse == {proc_list[k] : k \in 1..Len(proc_list)}

Init ==
  /\ proc_list = <<>>
  /\ last_pid = MAX_PID /\ next_safe = MAX_PID
  /\ scanning = FALSE
  /\ le = 0

\* do_fork: hash_proc and set_links with the pid that get_pid returns.
Link(pid) == proc_list' = <<pid>> \o proc_list

\* get_pid with an id left in the safe interval.
get_pid_fast ==
  /\ ~scanning
  /\ nr_process < MAX_PROCESS
  /\ last_pid + 1 < MAX_PID /\ last_pid + 1 < next_safe
  /\ last_pid' = last_pid + 1
  /\ Link(last_pid + 1)
  /\ UNCHANGED <<next_safe, scanning, le>>

\* get_pid without: start over (at 1 after the last id) and scan the list.
get_pid_scan ==
  /\ ~scanning
  /\ nr_process < MAX_PROCESS
  /\ last_pid + 1 >= MAX_PID \/ last_pid + 1 >= next_safe
  /\ last_pid' = IF last_pid + 1 >= MAX_PID THEN 1 ELSE last_pid + 1
  /\ next_safe' = MAX_PID
  /\ scanning' = TRUE
  /\ le' = 0
  /\ UNCHANGED proc_list

\* Faulty step: on a collision the scan always goes on where it is.
Collision_NeverRepeats(pid) ==
  /\ last_pid' = IF last_pid + 1 >= MAX_PID THEN 1 ELSE last_pid + 1
  /\ le' = le + 1
  /\ UNCHANGED next_safe

\* Faulty step: the search always starts over at 1.
Collision_StartsOver(pid) ==
  /\ pid = last_pid
  /\ IF last_pid + 1 >= next_safe
     THEN last_pid' = 1 /\ next_safe' = MAX_PID /\ le' = 0
     ELSE last_pid' = last_pid + 1 /\ le' = le + 1 /\ UNCHANGED next_safe

\* A process has the candidate id: try the next id, from the start of the list
\* if it may have been passed already.
Collision(pid) ==
  /\ pid = last_pid
  /\ IF last_pid + 1 >= next_safe
     THEN /\ last_pid' = IF last_pid + 1 >= MAX_PID THEN 1 ELSE last_pid + 1
          /\ next_safe' = MAX_PID
          /\ le' = 0
     ELSE /\ last_pid' = last_pid + 1
          /\ le' = le + 1
          /\ UNCHANGED next_safe

\* Faulty step: the interval is not cut at the ids in use.
Passed_KeepsInterval(pid) ==
  /\ pid # last_pid
  /\ le' = le + 1
  /\ UNCHANGED <<last_pid, next_safe>>

\* A process has another id, which may bound the safe interval.
Passed(pid) ==
  /\ pid # last_pid
  /\ next_safe' = IF pid > last_pid /\ next_safe > pid THEN pid ELSE next_safe
  /\ le' = le + 1
  /\ UNCHANGED last_pid

\* One iteration of the while loop of get_pid.
get_pid_loop ==
  /\ scanning /\ le < Len(proc_list)
  /\ LET pid == proc_list[le + 1] IN Collision(pid) \/ Passed(pid)
  /\ UNCHANGED <<proc_list, scanning>>

\* The end of the loop: last_pid is returned.
get_pid_done ==
  /\ scanning /\ le = Len(proc_list)
  /\ Link(last_pid)
  /\ scanning' = FALSE
  /\ le' = 0
  /\ UNCHANGED <<last_pid, next_safe>>

\* do_wait: unhash_proc and remove_links of a zombie.
remove_links ==
  /\ ~scanning
  /\ \E k \in 1..Len(proc_list) :
       proc_list' = SubSeq(proc_list, 1, k - 1) \o SubSeq(proc_list, k + 1, Len(proc_list))
  /\ UNCHANGED <<last_pid, next_safe, scanning, le>>

get_pid == get_pid_fast \/ get_pid_scan \/ get_pid_loop \/ get_pid_done

Next == get_pid \/ remove_links

Spec == Init /\ [][Next]_vars

\* get_pid runs to its end: nothing interrupts it.
FairSpec == Spec /\ WF_vars(get_pid_loop \/ get_pid_done)

-----------------------------------------------------------------------------
TypeOK ==
  /\ proc_list \in Seq(1..MAX_PID-1)
  /\ last_pid \in 1..MAX_PID
  /\ next_safe \in 1..MAX_PID
  /\ scanning \in BOOLEAN
  /\ le \in 0..Len(proc_list)

\* No two processes have the same pid, however often the ids have wrapped around
\* and whichever processes have been reaped in between: find_proc, and with it
\* do_kill and do_wait, mean the process the caller means.
PidsAreUnique ==
  \A j, k \in 1..Len(proc_list) : proc_list[j] = proc_list[k] => j = k

\* Between calls no process has an id in the interval from which get_pid hands
\* out ids without looking.
IntervalIsFree ==
  ~scanning => \A pid \in InUse : ~(last_pid < pid /\ pid < next_safe)

\* The loop ends, goto repeat or not: as there are more ids than processes a
\* free one is found.
GetPidReturns == scanning ~> ~scanning
=============================================================================
