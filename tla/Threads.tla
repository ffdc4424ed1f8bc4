------------------------------- MODULE Threads -------------------------------
(* The smaller kernel of lab4-spoc-discuss: kernel threads that give up the    *)
(* processor by calling schedule() themselves (nothing preempts them), exit,   *)
(* and are reaped by the idle thread, which runs kern_init.  An action is what *)
(* a thread does between two switches.                                         *)
EXTENDS Integers, Sequences, SequencesExt, FiniteSetsExt

CONSTANTS MAX_THREADS,     \* the code creates three ...
          MAX_YIELDS       \* ... and each yields twice

ASSUME ThreadsAssumption == {MAX_THREADS, MAX_YIELDS} \subseteq Nat

VARIABLES
  th_list,         \* proc_list, without the idle thread
  state,           \* of every thread; 0 is idleproc
  current,
  wait_state,      \* WT_CHILD of idleproc
  runs,
  th_nr_process,   \* nr_process
  stacks,
  todo,            \* calls of schedule() before a thread exits
  tpc,             \* where kern_init is: "init", "schedule", "do_wait" or "end"
  tpanic

tvars == <<th_list, state, current, wait_state, runs, th_nr_process, stacks, todo, tpc, tpanic>>

idle == 0
Tids == 1..MAX_THREADS
PROC_RUNNABLE == "runnable"
PROC_SLEEPING == "sleeping"
PROC_ZOMBIE == "zombie"
PROC_UNINIT == "uninit"

-----------------------------------------------------------------------------
\* kernel_thread, do_fork, setup_kstack and wakeup_proc: the new thread comes last.
do_fork(t) ==
  /\ th_list' = Append(th_list, t) /\ state' = [state EXCEPT ![t] = PROC_RUNNABLE]
  /\ th_nr_process' = th_nr_process + 1 /\ stacks' = stacks \cup {t}

\* proc_init: one thread after the other.
proc_init ==
  /\ tpc = "init" /\ ~tpanic
  /\ \/ /\ Len(th_list) < MAX_THREADS
        /\ do_fork(Len(th_list) + 1)
        /\ \E y \in 0..MAX_YIELDS : todo' = [todo EXCEPT ![Len(th_list) + 1] = y]
        /\ UNCHANGED tpc
     \/ /\ th_list # <<>> /\ tpc' = "schedule"
        /\ UNCHANGED <<th_list, state, th_nr_process, stacks, todo>>
  /\ UNCHANGED <<current, wait_state, runs, tpanic>>

\* Faulty: the search always begins at the head of the list.
Order_FromHead(t) == th_list

\* The order in which schedule() looks at the list: from behind the current thread on,
\* once around.
Order(t) ==
  IF t = idle THEN th_list
  ELSE LET k == CHOOSE i \in DOMAIN th_list : th_list[i] = t
       IN  SubSeq(th_list, k + 1, Len(th_list)) \o SubSeq(th_list, 1, k)

\* schedule() with the states st: the first runnable thread, or idleproc whatever its state.
schedule(st) ==
  LET order == Order(current)
      able == {i \in DOMAIN order : st[order[i]] = PROC_RUNNABLE}
      next == IF able = {} THEN idle ELSE order[Min(able)]
  IN  current' = next /\ runs' = [runs EXCEPT ![next] = @ + 1]

\* wakeup_proc's assertion.
Awake(t) == state[t] \notin {PROC_ZOMBIE, PROC_RUNNABLE}

-----------------------------------------------------------------------------
\* init_main up to its next call of schedule().
init_main ==
  /\ current # idle /\ todo[current] > 0 /\ ~tpanic
  /\ todo' = [todo EXCEPT ![current] = @ - 1]
  /\ schedule(state)
  /\ UNCHANGED <<th_list, state, wait_state, th_nr_process, stacks, tpc, tpanic>>

\* do_exit at the end of init_main: idleproc, the parent, is woken up if it waits.
do_exit ==
  /\ current # idle /\ todo[current] = 0 /\ ~tpanic
  /\ IF wait_state /\ ~Awake(idle)
     THEN tpanic' = TRUE /\ UNCHANGED <<state, current, runs>>
     ELSE /\ state' = [state EXCEPT ![current] = PROC_ZOMBIE, ![idle] = IF wait_state THEN PROC_RUNNABLE ELSE @]
          /\ schedule(state') /\ UNCHANGED tpanic
  /\ UNCHANGED <<th_list, wait_state, th_nr_process, stacks, todo, tpc>>

\* kern_init lets the threads run.
kern_init ==
  /\ current = idle /\ tpc = "schedule" /\ ~tpanic
  /\ schedule(state) /\ tpc' = "do_wait"
  /\ UNCHANGED <<th_list, state, wait_state, th_nr_process, stacks, todo, tpanic>>

\* do_wait of idleproc, and schedule() after it: a dead thread is taken out of the list
\* and its stack is freed; with threads alive it sleeps; without any kern_init is over.
do_wait ==
  /\ current = idle /\ tpc = "do_wait" /\ ~tpanic
  /\ LET dead == {i \in DOMAIN th_list : state[th_list[i]] = PROC_ZOMBIE}
         first == th_list[Min(dead)]
     IN  IF dead # {}
         THEN /\ th_list' = RemoveAt(th_list, Min(dead))
              /\ th_nr_process' = th_nr_process - 1 /\ stacks' = stacks \ {first}
              /\ state' = [state EXCEPT ![first] = PROC_UNINIT]
              /\ tpc' = "schedule" /\ UNCHANGED <<current, runs, wait_state>>
         ELSE IF th_list # <<>>
         THEN /\ state' = [state EXCEPT ![idle] = PROC_SLEEPING] /\ wait_state' = TRUE
              /\ schedule(state') /\ UNCHANGED <<th_list, th_nr_process, stacks, tpc>>
         ELSE tpc' = "end" /\ UNCHANGED <<th_list, state, current, wait_state, runs, th_nr_process, stacks>>
  /\ UNCHANGED <<todo, tpanic>>

ThreadInit ==
  /\ th_list = <<>> /\ state = [t \in 0..MAX_THREADS |-> IF t = idle THEN PROC_RUNNABLE ELSE PROC_UNINIT]
  /\ current = idle /\ wait_state = FALSE /\ runs = [t \in 0..MAX_THREADS |-> 0]
  /\ th_nr_process = 1 /\ stacks = {} /\ todo = [t \in Tids |-> 0] /\ tpc = "init" /\ tpanic = FALSE

ThreadNext == proc_init \/ init_main \/ do_exit \/ kern_init \/ do_wait

ThreadSpec == ThreadInit /\ [][ThreadNext]_tvars

-----------------------------------------------------------------------------
\* The threads take turns: of two that are still running none is ahead by more than one
\* turn, the earlier one in the list never behind; idleproc runs only when no thread can
\* (so that all threads exit before anyone waits for them, and wait_state, which nobody
\* resets, never wakes idleproc up twice).
TurnsAreFair ==
  /\ ~tpanic
  /\ \A i, j \in DOMAIN th_list :
       LET t == th_list[i]
           u == th_list[j]
       IN  i < j /\ state[t] = PROC_RUNNABLE /\ state[u] = PROC_RUNNABLE => runs[t] - runs[u] \in {0, 1}
  /\ current = idle /\ tpc # "init" => runs[idle] = 0 \/ \A t \in Tids : state[t] # PROC_RUNNABLE

\* Every thread has been run to its end and reaped, its stack is free, kern_init is over.
Finished == tpc = "end" /\ th_list = <<>> /\ stacks = {} /\ th_nr_process = 1
=============================================================================
