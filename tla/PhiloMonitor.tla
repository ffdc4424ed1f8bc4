---------------------------- MODULE PhiloMonitor ----------------------------
(* The monitor of kern/sync/monitor.c (Hoare style: cond_signal hands the      *)
(* monitor to the thread it wakes and waits in "next" to get it back), and the *)
(* dining philosophers of kern/sync/check_sync.c that use it.                  *)
(*                                                                             *)
(* Table, CPU and preemption are as in module PhiloSema, with which it shares  *)
(* no variable.  What has a counterpart there is called by its name with       *)
(* _condvar, as check_sync.c does it.                                          *)
EXTENDS PhiloSema

VARIABLES state_condvar,
          mt_mutex,     \* entry to the monitor
          next,         \* signallers that gave the monitor away wait here
          next_count,   \* their number
          cv_count,     \* cv[i].count, threads that wait for condition i
          cv_sem,       \* cv[i].sem
          mt_pc, mt_iter, mt_current,
          site          \* which call of phi_test_condvar a thread is in

monitor == <<mt_mutex, next, next_count, cv_count, cv_sem>>
monitorvars == <<state_condvar, monitor, mt_pc, mt_iter, mt_current, site>>

Sites == {"self", "left", "right"}

\* The philosopher a call site of phi_test_condvar is about.
Target(i) == IF site[i] = "self" THEN i
             ELSE IF site[i] = "left" THEN LEFT(i) ELSE RIGHT(i)

\* Sleeping labels, each with the label at which the thread goes on.
Resume_condvar == [thinking  |-> "take",
                   take_wait |-> "hungry",
                   next_wait |-> "signalled",
                   cond_wait |-> "woken",
                   eating    |-> "put",
                   put_wait  |-> "sated"]

Asleep_condvar == DOMAIN Resume_condvar

Labels_condvar ==
  Asleep_condvar \cup {"think", "take", "hungry", "test", "signal", "up_cv", "down_next",
                       "signalled", "while", "wait", "down_cv", "woken", "leave",
                       "eat", "put", "sated", "quit"}

-----------------------------------------------------------------------------
\* check_sync has initialised the monitor and created the threads.
MonitorInit ==
  /\ state_condvar = [i \in Phil |-> "THINKING"]
  /\ mt_mutex = sem_init(1)
  /\ next = sem_init(0)
  /\ next_count = 0
  /\ cv_count = [i \in Phil |-> 0]
  /\ cv_sem = [i \in Phil |-> sem_init(0)]
  /\ mt_pc = [i \in Phil |-> "think"]
  /\ mt_iter = [i \in Phil |-> 0]
  /\ mt_current = Idle
  /\ site = [i \in Phil |-> "self"]

At_condvar(i, label) == mt_current = i /\ mt_pc[i] = label

Goto_condvar(i, label) == mt_pc' = [mt_pc EXCEPT ![i] = label]

schedule_condvar ==
  LET runnable == {j \in Phil : mt_pc'[j] \notin Asleep_condvar \cup {"quit"}}
  IN  mt_current' \in IF runnable = {} THEN {Idle} ELSE runnable

\* Thread i after down(sem): asleep at "wait", or on to label "to".
AfterDown(i, sem, wait, to) ==
  IF Blocks(sem)
  THEN Goto_condvar(i, wait) /\ schedule_condvar
  ELSE Goto_condvar(i, to) /\ UNCHANGED mt_current

\* Thread i after up(sem), and the thread it woke.
AfterUp_condvar(i, sem, to) ==
  /\ mt_pc' = [j \in Phil |-> IF j = i THEN to
                          ELSE IF j \in Woken(sem) THEN Resume_condvar[mt_pc[j]] ELSE mt_pc[j]]
  /\ UNCHANGED mt_current

\* Entering a monitor procedure.
Enter(i) ==
  /\ \/ At_condvar(i, "take") /\ AfterDown(i, mt_mutex, "take_wait", "hungry")
     \/ At_condvar(i, "put") /\ AfterDown(i, mt_mutex, "put_wait", "sated")
  /\ mt_mutex' = Down(mt_mutex, i)
  /\ UNCHANGED <<state_condvar, next, next_count, cv_count, cv_sem, mt_iter, site>>

\* Faulty release: always opens the monitor's entry.
Release_OnlyMutex(i, to) ==
  /\ mt_mutex' = Up(mt_mutex) /\ AfterUp_condvar(i, mt_mutex, to)
  /\ UNCHANGED next

\* Giving the monitor up: to a signaller that waits to come back, else to the
\* next thread at the entry.
Release(i, to) ==
  IF next_count > 0
  THEN next' = Up(next) /\ AfterUp_condvar(i, next, to) /\ UNCHANGED mt_mutex
  ELSE mt_mutex' = Up(mt_mutex) /\ AfterUp_condvar(i, mt_mutex, to) /\ UNCHANGED next

\* Leaving a monitor procedure.
Leave(i) ==
  /\ At_condvar(i, "leave")
  /\ Release(i, IF site[i] = "self" THEN "eat" ELSE "think")
  /\ UNCHANGED <<state_condvar, next_count, cv_count, cv_sem, mt_iter, site>>

SetState_condvar(i, from, value, calls) ==
  /\ At_condvar(i, from)
  /\ state_condvar' = [state_condvar EXCEPT ![i] = value]
  /\ site' = [site EXCEPT ![i] = calls]
  /\ Goto_condvar(i, "test")
  /\ UNCHANGED <<monitor, mt_iter, mt_current>>

MayEat_condvar(t) ==
  /\ state_condvar[t] = "HUNGRY"
  /\ state_condvar[LEFT(t)] # "EATING"
  /\ state_condvar[RIGHT(t)] # "EATING"

\* Where a thread is after phi_test_condvar returns: take goes to its while
\* loop, put calls the test a second time and then leaves.
AfterTest(i) ==
  /\ Goto_condvar(i, IF site[i] = "self" THEN "while"
                     ELSE IF site[i] = "left" THEN "test" ELSE "leave")
  /\ site' = [site EXCEPT ![i] = IF @ = "left" THEN "right" ELSE @]

\* Faulty test: signals a hungry neighbour whether it may eat or not.
phi_test_condvar_SignalsAlways(i) ==
  /\ At_condvar(i, "test")
  /\ state_condvar' = IF MayEat_condvar(Target(i))
                      THEN [state_condvar EXCEPT ![Target(i)] = "EATING"]
                      ELSE state_condvar
  /\ Goto_condvar(i, "signal")
  /\ UNCHANGED <<monitor, mt_iter, mt_current, site>>

\* phi_test_condvar: the condition, and the assignment of EATING if it holds.
phi_test_condvar(i) ==
  /\ At_condvar(i, "test")
  /\ IF MayEat_condvar(Target(i))
     THEN /\ state_condvar' = [state_condvar EXCEPT ![Target(i)] = "EATING"]
          /\ Goto_condvar(i, "signal")
          /\ UNCHANGED site
     ELSE AfterTest(i) /\ UNCHANGED state_condvar
  /\ UNCHANGED <<monitor, mt_iter, mt_current>>

\* cond_signal: nothing to do if nobody waits for the condition ...
SignalNobody(i) ==
  /\ At_condvar(i, "signal")
  /\ cv_count[Target(i)] = 0
  /\ AfterTest(i)
  /\ UNCHANGED <<state_condvar, monitor, mt_iter, mt_current>>

\* ... else announce that a signaller will want the monitor back,
SignalAnnounce(i) ==
  /\ At_condvar(i, "signal")
  /\ cv_count[Target(i)] > 0
  /\ next_count' = next_count + 1
  /\ Goto_condvar(i, "up_cv")
  /\ UNCHANGED <<state_condvar, mt_mutex, next, cv_count, cv_sem, mt_iter, mt_current, site>>

\* wake the waiter,
SignalUp(i) ==
  /\ At_condvar(i, "up_cv")
  /\ cv_sem' = [cv_sem EXCEPT ![Target(i)] = Up(@)]
  /\ AfterUp_condvar(i, cv_sem[Target(i)], "down_next")
  /\ UNCHANGED <<state_condvar, mt_mutex, next, next_count, cv_count, mt_iter, site>>

\* wait for the monitor to come back,
SignalDown(i) ==
  /\ At_condvar(i, "down_next")
  /\ next' = Down(next, i)
  /\ AfterDown(i, next, "next_wait", "signalled")
  /\ UNCHANGED <<state_condvar, mt_mutex, next_count, cv_count, cv_sem, mt_iter, site>>

\* and go on with it.
SignalReturn(i) ==
  /\ At_condvar(i, "signalled")
  /\ next_count' = next_count - 1
  /\ AfterTest(i)
  /\ UNCHANGED <<state_condvar, mt_mutex, next, cv_count, cv_sem, mt_iter, mt_current>>

cond_signal(i) ==
  SignalNobody(i) \/ SignalAnnounce(i) \/ SignalUp(i) \/ SignalDown(i) \/ SignalReturn(i)

\* The loop of phi_take_forks_condvar around cond_wait.
While(i) ==
  /\ At_condvar(i, "while")
  /\ Goto_condvar(i, IF state_condvar[i] = "EATING" THEN "leave" ELSE "wait")
  /\ UNCHANGED <<state_condvar, monitor, mt_iter, mt_current, site>>

\* cond_wait: count oneself as a waiter and give the monitor up,
WaitRelease(i) ==
  /\ At_condvar(i, "wait")
  /\ cv_count' = [cv_count EXCEPT ![i] = @ + 1]
  /\ Release(i, "down_cv")
  /\ UNCHANGED <<state_condvar, next_count, cv_sem, mt_iter, site>>

\* sleep until signalled, unless the signal came first,
WaitDown(i) ==
  /\ At_condvar(i, "down_cv")
  /\ cv_sem' = [cv_sem EXCEPT ![i] = Down(@, i)]
  /\ AfterDown(i, cv_sem[i], "cond_wait", "woken")
  /\ UNCHANGED <<state_condvar, mt_mutex, next, next_count, cv_count, mt_iter, site>>

\* and go back to the loop, inside the monitor.
WaitReturn(i) ==
  /\ At_condvar(i, "woken")
  /\ cv_count' = [cv_count EXCEPT ![i] = @ - 1]
  /\ Goto_condvar(i, "while")
  /\ UNCHANGED <<state_condvar, mt_mutex, next, next_count, cv_sem, mt_iter, mt_current, site>>

cond_wait(i) == WaitRelease(i) \/ WaitDown(i) \/ WaitReturn(i)

\* phi_take_forks_condvar starts with a test for oneself, phi_put_forks_condvar
\* with a test for the left neighbour.
SetHungry(i)   == SetState_condvar(i, "hungry", "HUNGRY", "self")
SetThinking(i) == SetState_condvar(i, "sated", "THINKING", "left")

Think_condvar(i) ==
  /\ At_condvar(i, "think")
  /\ IF mt_iter[i] < TIMES
     THEN mt_iter' = [mt_iter EXCEPT ![i] = @ + 1] /\ Goto_condvar(i, "thinking")
     ELSE Goto_condvar(i, "quit") /\ UNCHANGED mt_iter
  /\ schedule_condvar
  /\ UNCHANGED <<state_condvar, monitor, site>>

Eat_condvar(i) ==
  /\ At_condvar(i, "eat")
  /\ Goto_condvar(i, "eating") /\ schedule_condvar
  /\ UNCHANGED <<state_condvar, monitor, mt_iter, site>>

philosopher_using_condvar(i) ==
  \/ Think_condvar(i) \/ Eat_condvar(i)
  \/ Enter(i) \/ SetHungry(i) \/ SetThinking(i) \/ phi_test_condvar(i) \/ While(i) \/ Leave(i)
  \/ cond_signal(i) \/ cond_wait(i)

TimerWakes_condvar(i) ==
  /\ mt_pc[i] \in {"thinking", "eating"}
  /\ Goto_condvar(i, Resume_condvar[mt_pc[i]])
  /\ UNCHANGED <<state_condvar, monitor, mt_iter, mt_current, site>>

cpu_idle_condvar ==
  /\ mt_current = Idle
  /\ UNCHANGED mt_pc /\ schedule_condvar
  /\ UNCHANGED <<state_condvar, monitor, mt_iter, site>>

Preempt_condvar ==
  /\ mt_current # Idle
  /\ UNCHANGED mt_pc /\ schedule_condvar
  /\ UNCHANGED <<state_condvar, monitor, mt_iter, site>>

MonitorNext ==
  \/ \E i \in Phil : philosopher_using_condvar(i) \/ TimerWakes_condvar(i)
  \/ cpu_idle_condvar
  \/ Preempt_condvar

MonitorSpec == MonitorInit /\ [][MonitorNext]_monitorvars

\* A step in which the CPU goes to thread i.
Dispatch_condvar(i) ==
  /\ mt_current # i
  /\ cpu_idle_condvar \/ Preempt_condvar \/ (\E j \in Phil : philosopher_using_condvar(j))
  /\ mt_current' = i

-----------------------------------------------------------------------------
MonitorTypeOK ==
  /\ state_condvar \in [Phil -> {"THINKING", "HUNGRY", "EATING"}]
  /\ mt_mutex \in SemType(Phil) /\ next \in SemType(Phil)
  /\ next_count \in Nat
  /\ cv_count \in [Phil -> Nat]
  /\ cv_sem \in [Phil -> SemType(Phil)]
  /\ mt_pc \in [Phil -> Labels_condvar]
  /\ mt_iter \in [Phil -> 0..TIMES]
  /\ mt_current \in Phil \cup {Idle}
  /\ site \in [Phil -> Sites]

\* Threads that may read or write what the monitor protects.  A waiter that has
\* given the monitor up is outside until its signal is there, even if it has not
\* reached its down; a signaller is outside from its up(cv) until the monitor has
\* been given back to it, even if it has not reached its down.
Inside(i) ==
  \/ mt_pc[i] \in {"hungry", "sated", "test", "signal", "up_cv", "signalled", "while", "wait",
                "woken", "leave"}
  \/ mt_pc[i] = "down_cv" /\ cv_sem[i].value > 0
  \/ mt_pc[i] = "down_next" /\ next.value > 0

\* At most one thread is inside the monitor, whether it entered through mutex,
\* was woken by cond_signal or got the monitor back through next.
MonitorExclusion == \A i, j \in Phil : Inside(i) /\ Inside(j) => i = j

Dining_condvar(i) == mt_pc[i] \in {"eat", "eating", "put", "put_wait", "sated"}

\* Two neighbours never hold forks at the same time.
NeighboursNeverDineTogether_condvar ==
  \A i \in Phil : Dining_condvar(i) => ~Dining_condvar(RIGHT(i))

\* The condition a waiter waited for holds when it comes back from cond_wait, as
\* Hoare's semantics promises: the loop around cond_wait never repeats.
SignalledMeansEating == \A i \in Phil : mt_pc[i] = "woken" => state_condvar[i] = "EATING"

\* Hoare's monitor (monitor.c): at most one thread is inside, whether it entered through
\* mutex, was woken by cond_signal or got the monitor back through next; a waiter that comes
\* back from cond_wait finds its condition true, so that the loop around cond_wait never
\* repeats; and neighbours do not eat together.
MonitorIsSound == MonitorExclusion /\ SignalledMeansEating /\ NeighboursNeverDineTogether_condvar

\* Every philosopher has eaten TIMES times and has quit.
Finished_condvar == \A i \in Phil : mt_pc[i] = "quit" /\ mt_iter[i] = TIMES
=============================================================================
